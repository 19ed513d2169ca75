----------------------------- MODULE AudioFocus -----------------------------
(***************************************************************************)
(* The audio-focus arbiter of apps/flutter/lib/playback/                   *)
(* foreground_audio_player.dart: ForegroundAudioFocusOwner and its         *)
(* per-source ForegroundAudioFocusLease objects.                           *)
(*                                                                         *)
(* The Dart isolate is single-threaded: code between two awaits is one     *)
(* atomic action here.  The platform call setActive, the native pause or   *)
(* stop that releaseAfter waits for, and every timer are actions of their  *)
(* own and interleave freely with the callers.  A platform call may return *)
(* TRUE, return FALSE or throw, as late as it likes or never.              *)
(*                                                                         *)
(* held is what the operating system believes.  The code cannot read it;   *)
(* the properties compare it with what the arbiter believes.               *)
(***************************************************************************)
EXTENDS Naturals, Sequences, SequencesExt

CONSTANTS
    Lease,         \* focus leases, one for every loaded source
    NoLease,       \* the null lease
    Caller,        \* concurrent calls of activate()
    MaxOperations, \* bound: _FocusOperation objects that can be alive at a time
    MaxRevision    \* bound: revocations of one lease in a behaviour

ASSUME NoLeaseAssumption == NoLease \notin Lease
ASSUME FocusBoundsAssumption == MaxOperations \in Nat /\ MaxRevision \in Nat

VARIABLES
    owner,       \* _owner: the lease that holds focus, or NoLease
    operation,   \* _operation: the reserved operation object, or 0
    op,          \* the _FocusOperation objects
    uncertain,   \* _uncertain: a release went unacknowledged
    closed,      \* _closed of each lease
    revision,    \* _revision of each lease
    quiescence,  \* the chain of releaseAfter futures of each lease
    calls,       \* calls of activate() that have not been answered yet
    held,        \* whether the platform has granted focus to this program
    grantedAt    \* history: the owner's revision when its activation was started

arbiter == <<owner, operation, op, uncertain>>
fvars == <<owner, operation, op, uncertain, closed, revision, quiescence, calls, held,
           grantedAt>>

Operations == 1..MaxOperations

(***************************************************************************)
(* One run of _run: which platform call it is waiting for.                 *)
(***************************************************************************)
NoOp == [lease |-> NoLease, active |-> FALSE, cancelled |-> FALSE, expired |-> FALSE,
         step |-> "none", rev |-> 0]
NewOp(l, active) == [lease |-> l, active |-> active, cancelled |-> FALSE, expired |-> FALSE,
                     step |-> IF active THEN "activating" ELSE "releasing",
                     rev |-> revision[l]]

Running == {c \in Operations : op[c].step # "none"}

\* A call of activate(): where it is, for which lease, the revision it read at
\* its entry, and the chain entry or operation whose future it awaits.
NoCall == [at |-> "idle", lease |-> NoLease, rev |-> 0, awaits |-> 0]
Answers == {"granted", "denied", "failed"}
Answered(k) == calls[k].at \in Answers

\* One releaseAfter: its identity, whether its native operation or its focus
\* release is outstanding, whether that operation succeeded, the awaited operation.
Entry(id) == [id |-> id, at |-> "control", ok |-> TRUE, awaits |-> 0]

FocusInit ==
    /\ owner = NoLease
    /\ operation = 0
    /\ op = [c \in Operations |-> NoOp]
    /\ uncertain = FALSE
    /\ closed = [l \in Lease |-> FALSE]
    /\ revision = [l \in Lease |-> 0]
    /\ quiescence = [l \in Lease |-> <<>>]
    /\ calls = [k \in Caller |-> NoCall]
    /\ held = FALSE
    /\ grantedAt = 0

isActive(l) == ~closed[l] /\ ~uncertain /\ operation = 0 /\ owner = l
isReleasing(l) == quiescence[l] # <<>>

(***************************************************************************)
(* _start, _activate and _release.                                         *)
(***************************************************************************)
\* An object that is not in use: the least, so that one is enough to tell apart.
Fresh(c) == op[c].step = "none" /\ \A d \in Operations : op[d].step = "none" => c <= d

Start(l, active) ==
    /\ operation' \in {c \in Operations : Fresh(c)}
    /\ op' = [op EXCEPT ![operation'] = NewOp(l, active)]
    /\ UNCHANGED <<owner, uncertain>>

Pending(l) == operation # 0 /\ op[operation].lease = l

Answer(k, l, answer) == calls' = [calls EXCEPT ![k] = [at |-> answer, lease |-> l,
                                                       rev |-> revision[l], awaits |-> 0]]
Await(k, l, c) == calls' = [calls EXCEPT ![k] = [at |-> "activating", lease |-> l,
                                                rev |-> revision[l], awaits |-> c]]

Unavailable(k, l) == Answer(k, l, "failed") /\ UNCHANGED arbiter

\* The owner's _activate, entered by call k with the lease's present revision.
Activate(k, l) ==
    \/ (closed[l] \/ uncertain) /\ Unavailable(k, l)
    \/ /\ ~closed[l] /\ ~uncertain /\ operation # 0
       /\ IF Pending(l) /\ op[operation].active /\ ~op[operation].cancelled
          THEN Await(k, l, operation) /\ UNCHANGED arbiter
          ELSE Unavailable(k, l)
    \/ /\ ~closed[l] /\ ~uncertain /\ operation = 0
       /\ \/ owner = l /\ Answer(k, l, "granted") /\ UNCHANGED arbiter
          \/ owner \notin {l, NoLease} /\ Unavailable(k, l)
          \/ owner = NoLease /\ Start(l, TRUE) /\ Await(k, l, operation')

ReleaseOfAnyLease(l) == \* slip: a stale lease releases too
    \/ uncertain /\ UNCHANGED arbiter
    \/ /\ ~uncertain /\ Pending(l)
       /\ op' = [op EXCEPT ![operation].cancelled = TRUE]
       /\ UNCHANGED <<owner, operation, uncertain>>
    \/ ~uncertain /\ operation # 0 /\ ~Pending(l) /\ UNCHANGED arbiter
    \/ ~uncertain /\ operation = 0 /\ Start(l, FALSE)

\* The owner's _release: refuses when uncertain, cancels the lease's own pending
\* operation, does nothing for a lease that does not own, else asks the platform.
Release(l) ==
    \/ uncertain /\ UNCHANGED arbiter
    \/ /\ ~uncertain /\ Pending(l)
       /\ op' = [op EXCEPT ![operation].cancelled = TRUE]
       /\ UNCHANGED <<owner, operation, uncertain>>
    \/ ~uncertain /\ ~Pending(l) /\ owner # l /\ UNCHANGED arbiter
    \/ ~uncertain /\ ~Pending(l) /\ owner = l /\ Start(l, FALSE)

\* The operation that Release(l) leaves its caller waiting for, or 0.
ReleaseAwaits(l) ==
    IF ~uncertain /\ (Pending(l) \/ owner = l) THEN operation' ELSE 0

(***************************************************************************)
(* The chain of releaseAfter futures.  An entry that fails takes every     *)
(* later entry with it: they await it outside their own try.               *)
(***************************************************************************)
\* What the entries still waiting and the callers waiting for them become when
\* the head of l's chain completes.
HeadSucceeds(l, cs) ==
    /\ quiescence' = [quiescence EXCEPT ![l] = Tail(@)]
    /\ calls' = [k \in Caller |->
          IF cs[k].at = "quiescing" /\ cs[k].lease = l /\ cs[k].awaits = Head(quiescence[l]).id
          THEN [cs[k] EXCEPT !.at = "quiesced"] ELSE cs[k]]

HeadFails(l, cs) ==
    /\ quiescence' = [quiescence EXCEPT ![l] = <<>>]
    /\ calls' = [k \in Caller |->
          IF cs[k].at = "quiescing" /\ cs[k].lease = l THEN [cs[k] EXCEPT !.at = "failed"] ELSE cs[k]]

\* releaseAfter: the intent is revoked at once, the rest waits its turn.
ReleaseAfter(l) ==
    /\ revision[l] < MaxRevision
    /\ revision' = [revision EXCEPT ![l] = @ + 1]
    /\ quiescence' = [quiescence EXCEPT ![l] = Append(@, Entry(revision'[l]))]
    /\ UNCHANGED <<owner, operation, op, uncertain, closed, calls, held, grantedAt>>

\* The native pause or stop settles; the finally block then releases focus.
ControlSettles(l, ok) ==
    /\ quiescence[l] # <<>> /\ Head(quiescence[l]).at = "control"
    /\ Release(l)
    /\ \/ /\ ReleaseAwaits(l) # 0
          /\ quiescence' = [quiescence EXCEPT ![l][1] =
                [@ EXCEPT !.at = "release", !.ok = ok, !.awaits = ReleaseAwaits(l)]]
          /\ UNCHANGED calls
       \/ ReleaseAwaits(l) = 0 /\ ok /\ ~uncertain /\ HeadSucceeds(l, calls)
       \/ ReleaseAwaits(l) = 0 /\ (~ok \/ uncertain) /\ HeadFails(l, calls)
    /\ UNCHANGED <<closed, revision, held, grantedAt>>

\* The bounded wait for the focus release runs out.
ReleaseExpires(l) ==
    /\ quiescence[l] # <<>> /\ Head(quiescence[l]).at = "release"
    /\ op' = [op EXCEPT ![Head(quiescence[l]).awaits].cancelled = TRUE]
    /\ HeadFails(l, calls)
    /\ UNCHANGED <<owner, operation, uncertain, closed, revision, held, grantedAt>>

(***************************************************************************)
(* Calls of the lease's activate, release and close.                       *)
(***************************************************************************)
CallActivate(k, l) ==
    /\ calls[k].at = "idle"
    /\ \/ /\ isReleasing(l)
          /\ calls' = [calls EXCEPT ![k] = [at |-> "quiescing", lease |-> l, rev |-> revision[l],
                                            awaits |-> Last(quiescence[l]).id]]
          /\ UNCHANGED arbiter
       \/ ~isReleasing(l) /\ Activate(k, l)
    /\ UNCHANGED <<closed, revision, quiescence, held, grantedAt>>

\* The wait for the chain is over.  An intent revoked meanwhile acquires nothing.
ContinueActivate(k) ==
    LET l == calls[k].lease IN
    /\ calls[k].at = "quiesced"
    /\ \/ (closed[l] \/ calls[k].rev # revision[l])
          /\ calls' = [calls EXCEPT ![k].at = "failed"]
          /\ UNCHANGED arbiter
       \/ ~closed[l] /\ calls[k].rev = revision[l] /\ Activate(k, l)
    /\ UNCHANGED <<closed, revision, quiescence, held, grantedAt>>

QuiescenceExpires(k) ==
    /\ calls[k].at = "quiescing"
    /\ calls' = [calls EXCEPT ![k].at = "failed"]
    /\ UNCHANGED <<owner, operation, op, uncertain, closed, revision, quiescence, held, grantedAt>>

\* The caller takes its answer.
Return(k) ==
    /\ Answered(k)
    /\ calls' = [calls EXCEPT ![k] = NoCall]
    /\ UNCHANGED <<owner, operation, op, uncertain, closed, revision, quiescence, held, grantedAt>>

CallRelease(l) ==
    /\ revision[l] < MaxRevision
    /\ revision' = [revision EXCEPT ![l] = @ + 1]
    /\ Release(l)
    /\ UNCHANGED <<closed, quiescence, calls, held, grantedAt>>

CloseWithoutRelease(l) == \* slip: closing only marks the lease
    /\ ~closed[l]
    /\ closed' = [closed EXCEPT ![l] = TRUE]
    /\ revision' = [revision EXCEPT ![l] = @ + 1]
    /\ UNCHANGED arbiter
    /\ UNCHANGED <<quiescence, calls, held, grantedAt>>

Close(l) ==
    /\ ~closed[l]
    /\ closed' = [closed EXCEPT ![l] = TRUE]
    /\ revision' = [revision EXCEPT ![l] = @ + 1]
    /\ Release(l)
    /\ UNCHANGED <<quiescence, calls, held, grantedAt>>

(***************************************************************************)
(* Platform answers.                                                       *)
(***************************************************************************)
\* Everyone who awaits operation c learns how it ended: calls of activate() get the
\* answer, the chain of the lease goes on if the release it needed happened.
Settle(c, answer) ==
    LET l == op[c].lease
        cs == [k \in Caller |-> IF calls[k].at = "activating" /\ calls[k].awaits = c
                                THEN [calls[k] EXCEPT !.at = answer] ELSE calls[k]]
        waiting == quiescence[l] # <<>> /\ Head(quiescence[l]).at = "release"
                                       /\ Head(quiescence[l]).awaits = c
    IN /\ op' = [op EXCEPT ![c] = NoOp]
       /\ operation' = IF operation = c THEN 0 ELSE operation
       /\ \/ ~waiting /\ calls' = cs /\ UNCHANGED quiescence
          \/ waiting /\ answer # "failed" /\ Head(quiescence[l]).ok /\ HeadSucceeds(l, cs)
          \/ waiting /\ (answer = "failed" \/ ~Head(quiescence[l]).ok) /\ HeadFails(l, cs)
       /\ UNCHANGED <<closed, revision>>

\* The run goes on to its (compensating) release.
Compensate(c) ==
    /\ op' = [op EXCEPT ![c].step = "releasing"]
    /\ UNCHANGED <<operation, uncertain, closed, revision, quiescence, calls>>

ActivationGranted(c) ==
    /\ op[c].step = "activating"
    /\ held' = TRUE
    /\ owner' = op[c].lease
    /\ grantedAt' = op[c].rev
    /\ \/ (op[c].cancelled \/ closed[op[c].lease]) /\ Compensate(c)
       \/ ~op[c].cancelled /\ ~closed[op[c].lease] /\ Settle(c, "granted") /\ UNCHANGED uncertain

ActivationRejected(c) ==
    /\ op[c].step = "activating"
    /\ Settle(c, "denied")
    /\ UNCHANGED <<owner, uncertain, held, grantedAt>>

ActivationThrowsPlainly(c) == \* slip: an exception counts as "not activated"
    /\ op[c].step = "activating"
    /\ held' \in BOOLEAN
    /\ Settle(c, "failed")
    /\ UNCHANGED <<owner, uncertain, grantedAt>>

\* An exception does not prove that the platform failed before activating.
ActivationThrows(c) ==
    /\ op[c].step = "activating"
    /\ held' \in BOOLEAN
    /\ Compensate(c)
    /\ UNCHANGED <<owner, grantedAt>>

\* _run returns true for a release too: it was done.
ReleaseConfirmed(c) ==
    /\ op[c].step = "releasing"
    /\ held' = FALSE
    /\ owner' = NoLease
    /\ Settle(c, IF op[c].active THEN "failed" ELSE "granted")
    /\ UNCHANGED <<uncertain, grantedAt>>

ReleaseUnconfirmedIgnored(c) == \* slip: an unacknowledged release is not remembered
    /\ op[c].step = "releasing"
    /\ held' \in {held, FALSE}
    /\ Settle(c, "failed")
    /\ UNCHANGED <<owner, uncertain, grantedAt>>

\* FALSE or an exception: the platform may or may not have let go.
ReleaseUnconfirmed(c) ==
    /\ op[c].step = "releasing"
    /\ held' \in {held, FALSE}
    /\ uncertain' = TRUE
    /\ Settle(c, "failed")
    /\ UNCHANGED <<owner, grantedAt>>

ActivationExpiresSilently(c) == \* slip: the deadline cancels and tells nobody
    /\ op[c].step # "none" /\ op[c].active /\ ~op[c].expired
    /\ op' = [op EXCEPT ![c].cancelled = TRUE, ![c].expired = TRUE]
    /\ UNCHANGED <<owner, operation, uncertain, closed, revision, quiescence, calls, held, grantedAt>>

\* The caller's deadline: the raw operation stays reserved.
ActivationExpires(c) ==
    /\ op[c].step # "none" /\ op[c].active /\ ~op[c].expired
    /\ op' = [op EXCEPT ![c].cancelled = TRUE, ![c].expired = TRUE]
    /\ calls' = [k \in Caller |-> IF calls[k].at = "activating" /\ calls[k].awaits = c
                                  THEN [calls[k] EXCEPT !.at = "failed"] ELSE calls[k]]
    /\ UNCHANGED <<owner, operation, uncertain, closed, revision, quiescence, held, grantedAt>>

PlatformAnswers(c) ==
    \/ ActivationGranted(c)
    \/ ActivationRejected(c)
    \/ ActivationThrows(c)
    \/ ReleaseConfirmed(c)
    \/ ReleaseUnconfirmed(c)

FocusNext ==
    \/ \E k \in Caller, l \in Lease : CallActivate(k, l)
    \/ \E k \in Caller : ContinueActivate(k) \/ QuiescenceExpires(k) \/ Return(k)
    \/ \E l \in Lease : CallRelease(l) \/ Close(l) \/ ReleaseAfter(l) \/ ReleaseExpires(l)
    \/ \E l \in Lease, ok \in BOOLEAN : ControlSettles(l, ok)
    \/ \E c \in Operations : PlatformAnswers(c) \/ ActivationExpires(c)

FocusSpec == FocusInit /\ [][FocusNext]_fvars

(***************************************************************************)
(* Fairness.  Timers fire and continuations run: the Dart event loop does  *)
(* that by itself.  Whether the platform ever answers is another matter,   *)
(* so it is a separate assumption.                                         *)
(***************************************************************************)
EventLoopFairness ==
    /\ \A k \in Caller : WF_fvars(ContinueActivate(k)) /\ WF_fvars(QuiescenceExpires(k))
    /\ \A c \in Operations : WF_fvars(ActivationExpires(c))
    /\ \A l \in Lease : WF_fvars(ReleaseExpires(l))

PlatformFairness == \A c \in Operations : WF_fvars(PlatformAnswers(c))

(***************************************************************************)
(* Properties.                                                             *)
(***************************************************************************)
OpRecord == [lease : Lease \cup {NoLease}, active : BOOLEAN, cancelled : BOOLEAN,
             expired : BOOLEAN, step : {"none", "activating", "releasing"}, rev : Nat]
CallRecord == [at : {"idle", "quiescing", "quiesced", "activating"} \cup Answers,
               lease : Lease \cup {NoLease}, rev : Nat, awaits : Nat]
EntryRecord == [id : Nat, at : {"control", "release"}, ok : BOOLEAN, awaits : Nat]

\* Type invariant of the owner, the leases, the pending calls and the platform.
FocusTypeOK ==
    /\ owner \in Lease \cup {NoLease}
    /\ operation \in 0..MaxOperations
    /\ op \in [Operations -> OpRecord]
    /\ uncertain \in BOOLEAN
    /\ closed \in [Lease -> BOOLEAN]
    /\ revision \in [Lease -> Nat]
    /\ quiescence \in [Lease -> Seq(EntryRecord)]
    /\ calls \in [Caller -> CallRecord]
    /\ held \in BOOLEAN
    /\ grantedAt \in Nat

\* The platform never has two setActive calls outstanding: a raw operation stays
\* reserved until it settles, however many callers have given up on it.
OnePlatformCall == Running = IF operation = 0 THEN {} ELSE {operation}

\* At rest, unless a release went unacknowledged, the arbiter and the platform
\* agree on whether this program holds focus: none is leaked, none is imagined.
FocusAccounted == operation = 0 /\ ~uncertain => (held <=> owner # NoLease)

\* While one lease owns focus no other lease has a platform operation running, so
\* no late cleanup of an old source can take focus from a new one.
NoForeignCleanup == owner # NoLease => \A c \in Running : op[c].lease = owner

\* Closing a lease is final: it owns focus only while its release is under way
\* or has gone unacknowledged.
ClosedLeaseLetsGo ==
    \A l \in Lease : closed[l] /\ owner = l =>
        uncertain \/ (operation # 0 /\ op[operation].lease = l /\ op[operation].step = "releasing")

\* Fail closed: once a release went unacknowledged nothing is ever asked of the
\* platform again and no new owner appears.
FailClosed ==
    [][uncertain => /\ uncertain'
                    /\ Running' \subseteq Running
                    /\ owner' \in {owner, NoLease}]_fvars

\* A new owner appears only out of a free arbiter: focus passes from one lease to
\* the next through a confirmed release, never directly.
HandoverThroughFree ==
    [][owner # owner' => owner = NoLease \/ (owner' = NoLease /\ ~held')]_fvars

\* The token that the arbiter's state stands for.
TokenPhase ==
    IF uncertain THEN "unknown"
    ELSE IF operation # 0 THEN IF op[operation].step = "activating" THEN "asking" ELSE "givingUp"
    ELSE IF owner # NoLease THEN "held" ELSE "free"

TokenHolder ==
    IF uncertain THEN NoLease ELSE IF operation # 0 THEN op[operation].lease ELSE owner

Token == INSTANCE FocusContract WITH phase <- TokenPhase, holder <- TokenHolder

\* The arbiter keeps the contract of FocusContract: one asker, one holder, and a
\* confirmed return between two holders.
KeepsToken == Token!TokenSpec

\* Every call of activate() is answered even if the platform never is heard of.
EveryCallAnswered == \A k \in Caller : calls[k].at # "idle" ~> (Answered(k) \/ calls[k].at = "idle")

\* If the platform answers, a closed lease is rid of focus for good, or the
\* arbiter has failed closed.
ClosedEventuallyFree ==
    PlatformFairness => \A l \in Lease : closed[l] ~> [](owner # l \/ uncertain)
=============================================================================
