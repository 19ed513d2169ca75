----------------------------- MODULE QqSession -----------------------------
(***************************************************************************)
(* The QQ Music session of one process: the credential owner, the refresh  *)
(* coordinator and the verification attempts of                            *)
(* crates/provider-qqmusic/src/lib.rs.                                     *)
(*                                                                         *)
(* Every field sits behind its own std Mutex, and the async runtime has    *)
(* several worker threads besides the Dart thread.  One action is one      *)
(* critical section, or several that no other section can tell apart; a    *)
(* call to the server always ends an action.  What the server answers,     *)
(* whether a credential is due or past its local lifetime, and how long an *)
(* answer takes, are free.                                                 *)
(***************************************************************************)
EXTENDS Naturals, FiniteSets

CONSTANTS
    Account,       \* QQ accounts
    Refreshable,   \* those whose login type the production gate lets refresh
    Caller,        \* concurrent calls of prepare_credential_refresh, and what follows each
    Reader,        \* concurrent signed reads
    Attempt,       \* concurrent calls of verify_restored_credential
    Login,         \* QR and desktop login sessions
    MaxGeneration, \* bound: credential replacements in a behaviour
    MaxKey         \* bound: music keys the server issues

ASSUME AccountAssumption == Refreshable \subseteq Account /\ "none" \notin Account
ASSUME SessionBoundsAssumption ==
    MaxGeneration \in Nat \ {0} /\ MaxKey \in Nat \ {0}

VARIABLES
    owner,    \* QqCredentialOwner: the state, its credential and its generation
    refresh,  \* QqRefreshCoordinatorState
    reserved, \* next_refresh_reservation
    call,     \* each refresh call: where it is and what it holds in local variables
    read,     \* each signed read: its snapshot
    active,   \* active_restore_verification (0 stands for None)
    numbered, \* next_restore_verification
    attempt,  \* each verification: where it is, its id and its candidate
    login,    \* each login session
    issued,   \* the server: how many music keys it has issued
    obtained, \* history: the session each key was refreshed from
    accepted, \* history: credentials the server issued at a login or verified
    ended     \* history: verification attempts that were cancelled or superseded

refreshVars == <<refresh, reserved, call>>
verifyVars == <<active, numbered, attempt, ended>>
qvars == <<owner, refreshVars, read, verifyVars, login, issued, obtained, accepted>>

NoCred == [account |-> "none", key |-> 0]
Cred == [account : Account, key : 1..MaxKey] \cup {NoCred}
SessionState == {"signedOut", "pending", "expired", "continuation", "authenticated"}
Snapshot == [cred : Cred, gen : 0..MaxGeneration]
Here == [cred |-> owner.cred, gen |-> owner.gen]

(***************************************************************************)
(* CredentialGuard.                                                        *)
(***************************************************************************)
Replace(state, cred) ==
    /\ owner.gen < MaxGeneration
    /\ owner' = [state |-> state, cred |-> cred, gen |-> owner.gen + 1]
SignedOut == Replace("signedOut", NoCred)

MatchesSnapshot(s) == owner.state \in {"authenticated", "continuation"} /\ Here = s

MarkContinuationRequired(s) ==
    owner' = [owner EXCEPT !.state = "continuation", !.cred = s.cred]

(***************************************************************************)
(* A new key of the server; at most one per request.                       *)
(***************************************************************************)
Issues(account) == issued < MaxKey /\ issued' = issued + 1
NewCred(account) == [account |-> account, key |-> issued + 1]

(***************************************************************************)
(* The refresh coordinator.                                                *)
(***************************************************************************)
Idle == [phase |-> "idle", id |-> 0, gen |-> 0, source |-> NoCred, cand |-> NoCred,
         verified |-> FALSE, installed |-> 0, result |-> "none"]
Completed(gen, installed, result) ==
    [Idle EXCEPT !.phase = "completed", !.gen = gen, !.installed = installed,
                 !.result = result]
Reservation(id, s) ==
    [Idle EXCEPT !.phase = "active", !.id = id, !.gen = s.gen, !.source = s.cred,
                 !.cand = s.cred]

NoCall == [pc |-> "idle", trigger |-> "none", snap |-> [cred |-> NoCred, gen |-> 0],
           cand |-> NoCred, id |-> 0, answer |-> "none"]
Answered(answer) == [NoCall EXCEPT !.answer = answer]
Ends(c, answer) == call' = [call EXCEPT ![c] = Answered(answer)]

\* notify_waiters: the calls that joined the flight go round their loop again.
Notified(id) == [d \in Caller |-> IF call[d].pc = "joined" /\ call[d].id = id
                                  THEN [call[d] EXCEPT !.pc = "begin", !.id = 0]
                                  ELSE call[d]]
CompletesSilently(c, answer, installed, result) == \* slip: nobody is notified
    /\ refresh' = Completed(call[c].snap.gen, installed, result)
    /\ call' = [call EXCEPT ![c] = Answered(answer)]
Completes(c, answer, installed, result) ==
    /\ refresh' = Completed(call[c].snap.gen, installed, result)
    /\ call' = [Notified(refresh.id) EXCEPT ![c] = Answered(answer)]

Prepare(c, trigger) ==
    /\ call[c].pc = "idle"
    /\ call' = [call EXCEPT ![c] = [NoCall EXCEPT !.pc = "begin", !.trigger = trigger]]
    /\ UNCHANGED <<owner, refresh, reserved>>

\* The result of a flight that has just replaced the session serves this call too.
ReusesRefreshedSession(c) ==
    /\ call[c].trigger = "rejection"
    /\ refresh.phase = "completed" /\ refresh.result = "ok"
    /\ refresh.installed > refresh.gen
    /\ owner.gen = refresh.installed /\ owner.state = "authenticated"
LookForRefreshedSession(c) ==
    /\ call[c].pc = "begin"
    /\ IF ReusesRefreshedSession(c)
       THEN Ends(c, "reused")
       ELSE call' = [call EXCEPT ![c] = [@ EXCEPT !.pc = "pick"]]
    /\ UNCHANGED <<owner, refresh, reserved>>

PickSource(c) ==
    /\ call[c].pc = "pick"
    /\ \/ /\ \/ owner.state \in {"continuation", "expired"}
             \/ owner.state = "authenticated" /\ call[c].trigger = "checkpoint"
          /\ call' = [call EXCEPT ![c] = [@ EXCEPT !.pc = "arm", !.snap = Here]]
       \/ owner.state = "authenticated" /\ Ends(c, "notDue")
       \/ owner.state \in {"signedOut", "pending"} /\ Ends(c, "noCredential")
    /\ UNCHANGED <<owner, refresh, reserved>>

\* The login type is not activated: a rejected session is given up instead.
GateRefuses(c) ==
    /\ call[c].pc = "arm" /\ call[c].snap.cred.account \notin Refreshable
    /\ Ends(c, "gate")
    /\ IF call[c].trigger = "rejection" /\ owner.gen = call[c].snap.gen
             /\ owner.state = "continuation"
       THEN SignedOut ELSE UNCHANGED owner
    /\ UNCHANGED <<refresh, reserved>>

ArmAlways(c) == \* slip: a flight of the same session is not joined
    /\ call[c].pc = "arm" /\ call[c].snap.cred.account \in Refreshable
    /\ reserved' = reserved + 1
    /\ refresh' = Reservation(reserved + 1, call[c].snap)
    /\ call' = [call EXCEPT ![c] = [@ EXCEPT !.pc = "asking", !.id = reserved + 1]]
    /\ UNCHANGED owner
Arm(c) ==
    /\ call[c].pc = "arm" /\ call[c].snap.cred.account \in Refreshable
    /\ IF refresh.phase = "active" /\ refresh.gen = call[c].snap.gen
       THEN /\ call' = [call EXCEPT ![c] = [@ EXCEPT !.pc = "joined", !.id = refresh.id]]
            /\ UNCHANGED <<refresh, reserved>>
       ELSE IF refresh.phase = "completed" /\ refresh.gen = call[c].snap.gen
       THEN /\ Ends(c, IF refresh.result = "ok" THEN "reused" ELSE refresh.result)
            /\ UNCHANGED <<refresh, reserved>>
       ELSE /\ reserved < MaxGeneration + Cardinality(Caller)
            /\ reserved' = reserved + 1
            /\ refresh' = Reservation(reserved + 1, call[c].snap)
            /\ call' = [call EXCEPT ![c] = [@ EXCEPT !.pc = "asking", !.id = reserved + 1]]
    /\ UNCHANGED owner

\* finish_refresh_failure; "reauthenticate" stands for the three definitive failures.
RefreshFails(c, failure) ==
    /\ call[c].pc = "asking"
    /\ IF refresh.phase = "active" /\ refresh.gen = call[c].snap.gen
       THEN /\ Completes(c, failure, 0, failure)
            /\ IF failure = "reauthenticate" /\ owner.gen = call[c].snap.gen
               THEN SignedOut ELSE UNCHANGED owner
       ELSE Ends(c, failure) /\ UNCHANGED <<owner, refresh>>
    /\ UNCHANGED <<reserved, issued, obtained>>

\* The server answers with a new key of the account (another account is a failure).
StillAskedFor(c) == refresh.gen = call[c].snap.gen /\ refresh.source = call[c].snap.cred
RefreshAnswers(c) ==
    /\ call[c].pc = "asking"
    /\ Issues(call[c].snap.cred.account)
    /\ obtained' = [obtained EXCEPT ![issued + 1] = call[c].snap]
    /\ \/ /\ refresh.phase # "active"
          /\ Ends(c, "replaced") /\ UNCHANGED refresh
       \/ /\ refresh.phase = "active"
          /\ ~(StillAskedFor(c) /\ MatchesSnapshot(call[c].snap))
          /\ Completes(c, "replaced", 0, "replaced")
       \/ /\ refresh.phase = "active" /\ StillAskedFor(c) /\ MatchesSnapshot(call[c].snap)
          /\ refresh' = [refresh EXCEPT !.cand = NewCred(call[c].snap.cred.account)]
          /\ call' = [call EXCEPT ![c] = [@ EXCEPT !.pc = "staged", !.id = refresh.id]]
    /\ UNCHANGED <<owner, reserved>>

\* verify_staged_refresh_candidate, up to the request.
VerifyStaged(c) ==
    /\ call[c].pc = "staged"
    /\ IF refresh.phase = "active" /\ refresh.id = call[c].id
       THEN call' = [call EXCEPT ![c] = [@ EXCEPT !.pc = "verifying", !.cand = refresh.cand,
                 !.snap = [cred |-> refresh.source, gen |-> refresh.gen]]]
       ELSE Ends(c, "replaced")
    /\ UNCHANGED <<owner, refresh, reserved>>

StandsFor(s) == owner.state \in {"authenticated", "continuation", "expired"} /\ Here = s
HoldsReservation(c) == refresh.phase = "active" /\ refresh.id = call[c].id
StagedAnswers(c, outcome) ==
    /\ call[c].pc = "verifying"
    /\ \/ /\ ~(HoldsReservation(c) /\ StillAskedFor(c) /\ StandsFor(call[c].snap))
          /\ Ends(c, "replaced") /\ UNCHANGED <<owner, refresh>>
       \/ /\ HoldsReservation(c) /\ StillAskedFor(c) /\ StandsFor(call[c].snap)
          /\ outcome # "ok"
          /\ Completes(c, outcome, 0, outcome)
          /\ IF outcome = "reauthenticate" THEN SignedOut ELSE UNCHANGED owner
       \/ /\ HoldsReservation(c) /\ StillAskedFor(c) /\ StandsFor(call[c].snap)
          /\ outcome = "ok"
          /\ refresh' = [refresh EXCEPT !.verified = TRUE]
          /\ call' = [call EXCEPT ![c] = [@ EXCEPT !.pc = "verified"]]
          /\ UNCHANGED owner
    /\ accepted' = IF outcome = "ok" THEN accepted \cup {call[c].cand} ELSE accepted
    /\ UNCHANGED reserved

CommitUnguarded(c) == \* slip: the session may have changed since the candidate was staged
    /\ call[c].pc \in {"staged", "verified"}
    /\ HoldsReservation(c) /\ refresh.verified
    /\ Replace("authenticated", refresh.cand)
    /\ Completes(c, "continued", owner.gen + 1, "ok")
    /\ UNCHANGED reserved
CommitUnverified(c) == \* slip: the verification is not asked for
    /\ call[c].pc \in {"staged", "verified"}
    /\ HoldsReservation(c) /\ StandsFor([cred |-> refresh.source, gen |-> refresh.gen])
    /\ Replace("authenticated", refresh.cand)
    /\ Completes(c, "continued", owner.gen + 1, "ok")
    /\ UNCHANGED reserved
CommitStaged(c) ==
    /\ call[c].pc \in {"staged", "verified"}
    /\ IF HoldsReservation(c) /\ refresh.verified
             /\ StandsFor([cred |-> refresh.source, gen |-> refresh.gen])
       THEN /\ Replace("authenticated", refresh.cand)
            /\ Completes(c, "continued", owner.gen + 1, "ok")
       ELSE Ends(c, "replaced") /\ UNCHANGED <<owner, refresh>>
    /\ UNCHANGED reserved

\* abort_credential_refresh: the application could not store the candidate.
AbortRefresh(c) ==
    /\ call[c].pc \in {"staged", "verified"}
    /\ IF HoldsReservation(c)
       THEN /\ refresh' = Completed(refresh.gen, 0, "storage")
            /\ call' = [Notified(refresh.id) EXCEPT ![c] = Answered("storage")]
       ELSE Ends(c, "replaced") /\ UNCHANGED refresh
    /\ UNCHANGED <<owner, reserved>>

(***************************************************************************)
(* Signed reads.  Every family of reads (account, library, media, lyrics,  *)
(* radar, daily, personalised) takes its snapshot and finishes the same    *)
(* way.                                                                    *)
(***************************************************************************)
NoRead == [pc |-> "idle", snap |-> [cred |-> NoCred, gen |-> 0]]

StartRead(r) ==
    /\ read[r].pc # "reading" /\ owner.state = "authenticated"
    /\ read' = [read EXCEPT ![r] = [pc |-> "reading", snap |-> Here]]
    /\ UNCHANGED owner

JustRefreshedByAnyone(s) == \* slip: whatever refresh, and whatever account it left
    owner.state = "authenticated" /\ owner.gen > s.gen /\ refresh.phase = "completed"
JustRefreshed(s) ==
    /\ owner.state = "authenticated" /\ owner.gen > s.gen
    /\ owner.cred.account = s.cred.account
    /\ refresh.phase = "completed" /\ refresh.result = "ok"
    /\ refresh.gen = s.gen /\ refresh.installed = owner.gen

FinishRead(r, rejected) ==
    /\ read[r].pc = "reading"
    /\ IF ~MatchesSnapshot(read[r].snap)
       THEN /\ read' = [read EXCEPT ![r] = [NoRead EXCEPT !.pc =
                           IF rejected /\ JustRefreshed(read[r].snap) THEN "rejected"
                           ELSE "replaced"]]
            /\ UNCHANGED owner
       ELSE /\ read' = [read EXCEPT ![r] = [NoRead EXCEPT !.pc =
                           IF rejected THEN "rejected" ELSE "ok"]]
            /\ IF rejected THEN MarkContinuationRequired(read[r].snap) ELSE UNCHANGED owner

(***************************************************************************)
(* Restoring, and the verification of what was restored.                   *)
(***************************************************************************)
NoAttempt == [pc |-> "idle", id |-> 0, cand |-> NoCred]

\* Clearing active_restore_verification supersedes the attempt it named.
Superseded == ended \cup ({active} \ {0})
ClearVerification == active' = 0 /\ ended' = Superseded

\* From storage (or none), from a transfer, or a candidate found staged: the
\* document is one the server issued some time ago, past its local lifetime or not.
Restore ==
    /\ \/ SignedOut
       \/ \E a \in Account, k \in 1..issued, state \in {"pending", "expired"} :
              Replace(state, [account |-> a, key |-> k])
    /\ ClearVerification
    /\ UNCHANGED <<numbered, attempt>>

ReserveVerification ==
    /\ owner.state = "pending" /\ numbered < MaxGeneration
    /\ numbered' = numbered + 1 /\ active' = numbered + 1 /\ ended' = Superseded
    /\ \E v \in Attempt :
          /\ attempt[v].pc = "idle"
          /\ attempt' = [attempt EXCEPT ![v] = [NoAttempt EXCEPT !.pc = "reserved",
                                                                 !.id = numbered + 1]]
CancelVerification(v) ==
    /\ attempt[v].pc # "idle" /\ active = attempt[v].id
    /\ ClearVerification
    /\ UNCHANGED <<numbered, attempt>>

StartVerification(v) ==
    /\ attempt[v].pc = "reserved"
    /\ attempt' = [attempt EXCEPT ![v] = IF owner.state = "pending" /\ active = attempt[v].id
                                         THEN [@ EXCEPT !.pc = "verifying",
                                                        !.cand = owner.cred]
                                         ELSE NoAttempt]
    /\ UNCHANGED <<numbered, active, ended>>

ConcernsAnyPending(v) == \* slip: the attempt's number is not compared again
    owner.state = "pending" /\ owner.cred = attempt[v].cand
StillConcerns(v) ==
    active = attempt[v].id /\ owner.state = "pending" /\ owner.cred = attempt[v].cand
VerificationAnswers(v, outcome) ==
    /\ attempt[v].pc = "verifying"
    /\ attempt' = [attempt EXCEPT ![v] = NoAttempt]
    /\ IF StillConcerns(v)
       THEN /\ active' = 0
            /\ CASE outcome = "ok" -> Replace("authenticated", attempt[v].cand)
                 [] outcome = "reauthenticate" -> SignedOut
                 [] OTHER -> UNCHANGED owner
       ELSE UNCHANGED <<active, owner>>
    /\ accepted' = IF outcome = "ok" THEN accepted \cup {attempt[v].cand} ELSE accepted
    /\ UNCHANGED <<numbered, ended>>

(***************************************************************************)
(* Logging in.  A QR session waits from the moment it is begun; a desktop  *)
(* session first discovers accounts and only then can be called off.  Both *)
(* are decided by an atomic flag ("won") and install the credential in a   *)
(* critical section of its own.                                            *)
(***************************************************************************)
NoLogin == [kind |-> "none", pc |-> "idle", cred |-> NoCred]

GivesUpUnverified ==
    /\ IF owner.state \in {"pending", "expired", "continuation"}
       THEN SignedOut ELSE UNCHANGED owner
    /\ ClearVerification
    /\ UNCHANGED <<numbered, attempt>>

\* A newer session of a kind calls off the older one (session.finish, active.swap).
CalledOff(kind) == [m \in Login |-> IF login[m].kind = kind /\ login[m].pc = "waiting"
                                    THEN NoLogin ELSE login[m]]
BeginQr(l) ==
    /\ login[l].pc = "idle" /\ GivesUpUnverified
    /\ login' = [CalledOff("qr") EXCEPT ![l] = [NoLogin EXCEPT !.kind = "qr",
                                                               !.pc = "waiting"]]
BeginDesktop(l) ==
    /\ login[l].pc = "idle" /\ GivesUpUnverified
    /\ login' = [login EXCEPT ![l] = [NoLogin EXCEPT !.kind = "desktop",
                                                     !.pc = "discovering"]]
DesktopDiscovered(l) ==
    /\ login[l].pc = "discovering"
    /\ login' = [CalledOff("desktop") EXCEPT ![l] = [@ EXCEPT !.pc = "waiting"]]
LoginWon(l, a) ==
    /\ login[l].pc = "waiting" /\ Issues(a)
    /\ login' = [login EXCEPT ![l] = [@ EXCEPT !.pc = "won", !.cred = NewCred(a)]]
    /\ accepted' = accepted \cup {NewCred(a)}
LoginEnds(l) ==
    /\ login[l].pc \in {"waiting", "discovering"}
    /\ login' = [login EXCEPT ![l] = NoLogin]
LoginInstalls(l) ==
    /\ login[l].pc = "won"
    /\ Replace("authenticated", login[l].cred)
    /\ login' = [login EXCEPT ![l] = NoLogin]

SignOut ==
    /\ SignedOut /\ ClearVerification
    /\ login' = [m \in Login |-> IF login[m].pc = "waiting" THEN NoLogin ELSE login[m]]
    /\ UNCHANGED <<numbered, attempt>>

-----------------------------------------------------------------------------
Init ==
    /\ owner = [state |-> "signedOut", cred |-> NoCred, gen |-> 0]
    /\ refresh = Idle /\ reserved = 0
    /\ call = [c \in Caller |-> NoCall]
    /\ read = [r \in Reader |-> NoRead]
    /\ active = 0 /\ numbered = 0
    /\ attempt = [v \in Attempt |-> NoAttempt]
    /\ login = [l \in Login |-> NoLogin]
    /\ issued = 1
    /\ obtained = [k \in 1..MaxKey |-> [cred |-> NoCred, gen |-> 0]]
    /\ accepted = {} /\ ended = {}

Failure == {"transient", "reauthenticate"}

CallStep(c) ==
    /\ \/ /\ \/ \E t \in {"rejection", "checkpoint"} : Prepare(c, t)
             \/ LookForRefreshedSession(c) \/ PickSource(c)
             \/ GateRefuses(c) \/ Arm(c)
             \/ VerifyStaged(c) \/ CommitStaged(c) \/ AbortRefresh(c)
          /\ UNCHANGED <<issued, obtained, accepted>>
       \/ (RefreshAnswers(c) \/ \E f \in Failure : RefreshFails(c, f)) /\ UNCHANGED accepted
       \/ (\E f \in Failure \cup {"ok"} : StagedAnswers(c, f)) /\ UNCHANGED <<issued, obtained>>
    /\ UNCHANGED <<read, verifyVars, login>>

ReadStep(r) ==
    /\ StartRead(r) \/ \E rejected \in BOOLEAN : FinishRead(r, rejected)
    /\ UNCHANGED <<refreshVars, verifyVars, login, issued, obtained, accepted>>

VerificationStep ==
    /\ \/ /\ \/ ReserveVerification
             \/ \E v \in Attempt : CancelVerification(v) \/ StartVerification(v)
          /\ UNCHANGED <<owner, accepted>>
       \/ \E v \in Attempt, f \in Failure \cup {"ok"} : VerificationAnswers(v, f)
    /\ UNCHANGED <<refreshVars, read, login, issued, obtained>>

RestoreStep ==
    Restore /\ UNCHANGED <<refreshVars, read, login, issued, obtained, accepted>>

LoginStep ==
    /\ \/ /\ \E l \in Login : BeginQr(l) \/ BeginDesktop(l)
          /\ UNCHANGED <<issued, accepted>>
       \/ /\ \E l \in Login : DesktopDiscovered(l) \/ LoginEnds(l)
          /\ UNCHANGED <<owner, verifyVars, issued, accepted>>
       \/ /\ \E l \in Login, a \in Account : LoginWon(l, a)
          /\ UNCHANGED <<owner, verifyVars>>
       \/ /\ \E l \in Login : LoginInstalls(l)
          /\ UNCHANGED <<verifyVars, issued, accepted>>
    /\ UNCHANGED <<refreshVars, read, obtained>>

SignOutStep == SignOut /\ UNCHANGED <<refreshVars, read, issued, obtained, accepted>>

Next ==
    \/ \E c \in Caller : CallStep(c)
    \/ \E r \in Reader : ReadStep(r)
    \/ VerificationStep \/ RestoreStep \/ LoginStep \/ SignOutStep

Spec == Init /\ [][Next]_qvars

-----------------------------------------------------------------------------
CallPc == {"idle", "begin", "pick", "arm", "joined", "asking", "staged", "verifying", "verified"}
CallAnswer == {"none", "reused", "continued", "notDue", "noCredential", "gate", "replaced",
               "storage"} \cup Failure
RefreshResult == {"none", "ok", "replaced", "storage"} \cup Failure

(***************************************************************************)
(* Every variable has its type, and exactly a session that is not signed   *)
(* out holds a credential.                                                 *)
(***************************************************************************)
TypeOK ==
    /\ owner \in [state : SessionState, cred : Cred, gen : 0..MaxGeneration]
    /\ owner.state = "signedOut" <=> owner.cred = NoCred
    /\ refresh \in [phase : {"idle", "active", "completed"}, id : Nat,
                    gen : 0..MaxGeneration, source : Cred, cand : Cred, verified : BOOLEAN,
                    installed : 0..MaxGeneration, result : RefreshResult]
    /\ reserved \in Nat /\ active \in Nat /\ numbered \in Nat
    /\ call \in [Caller -> [pc : CallPc, trigger : {"none", "rejection", "checkpoint"},
                            snap : Snapshot, cand : Cred, id : Nat, answer : CallAnswer]]
    /\ read \in [Reader -> [pc : {"idle", "reading", "ok", "rejected", "replaced"},
                            snap : Snapshot]]
    /\ attempt \in [Attempt -> [pc : {"idle", "reserved", "verifying"}, id : Nat,
                                cand : Cred]]
    /\ login \in [Login -> [kind : {"none", "qr", "desktop"}, cred : Cred,
                            pc : {"idle", "discovering", "waiting", "won"}]]
    /\ issued \in 1..MaxKey
    /\ obtained \in [1..MaxKey -> Snapshot]
    /\ accepted \subseteq Cred /\ ended \subseteq Nat

(***************************************************************************)
(* What counts as authenticated has been accepted by the server: by a      *)
(* login, or by a verification of exactly that credential.  (Decoding a    *)
(* stored credential, or receiving a refreshed one, is not enough.)        *)
(***************************************************************************)
AuthenticatedWasAccepted ==
    owner.state \in {"authenticated", "continuation"} => owner.cred \in accepted

(***************************************************************************)
(* A rejected read asks its caller to continue the session only when it is *)
(* this read's session that needs it, or has just been continued: the      *)
(* current credential descends from the one the read used.                 *)
(***************************************************************************)
RejectionBelongsToSession ==
    [][\A r \in Reader : (read[r].pc = "reading" /\ read'[r].pc = "rejected") =>
           \/ owner'.state = "continuation" /\ owner'.gen = read[r].snap.gen
           \/ owner'.state = "authenticated" /\ obtained[owner'.cred.key] = read[r].snap]_qvars

(***************************************************************************)
(* A refresh replaces the session by its own successor: the new credential *)
(* was obtained with the one it replaces, in that very session.            *)
(***************************************************************************)
RefreshContinuesItsSource ==
    [][\A c \in Caller : (call[c].pc # "idle" /\ call'[c].answer = "continued") =>
           obtained[owner'.cred.key] = [cred |-> owner.cred, gen |-> owner.gen]]_qvars

(***************************************************************************)
(* A verification that was cancelled, superseded or signed out of installs *)
(* nothing and signs nobody out.                                           *)
(***************************************************************************)
EndedAttemptsDoNothing ==
    [][\A v \in Attempt : (attempt[v].pc = "verifying" /\ attempt'[v].pc = "idle"
                           /\ owner' # owner) => attempt[v].id \notin ended]_qvars

(***************************************************************************)
(* No session is refreshed twice at a time: the server would see the same  *)
(* refresh token twice.                                                    *)
(***************************************************************************)
OneFlightPerSession ==
    \A c, d \in Caller : (c # d /\ call[c].pc = "asking" /\ call[d].pc = "asking") =>
        call[c].snap # call[d].snap

(***************************************************************************)
(* A refreshed credential is only called superseded if another             *)
(* authentication action did supersede the session it was asked for.       *)
(***************************************************************************)
OnlySupersededIsReplaced ==
    [][\A c \in Caller : (call[c].pc = "asking" /\ call'[c].answer = "replaced") =>
           [cred |-> owner.cred, gen |-> owner.gen] # call[c].snap]_qvars

=============================================================================
