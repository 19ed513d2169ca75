-------------------------- MODULE CredentialVault --------------------------
(***************************************************************************)
(* The durable QQ Music credential: the serialized vault over two slots of *)
(* the platform's secure storage (credential_vault.dart), and everybody    *)
(* who writes it: the recovery at startup and on resume and the sign-out   *)
(* of RustQqMusicAuthenticationGateway, a login that is persisted, and the *)
(* continuation of a session (qq_session_continuation.dart).               *)
(*                                                                         *)
(* Dart runs one step at a time, from one await to the next; storage, the  *)
(* server and the Rust core answer in between, and the process may die at  *)
(* any moment, which leaves the two slots and nothing else.  The session   *)
(* of the Rust core is reduced to what the vault's users see of it (its    *)
(* own module is QqSession): a generation is current until the session is  *)
(* replaced, so the flight of a refresh is remembered with the session.    *)
(***************************************************************************)
EXTENDS Naturals, Sequences

CONSTANTS
    Activations,    \* the refresh_activation a provider may be built with
    Unreliable,     \* the vault operations whose storage may fail
    MaxKey,         \* bound: music keys the server issues
    MaxTodo         \* bound: continuations that wait for the coordinator

Kind == {"read", "stage", "publish", "unstage", "replace", "delete", "deleteIf"}
ASSUME VaultAssumption ==
    /\ Activations \subseteq BOOLEAN /\ Unreliable \subseteq Kind
    /\ MaxKey \in Nat \ {0} /\ MaxTodo \in Nat

VARIABLES
    current,   \* storage: the key of the current slot (0: empty)
    staged,    \* storage: the rotation of the staged slot
    epoch,     \* SerializedCredentialVault._epoch
    queue,     \* its _tail: the operations that wait, the first one under way
    session,   \* the Rust core: state, key, and the flight of this generation
    attempt,   \* who holds the active verification
    recovery,  \* the gateway's _pendingRecovery
    todo,      \* continuations and checkpoints that wait for the coordinator
    proc,      \* where each user of the vault is, and its local variables
    shown,     \* LoginController: "out", "retry", "in" or "cleanup" (of a sign-out that failed)
    issued,    \* the server: how many keys it has issued
    refused,   \* the server: the keys it has refused
    activated, \* the Rust core: refresh_activation allows this login type to refresh
               \* (it allows some type: build_native_qq_music_provider)
    from,      \* history: the key each key was refreshed from
    saved,     \* history: the key of the last session that was signed in and stored as the
               \* current credential
    givenUp,   \* history: what is stored was given up, since the process started and the
               \* last login: a recovery or a continuation decided to delete it
    loggedOut  \* history: a sign-out was reported complete that no newer work of the
               \* vault has taken over, and no login began since

storage == <<current, staged>>
vault == <<epoch, queue>>
server == <<issued, refused, from, activated>>
history == <<saved, givenUp, loggedOut>>
cvars == <<storage, vault, session, attempt, recovery, todo, proc, shown, server, history>>

User == {"controller", "coordinator", "login", "leaver"}
NoStage == [source |-> 0, cand |-> 0]
NoRecovery == [action |-> "none", epoch |-> 0, id |-> 0]
Idle == [pc |-> "idle", epoch |-> 0, answer |-> "none", key |-> 0, source |-> 0,
         trigger |-> "none", snap |-> [current |-> 0, staged |-> NoStage],
         recovery |-> NoRecovery, silent |-> FALSE]

At(p, pc) == proc[p].pc = pc
AnsweredAt(p, pc, answers) == proc[p].pc = pc /\ proc[p].answer \in answers
Moves(p, pc) == proc' = [proc EXCEPT ![p].pc = pc, ![p].answer = "none"]

(***************************************************************************)
(* SerializedCredentialVault: what a user enqueues.                        *)
(***************************************************************************)
Op(p, kind, e, doc) == [kind |-> kind, epoch |-> e, doc |-> doc, by |-> p, at |-> 0]
Document(key) == [source |-> 0, cand |-> key]

\* stageIfCurrent, publishIfCurrent, deleteStageIfCurrent, read and readTransaction
Enqueue(p, kind, e, doc, next) ==
    /\ queue' = Append(queue, Op(p, kind, e, doc))
    /\ Moves(p, next) /\ UNCHANGED epoch
\* publishReplacement, deleteTransaction: the epoch moves at once, the work waits
EnqueueNew(p, kind, doc, next) ==
    /\ epoch' = epoch + 1
    /\ queue' = Append(queue, Op(p, kind, epoch + 1, doc))
    /\ Moves(p, next)
\* deleteTransactionIfCurrent
EnqueueDeleteIf(p, e, next) ==
    IF e # epoch
    THEN /\ proc' = [proc EXCEPT ![p].pc = next, ![p].answer = "no"]
         /\ UNCHANGED vault
    ELSE EnqueueNew(p, "deleteIf", NoStage, next)

(***************************************************************************)
(* ... and how the operations are carried out, one at a time.              *)
(***************************************************************************)
Stale(op) == op.epoch # epoch
Skipped(op) == IF op.kind \in {"replace", "delete"} THEN "ok" ELSE "no"
Finishes(op, answer) ==
    /\ queue' = Tail(queue)
    /\ proc' = [proc EXCEPT ![op.by].answer = answer]
Proceeds == queue' = [queue EXCEPT ![1].at = @ + 1] /\ UNCHANGED proc

ReadSlots(op) ==
    /\ op.kind = "read" /\ op.at = 0
    /\ queue' = Tail(queue)
    /\ proc' = [proc EXCEPT ![op.by].answer = "ok",
                            ![op.by].snap = [current |-> current, staged |-> staged]]
    /\ UNCHANGED storage
StartUnchecked(op) == \* slip: what waited is carried out whatever happened meanwhile
    op.kind # "read" /\ op.at = 0 /\ Proceeds /\ UNCHANGED storage
StartWriting(op) ==
    /\ op.kind # "read" /\ op.at = 0
    /\ IF Stale(op) THEN Finishes(op, Skipped(op)) ELSE Proceeds
    /\ UNCHANGED storage
WriteSlot(op) ==
    /\ op.kind \in {"stage", "publish", "unstage"} /\ op.at = 1
    /\ staged' = CASE op.kind = "stage" -> op.doc [] op.kind = "unstage" -> NoStage
                   [] OTHER -> staged
    /\ current' = IF op.kind = "publish" THEN op.doc.cand ELSE current
    /\ Finishes(op, IF Stale(op) THEN "no" ELSE "ok")
\* A transaction deletes the stage first, and looks at the epoch again.
DeleteStage(op) ==
    /\ op.kind \in {"replace", "delete", "deleteIf"} /\ op.at = 1
    /\ staged' = NoStage /\ UNCHANGED current
    /\ IF Stale(op) THEN Finishes(op, Skipped(op)) ELSE Proceeds
WriteCurrent(op) ==
    /\ op.at = 2
    /\ current' = IF op.kind = "replace" THEN op.doc.cand ELSE 0
    /\ Finishes(op, "ok") /\ UNCHANGED staged
StorageSucceeds ==
    /\ queue # <<>>
    /\ LET op == Head(queue) IN
       ReadSlots(op) \/ StartWriting(op) \/ WriteSlot(op) \/ DeleteStage(op) \/ WriteCurrent(op)
    /\ UNCHANGED epoch
StorageFails ==
    /\ queue # <<>>
    /\ LET op == Head(queue) IN
       /\ op.kind \in Unreliable /\ (op.at > 0 \/ op.kind = "read")
       /\ Finishes(op, "failed")
    /\ UNCHANGED <<storage, epoch>>
StorageStep ==
    /\ StorageSucceeds \/ StorageFails
    /\ UNCHANGED <<session, attempt, recovery, todo, shown, server, history>>

(***************************************************************************)
(* The Rust core.  Replacing the session ends the flight of its refresh.   *)
(***************************************************************************)
Replace(state, key) == session' = [state |-> state, key |-> key, flight |-> "none"]
FlightEnds == session' = IF session.flight = "active"
                         THEN [session EXCEPT !.flight = "failed"] ELSE session
NoAttempt == attempt' = "none"

\* What was decided or stored before has reached Dart when the server answers a request.
Delivered == \A p \in User : proc[p].answer = "none"

\* What the server says of a key; a key it has refused stays refused.
Says(key, outcome) ==
    /\ outcome = "accepted" => key \notin refused
    /\ refused' = IF outcome = "refused" THEN refused \cup {key} ELSE refused
    /\ UNCHANGED <<issued, from, activated>>
Outcome == {"accepted", "refused", "transient"}

\* restore_credential_from_secure_storage: due for verification, or past its lifetime
Import(key) ==
    /\ NoAttempt
    /\ IF key = 0 THEN Replace("signedOut", 0)
       ELSE \E state \in {"pending", "expired"} : Replace(state, key)

\* restore_staged_credential_rotation
RecoveryAction(snap) ==
    IF snap.staged = NoStage \/ snap.current = 0 THEN "stale"
    ELSE IF snap.current = snap.staged.cand THEN "committed"
    ELSE IF snap.current = snap.staged.source THEN "candidate" ELSE "stale"
RestoreStaged(snap) == Replace("pending", snap.staged.cand) /\ NoAttempt

(***************************************************************************)
(* The end of what a user was doing.  A controller that was superseded     *)
(* meanwhile shows nothing.                                                *)
(***************************************************************************)
Done(p, stage) ==
    /\ proc' = [proc EXCEPT ![p] = Idle]
    /\ shown' = IF p = "controller" /\ ~proc[p].silent THEN stage ELSE shown

\* onResolved: this very recovery is no longer pending.
Resolved(p) == recovery' = IF recovery = proc[p].recovery THEN NoRecovery ELSE recovery
NewRecovery(p, action) ==
    recovery' = [action |-> action, epoch |-> proc[p].epoch,
                 id |-> CHOOSE i \in 1..3 : i \notin {recovery.id} \cup
                                            {proc[q].recovery.id : q \in User}]

(***************************************************************************)
(* restoreCredential at startup, recoverStagedCredentialIfPresent at a     *)
(* checkpoint.                                                             *)
(***************************************************************************)
BeginRestore(p) ==
    /\ queue' = Append(queue, Op(p, "read", epoch, NoStage))
    /\ proc' = [proc EXCEPT ![p] = [Idle EXCEPT !.pc = "snapshot", !.epoch = epoch]]
    /\ UNCHANGED epoch

WithoutStage(p) ==
    /\ IF p = "controller" THEN Enqueue(p, "read", epoch, NoStage, "plain")
                           ELSE Moves(p, "continue") /\ UNCHANGED vault
    /\ UNCHANGED <<session, attempt, recovery, shown>>
Recovers(p, action) ==
    /\ RestoreStaged(proc[p].snap) /\ NewRecovery(p, action)
    /\ Moves(p, "begin") /\ UNCHANGED <<vault, shown>>
Snapshot(p) ==
    /\ AnsweredAt(p, "snapshot", {"ok", "failed"})
    /\ LET snap == proc[p].snap
           action == RecoveryAction(snap) IN
       \/ /\ proc[p].answer = "ok" /\ snap.staged = NoStage
          /\ WithoutStage(p)
       \/ /\ proc[p].answer = "failed" \/ (snap.staged # NoStage /\ proc[p].epoch # epoch)
          /\ Done(p, "out") /\ UNCHANGED <<vault, session, attempt, recovery>>
       \/ /\ proc[p].answer = "ok" /\ snap.staged # NoStage /\ proc[p].epoch = epoch
          /\ IF action = "stale"
             THEN /\ Enqueue(p, "unstage", epoch, NoStage, "unstaging")
                  /\ UNCHANGED <<session, attempt, recovery, shown>>
             ELSE Recovers(p, action)
    /\ UNCHANGED todo

\* What was imported is verified, refreshed (main asks for a checkpoint) or absent.
Imported(p) ==
    /\ Import(proc[p].snap.current)
    /\ IF session'.state = "pending" THEN Moves(p, "begin") /\ UNCHANGED <<todo, shown>>
       ELSE IF p = "coordinator" THEN Moves(p, "continue") /\ UNCHANGED <<todo, shown>>
       ELSE /\ Done(p, "out")
            /\ todo' = IF session'.state = "expired" /\ Len(todo) < MaxTodo
                       THEN Append(todo, "checkpoint") ELSE todo
Restored(p) ==
    /\ \/ AnsweredAt(p, "plain", {"ok", "failed"})
       \/ AnsweredAt(p, "unstaging", {"ok", "no", "failed"})
    /\ IF proc[p].answer = "ok" /\ (At(p, "unstaging") => proc[p].epoch = epoch)
       THEN Imported(p)
       ELSE Done(p, "out") /\ UNCHANGED <<session, attempt, todo>>
    /\ UNCHANGED <<vault, recovery>>

(***************************************************************************)
(* beginCredentialVerification().run(), with or without a recovery.        *)
(***************************************************************************)
BeginVerification(p) ==
    /\ At(p, "begin")
    /\ IF session.state = "pending"
       THEN /\ attempt' = p
            /\ proc' = [proc EXCEPT ![p] = [@ EXCEPT !.pc = "attempting", !.key = session.key,
                                                     !.recovery = recovery, !.answer = "none"]]
            /\ UNCHANGED shown
       ELSE Done(p, "out") /\ UNCHANGED attempt
    /\ UNCHANGED <<vault, session, recovery, todo>>

StillVerified(p) == attempt = p /\ session.state = "pending" /\ session.key = proc[p].key
VerificationAnswers(p, outcome) ==
    /\ At(p, "attempting") /\ Delivered
    /\ Says(proc[p].key, outcome)
    /\ proc' = [proc EXCEPT ![p].answer = IF StillVerified(p) THEN outcome ELSE "replaced"]
    /\ IF StillVerified(p)
       THEN /\ NoAttempt
            /\ CASE outcome = "accepted" -> Replace("authenticated", proc[p].key)
                 [] outcome = "refused" -> Replace("signedOut", 0)
                 [] OTHER -> UNCHANGED session
       ELSE UNCHANGED <<session, attempt>>
    /\ saved' = IF /\ StillVerified(p) /\ outcome = "accepted"
                   /\ proc[p].key = current THEN current ELSE saved
    /\ UNCHANGED <<storage, vault, recovery, todo, shown, givenUp, loggedOut>>

\* _RustCredentialVerificationOperation and the three wrappers around it
Attempted(p) ==
    LET mine == proc[p].recovery
        answer == proc[p].answer IN
    /\ AnsweredAt(p, "attempting", {"accepted", "refused", "transient", "replaced"})
    /\ \/ /\ answer = "transient" \/ (answer = "replaced" /\ mine.action \in {"none", "fallback"})
          /\ Done(p, IF answer = "transient" THEN "retry" ELSE "out")
          /\ UNCHANGED <<vault, recovery>>
       \/ /\ answer = "replaced" /\ mine.action \in {"candidate", "committed"}
          /\ Resolved(p) /\ Done(p, "out") /\ UNCHANGED vault
       \/ /\ answer = "accepted" /\ mine.action \in {"none", "fallback"}
          /\ Done(p, "in") /\ UNCHANGED <<vault, recovery>>
       \/ /\ answer = "accepted" /\ mine.action = "candidate"
          /\ IF session.state = "authenticated"
             THEN Enqueue(p, "publish", mine.epoch, Document(session.key), "republishing")
                  /\ UNCHANGED shown
             ELSE Done(p, "retry") /\ UNCHANGED vault
          /\ UNCHANGED recovery
       \/ /\ answer = "accepted" /\ mine.action = "committed"
          /\ Enqueue(p, "unstage", mine.epoch, NoStage, "finishing")
          /\ UNCHANGED <<recovery, shown>>
       \/ /\ answer = "refused" /\ mine.action = "candidate"
          /\ Enqueue(p, "unstage", mine.epoch, NoStage, "falling")
          /\ UNCHANGED <<recovery, shown>>
       \/ /\ answer = "refused" /\ mine.action \in {"committed", "fallback"}
          /\ EnqueueDeleteIf(p, mine.epoch, "dropping")
          /\ UNCHANGED <<recovery, shown>>
       \/ /\ answer = "refused" /\ mine.action = "none"
          /\ EnqueueNew(p, "delete", NoStage, "deleting")
          /\ UNCHANGED <<recovery, shown>>
    /\ UNCHANGED <<session, attempt, todo>>

(***************************************************************************)
(* _finishAcceptedRecovery and its failure.                                *)
(***************************************************************************)
Republished(p) ==
    /\ AnsweredAt(p, "republishing", {"ok", "no", "failed"})
    /\ \/ /\ proc[p].answer = "ok"
          /\ Enqueue(p, "unstage", proc[p].recovery.epoch, NoStage, "finishing")
          /\ UNCHANGED <<recovery, shown>>
       \/ /\ proc[p].answer = "no"
          /\ Resolved(p) /\ Done(p, "out") /\ UNCHANGED vault
       \/ /\ proc[p].answer = "failed"
          /\ Enqueue(p, "read", epoch, NoStage, "rereading")
          /\ UNCHANGED <<recovery, shown>>
    /\ UNCHANGED <<session, attempt, todo>>
Reread(p) ==
    /\ AnsweredAt(p, "rereading", {"ok", "failed"})
    /\ IF /\ proc[p].answer = "ok" /\ proc[p].recovery.epoch = epoch
          /\ RecoveryAction(proc[p].snap) # "stale"
       THEN RestoreStaged(proc[p].snap) ELSE UNCHANGED <<session, attempt>>
    /\ Done(p, "retry") /\ UNCHANGED <<vault, recovery, todo>>
Finished(p) ==
    /\ AnsweredAt(p, "finishing", {"ok", "no", "failed"})
    /\ Resolved(p)
    /\ Done(p, IF proc[p].answer = "no" THEN "out" ELSE "in")
    /\ UNCHANGED <<vault, session, attempt, todo>>

(***************************************************************************)
(* _fallbackToCurrentAfterRejectedCandidate.                               *)
(***************************************************************************)
StageFallen(p) ==
    /\ AnsweredAt(p, "falling", {"ok", "no", "failed"})
    /\ \/ /\ proc[p].answer = "ok"
          /\ Enqueue(p, "read", epoch, NoStage, "fallback") /\ UNCHANGED <<recovery, shown>>
       \/ /\ proc[p].answer = "no"
          /\ Resolved(p) /\ Done(p, "out") /\ UNCHANGED vault
       \/ /\ proc[p].answer = "failed"
          /\ Done(p, "retry") /\ UNCHANGED <<vault, recovery>>
    /\ UNCHANGED <<session, attempt, todo>>
FallsBack(p) ==
    /\ AnsweredAt(p, "fallback", {"ok", "failed"})
    /\ \/ /\ proc[p].answer = "failed"
          /\ Done(p, "retry") /\ UNCHANGED <<session, attempt, recovery>>
       \/ /\ proc[p].answer = "ok" /\ proc[p].recovery.epoch # epoch
          /\ Resolved(p) /\ Done(p, "out") /\ UNCHANGED <<session, attempt>>
       \/ /\ proc[p].answer = "ok" /\ proc[p].recovery.epoch = epoch
          /\ Resolved(p)
          /\ \/ /\ proc[p].snap.current # 0
                /\ Replace("pending", proc[p].snap.current) /\ attempt' = p
                /\ proc' = [proc EXCEPT ![p] = [@ EXCEPT !.pc = "attempting", !.answer = "none",
                                !.key = proc[p].snap.current, !.recovery.action = "fallback",
                                !.recovery.id = 0]]
                /\ UNCHANGED shown
             \/ /\ IF proc[p].snap.current = 0 THEN Replace("signedOut", 0)
                   ELSE Replace("expired", proc[p].snap.current)
                /\ NoAttempt /\ Done(p, "out")
    /\ UNCHANGED <<vault, todo>>
Dropped(p) ==
    /\ AnsweredAt(p, "dropping", {"ok", "no", "failed"})
    /\ IF proc[p].answer = "failed" THEN UNCHANGED recovery ELSE Resolved(p)
    /\ Done(p, "out") /\ UNCHANGED <<vault, session, attempt, todo>>
Deleted(p) ==
    /\ AnsweredAt(p, "deleting", {"ok", "no", "failed"}) /\ p # "leaver"
    /\ Done(p, "out") /\ UNCHANGED <<vault, session, attempt, recovery, todo>>

RecoveryStep(p) ==
    /\ \/ Snapshot(p) \/ Restored(p) \/ BeginVerification(p) \/ Attempted(p)
       \/ Republished(p) \/ Reread(p) \/ Finished(p)
       \/ StageFallen(p) \/ FallsBack(p) \/ Dropped(p) \/ Deleted(p)
    /\ saved' = IF AnsweredAt(p, "republishing", {"ok"}) THEN proc[p].key ELSE saved
    /\ givenUp' = (givenUp \/ epoch' # epoch)
    /\ UNCHANGED <<storage, server, loggedOut>>

(***************************************************************************)
(* QqSessionContinuationCoordinator: one continuation at a time.           *)
(***************************************************************************)
Coord == "coordinator"
Booted == proc["controller"].pc \notin {"boot", "snapshot", "plain", "unstaging"}
Asks(request) == Booted /\ Len(todo) < MaxTodo /\ todo' = Append(todo, request)

\* didChangeAppLifecycleState
Resume ==
    /\ Asks("checkpoint")
    /\ UNCHANGED <<storage, vault, session, attempt, recovery, proc, shown, server, history>>
\* A read whose session is still the current one is rejected, and asks for a continuation.
ReadRejected ==
    /\ session.state \in {"authenticated", "continuation"} /\ Delivered
    /\ session' = [session EXCEPT !.state = "continuation"]
    /\ refused' = refused \cup {session.key}
    /\ Asks("rejection")
    /\ UNCHANGED <<storage, vault, attempt, recovery, proc, shown, issued, from, activated, history>>

TakeTodoContinues == \* slip: a checkpoint does not look for what is staged
    /\ At(Coord, "idle") /\ Booted /\ todo # <<>> /\ todo' = Tail(todo)
    /\ proc' = [proc EXCEPT ![Coord].trigger = Head(todo), ![Coord].pc = "continue"]
    /\ UNCHANGED <<vault, session, attempt, recovery, shown>>
TakeTodo ==
    /\ At(Coord, "idle") /\ Booted /\ todo # <<>>
    /\ todo' = Tail(todo)
    /\ IF Head(todo) = "checkpoint" /\ recovery = NoRecovery THEN BeginRestore(Coord)
       ELSE /\ proc' = [proc EXCEPT ![Coord].trigger = Head(todo),
                                    ![Coord].pc = IF Head(todo) = "checkpoint" THEN "begin"
                                                  ELSE "continue"]
            /\ UNCHANGED vault
    /\ UNCHANGED <<session, attempt, recovery, shown>>

\* _continue up to the answer of prepare, or to the request it sends
\* (a session of a type that may not refresh is found out only when one would be due)
Prepared(answer) ==
    proc' = [proc EXCEPT ![Coord] = [@ EXCEPT !.pc = "prepared", !.epoch = epoch,
                                              !.answer = answer]]
OnRejection == proc[Coord].trigger = "rejection"
Prepare ==
    /\ At(Coord, "continue")
    /\ \/ /\ session.state \in {"signedOut", "pending"}
          /\ Prepared("noCredential") /\ UNCHANGED session
       \/ /\ session.state = "authenticated"
          /\ Prepared("notNeeded") /\ UNCHANGED session
       \/ /\ session.state \in {"continuation", "expired"}
                                  \cup IF OnRejection THEN {} ELSE {"authenticated"}
          /\ \/ /\ ~activated /\ Prepared("gate")
                /\ IF OnRejection /\ session.state = "continuation"
                   THEN Replace("signedOut", 0) ELSE UNCHANGED session
             \/ /\ activated /\ session.flight = "failed"
                /\ Prepared("transient") /\ UNCHANGED session
             \/ /\ activated /\ session.flight # "failed"
                /\ session' = [session EXCEPT !.flight = "active"]
                /\ proc' = [proc EXCEPT ![Coord] = [@ EXCEPT !.pc = "refreshing",
                                !.epoch = epoch, !.source = session.key]]
    /\ UNCHANGED <<vault, attempt, recovery, todo, shown, server, saved>>

\* The refresh is answered: a new key, no answer, or a refusal of the old one.
RefreshAnswers(outcome) ==
    LET mine == session.flight = "active" IN
    /\ At(Coord, "refreshing") /\ Delivered
    /\ refused' = IF outcome = "refused" THEN refused \cup {proc[Coord].source} ELSE refused
    /\ IF outcome = "accepted"
       THEN /\ issued < MaxKey /\ issued' = issued + 1
            /\ from' = [from EXCEPT ![issued + 1] = proc[Coord].source]
       ELSE UNCHANGED <<issued, from>>
    /\ IF outcome = "accepted" /\ mine /\ session.state \in {"authenticated", "continuation"}
       THEN /\ proc' = [proc EXCEPT ![Coord] = [@ EXCEPT !.pc = "prepared",
                                         !.answer = "candidate", !.key = issued + 1]]
            /\ UNCHANGED session
       ELSE /\ proc' = [proc EXCEPT ![Coord] = [@ EXCEPT !.pc = "prepared",
                              !.answer = IF outcome = "accepted" THEN "replaced" ELSE outcome]]
            /\ IF outcome = "refused" /\ mine THEN Replace("signedOut", 0) ELSE FlightEnds
    /\ UNCHANGED <<vault, attempt, recovery, todo, shown, activated, saved>>

Gives == Done(Coord, shown) /\ UNCHANGED vault
Continue ==
    LET mine == proc[Coord] IN
    /\ \/ /\ AnsweredAt(Coord, "prepared", {"candidate"})
          /\ Enqueue(Coord, "stage", mine.epoch, [source |-> mine.source, cand |-> mine.key],
                     "staging")
       \/ /\ AnsweredAt(Coord, "prepared", {"notNeeded", "replaced", "transient"}) /\ Gives
       \/ /\ AnsweredAt(Coord, "prepared", {"gate", "noCredential"})
          /\ IF OnRejection THEN EnqueueDeleteIf(Coord, mine.epoch, "deleting") ELSE Gives
       \/ /\ AnsweredAt(Coord, "prepared", {"refused"})
          /\ EnqueueDeleteIf(Coord, mine.epoch, "deleting")
       \/ /\ AnsweredAt(Coord, "staging", {"ok"}) /\ Moves(Coord, "verifying") /\ UNCHANGED vault
       \/ /\ AnsweredAt(Coord, "verifying", {"accepted"})
          /\ Enqueue(Coord, "publish", mine.epoch, Document(mine.key), "publishing")
       \/ /\ AnsweredAt(Coord, "verifying", {"transient", "replaced"}) /\ Gives
       \/ /\ AnsweredAt(Coord, "verifying", {"refused"})
          /\ EnqueueDeleteIf(Coord, mine.epoch, "deleting")
       \/ /\ AnsweredAt(Coord, "cleaning", {"ok", "no", "failed"}) /\ Gives
    /\ UNCHANGED <<session, attempt, recovery, todo, server, saved>>
    /\ shown' = shown

\* verify_staged_refresh_candidate
StagedVerified(outcome) ==
    LET mine == session.flight = "active" IN
    /\ At(Coord, "verifying") /\ Delivered
    /\ Says(proc[Coord].key, outcome)
    /\ proc' = [proc EXCEPT ![Coord].answer = IF mine THEN outcome ELSE "replaced"]
    /\ IF ~mine \/ outcome = "accepted" THEN UNCHANGED session
       ELSE IF outcome = "refused" THEN Replace("signedOut", 0) ELSE FlightEnds
    /\ UNCHANGED <<vault, attempt, recovery, todo, shown, saved>>

Aborts ==
    /\ \/ AnsweredAt(Coord, "staging", {"no", "failed"})
       \/ AnsweredAt(Coord, "publishing", {"no", "failed"})
    /\ FlightEnds /\ Gives
    /\ UNCHANGED <<attempt, recovery, todo, server, saved>>

\* The candidate is in the current slot: the core installs it, if it still can.
CommitUnpublished == \* slip: the core installs the candidate before it is stored
    /\ AnsweredAt(Coord, "verifying", {"accepted"}) /\ session.flight = "active"
    /\ session' = [state |-> "authenticated", key |-> proc[Coord].key, flight |-> "installed"]
    /\ Enqueue(Coord, "unstage", proc[Coord].epoch, NoStage, "cleaning")
    /\ saved' = proc[Coord].key
    /\ UNCHANGED <<attempt, recovery, todo, shown, server>>
Commit ==
    /\ AnsweredAt(Coord, "publishing", {"ok"})
    /\ IF session.flight = "active"
       THEN /\ session' = [state |-> "authenticated", key |-> proc[Coord].key,
                           flight |-> "installed"]
            /\ Enqueue(Coord, "unstage", proc[Coord].epoch, NoStage, "cleaning")
       ELSE Gives /\ UNCHANGED session
    /\ saved' = proc[Coord].key
    /\ UNCHANGED <<attempt, recovery, todo, shown, server>>

CoordinatorStep ==
    \/ /\ TakeTodo /\ UNCHANGED <<storage, server, history>>
    \/ /\ \/ Prepare \/ Continue \/ Aborts \/ Commit
          \/ \E o \in Outcome : RefreshAnswers(o) \/ StagedVerified(o)
       /\ givenUp' = (givenUp \/ epoch' # epoch)
       /\ UNCHANGED <<storage, loggedOut>>

(***************************************************************************)
(* The user: a login, a sign-out, another attempt at a verification.       *)
(***************************************************************************)
Silenced == [proc EXCEPT !["controller"].silent = proc["controller"].pc # "idle"]

\* startQr: what was restored and not yet verified is given up.
LoginBegins ==
    /\ At("login", "idle") /\ Booted /\ shown \in {"out", "retry"}
    /\ proc' = [Silenced EXCEPT !["login"].pc = "waiting"]
    /\ shown' = "out" /\ loggedOut' = FALSE /\ NoAttempt
    /\ IF session.state \in {"pending", "expired", "continuation"}
       THEN Replace("signedOut", 0) ELSE UNCHANGED session
    /\ UNCHANGED <<storage, vault, recovery, todo, server, saved, givenUp>>
\* _finishAuthentication, persistAuthenticatedCredential: assumed to reach Dart at once
LoginWins ==
    /\ At("login", "waiting") /\ issued < MaxKey /\ Delivered
    /\ issued' = issued + 1 /\ Replace("authenticated", issued + 1)
    /\ EnqueueNew("login", "replace", Document(issued + 1), "persisting")
    /\ shown' = "in" /\ givenUp' = FALSE
    /\ UNCHANGED <<storage, attempt, recovery, todo, refused, from, activated, saved, loggedOut>>
LoginPersisted ==
    /\ AnsweredAt("login", "persisting", {"ok", "failed"})
    /\ saved' = IF proc["login"].answer = "ok" /\ session.key = current
              THEN current ELSE saved
    /\ proc' = [proc EXCEPT !["login"] = Idle]
    /\ UNCHANGED <<storage, vault, session, attempt, recovery, todo, shown, server, givenUp,
                   loggedOut>>

SignOut ==
    /\ At("leaver", "idle") /\ shown \in {"in", "cleanup"}
    /\ Replace("signedOut", 0) /\ NoAttempt /\ recovery' = NoRecovery
    /\ epoch' = epoch + 1
    /\ queue' = Append(queue, Op("leaver", "delete", epoch + 1, NoStage))
    /\ proc' = [Silenced EXCEPT !["leaver"].pc = "deleting", !["leaver"].epoch = epoch + 1]
    /\ UNCHANGED <<storage, todo, shown, server, history>>
SignedOut ==
    /\ AnsweredAt("leaver", "deleting", {"ok", "failed"})
    /\ shown' = IF proc["leaver"].answer = "ok" THEN "out" ELSE "cleanup"
    /\ loggedOut' = (proc["leaver"].answer = "ok" /\ proc["leaver"].epoch = epoch)
    /\ proc' = [proc EXCEPT !["leaver"] = Idle]
    /\ UNCHANGED <<storage, vault, session, attempt, recovery, todo, server, saved, givenUp>>

RetryVerification ==
    /\ At("controller", "idle") /\ shown = "retry"
    /\ Moves("controller", "begin")
    /\ UNCHANGED <<storage, vault, session, attempt, recovery, todo, shown, server, history>>
\* A session that was authenticated without the controller is shown.
NoticeSession ==
    /\ At("controller", "idle") /\ At("login", "idle") /\ At("leaver", "idle")
    /\ shown = "out" /\ session.state = "authenticated" /\ shown' = "in"
    /\ UNCHANGED <<storage, vault, session, attempt, recovery, todo, proc, server, history>>

(***************************************************************************)
(* The process dies, and starts again with what is in storage.             *)
(***************************************************************************)
SignedOutSession == [state |-> "signedOut", key |-> 0, flight |-> "none"]
Waiting == [p \in User |-> IF p = "controller" THEN [Idle EXCEPT !.pc = "boot"] ELSE Idle]
Restart ==
    /\ epoch' = 0 /\ queue' = <<>> /\ todo' = <<>> /\ attempt' = "none"
    /\ recovery' = NoRecovery /\ session' = SignedOutSession /\ proc' = Waiting
    /\ shown' = "out" /\ saved' = 0 /\ givenUp' = FALSE
    /\ UNCHANGED <<storage, server, loggedOut>>
Boot ==
    /\ At("controller", "boot") /\ BeginRestore("controller")
    /\ UNCHANGED <<storage, session, attempt, recovery, todo, shown, server, history>>

Init ==
    /\ staged = NoStage /\ current \in {0, 1}
    /\ epoch = 0 /\ queue = <<>> /\ todo = <<>> /\ attempt = "none"
    /\ recovery = NoRecovery /\ session = SignedOutSession /\ proc = Waiting
    /\ shown = "out" /\ saved = 0 /\ givenUp = FALSE
    /\ activated \in Activations
    /\ issued = 1 /\ refused = {} /\ from = [k \in 1..MaxKey |-> 0]
    /\ loggedOut = FALSE

Verifies(p) == \E o \in Outcome : VerificationAnswers(p, o)
UserStep == LoginBegins \/ LoginWins \/ LoginPersisted \/ SignOut \/ SignedOut
Next ==
    \/ StorageStep \/ CoordinatorStep \/ UserStep \/ Resume \/ ReadRejected
    \/ \E p \in {"controller", "coordinator"} : RecoveryStep(p) \/ Verifies(p)
    \/ RetryVerification \/ NoticeSession \/ Boot \/ Restart
Spec == Init /\ [][Next]_cvars

-----------------------------------------------------------------------------
Pc == {"idle", "boot", "snapshot", "plain", "unstaging", "begin", "attempting", "republishing",
       "rereading", "finishing", "falling", "fallback", "dropping", "deleting", "continue",
       "refreshing", "prepared", "staging", "verifying", "publishing", "cleaning", "waiting",
       "persisting"}
Key == 0..MaxKey
Stage == [source : Key, cand : Key]
Recovery == [action : {"none", "candidate", "committed", "fallback"}, epoch : Nat, id : 0..3]

(***************************************************************************)
(* Every variable has its type, and everybody waits for one operation of   *)
(* the vault at most.                                                      *)
(***************************************************************************)
TypeOK ==
    /\ current \in Key /\ staged \in Stage /\ epoch \in Nat
    /\ queue \in Seq([kind : Kind, epoch : Nat, doc : Stage, by : User, at : 0..2])
    /\ \A i, j \in DOMAIN queue : i # j => queue[i].by # queue[j].by
    /\ \A i \in DOMAIN queue : proc[queue[i].by].answer = "none"
    /\ session \in [state : {"signedOut", "pending", "expired", "authenticated", "continuation"},
                    key : Key, flight : {"none", "active", "failed", "installed"}]
    /\ attempt \in User \cup {"none"} /\ recovery \in Recovery
    /\ todo \in Seq({"checkpoint", "rejection"}) /\ Len(todo) <= MaxTodo
    /\ proc \in [User -> [pc : Pc, epoch : Nat, key : Key, source : Key, silent : BOOLEAN,
                          answer : {"none", "ok", "no", "failed", "replaced", "candidate", "gate",
                                    "notNeeded", "noCredential"} \cup Outcome,
                          trigger : {"none", "checkpoint", "rejection"}, recovery : Recovery,
                          snap : [current : Key, staged : Stage]]]
    /\ shown \in {"out", "retry", "in", "cleanup"}
    /\ activated \in BOOLEAN /\ issued \in 1..MaxKey /\ refused \subseteq Key /\ from \in [1..MaxKey -> Key]
    /\ saved \in Key /\ givenUp \in BOOLEAN /\ loggedOut \in BOOLEAN

(***************************************************************************)
(* A sign-out that was reported complete leaves nothing a later start      *)
(* could sign in with, and nothing that was under way puts it back: not a  *)
(* rotation being stored, not a login being persisted, not a crash.        *)
(***************************************************************************)
LogoutLeavesNothing == loggedOut => current = 0 /\ staged = NoStage

(***************************************************************************)
(* If the process died now, the next one would find the session that is    *)
(* signed in, or its own successor: a session that was stored once is not  *)
(* lost to a crash between any two steps of a rotation or of a recovery,   *)
(* as long as none of them decides to delete it.                           *)
(***************************************************************************)
Startup == IF RecoveryAction([current |-> current, staged |-> staged]) = "stale"
           THEN current ELSE staged.cand
SessionCounts == \/ session.state = "continuation"
                 \/ session.state = "authenticated" /\ session.key \notin refused
StoredIsTheSession ==
    SessionCounts /\ session.key = saved /\ ~givenUp =>
        Startup # 0 /\ (Startup = session.key \/ from[Startup] = session.key)

(***************************************************************************)
(* A key that the server has not refused, nor the key it was exchanged for *)
(* (a transient failure is no refusal), is not deleted behind the user's   *)
(* back: only a login or a sign-out takes it out of storage, or a rotation *)
(* that replaces it by its successor.                                      *)
(***************************************************************************)
Stored == {current, staged.cand} \ {0}
OnlyRefusedIsDeleted ==
    [][\A k \in Stored \ Stored' :
          \/ k \in refused \/ \E n \in refused : from[n] = k
          \/ Head(queue).by \in {"login", "leaver"}
          \/ \E n \in Stored' : from[n] = k]_cvars

(***************************************************************************)
(* An unfinished rotation is brought to an end by the checkpoints of the   *)
(* running process, without a restart.                                     *)
(***************************************************************************)
StageConverges == staged # NoStage ~> staged = NoStage
=============================================================================
