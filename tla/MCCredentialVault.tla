------------------------- MODULE MCCredentialVault -------------------------
(***************************************************************************)
(* Model checking of CredentialVault.                                      *)
(***************************************************************************)
EXTENDS CredentialVault

(***************************************************************************)
(* How often the user, the reads and the operating system interfere is     *)
(* bounded, and a cast says who does.                                      *)
(***************************************************************************)
VARIABLES cast, left
mvars == <<cvars, cast, left>>

Many == 9 \* without a bound
NoOne == [logins |-> 0, logouts |-> 0, restarts |-> 0, rejections |-> 0, resumes |-> 0]
Casts == [
    \* a user, the application resumed from time to time, and a crash
    user |-> [NoOne EXCEPT !.logins = 1, !.logouts = 1, !.restarts = 1, !.resumes = 3],
    \* reads that are rejected, checkpoints, and a crash
    reads |-> [NoOne EXCEPT !.rejections = 2, !.restarts = 1, !.resumes = 2],
    \* a user and a read that is rejected, and a crash
    both |-> [NoOne EXCEPT !.logins = 1, !.logouts = 1, !.rejections = 1, !.restarts = 1],
    \* an application that is resumed again and again, and a crash
    checkpoints |-> [NoOne EXCEPT !.restarts = 1, !.resumes = Many]]

Spend(what) ==
    /\ left[what] > 0
    /\ left' = IF left[what] = Many THEN left ELSE [left EXCEPT ![what] = @ - 1]
Free == UNCHANGED left
BoundedNext ==
    /\ \/ StorageStep /\ Free
       \/ CoordinatorStep /\ Free
       \/ (LoginWins \/ LoginPersisted \/ SignedOut) /\ Free
       \/ LoginBegins /\ Spend("logins")
       \/ SignOut /\ Spend("logouts")
       \/ Resume /\ Spend("resumes")
       \/ ReadRejected /\ Spend("rejections")
       \/ Restart /\ Spend("restarts")
       \/ \E p \in {"controller", "coordinator"} : (RecoveryStep(p) \/ Verifies(p)) /\ Free
       \/ (RetryVerification \/ NoticeSession \/ Boot) /\ Free
    /\ UNCHANGED cast
BoundedInit == Init /\ cast \in DOMAIN Casts /\ left = Casts[cast]
BoundedSpec == BoundedInit /\ [][BoundedNext]_mvars

(***************************************************************************)
(* Reads, checkpoints and a server that is out of reach at times: nobody   *)
(* signs in or out, and nothing crashes.                                   *)
(***************************************************************************)
Outage == [NoOne EXCEPT !.rejections = 1, !.resumes = 3]
OutageSpec ==
    /\ Init /\ cast = "reads" /\ left = Outage
    /\ [][BoundedNext]_mvars

(***************************************************************************)
(* What makes an unfinished rotation end: the steps of the application are *)
(* taken, storage does not fail for ever, the server gives a definite      *)
(* answer in the end, and the application is resumed from time to time.    *)
(***************************************************************************)
Checkpoints == BoundedInit /\ cast = "checkpoints"
Settled(p) ==
    StillVerified(p) /\ (VerificationAnswers(p, "accepted") \/ VerificationAnswers(p, "refused"))
Refreshed == RefreshAnswers("accepted") \/ RefreshAnswers("refused")
Checked == StagedVerified("accepted") \/ StagedVerified("refused")
Writes(kind) ==
    /\ StorageSucceeds /\ Head(queue).kind = kind /\ Head(queue).at > 0
    /\ UNCHANGED <<session, attempt, recovery, todo, shown, server, history>>
CoordinatorAnswers ==
    /\ session.flight = "active" /\ (Refreshed \/ Checked)
    /\ UNCHANGED <<storage, givenUp, loggedOut>>
FairSpec ==
    /\ Checkpoints /\ [][BoundedNext]_mvars
    /\ WF_mvars(Boot /\ Free /\ UNCHANGED cast)
    /\ WF_mvars(StorageStep /\ Free /\ UNCHANGED cast)
    /\ \A kind \in Unreliable :
          SF_mvars(Writes(kind) /\ Free /\ UNCHANGED cast)
    /\ WF_mvars(CoordinatorStep /\ Free /\ UNCHANGED cast)
    /\ SF_mvars(CoordinatorAnswers /\ Free /\ UNCHANGED cast)
    /\ WF_mvars(Resume /\ Spend("resumes") /\ UNCHANGED cast)
    /\ \A p \in {"controller", "coordinator"} :
          /\ WF_mvars((RecoveryStep(p) \/ Verifies(p)) /\ Free /\ UNCHANGED cast)
          /\ SF_mvars(Settled(p) /\ Free /\ UNCHANGED cast)
=============================================================================
