---------------------------- MODULE MCQqSession ----------------------------
(***************************************************************************)
(* Model checking of QqSession.                                            *)
(***************************************************************************)
EXTENDS QqSession

(***************************************************************************)
(* Everybody at once is too much to explore; the casts bring together      *)
(* those that interfere.  The application refreshes from one place, which  *)
(* waits for each call (QqSessionContinuationCoordinator): one caller.     *)
(***************************************************************************)
CONSTANTS a1, c1, v1
VARIABLE cast
mvars == <<qvars, cast>>

Casts == [
    \* a signed read among restores of the same credential, their verification, a refresh
    reads |-> [accounts |-> {a1}, readers |-> Reader, attempts |-> {v1}, logins |-> {},
               generations |-> 4, keys |-> 2],
    \* restores, their verification, logins and a refresh
    restore |-> [accounts |-> {a1}, readers |-> {}, attempts |-> {v1}, logins |-> Login,
                 generations |-> 3, keys |-> 3],
    \* an account that may be refreshed and one that may not
    gate |-> [accounts |-> Account, readers |-> Reader, attempts |-> {}, logins |-> Login,
              generations |-> 2, keys |-> 2]]

Accounts == {owner.cred.account} \cup {login[l].cred.account : l \in Login}
CastNext ==
    /\ cast \in DOMAIN Casts
    /\ LET on == Casts[cast] IN
       /\ \/ CallStep(c1)
          \/ \E r \in on.readers : ReadStep(r)
          \/ on.attempts # {} /\ VerificationStep
          \/ on.logins # {} /\ LoginStep
          \/ RestoreStep \/ SignOutStep
       /\ owner'.gen <= on.generations /\ issued' <= on.keys
       /\ reserved' <= 2 /\ numbered' <= 2
       /\ Accounts' \subseteq on.accounts \cup {"none"}
    /\ UNCHANGED cast

(***************************************************************************)
(* One session whose reads are rejected, continued by several calls at     *)
(* once: one login, reads of that session, and calls that a rejection      *)
(* triggered; a staged candidate is verified or given up.  Every answer    *)
(* arrives, and every call goes on with what it was told.                  *)
(***************************************************************************)
ContinuedNext ==
    /\ cast = "continued"
    /\ \/ owner.gen = 0 /\ LoginStep
       \/ \E c \in Caller :
             /\ CallStep(c) /\ call'[c].trigger # "checkpoint"
             /\ call[c].pc = "staged" =>
                   call'[c].pc = "verifying" \/ call'[c].answer = "storage"
       \/ owner.gen = 1 /\ \E r \in Reader : ReadStep(r)
    /\ Accounts' \subseteq {a1, "none"}
    /\ UNCHANGED cast
CallsProceed ==
    \A c \in Caller :
        WF_mvars(/\ cast = "continued" /\ call[c].pc # "idle"
                 /\ CallStep(c) /\ UNCHANGED cast)

CastInit == Init /\ cast \in DOMAIN Casts \cup {"continued"}
CastSpec == CastInit /\ [][CastNext \/ ContinuedNext]_mvars /\ CallsProceed

(***************************************************************************)
(* Every call that joined the flight of that session is told how it ended. *)
(***************************************************************************)
JoinedAreAnswered ==
    \A c \in Caller :
        cast = "continued" /\ call[c].pc = "joined" ~> call[c].pc # "joined"

(***************************************************************************)
(* Everything at once, on an instance small enough for it.                 *)
(***************************************************************************)
EverybodyInit == Init /\ cast = "everybody"
EverybodySpec == EverybodyInit /\ [][Next /\ UNCHANGED cast]_mvars
=============================================================================
