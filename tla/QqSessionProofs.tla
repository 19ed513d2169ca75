--------------------------- MODULE QqSessionProofs ---------------------------
(***************************************************************************)
(* Proofs about QqSession, for any number of refresh calls, reads,         *)
(* verifications, logins, accounts, and any bound.                         *)
(***************************************************************************)
EXTENDS QqSession, TLAPS

(***************************************************************************)
(* The inductive invariant, one part per component.                        *)
(***************************************************************************)
RealCred == [account : Account, key : 1..MaxKey]
Gen == 0..MaxGeneration

OwnerOK ==
    /\ owner \in [state : SessionState, cred : Cred, gen : Gen]
    /\ owner.state = "signedOut" <=> owner.cred = NoCred

RefreshRecord == [phase : {"idle", "active", "completed"}, id : Nat, gen : Gen,
                  source : Cred, cand : Cred, verified : BOOLEAN, installed : Gen,
                  result : RefreshResult]
RefreshOK ==
    /\ refresh \in RefreshRecord /\ reserved \in Nat /\ refresh.id <= reserved
    /\ refresh.phase = "active" => refresh.source \in RealCred /\ refresh.cand \in RealCred

CallRecord == [pc : CallPc, trigger : {"none", "rejection", "checkpoint"}, snap : Snapshot,
               cand : Cred, id : Nat, answer : CallAnswer]
GoodCall(k, bound) ==
    /\ k \in CallRecord
    /\ k.pc # "idle" => k.answer = "none"
    /\ k.pc \notin {"idle", "begin", "pick"} => k.snap.cred \in RealCred
    /\ k.id <= bound
CallsOK == /\ call = [c \in Caller |-> call[c]]
           /\ \A c \in Caller : GoodCall(call[c], reserved)

ReadsOK == read \in [Reader -> [pc : {"idle", "reading", "ok", "rejected", "replaced"},
                                snap : Snapshot]]

VerifyOK ==
    /\ numbered \in Nat /\ active \in 0..numbered
    /\ ended \subseteq 1..numbered /\ active \notin ended
    /\ attempt \in [Attempt -> [pc : {"idle", "reserved", "verifying"}, id : Nat,
                                cand : Cred]]
    /\ \A v \in Attempt : attempt[v].pc = "verifying" => attempt[v].cand \in RealCred

LoginRecord == [kind : {"none", "qr", "desktop"}, cred : Cred,
                pc : {"idle", "discovering", "waiting", "won"}]
LoginOK ==
    /\ login \in [Login -> LoginRecord]
    /\ \A l \in Login : login[l].pc = "won" => login[l].cred \in RealCred

ServerOK == issued \in 1..MaxKey /\ obtained \in [1..MaxKey -> Snapshot] /\ accepted \subseteq Cred

(***************************************************************************)
(* The lineage of a candidate: once an answer has been staged, the         *)
(* candidate of the flight was obtained with the source of the flight, in  *)
(* the session of the flight.  A call that still holds the reservation     *)
(* relies on it, and so does the mark that it was verified.                *)
(***************************************************************************)
Stages == {"staged", "verifying", "verified"}
Lineage == /\ refresh.cand.key <= issued
           /\ obtained[refresh.cand.key] = [cred |-> refresh.source, gen |-> refresh.gen]
LineageOK ==
    refresh.phase = "active" =>
        /\ refresh.verified => Lineage
        /\ \A c \in Caller : call[c].pc \in Stages /\ call[c].id = refresh.id => Lineage

FlightOK == RefreshOK /\ CallsOK /\ LineageOK
SessionInv == OwnerOK /\ FlightOK /\ ReadsOK /\ VerifyOK /\ LoginOK /\ ServerOK

(***************************************************************************)
(* Data.                                                                   *)
(***************************************************************************)
\* A credential that is not the absent one is an account's.
LEMMA CredFacts ==
    /\ NoCred \in Cred /\ NoCred \notin RealCred /\ RealCred \subseteq Cred
    /\ \A x \in Cred : x # NoCred => x \in RealCred
BY AccountAssumption DEF Cred, RealCred, NoCred

\* Somebody who is not signed out has one.
LEMMA SignedInHasCred ==
    ASSUME OwnerOK, owner.state # "signedOut"
    PROVE  owner.cred \in RealCred
BY CredFacts DEF OwnerOK

\* The snapshot of the session that a call or a read takes.
LEMMA HereFacts ==
    ASSUME OwnerOK
    PROVE  Here \in Snapshot /\ Here.cred = owner.cred /\ Here.gen = owner.gen
BY DEF OwnerOK, Here, Snapshot, Gen

\* Replacing the session keeps the owner's invariant.
LEMMA ReplaceIsGood ==
    ASSUME OwnerOK, NEW state \in SessionState, NEW cred \in Cred,
           state = "signedOut" <=> cred = NoCred, Replace(state, cred)
    PROVE  OwnerOK'
BY SessionBoundsAssumption DEF OwnerOK, Replace, Gen

\* So does signing out.
LEMMA SignedOutIsGood ==
    ASSUME OwnerOK, SignedOut
    PROVE  OwnerOK'
<1>1. "signedOut" \in SessionState /\ NoCred \in Cred
  BY CredFacts DEF SessionState
<1> QED
  BY <1>1, ReplaceIsGood DEF SignedOut

\* A new key of the server is a credential of the account, and has not been issued.
LEMMA NewCredFacts ==
    ASSUME ServerOK, NEW a \in Account, Issues(a)
    PROVE  /\ NewCred(a) \in RealCred /\ NewCred(a).key = issued + 1
           /\ issued' \in 1..MaxKey /\ issued' = issued + 1
           /\ issued + 1 \in 1..MaxKey
BY SessionBoundsAssumption DEF ServerOK, Issues, NewCred, RealCred

LEMMA NoCallFacts ==
    /\ NoCall \in CallRecord /\ NoCall.pc = "idle" /\ NoCall.id = 0
    /\ NoCall.snap = [cred |-> NoCred, gen |-> 0]
<1>1. [cred |-> NoCred, gen |-> 0] \in Snapshot
  BY CredFacts, SessionBoundsAssumption DEF Snapshot
<1> QED
  BY <1>1, CredFacts DEF NoCall, CallRecord, CallPc, CallAnswer

\* A call that has ended holds nothing any more.
LEMMA AnsweredFacts ==
    ASSUME NEW answer \in CallAnswer
    PROVE  /\ Answered(answer) \in CallRecord /\ Answered(answer).pc = "idle"
           /\ Answered(answer).id = 0 /\ Answered(answer).answer = answer
BY NoCallFacts DEF Answered, CallRecord

LEMMA IdleFacts == Idle \in RefreshRecord /\ Idle.phase = "idle" /\ Idle.id = 0
BY CredFacts, SessionBoundsAssumption DEF Idle, RefreshRecord, RefreshResult, Gen

\* A flight that has ended has no candidate to install.
LEMMA CompletedFacts ==
    ASSUME NEW gen \in Gen, NEW installed \in Gen, NEW result \in RefreshResult
    PROVE  /\ Completed(gen, installed, result) \in RefreshRecord
           /\ Completed(gen, installed, result).phase = "completed"
           /\ Completed(gen, installed, result).id = 0
BY IdleFacts DEF Completed, RefreshRecord

\* A flight that begins has its source for a candidate, not verified.
LEMMA ReservationFacts ==
    ASSUME NEW id \in Nat, NEW s \in Snapshot
    PROVE  LET r == Reservation(id, s) IN
           /\ r \in RefreshRecord /\ r.phase = "active" /\ r.id = id /\ r.gen = s.gen
           /\ r.source = s.cred /\ r.cand = s.cred /\ r.verified = FALSE
BY IdleFacts DEF Reservation, RefreshRecord, Snapshot, Gen, Idle

(***************************************************************************)
(* One call moves.                                                         *)
(***************************************************************************)
\* The records of the calls after one was changed.
LEMMA CallUpdate ==
    ASSUME CallsOK, NEW c \in Caller, NEW k, call' = [call EXCEPT ![c] = k]
    PROVE  /\ call' = [d \in Caller |-> call'[d]]
           /\ call'[c] = k /\ \A d \in Caller : d # c => call'[d] = call[d]
BY DEF CallsOK

\* A call moves on while the flight and the server stay as they are.
LEMMA OneCallMoves ==
    ASSUME FlightOK, NEW c \in Caller, NEW k \in CallRecord,
           call' = [call EXCEPT ![c] = k],
           k.pc # "idle" => k.answer = "none",
           k.pc \notin {"idle", "begin", "pick"} => k.snap.cred \in RealCred,
           k.id <= reserved,
           k.pc \in Stages => call[c].pc \in Stages /\ k.id = call[c].id,
           UNCHANGED <<refresh, reserved>>,
           \/ UNCHANGED <<issued, obtained>>
           \/ refresh.phase = "active" /\ Lineage => Lineage'
    PROVE  FlightOK'
<1>1. CallsOK'
  BY CallUpdate DEF FlightOK, CallsOK, GoodCall
<1>2. LineageOK'
  BY CallUpdate DEF FlightOK, LineageOK, Lineage
<1> QED
  BY <1>1, <1>2 DEF FlightOK, RefreshOK

\* A call ends while the flight goes on without it.
LEMMA OneCallEnds ==
    ASSUME FlightOK, NEW c \in Caller, NEW answer \in CallAnswer, Ends(c, answer),
           UNCHANGED <<refresh, reserved>>,
           \/ UNCHANGED <<issued, obtained>>
           \/ refresh.phase = "active" /\ Lineage => Lineage'
    PROVE  FlightOK'
<1>1. 0 <= reserved
  BY DEF FlightOK, RefreshOK
<1> QED
  BY <1>1, AnsweredFacts, OneCallMoves DEF Ends, Stages

\* Waking the calls that joined keeps every call in shape.
LEMMA NotifiedFacts ==
    ASSUME CallsOK, reserved \in Nat, NEW id
    PROVE  /\ Notified(id) = [d \in Caller |-> Notified(id)[d]]
           /\ \A d \in Caller : GoodCall(Notified(id)[d], reserved)
           /\ \A d \in Caller : Notified(id)[d] # call[d] => call[d].pc = "joined"
<1> SUFFICES ASSUME NEW d \in Caller
             PROVE  /\ GoodCall(Notified(id)[d], reserved)
                    /\ Notified(id)[d] # call[d] => call[d].pc = "joined"
  BY Zenon DEF Notified
<1> DEFINE w == [call[d] EXCEPT !.pc = "begin", !.id = 0]
<1>1. GoodCall(call[d], reserved)
  BY DEF CallsOK
<1>2. CASE call[d].pc = "joined" /\ call[d].id = id
  <2>1. w \in CallRecord /\ w.pc = "begin" /\ w.answer = call[d].answer /\ w.id = 0
    BY <1>1 DEF GoodCall, CallRecord, CallPc
  <2>2. GoodCall(w, reserved)
    BY <1>1, <1>2, <2>1 DEF GoodCall
  <2>3. Notified(id)[d] = w
    BY <1>2 DEF Notified
  <2> QED
    BY <1>2, <2>2, <2>3
<1>3. CASE ~(call[d].pc = "joined" /\ call[d].id = id)
  <2>1. Notified(id)[d] = call[d]
    BY <1>3 DEF Notified
  <2> QED
    BY <1>1, <2>1
<1> QED
  BY <1>2, <1>3

\* A flight is completed: its call ends and those that joined are woken.
LEMMA FlightCompletes ==
    ASSUME FlightOK, NEW c \in Caller, NEW answer \in CallAnswer, NEW id,
           call' = [Notified(id) EXCEPT ![c] = Answered(answer)],
           NEW gen \in Gen, NEW installed \in Gen, NEW result \in RefreshResult,
           refresh' = Completed(gen, installed, result), UNCHANGED reserved
    PROVE  FlightOK'
<1>1. reserved \in Nat /\ CallsOK
  BY DEF FlightOK, RefreshOK
<1>2. RefreshOK'
  BY <1>1, CompletedFacts DEF RefreshOK
<1>3. /\ call' = [d \in Caller |-> call'[d]]
      /\ call'[c] = Answered(answer)
      /\ \A d \in Caller : d # c => call'[d] = Notified(id)[d]
  BY <1>1, NotifiedFacts
<1>4. GoodCall(Answered(answer), reserved)
  BY <1>1, AnsweredFacts DEF GoodCall
<1>5. CallsOK'
  <2> SUFFICES ASSUME NEW d \in Caller PROVE GoodCall(call'[d], reserved')
    BY <1>3 DEF CallsOK
  <2> QED
    BY <1>1, <1>3, <1>4, NotifiedFacts
<1>6. LineageOK'
  BY CompletedFacts DEF LineageOK
<1> QED
  BY <1>2, <1>5, <1>6 DEF FlightOK

\* What a call knows: its snapshot, once it has taken one, and its reservation.
LEMMA CallFacts ==
    ASSUME FlightOK, NEW c \in Caller
    PROVE  /\ GoodCall(call[c], reserved) /\ call[c].snap \in Snapshot /\ call[c].snap.gen \in Gen
           /\ call[c].snap.cred \in Cred /\ call[c].id \in Nat /\ call[c].id <= reserved
           /\ reserved \in Nat /\ refresh \in RefreshRecord /\ refresh.id <= reserved
<1>1. GoodCall(call[c], reserved)
  BY DEF FlightOK, CallsOK
<1> QED
  BY <1>1 DEF FlightOK, RefreshOK, GoodCall, CallRecord, Snapshot, Gen

(***************************************************************************)
(* The actions of a refresh call.                                          *)
(***************************************************************************)
\* Beginning a call, looking for a refreshed session, taking the snapshot.
LEMMA BeginsAreGood ==
    ASSUME OwnerOK, FlightOK, NEW c \in Caller,
           \/ \E t \in {"rejection", "checkpoint"} : Prepare(c, t)
           \/ LookForRefreshedSession(c) \/ PickSource(c),
           UNCHANGED <<issued, obtained>>
    PROVE  OwnerOK' /\ FlightOK'
<1>0. OwnerOK'
  BY DEF OwnerOK, Prepare, LookForRefreshedSession, PickSource
<1>1. ASSUME NEW t \in {"rejection", "checkpoint"}, Prepare(c, t) PROVE FlightOK'
  <2> DEFINE k == [NoCall EXCEPT !.pc = "begin", !.trigger = t]
  <2>1. /\ k \in CallRecord /\ k.pc = "begin" /\ k.id = 0 /\ k.answer = "none"
    BY NoCallFacts DEF CallRecord, CallPc, NoCall
  <2>2. call' = [call EXCEPT ![c] = k] /\ UNCHANGED <<refresh, reserved>>
    BY <1>1 DEF Prepare
  <2>3. 0 <= reserved
    BY CallFacts
  <2> HIDE DEF k
  <2> QED
    BY <2>1, <2>2, <2>3, OneCallMoves DEF Stages
<1>2. CASE LookForRefreshedSession(c)
  <2>0. UNCHANGED <<refresh, reserved>> /\ "reused" \in CallAnswer
    BY <1>2 DEF LookForRefreshedSession, CallAnswer
  <2>1. CASE Ends(c, "reused")
    BY <1>0, <2>0, <2>1, OneCallEnds
  <2>2. CASE call' = [call EXCEPT ![c] = [@ EXCEPT !.pc = "pick"]]
    <3> DEFINE k == [call[c] EXCEPT !.pc = "pick"]
    <3>1. /\ k \in CallRecord /\ k.pc = "pick" /\ k.id = call[c].id
          /\ k.answer = call[c].answer
      BY CallFacts DEF GoodCall, CallRecord, CallPc
    <3>2. call[c].answer = "none"
      BY <1>2, CallFacts DEF LookForRefreshedSession, GoodCall
    <3>3. call' = [call EXCEPT ![c] = k] /\ call[c].id <= reserved
      BY <2>2, CallFacts
    <3> HIDE DEF k
    <3> QED
      BY <1>0, <2>0, <3>1, <3>2, <3>3, OneCallMoves DEF Stages
  <2> QED
    BY <1>2, <2>1, <2>2 DEF LookForRefreshedSession
<1>3. CASE PickSource(c)
  <2>0. /\ UNCHANGED <<refresh, reserved>>
        /\ "notDue" \in CallAnswer /\ "noCredential" \in CallAnswer
    BY <1>3 DEF PickSource, CallAnswer
  <2>1. CASE Ends(c, "notDue") \/ Ends(c, "noCredential")
    BY <1>0, <2>0, <2>1, OneCallEnds
  <2>2. CASE /\ owner.state \in {"continuation", "expired", "authenticated"}
             /\ call' = [call EXCEPT ![c] = [@ EXCEPT !.pc = "arm", !.snap = Here]]
    <3> DEFINE k == [call[c] EXCEPT !.pc = "arm", !.snap = Here]
    <3>1. /\ k \in CallRecord /\ k.pc = "arm" /\ k.id = call[c].id
          /\ k.answer = call[c].answer /\ k.snap = Here
      BY CallFacts, HereFacts DEF GoodCall, CallRecord, CallPc
    <3>2. call[c].answer = "none"
      BY <1>3, CallFacts DEF PickSource, GoodCall
    <3>3. k.snap.cred \in RealCred
      BY <2>2, <3>1, HereFacts, SignedInHasCred
    <3>4. call' = [call EXCEPT ![c] = k] /\ call[c].id <= reserved
      BY <2>2, CallFacts
    <3> HIDE DEF k
    <3> QED
      BY <1>0, <2>0, <3>1, <3>2, <3>3, <3>4, OneCallMoves DEF Stages
  <2> QED
    BY <1>3, <2>1, <2>2 DEF PickSource
<1> QED
  BY <1>0, <1>1, <1>2, <1>3

\* The gate that refuses the login type.
LEMMA GateRefusesIsGood ==
    ASSUME OwnerOK, FlightOK, NEW c \in Caller, GateRefuses(c), UNCHANGED <<issued, obtained>>
    PROVE  OwnerOK' /\ FlightOK'
<1>1. OwnerOK'
  BY SignedOutIsGood DEF GateRefuses, OwnerOK
<1>2. FlightOK'
  BY OneCallEnds DEF GateRefuses, CallAnswer
<1> QED
  BY <1>1, <1>2

\* Joining a flight, taking over its result, or beginning a new one.
LEMMA ArmIsGood ==
    ASSUME OwnerOK, FlightOK, NEW c \in Caller, Arm(c), UNCHANGED <<issued, obtained>>
    PROVE  OwnerOK' /\ FlightOK'
<1>0. OwnerOK'
  BY DEF OwnerOK, Arm
<1>1. call[c].pc = "arm" /\ call[c].snap.cred \in RealCred /\ call[c].answer = "none"
  BY CallFacts DEF Arm, GoodCall
<1>2. CASE /\ call' = [call EXCEPT ![c] = [@ EXCEPT !.pc = "joined", !.id = refresh.id]]
           /\ UNCHANGED <<refresh, reserved>>
  <2> DEFINE k == [call[c] EXCEPT !.pc = "joined", !.id = refresh.id]
  <2>1. /\ k \in CallRecord /\ k.pc = "joined" /\ k.id = refresh.id
        /\ k.answer = call[c].answer /\ k.snap = call[c].snap
    BY CallFacts DEF GoodCall, CallRecord, CallPc, RefreshRecord
  <2>2. call' = [call EXCEPT ![c] = k]
    BY <1>2
  <2> HIDE DEF k
  <2> QED
    BY <1>0, <1>1, <1>2, <2>1, <2>2, CallFacts, OneCallMoves DEF Stages
<1>3. CASE /\ Ends(c, IF refresh.result = "ok" THEN "reused" ELSE refresh.result)
           /\ UNCHANGED <<refresh, reserved>>
  <2>1. (IF refresh.result = "ok" THEN "reused" ELSE refresh.result) \in CallAnswer
    BY CallFacts DEF RefreshRecord, RefreshResult, CallAnswer, Failure
  <2> QED
    BY <1>0, <1>3, <2>1, OneCallEnds
<1>4. CASE /\ reserved' = reserved + 1
           /\ refresh' = Reservation(reserved + 1, call[c].snap)
           /\ call' = [call EXCEPT ![c] = [@ EXCEPT !.pc = "asking", !.id = reserved + 1]]
  <2> DEFINE k == [call[c] EXCEPT !.pc = "asking", !.id = reserved + 1]
  <2>0. reserved + 1 \in Nat /\ call[c].snap \in Snapshot /\ call[c] \in CallRecord
    BY CallFacts DEF GoodCall
  <2>1. /\ k \in CallRecord /\ k.pc = "asking" /\ k.id = reserved + 1
        /\ k.answer = call[c].answer /\ k.snap = call[c].snap
    BY <2>0 DEF CallRecord, CallPc
  <2>2. call' = [call EXCEPT ![c] = k]
    BY <1>4
  <2>3. /\ refresh' \in RefreshRecord /\ refresh'.id = reserved + 1
        /\ refresh'.source = call[c].snap.cred /\ refresh'.cand = call[c].snap.cred
        /\ refresh'.verified = FALSE
    BY <1>4, <2>0, ReservationFacts
  <2>4. RefreshOK'
    BY <1>1, <1>4, <2>3, CallFacts DEF RefreshOK
  <2> HIDE DEF k
  <2>5. /\ call' = [d \in Caller |-> call'[d]]
        /\ call'[c] = k /\ \A d \in Caller : d # c => call'[d] = call[d]
    BY <2>2, CallUpdate DEF FlightOK
  <2>6. CallsOK'
    <3> SUFFICES ASSUME NEW d \in Caller PROVE GoodCall(call'[d], reserved')
      BY <2>5 DEF CallsOK
    <3>1. CASE d = c
      BY <1>1, <1>4, <2>1, <2>5, <3>1, CallFacts DEF GoodCall
    <3>2. CASE d # c
      <4>1. GoodCall(call[d], reserved) /\ call'[d] = call[d] /\ call[d].id \in Nat
        BY <2>5, <3>2, CallFacts
      <4>2. reserved \in Nat /\ reserved' = reserved + 1
        BY <1>4, CallFacts
      <4> HIDE DEF k
      <4> QED
        BY <4>1, <4>2 DEF GoodCall
    <3> QED
      BY <3>1, <3>2
  <2>7. LineageOK'
    <3>1. \A d \in Caller : ~(call'[d].pc \in Stages /\ call'[d].id = refresh'.id)
      <4> SUFFICES ASSUME NEW d \in Caller
                   PROVE  ~(call'[d].pc \in Stages /\ call'[d].id = refresh'.id)
        OBVIOUS
      <4>1. CASE d = c
        BY <2>1, <2>5, <4>1 DEF Stages
      <4>2. CASE d # c
        BY <2>3, <2>5, <4>2, CallFacts
      <4> QED
        BY <4>1, <4>2
    <3> QED
      BY <2>3, <3>1 DEF LineageOK
  <2> QED
    BY <1>0, <2>4, <2>6, <2>7 DEF FlightOK
<1> QED
  BY <1>2, <1>3, <1>4 DEF Arm

\* The refresh request failed.
LEMMA RefreshFailsIsGood ==
    ASSUME OwnerOK, FlightOK, NEW c \in Caller, NEW failure \in Failure, RefreshFails(c, failure)
    PROVE  OwnerOK' /\ FlightOK'
<1>0. OwnerOK'
  BY SignedOutIsGood DEF RefreshFails, OwnerOK
<1>1. /\ failure \in CallAnswer /\ failure \in RefreshResult /\ 0 \in Gen
      /\ call[c].snap.gen \in Gen
  BY CallFacts, SessionBoundsAssumption DEF CallAnswer, RefreshResult, Gen
<1>2. UNCHANGED <<reserved, issued, obtained>>
  BY DEF RefreshFails
<1>3. CASE Completes(c, failure, 0, failure)
  BY <1>0, <1>1, <1>2, <1>3, FlightCompletes DEF Completes
<1>4. CASE Ends(c, failure) /\ UNCHANGED refresh
  BY <1>0, <1>1, <1>2, <1>4, OneCallEnds
<1> QED
  BY <1>3, <1>4 DEF RefreshFails

\* The server answers a refresh with a new key.
LEMMA RefreshAnswersIsGood ==
    ASSUME OwnerOK, FlightOK, ServerOK, NEW c \in Caller, RefreshAnswers(c), UNCHANGED accepted
    PROVE  OwnerOK' /\ FlightOK' /\ ServerOK'
<1>0. OwnerOK'
  BY DEF RefreshAnswers, OwnerOK
<1> DEFINE a == call[c].snap.cred.account
           n == issued + 1
<1>1. /\ call[c].pc = "asking" /\ call[c].snap.cred \in RealCred /\ call[c].snap \in Snapshot
      /\ call[c].answer = "none" /\ call[c] \in CallRecord /\ a \in Account
      /\ call[c].snap.gen \in Gen
  BY CallFacts DEF RefreshAnswers, GoodCall, RealCred
<1>2. /\ NewCred(a) \in RealCred /\ NewCred(a).key = n
      /\ issued' \in 1..MaxKey /\ issued' = n /\ n \in 1..MaxKey /\ issued \in 1..MaxKey
  BY <1>1, NewCredFacts DEF RefreshAnswers, ServerOK
<1> HIDE DEF a
<1>3. obtained' = [obtained EXCEPT ![n] = call[c].snap] /\ obtained \in [1..MaxKey -> Snapshot]
  BY DEF RefreshAnswers, ServerOK
<1> HIDE DEF n
<1>4. /\ obtained'[n] = call[c].snap
      /\ \A m \in 1..MaxKey : m # n => obtained'[m] = obtained[m]
      /\ obtained' \in [1..MaxKey -> Snapshot]
  BY <1>1, <1>2, <1>3
<1>5. ServerOK'
  BY <1>2, <1>4 DEF ServerOK
<1>6. UNCHANGED reserved
  BY DEF RefreshAnswers
<1>7. /\ "replaced" \in CallAnswer /\ "replaced" \in RefreshResult /\ 0 \in Gen
  BY SessionBoundsAssumption DEF CallAnswer, RefreshResult, Gen
<1>8. CASE Ends(c, "replaced") /\ UNCHANGED refresh
  <2>1. ASSUME refresh.phase = "active", Lineage PROVE Lineage'
    <3>1. refresh.cand.key \in 1..MaxKey /\ refresh.cand.key <= issued
      BY <2>1 DEF FlightOK, RefreshOK, RealCred, Lineage
    <3>2. refresh.cand.key # n
      BY <1>2, <3>1 DEF n
    <3>3. refresh.cand.key <= issued'
      BY <1>2, <3>1 DEF n
    <3> QED
      BY <1>4, <1>8, <2>1, <3>1, <3>2, <3>3 DEF Lineage
  <2> QED
    BY <1>0, <1>5, <1>6, <1>7, <1>8, <2>1, OneCallEnds
<1>9. CASE Completes(c, "replaced", 0, "replaced")
  BY <1>0, <1>1, <1>5, <1>6, <1>7, <1>9, FlightCompletes DEF Completes
<1>10. CASE /\ refresh.phase = "active" /\ StillAskedFor(c)
            /\ refresh' = [refresh EXCEPT !.cand = NewCred(a)]
            /\ call' = [call EXCEPT ![c] = [@ EXCEPT !.pc = "staged", !.id = refresh.id]]
  <2> DEFINE k == [call[c] EXCEPT !.pc = "staged", !.id = refresh.id]
  <2>0. refresh \in RefreshRecord /\ refresh.id \in Nat /\ NewCred(a) \in Cred
    BY <1>2, CallFacts, CredFacts DEF RefreshRecord
  <2>1. /\ k \in CallRecord /\ k.pc = "staged" /\ k.id = refresh.id
        /\ k.answer = call[c].answer /\ k.snap = call[c].snap
    BY <1>1, <2>0 DEF CallRecord, CallPc
  <2>2. /\ refresh' \in RefreshRecord /\ refresh'.phase = "active" /\ refresh'.id = refresh.id
        /\ refresh'.source = refresh.source /\ refresh'.gen = refresh.gen
        /\ refresh'.cand = NewCred(a)
    BY <1>10, <2>0 DEF RefreshRecord
  <2>3. call' = [call EXCEPT ![c] = k]
    BY <1>10
  <2> HIDE DEF k
  <2>4. RefreshOK'
    BY <1>2, <1>6, <1>10, <2>2 DEF FlightOK, RefreshOK
  <2>5. GoodCall(k, reserved)
    BY <1>1, <2>1, CallFacts DEF GoodCall
  <2>6. CallsOK'
    BY <1>6, <2>3, <2>5, CallUpdate DEF FlightOK, CallsOK
  <2>7. call[c].snap = [cred |-> refresh.source, gen |-> refresh.gen]
    BY <1>1, <1>10 DEF StillAskedFor, Snapshot
  <2>8. Lineage'
    BY <1>2, <1>4, <2>2, <2>7 DEF Lineage
  <2> QED
    BY <1>0, <1>5, <2>4, <2>6, <2>8 DEF FlightOK, LineageOK
<1> QED
  BY <1>8, <1>9, <1>10 DEF RefreshAnswers, a

\* Taking the staged candidate to verify it.
LEMMA VerifyStagedIsGood ==
    ASSUME OwnerOK, FlightOK, NEW c \in Caller, VerifyStaged(c), UNCHANGED <<issued, obtained>>
    PROVE  OwnerOK' /\ FlightOK'
<1>0. OwnerOK' /\ UNCHANGED <<refresh, reserved>>
  BY DEF VerifyStaged, OwnerOK
<1>1. /\ call[c].pc = "staged" /\ call[c] \in CallRecord /\ call[c].answer = "none"
      /\ call[c].id <= reserved
  BY CallFacts DEF VerifyStaged, GoodCall
<1> DEFINE s == [cred |-> refresh.source, gen |-> refresh.gen]
           k == [call[c] EXCEPT !.pc = "verifying", !.cand = refresh.cand, !.snap = s]
<1>2. CASE refresh.phase = "active" /\ call' = [call EXCEPT ![c] = k]
  <2>1. /\ refresh.source \in RealCred /\ refresh.cand \in Cred /\ s \in Snapshot
        /\ s.cred = refresh.source
    BY <1>2 DEF FlightOK, RefreshOK, RefreshRecord, Snapshot, Gen
  <2> HIDE DEF s
  <2>2. /\ k \in CallRecord /\ k.pc = "verifying" /\ k.id = call[c].id
        /\ k.answer = call[c].answer /\ k.snap = s
    BY <1>1, <2>1 DEF CallRecord, CallPc
  <2> HIDE DEF k
  <2> QED
    BY <1>0, <1>1, <1>2, <2>1, <2>2, OneCallMoves DEF Stages
<1>3. CASE Ends(c, "replaced")
  <2>1. "replaced" \in CallAnswer
    BY DEF CallAnswer
  <2> QED
    BY <1>0, <1>3, <2>1, OneCallEnds
<1> QED
  BY <1>2, <1>3 DEF VerifyStaged

\* The server's verdict on the staged candidate.
LEMMA StagedAnswersIsGood ==
    ASSUME OwnerOK, FlightOK, ServerOK, NEW c \in Caller, NEW outcome \in Failure \cup {"ok"},
           StagedAnswers(c, outcome), UNCHANGED <<issued, obtained>>
    PROVE  OwnerOK' /\ FlightOK' /\ ServerOK'
<1>0. OwnerOK' /\ UNCHANGED reserved
  BY SignedOutIsGood DEF StagedAnswers, OwnerOK
<1>1. /\ call[c].pc = "verifying" /\ call[c] \in CallRecord /\ call[c].answer = "none"
      /\ call[c].snap.cred \in RealCred /\ call[c].cand \in Cred /\ call[c].snap.gen \in Gen
      /\ call[c].id <= reserved
  BY CallFacts DEF StagedAnswers, GoodCall, CallRecord
<1>2. ServerOK'
  BY <1>1 DEF StagedAnswers, ServerOK
<1>3. "replaced" \in CallAnswer /\ 0 \in Gen
  BY SessionBoundsAssumption DEF CallAnswer, Gen
<1>4. CASE Ends(c, "replaced") /\ UNCHANGED refresh
  BY <1>0, <1>2, <1>3, <1>4, OneCallEnds
<1>5. CASE outcome # "ok" /\ Completes(c, outcome, 0, outcome)
  <2>1. outcome \in CallAnswer /\ outcome \in RefreshResult
    BY <1>5 DEF CallAnswer, RefreshResult
  <2> QED
    BY <1>0, <1>1, <1>2, <1>3, <1>5, <2>1, FlightCompletes DEF Completes
<1>6. CASE /\ HoldsReservation(c)
           /\ refresh' = [refresh EXCEPT !.verified = TRUE]
           /\ call' = [call EXCEPT ![c] = [@ EXCEPT !.pc = "verified"]]
  <2> DEFINE k == [call[c] EXCEPT !.pc = "verified"]
  <2>1. /\ k \in CallRecord /\ k.pc = "verified" /\ k.id = call[c].id
        /\ k.answer = call[c].answer /\ k.snap = call[c].snap
    BY <1>1 DEF CallRecord, CallPc
  <2>2. refresh \in RefreshRecord
    BY CallFacts
  <2>3. /\ refresh' \in RefreshRecord /\ refresh'.phase = refresh.phase
        /\ refresh'.id = refresh.id /\ refresh'.cand = refresh.cand
        /\ refresh'.source = refresh.source /\ refresh'.gen = refresh.gen
    BY <1>6, <2>2 DEF RefreshRecord
  <2>4. call' = [call EXCEPT ![c] = k]
    BY <1>6
  <2> HIDE DEF k
  <2>5. RefreshOK'
    BY <1>0, <2>3 DEF FlightOK, RefreshOK
  <2>6. GoodCall(k, reserved)
    BY <1>1, <2>1 DEF GoodCall
  <2>7. CallsOK'
    BY <1>0, <2>4, <2>6, CallUpdate DEF FlightOK, CallsOK
  <2>8. Lineage
    BY <1>1, <1>6 DEF HoldsReservation, FlightOK, LineageOK, Stages
  <2>9. Lineage'
    BY <2>3, <2>8 DEF Lineage
  <2> QED
    BY <1>0, <1>2, <2>5, <2>7, <2>9 DEF FlightOK, LineageOK
<1> QED
  BY <1>4, <1>5, <1>6 DEF StagedAnswers

\* Committing the staged candidate, or giving it up.
LEMMA CommitIsGood ==
    ASSUME OwnerOK, FlightOK, NEW c \in Caller, CommitStaged(c) \/ AbortRefresh(c),
           UNCHANGED <<issued, obtained>>
    PROVE  OwnerOK' /\ FlightOK'
<1>0. UNCHANGED reserved
  BY DEF CommitStaged, AbortRefresh
<1>1. /\ call[c].snap.gen \in Gen /\ refresh \in RefreshRecord /\ refresh.gen \in Gen
  BY CallFacts DEF RefreshRecord
<1>2. /\ {"replaced", "continued", "storage"} \subseteq CallAnswer
      /\ {"ok", "storage"} \subseteq RefreshResult /\ 0 \in Gen
  BY SessionBoundsAssumption DEF CallAnswer, RefreshResult, Gen
<1>3. CASE Ends(c, "replaced") /\ UNCHANGED <<owner, refresh>>
  <2>1. OwnerOK'
    BY <1>3 DEF OwnerOK
  <2> QED
    BY <1>0, <1>2, <1>3, <2>1, OneCallEnds
<1>4. CASE /\ HoldsReservation(c) /\ Replace("authenticated", refresh.cand)
           /\ Completes(c, "continued", owner.gen + 1, "ok")
  <2>1. refresh.cand \in Cred /\ refresh.cand # NoCred /\ "authenticated" \in SessionState
    BY <1>4, CredFacts DEF HoldsReservation, FlightOK, RefreshOK, SessionState
  <2>2. OwnerOK'
    BY <1>4, <2>1, ReplaceIsGood
  <2>3. owner.gen + 1 \in Gen
    BY <1>4, SessionBoundsAssumption DEF Replace, OwnerOK, Gen
  <2> QED
    BY <1>0, <1>1, <1>2, <1>4, <2>2, <2>3, FlightCompletes DEF Completes
<1>5. CASE /\ refresh' = Completed(refresh.gen, 0, "storage")
           /\ call' = [Notified(refresh.id) EXCEPT ![c] = Answered("storage")]
           /\ UNCHANGED owner
  <2>1. OwnerOK'
    BY <1>5 DEF OwnerOK
  <2> QED
    BY <1>0, <1>1, <1>2, <1>5, <2>1, FlightCompletes
<1> QED
  BY <1>3, <1>4, <1>5 DEF CommitStaged, AbortRefresh

(***************************************************************************)
(* Any step of a refresh call.                                             *)
(***************************************************************************)
LEMMA CallStepIsGood ==
    ASSUME SessionInv, NEW c \in Caller, CallStep(c)
    PROVE  SessionInv'
<1>0. OwnerOK /\ FlightOK /\ ServerOK
  BY DEF SessionInv
<1>1. ReadsOK' /\ VerifyOK' /\ LoginOK'
  BY DEF SessionInv, CallStep, ReadsOK, VerifyOK, LoginOK, verifyVars
<1>2. CASE /\ \/ \E t \in {"rejection", "checkpoint"} : Prepare(c, t)
              \/ LookForRefreshedSession(c) \/ PickSource(c)
              \/ GateRefuses(c) \/ Arm(c)
              \/ VerifyStaged(c) \/ CommitStaged(c) \/ AbortRefresh(c)
           /\ UNCHANGED <<issued, obtained, accepted>>
  <2>1. ServerOK' /\ UNCHANGED <<issued, obtained>>
    BY <1>0, <1>2 DEF ServerOK
  <2>2. CASE \/ \E t \in {"rejection", "checkpoint"} : Prepare(c, t)
             \/ LookForRefreshedSession(c) \/ PickSource(c)
    BY <1>0, <1>1, <2>1, <2>2, BeginsAreGood DEF SessionInv
  <2>3. CASE GateRefuses(c)
    BY <1>0, <1>1, <2>1, <2>3, GateRefusesIsGood DEF SessionInv
  <2>4. CASE Arm(c)
    BY <1>0, <1>1, <2>1, <2>4, ArmIsGood DEF SessionInv
  <2>5. CASE VerifyStaged(c)
    BY <1>0, <1>1, <2>1, <2>5, VerifyStagedIsGood DEF SessionInv
  <2>6. CASE CommitStaged(c) \/ AbortRefresh(c)
    BY <1>0, <1>1, <2>1, <2>6, CommitIsGood DEF SessionInv
  <2> QED
    BY <1>2, <2>2, <2>3, <2>4, <2>5, <2>6
<1>3. CASE RefreshAnswers(c) /\ UNCHANGED accepted
  BY <1>0, <1>1, <1>3, RefreshAnswersIsGood DEF SessionInv
<1>4. CASE (\E f \in Failure : RefreshFails(c, f)) /\ UNCHANGED accepted
  <2>1. PICK f \in Failure : RefreshFails(c, f)
    BY <1>4
  <2>2. ServerOK'
    BY <1>0, <1>4, <2>1 DEF ServerOK, RefreshFails
  <2> QED
    BY <1>0, <1>1, <2>1, <2>2, RefreshFailsIsGood DEF SessionInv
<1>5. CASE (\E f \in Failure \cup {"ok"} : StagedAnswers(c, f)) /\ UNCHANGED <<issued, obtained>>
  <2>1. PICK f \in Failure \cup {"ok"} : StagedAnswers(c, f)
    BY <1>5
  <2> QED
    BY <1>0, <1>1, <1>5, <2>1, StagedAnswersIsGood DEF SessionInv
<1> QED
  BY <1>2, <1>3, <1>4, <1>5 DEF CallStep

(***************************************************************************)
(* The steps that leave the coordinator alone.                             *)
(***************************************************************************)
LEMMA FlightUnchanged ==
    ASSUME FlightOK, UNCHANGED <<refreshVars, issued, obtained>>
    PROVE  FlightOK'
BY DEF FlightOK, RefreshOK, CallsOK, LineageOK, Lineage, refreshVars

\* A signed read.
LEMMA ReadStepIsGood ==
    ASSUME SessionInv, NEW r \in Reader, ReadStep(r)
    PROVE  SessionInv'
<1>0. OwnerOK /\ FlightOK /\ ReadsOK
  BY DEF SessionInv
<1>1. FlightOK'
  BY <1>0, FlightUnchanged DEF ReadStep
<1>2. VerifyOK' /\ LoginOK' /\ ServerOK'
  BY DEF SessionInv, ReadStep, VerifyOK, LoginOK, ServerOK, verifyVars
<1>3. CASE StartRead(r)
  <2>1. Here \in Snapshot
    BY <1>0, HereFacts
  <2>2. OwnerOK' /\ ReadsOK'
    BY <1>0, <1>3, <2>1 DEF StartRead, OwnerOK, ReadsOK
  <2> QED
    BY <1>1, <1>2, <2>2 DEF SessionInv
<1>4. ASSUME NEW rejected \in BOOLEAN, FinishRead(r, rejected) PROVE SessionInv'
  <2>1. [cred |-> NoCred, gen |-> 0] \in Snapshot
    BY NoCallFacts, CredFacts, SessionBoundsAssumption DEF Snapshot
  <2>2. \A pc \in {"ok", "rejected", "replaced"} :
            [NoRead EXCEPT !.pc = pc] \in [pc : {"idle", "reading", "ok", "rejected", "replaced"},
                                           snap : Snapshot]
    BY <2>1 DEF NoRead
  <2>3. \E pc \in {"ok", "rejected", "replaced"} :
            read' = [read EXCEPT ![r] = [NoRead EXCEPT !.pc = pc]]
    BY <1>4 DEF FinishRead
  <2>4. ReadsOK'
    BY <1>0, <2>2, <2>3 DEF ReadsOK
  <2>5. CASE UNCHANGED owner
    BY <1>0, <1>1, <1>2, <2>4, <2>5 DEF SessionInv, OwnerOK
  <2>6. CASE MatchesSnapshot(read[r].snap) /\ MarkContinuationRequired(read[r].snap)
    <3>1. owner.state # "signedOut" /\ read[r].snap.cred = owner.cred
      BY <1>0, <2>6, HereFacts DEF MatchesSnapshot
    <3>2. owner'.state = "continuation" /\ owner'.cred = owner.cred /\ OwnerOK'
      BY <1>0, <2>6, <3>1 DEF MarkContinuationRequired, OwnerOK, SessionState
    <3> QED
      BY <1>1, <1>2, <2>4, <3>2 DEF SessionInv
  <2> QED
    BY <1>4, <2>5, <2>6 DEF FinishRead
<1> QED
  BY <1>3, <1>4 DEF ReadStep

\* Clearing the active verification supersedes it.
LEMMA ClearIsGood ==
    ASSUME VerifyOK, ClearVerification, UNCHANGED <<numbered, attempt>>
    PROVE  VerifyOK'
BY DEF VerifyOK, ClearVerification, Superseded

\* Reserving, cancelling, beginning and ending a verification.
LEMMA VerificationStepIsGood ==
    ASSUME SessionInv, VerificationStep
    PROVE  SessionInv'
<1>0. OwnerOK /\ FlightOK /\ VerifyOK /\ ServerOK
  BY DEF SessionInv
<1>1. FlightOK' /\ ReadsOK' /\ LoginOK'
  BY <1>0, FlightUnchanged DEF SessionInv, VerificationStep, ReadsOK, LoginOK
<1> DEFINE Rec == [pc : {"idle", "reserved", "verifying"}, id : Nat, cand : Cred]
<1>2. NoAttempt \in Rec /\ NoAttempt.pc = "idle"
  BY CredFacts DEF NoAttempt
<1>3. CASE /\ \/ ReserveVerification
              \/ \E v \in Attempt : CancelVerification(v) \/ StartVerification(v)
           /\ UNCHANGED <<owner, accepted>>
  <2>0. OwnerOK' /\ ServerOK'
    BY <1>0, <1>3 DEF VerificationStep, OwnerOK, ServerOK
  <2>1. CASE ReserveVerification
    <3>1. PICK v \in Attempt :
              attempt' = [attempt EXCEPT ![v] = [NoAttempt EXCEPT !.pc = "reserved",
                                                                  !.id = numbered + 1]]
      BY <2>1 DEF ReserveVerification
    <3> DEFINE k == [NoAttempt EXCEPT !.pc = "reserved", !.id = numbered + 1]
    <3>2. k \in Rec /\ k.pc = "reserved"
      <4>1. numbered + 1 \in Nat
        BY <1>0 DEF VerifyOK
      <4> QED
        BY <4>1, CredFacts DEF NoAttempt
    <3> HIDE DEF k
    <3>3. /\ attempt' \in [Attempt -> Rec]
          /\ \A w \in Attempt : attempt'[w].pc = "verifying" => attempt'[w] = attempt[w]
      BY <1>0, <3>1, <3>2 DEF VerifyOK, k
    <3>4. /\ numbered' = numbered + 1 /\ active' = numbered + 1
          /\ ended' = ended \cup ({active} \ {0})
      BY <2>1 DEF ReserveVerification, Superseded
    <3>5. VerifyOK'
      BY <1>0, <3>3, <3>4 DEF VerifyOK
    <3> QED
      BY <1>1, <2>0, <3>5 DEF SessionInv
  <2>2. ASSUME NEW v \in Attempt, CancelVerification(v) PROVE SessionInv'
    <3>1. VerifyOK'
      BY <1>0, <2>2, ClearIsGood DEF CancelVerification
    <3> QED
      BY <1>1, <2>0, <3>1 DEF SessionInv
  <2>3. ASSUME NEW v \in Attempt, StartVerification(v) PROVE SessionInv'
    <3> DEFINE k == [attempt[v] EXCEPT !.pc = "verifying", !.cand = owner.cred]
    <3>1. CASE owner.state = "pending" /\ attempt' = [attempt EXCEPT ![v] = k]
      <4>1. owner.cred \in RealCred /\ owner.cred \in Cred
        BY <1>0, <3>1, CredFacts, SignedInHasCred
      <4>2. k \in Rec /\ k.cand = owner.cred
        BY <1>0, <4>1 DEF VerifyOK
      <4> HIDE DEF k
      <4>3. /\ attempt' \in [Attempt -> Rec]
            /\ \A w \in Attempt : attempt'[w] = attempt[w] \/ attempt'[w].cand \in RealCred
        BY <1>0, <3>1, <4>1, <4>2 DEF VerifyOK
      <4>4. VerifyOK'
        BY <1>0, <2>3, <4>3 DEF VerifyOK, StartVerification
      <4> QED
        BY <1>1, <2>0, <4>4 DEF SessionInv
    <3>2. CASE attempt' = [attempt EXCEPT ![v] = NoAttempt]
      <4>1. /\ attempt' \in [Attempt -> Rec]
            /\ \A w \in Attempt : attempt'[w] = attempt[w] \/ attempt'[w].pc = "idle"
        BY <1>0, <1>2, <3>2 DEF VerifyOK
      <4>2. VerifyOK'
        BY <1>0, <2>3, <4>1 DEF VerifyOK, StartVerification
      <4> QED
        BY <1>1, <2>0, <4>2 DEF SessionInv
    <3> QED
      BY <2>3, <3>1, <3>2 DEF StartVerification
  <2> QED
    BY <1>3, <2>1, <2>2, <2>3
<1>4. ASSUME NEW v \in Attempt, NEW f \in Failure \cup {"ok"}, VerificationAnswers(v, f)
      PROVE  SessionInv'
  <2>0. /\ attempt[v].cand \in RealCred /\ attempt[v].cand \in Cred
        /\ attempt[v].cand # NoCred
    BY <1>0, <1>4, CredFacts DEF VerificationAnswers, VerifyOK
  <2>1. /\ attempt' \in [Attempt -> Rec]
        /\ \A w \in Attempt : attempt'[w] = attempt[w] \/ attempt'[w].pc = "idle"
    BY <1>0, <1>2, <1>4 DEF VerifyOK, VerificationAnswers
  <2>2. (active' = 0 \/ active' = active) /\ UNCHANGED <<numbered, ended>>
    BY <1>4 DEF VerificationAnswers
  <2>3. VerifyOK'
    BY <1>0, <2>1, <2>2 DEF VerifyOK
  <2>4. ServerOK'
    BY <1>0, <1>4, <2>0 DEF VerificationStep, VerificationAnswers, ServerOK
  <2>5. CASE Replace("authenticated", attempt[v].cand)
    <3>1. "authenticated" \in SessionState
      BY DEF SessionState
    <3>2. OwnerOK'
      BY <1>0, <2>0, <2>5, <3>1, ReplaceIsGood
    <3> QED
      BY <1>1, <2>3, <2>4, <3>2 DEF SessionInv
  <2>6. CASE SignedOut
    BY <1>0, <1>1, <2>3, <2>4, <2>6, SignedOutIsGood DEF SessionInv
  <2>7. CASE UNCHANGED owner
    BY <1>0, <1>1, <2>3, <2>4, <2>7 DEF SessionInv, OwnerOK
  <2> QED
    BY <1>4, <2>5, <2>6, <2>7 DEF VerificationAnswers
<1> QED
  BY <1>3, <1>4 DEF VerificationStep

\* Restoring a session, or nothing.
LEMMA RestoreStepIsGood ==
    ASSUME SessionInv, RestoreStep
    PROVE  SessionInv'
<1>0. OwnerOK /\ FlightOK /\ VerifyOK /\ ServerOK
  BY DEF SessionInv
<1>1. FlightOK' /\ ReadsOK' /\ LoginOK' /\ ServerOK'
  BY <1>0, FlightUnchanged DEF SessionInv, RestoreStep, ReadsOK, LoginOK, ServerOK
<1>2. VerifyOK'
  BY <1>0, ClearIsGood DEF RestoreStep, Restore
<1>3. CASE SignedOut
  BY <1>0, <1>1, <1>2, <1>3, SignedOutIsGood DEF SessionInv
<1>4. ASSUME NEW a \in Account, NEW k \in 1..issued, NEW state \in {"pending", "expired"},
             Replace(state, [account |-> a, key |-> k])
      PROVE  SessionInv'
  <2>1. k \in 1..MaxKey
    BY <1>0, SessionBoundsAssumption DEF ServerOK
  <2>2. [account |-> a, key |-> k] \in RealCred
    BY <2>1 DEF RealCred
  <2>3. /\ [account |-> a, key |-> k] \in Cred /\ [account |-> a, key |-> k] # NoCred
        /\ state \in SessionState /\ state # "signedOut"
    BY <2>2, CredFacts DEF SessionState
  <2>4. OwnerOK'
    BY <1>0, <1>4, <2>3, ReplaceIsGood
  <2> QED
    BY <1>1, <1>2, <2>4 DEF SessionInv
<1> QED
  BY <1>3, <1>4 DEF RestoreStep, Restore

LEMMA NoLoginFacts == NoLogin \in LoginRecord /\ NoLogin.pc = "idle"
BY CredFacts DEF NoLogin, LoginRecord

\* Calling sessions off, and changing one of them to a shape of its own.
LEMMA LoginMoves ==
    ASSUME LoginOK, NEW l \in Login, NEW k \in LoginRecord, NEW kind,
           k.pc = "won" => k.cred \in RealCred,
           \/ login' = [login EXCEPT ![l] = k]
           \/ login' = [CalledOff(kind) EXCEPT ![l] = k]
    PROVE  LoginOK'
<1>1. \A m \in Login : login[m] \in LoginRecord
  BY DEF LoginOK, LoginRecord
<1>2. /\ CalledOff(kind) \in [Login -> LoginRecord]
      /\ \A m \in Login : CalledOff(kind)[m] \in {login[m], NoLogin}
  BY <1>1, NoLoginFacts DEF CalledOff
<1>3. /\ login' \in [Login -> LoginRecord]
      /\ \A m \in Login : login'[m] \in {login[m], NoLogin, k}
  <2>1. CASE login' = [login EXCEPT ![l] = k]
    BY <2>1 DEF LoginOK, LoginRecord
  <2>2. CASE login' = [CalledOff(kind) EXCEPT ![l] = k]
    BY <1>2, <2>2
  <2> QED
    BY <2>1, <2>2
<1> QED
  BY <1>3, NoLoginFacts DEF LoginOK, LoginRecord

\* A login session begins, is decided, ends, or installs what it was given.
LEMMA LoginStepIsGood ==
    ASSUME SessionInv, LoginStep
    PROVE  SessionInv'
<1>0. OwnerOK /\ FlightOK /\ VerifyOK /\ LoginOK /\ ServerOK
  BY DEF SessionInv
<1>1. UNCHANGED <<refreshVars, read, obtained>> /\ ReadsOK'
  BY DEF SessionInv, LoginStep, ReadsOK
<1>2. CASE (\E l \in Login : BeginQr(l) \/ BeginDesktop(l)) /\ UNCHANGED <<issued, accepted>>
  <2>1. PICK l \in Login : BeginQr(l) \/ BeginDesktop(l)
    BY <1>2
  <2>2. OwnerOK'
    BY <1>0, <2>1, SignedOutIsGood DEF BeginQr, BeginDesktop, GivesUpUnverified, OwnerOK
  <2>3. VerifyOK'
    BY <1>0, <2>1, ClearIsGood DEF BeginQr, BeginDesktop, GivesUpUnverified
  <2>4. /\ [NoLogin EXCEPT !.kind = "qr", !.pc = "waiting"] \in LoginRecord
        /\ [NoLogin EXCEPT !.kind = "qr", !.pc = "waiting"].pc # "won"
        /\ [NoLogin EXCEPT !.kind = "desktop", !.pc = "discovering"] \in LoginRecord
        /\ [NoLogin EXCEPT !.kind = "desktop", !.pc = "discovering"].pc # "won"
    BY CredFacts DEF NoLogin, LoginRecord
  <2>5. LoginOK'
    BY <1>0, <2>1, <2>4, LoginMoves DEF BeginQr, BeginDesktop
  <2>6. FlightOK' /\ ServerOK'
    BY <1>0, <1>1, <1>2, FlightUnchanged DEF ServerOK
  <2> QED
    BY <1>1, <2>2, <2>3, <2>5, <2>6 DEF SessionInv
<1>3. CASE /\ \E l \in Login : DesktopDiscovered(l) \/ LoginEnds(l)
           /\ UNCHANGED <<owner, verifyVars, issued, accepted>>
  <2>1. PICK l \in Login : DesktopDiscovered(l) \/ LoginEnds(l)
    BY <1>3
  <2>2. OwnerOK' /\ VerifyOK' /\ ServerOK' /\ FlightOK'
    BY <1>0, <1>1, <1>3, FlightUnchanged DEF OwnerOK, VerifyOK, ServerOK, verifyVars
  <2> DEFINE k == [login[l] EXCEPT !.pc = "waiting"]
  <2>3. k \in LoginRecord /\ k.pc = "waiting"
    BY <1>0 DEF LoginOK, LoginRecord
  <2>4. CASE DesktopDiscovered(l)
    <3>1. CalledOff("desktop")[l] = login[l]
      BY <2>4 DEF DesktopDiscovered, CalledOff
    <3>2. login' = [CalledOff("desktop") EXCEPT ![l] = k]
      BY <2>4, <3>1 DEF DesktopDiscovered
    <3> HIDE DEF k
    <3>3. LoginOK'
      BY <1>0, <2>3, <3>2, LoginMoves
    <3> QED
      BY <1>1, <2>2, <3>3 DEF SessionInv
  <2>5. CASE LoginEnds(l)
    <3>1. LoginOK'
      BY <1>0, <2>5, NoLoginFacts, LoginMoves DEF LoginEnds
    <3> QED
      BY <1>1, <2>2, <3>1 DEF SessionInv
  <2> QED
    BY <2>1, <2>4, <2>5
<1>4. CASE /\ \E l \in Login, a \in Account : LoginWon(l, a)
           /\ UNCHANGED <<owner, verifyVars>>
  <2>1. PICK l \in Login, a \in Account : LoginWon(l, a)
    BY <1>4
  <2>2. OwnerOK' /\ VerifyOK'
    BY <1>0, <1>4 DEF OwnerOK, VerifyOK, verifyVars
  <2>3. /\ NewCred(a) \in RealCred /\ NewCred(a) \in Cred
        /\ issued' \in 1..MaxKey /\ issued' = issued + 1 /\ issued \in Nat
    BY <1>0, <2>1, NewCredFacts, CredFacts DEF LoginWon, ServerOK
  <2>4. ServerOK'
    BY <1>0, <1>1, <2>1, <2>3 DEF LoginWon, ServerOK
  <2> DEFINE k == [login[l] EXCEPT !.pc = "won", !.cred = NewCred(a)]
  <2>5. k \in LoginRecord /\ k.cred \in RealCred
    BY <1>0, <2>3 DEF LoginOK, LoginRecord
  <2>6. login' = [login EXCEPT ![l] = k]
    BY <2>1 DEF LoginWon
  <2> HIDE DEF k
  <2>7. LoginOK'
    BY <1>0, <2>5, <2>6, LoginMoves
  <2>8. ASSUME refresh.phase = "active", Lineage PROVE Lineage'
    <3>1. refresh.cand.key \in Nat /\ refresh.cand.key <= issued
      BY <1>0, <2>8 DEF FlightOK, RefreshOK, RealCred, Lineage
    <3>2. refresh' = refresh /\ obtained' = obtained
      BY <1>1 DEF refreshVars
    <3> QED
      BY <2>3, <2>8, <3>1, <3>2 DEF Lineage
  <2>9. FlightOK'
    <3>1. RefreshOK' /\ CallsOK' /\ refresh' = refresh /\ call' = call
      BY <1>0, <1>1 DEF FlightOK, RefreshOK, CallsOK, refreshVars
    <3>2. LineageOK'
      BY <1>0, <2>8, <3>1 DEF FlightOK, LineageOK
    <3> QED
      BY <3>1, <3>2 DEF FlightOK
  <2> QED
    BY <1>1, <2>2, <2>4, <2>7, <2>9 DEF SessionInv
<1>5. CASE /\ \E l \in Login : LoginInstalls(l)
           /\ UNCHANGED <<verifyVars, issued, accepted>>
  <2>1. PICK l \in Login : LoginInstalls(l)
    BY <1>5
  <2>2. VerifyOK' /\ ServerOK' /\ FlightOK'
    BY <1>0, <1>1, <1>5, FlightUnchanged DEF VerifyOK, ServerOK, verifyVars
  <2>3. /\ login[l].cred \in Cred /\ login[l].cred # NoCred
        /\ "authenticated" \in SessionState
    BY <1>0, <2>1, CredFacts DEF LoginInstalls, LoginOK, SessionState
  <2>4. OwnerOK'
    BY <1>0, <2>1, <2>3, ReplaceIsGood DEF LoginInstalls
  <2>5. LoginOK'
    BY <1>0, <2>1, NoLoginFacts, LoginMoves DEF LoginInstalls
  <2> QED
    BY <1>1, <2>2, <2>4, <2>5 DEF SessionInv
<1> QED
  BY <1>2, <1>3, <1>4, <1>5 DEF LoginStep

\* Signing out.
LEMMA SignOutStepIsGood ==
    ASSUME SessionInv, SignOutStep
    PROVE  SessionInv'
<1>0. OwnerOK /\ FlightOK /\ VerifyOK /\ LoginOK /\ ServerOK
  BY DEF SessionInv
<1>1. FlightOK' /\ ReadsOK' /\ ServerOK'
  BY <1>0, FlightUnchanged DEF SessionInv, SignOutStep, ReadsOK, ServerOK
<1>2. OwnerOK' /\ VerifyOK'
  BY <1>0, SignedOutIsGood, ClearIsGood DEF SignOutStep, SignOut
<1>3. \A m \in Login : login[m] \in LoginRecord
  BY <1>0 DEF LoginOK, LoginRecord
<1>4. /\ login' \in [Login -> LoginRecord]
      /\ \A m \in Login : login'[m] \in {login[m], NoLogin}
  BY <1>3, NoLoginFacts DEF SignOutStep, SignOut
<1>5. LoginOK'
  BY <1>0, <1>4, NoLoginFacts DEF LoginOK, LoginRecord
<1> QED
  BY <1>1, <1>2, <1>5 DEF SessionInv

(***************************************************************************)
(* The invariant.                                                          *)
(***************************************************************************)
LEMMA InitIsGood == Init => SessionInv
<1> SUFFICES ASSUME Init PROVE SessionInv
  OBVIOUS
<1>1. 0 \in Gen /\ 1 \in 1..MaxKey /\ [cred |-> NoCred, gen |-> 0] \in Snapshot
  BY CredFacts, SessionBoundsAssumption DEF Gen, Snapshot
<1>2. OwnerOK
  BY <1>1, CredFacts DEF Init, OwnerOK, SessionState
<1>3. RefreshOK /\ LineageOK
  BY IdleFacts DEF Init, RefreshOK, LineageOK
<1>4. CallsOK
  <2>1. GoodCall(NoCall, 0)
    BY NoCallFacts DEF GoodCall
  <2>2. call = [c \in Caller |-> NoCall] /\ reserved = 0
    BY DEF Init
  <2> QED
    BY <2>1, <2>2 DEF CallsOK
<1>5. ReadsOK
  BY <1>1 DEF Init, ReadsOK, NoRead
<1>6. VerifyOK
  BY CredFacts DEF Init, VerifyOK, NoAttempt
<1>7. LoginOK
  BY NoLoginFacts DEF Init, LoginOK
<1>8. ServerOK
  BY <1>1 DEF Init, ServerOK
<1> QED
  BY <1>2, <1>3, <1>4, <1>5, <1>6, <1>7, <1>8 DEF SessionInv, FlightOK

LEMMA StepIsGood == SessionInv /\ [Next]_qvars => SessionInv'
<1> SUFFICES ASSUME SessionInv, [Next]_qvars PROVE SessionInv'
  OBVIOUS
<1>1. CASE UNCHANGED qvars
  <2>1. FlightOK'
    BY <1>1, FlightUnchanged DEF SessionInv, qvars
  <2>2. OwnerOK' /\ ReadsOK' /\ VerifyOK' /\ LoginOK' /\ ServerOK'
    BY <1>1 DEF SessionInv, qvars, verifyVars, OwnerOK, ReadsOK, VerifyOK, LoginOK, ServerOK
  <2> QED
    BY <2>1, <2>2 DEF SessionInv
<1> QED
  BY <1>1, CallStepIsGood, ReadStepIsGood, VerificationStepIsGood, RestoreStepIsGood,
     LoginStepIsGood, SignOutStepIsGood DEF Next

THEOREM SessionInvariant == Spec => []SessionInv
BY InitIsGood, StepIsGood, PTL DEF Spec

\* Every variable has its type, and exactly a session that is not signed out holds a
\* credential.
THEOREM SessionTypes == Spec => []TypeOK
<1>1. SessionInv => TypeOK
  <2> SUFFICES ASSUME SessionInv PROVE TypeOK
    OBVIOUS
  <2>1. active \in Nat /\ ended \subseteq Nat
    BY DEF SessionInv, VerifyOK
  <2>2. call \in [Caller -> CallRecord]
    BY DEF SessionInv, FlightOK, CallsOK, GoodCall
  <2>3. call \in [Caller -> [pc : CallPc, trigger : {"none", "rejection", "checkpoint"},
                             snap : Snapshot, cand : Cred, id : Nat, answer : CallAnswer]]
    BY <2>2 DEF CallRecord
  <2>4. refresh \in RefreshRecord
    BY DEF SessionInv, FlightOK, RefreshOK
  <2> QED
    BY <2>1, <2>3, <2>4 DEF SessionInv, FlightOK, RefreshOK, OwnerOK, ReadsOK, VerifyOK,
       LoginOK, LoginRecord, ServerOK, TypeOK, RefreshRecord, Gen
<1> QED
  BY <1>1, SessionInvariant, PTL

(***************************************************************************)
(* What a refresh installs.                                                *)
(***************************************************************************)
\* Only a commit answers "continued".
LEMMA OnlyCommitsContinue ==
    ASSUME SessionInv, Next, NEW c \in Caller, call[c].pc # "idle",
           call'[c].answer = "continued"
    PROVE  CommitStaged(c) /\ UNCHANGED obtained
<1>1. call[c].answer = "none"
  BY DEF SessionInv, FlightOK, CallsOK, GoodCall
<1>2. PICK d \in Caller : CallStep(d)
  BY <1>1 DEF Next, ReadStep, VerificationStep, RestoreStep, LoginStep, SignOutStep, refreshVars
<1>3. call = [e \in Caller |-> call[e]] /\ \A e \in Caller : call[e] \in CallRecord
  BY DEF SessionInv, FlightOK, CallsOK, GoodCall
<1>4. ASSUME NEW id, NEW e \in Caller PROVE Notified(id)[e].answer = call[e].answer
  <2>1. [call[e] EXCEPT !.pc = "begin", !.id = 0].answer = call[e].answer
    BY <1>3 DEF CallRecord
  <2> QED
    BY <2>1 DEF Notified
<1>5. ASSUME NEW k, \/ call' = [call EXCEPT ![d] = k]
                    \/ \E id : call' = [Notified(id) EXCEPT ![d] = k]
      PROVE  d = c /\ k.answer = "continued"
  <2>1. \A e \in Caller : e # d => call'[e].answer = call[e].answer
    BY <1>3, <1>4, <1>5 DEF Notified
  <2>2. call'[d] = k
    BY <1>3, <1>5 DEF Notified
  <2> QED
    BY <1>1, <2>1, <2>2
<1>6. ASSUME NEW answer \in CallAnswer, answer # "continued"
      PROVE  /\ ~Ends(d, answer)
             /\ \A id : call' # [Notified(id) EXCEPT ![d] = Answered(answer)]
  BY <1>5, <1>6, AnsweredFacts DEF Ends
<1>7. ASSUME NEW k, k.answer \in {"none", call[d].answer}
      PROVE  call' # [call EXCEPT ![d] = k]
  BY <1>1, <1>5, <1>7
<1>8. /\ Failure \cup {"replaced", "reused", "storage"} \subseteq CallAnswer
      /\ {"notDue", "noCredential", "gate"} \subseteq CallAnswer
      /\ "continued" \notin Failure
  BY DEF CallAnswer, Failure
<1>9. call[d] \in CallRecord
  BY <1>3
<1>10. ~\E t \in {"rejection", "checkpoint"} : Prepare(d, t)
  <2> SUFFICES ASSUME NEW t \in {"rejection", "checkpoint"}, Prepare(d, t) PROVE FALSE
    OBVIOUS
  <2> DEFINE k == [NoCall EXCEPT !.pc = "begin", !.trigger = t]
  <2>1. k.answer = "none"
    BY DEF NoCall
  <2> HIDE DEF k
  <2>2. call' # [call EXCEPT ![d] = k]
    BY <1>7, <2>1
  <2> QED
    BY <2>2 DEF Prepare, k
<1>11. ~LookForRefreshedSession(d)
  <2> DEFINE k == [call[d] EXCEPT !.pc = "pick"]
  <2>1. k.answer = call[d].answer
    BY <1>9 DEF CallRecord
  <2> HIDE DEF k
  <2>2. call' # [call EXCEPT ![d] = k]
    BY <1>7, <2>1
  <2> QED
    BY <1>6, <1>8, <2>2 DEF LookForRefreshedSession, k
<1>12. ~PickSource(d)
  <2> DEFINE k == [call[d] EXCEPT !.pc = "arm", !.snap = Here]
  <2>1. k.answer = call[d].answer
    BY <1>9 DEF CallRecord
  <2> HIDE DEF k
  <2>2. call' # [call EXCEPT ![d] = k]
    BY <1>7, <2>1
  <2> QED
    BY <1>6, <1>8, <2>2 DEF PickSource, k
<1>13. ~GateRefuses(d)
  BY <1>6, <1>8 DEF GateRefuses
<1>14. ~Arm(d)
  <2> DEFINE k == [call[d] EXCEPT !.pc = "joined", !.id = refresh.id]
             l == [call[d] EXCEPT !.pc = "asking", !.id = reserved + 1]
             result == IF refresh.result = "ok" THEN "reused" ELSE refresh.result
  <2>1. k.answer = call[d].answer /\ l.answer = call[d].answer
    BY <1>9 DEF CallRecord
  <2>2. result \in CallAnswer /\ result # "continued"
    BY DEF SessionInv, FlightOK, RefreshOK, RefreshRecord, RefreshResult, CallAnswer, Failure
  <2> HIDE DEF k, l, result
  <2>3. call' # [call EXCEPT ![d] = k] /\ call' # [call EXCEPT ![d] = l]
    BY <1>7, <2>1
  <2>4. ~Ends(d, result)
    BY <1>6, <2>2
  <2> QED
    BY <2>3, <2>4 DEF Arm, k, l, result
<1>15. ~VerifyStaged(d)
  <2> DEFINE k == [call[d] EXCEPT !.pc = "verifying", !.cand = refresh.cand,
                       !.snap = [cred |-> refresh.source, gen |-> refresh.gen]]
  <2>1. k.answer = call[d].answer
    BY <1>9 DEF CallRecord
  <2> HIDE DEF k
  <2>2. call' # [call EXCEPT ![d] = k]
    BY <1>7, <2>1
  <2> QED
    BY <1>6, <1>8, <2>2 DEF VerifyStaged, k
<1>16. ~AbortRefresh(d)
  BY <1>6, <1>8 DEF AbortRefresh
<1>17. ~RefreshAnswers(d)
  <2> DEFINE k == [call[d] EXCEPT !.pc = "staged", !.id = refresh.id]
  <2>1. k.answer = call[d].answer
    BY <1>9 DEF CallRecord
  <2> HIDE DEF k
  <2>2. call' # [call EXCEPT ![d] = k]
    BY <1>7, <2>1
  <2> QED
    BY <1>6, <1>8, <2>2 DEF RefreshAnswers, Completes, k
<1>18. ~\E f \in Failure : RefreshFails(d, f)
  BY <1>6, <1>8 DEF RefreshFails, Completes
<1>19. ~\E f \in Failure \cup {"ok"} : StagedAnswers(d, f)
  <2> DEFINE k == [call[d] EXCEPT !.pc = "verified"]
  <2>1. k.answer = call[d].answer
    BY <1>9 DEF CallRecord
  <2> HIDE DEF k
  <2>2. call' # [call EXCEPT ![d] = k]
    BY <1>7, <2>1
  <2> QED
    BY <1>6, <1>8, <2>2 DEF StagedAnswers, Completes, k
<1>20. CommitStaged(d) /\ UNCHANGED obtained
  BY <1>2, <1>10, <1>11, <1>12, <1>13, <1>14, <1>15, <1>16, <1>17, <1>18, <1>19 DEF CallStep
<1>21. d = c
  BY <1>5, <1>20 DEF CommitStaged, Completes, Ends
<1> QED
  BY <1>20, <1>21

\* A refresh replaces the session by its own successor (commit_staged_refresh).
THEOREM RefreshesContinue == Spec => RefreshContinuesItsSource
<1>1. SessionInv /\ [Next]_qvars =>
          [\A c \in Caller : (call[c].pc # "idle" /\ call'[c].answer = "continued") =>
               obtained[owner'.cred.key] = [cred |-> owner.cred, gen |-> owner.gen]]_qvars
  <2> SUFFICES ASSUME SessionInv, Next, NEW c \in Caller, call[c].pc # "idle",
                      call'[c].answer = "continued"
               PROVE  obtained[owner'.cred.key] = [cred |-> owner.cred, gen |-> owner.gen]
    BY DEF qvars
  <2>1. CommitStaged(c)
    BY OnlyCommitsContinue
  <2>2. call[c].answer = "none" /\ "replaced" \in CallAnswer
    BY DEF SessionInv, FlightOK, CallsOK, GoodCall, CallAnswer
  <2>3. ~Ends(c, "replaced")
    <3>1. call = [e \in Caller |-> call[e]] /\ Answered("replaced").answer = "replaced"
      BY <2>2, AnsweredFacts DEF SessionInv, FlightOK, CallsOK
    <3> QED
      BY <3>1 DEF Ends
  <2>4. /\ HoldsReservation(c) /\ refresh.verified /\ owner'.cred = refresh.cand
        /\ StandsFor([cred |-> refresh.source, gen |-> refresh.gen])
    BY <2>1, <2>3 DEF CommitStaged, Replace
  <2>5. Lineage
    BY <2>4 DEF HoldsReservation, SessionInv, FlightOK, LineageOK
  <2> QED
    BY <2>4, <2>5 DEF Lineage, StandsFor, Here
<1> QED
  BY <1>1, SessionInvariant, PTL DEF Spec, RefreshContinuesItsSource

\* A verification that is no longer wanted leaves the owner alone.
THEOREM EndedStayEnded == Spec => EndedAttemptsDoNothing
<1>1. SessionInv /\ [Next]_qvars =>
          [\A v \in Attempt : (attempt[v].pc = "verifying" /\ attempt'[v].pc = "idle"
                                /\ owner' # owner) => attempt[v].id \notin ended]_qvars
  <2> SUFFICES ASSUME SessionInv, Next, NEW v \in Attempt, attempt[v].pc = "verifying",
                      attempt'[v].pc = "idle", owner' # owner
               PROVE  attempt[v].id \notin ended
    BY DEF qvars
  <2>1. VerificationStep
    BY DEF Next, CallStep, ReadStep, RestoreStep, Restore, LoginStep, BeginQr, BeginDesktop,
       GivesUpUnverified, SignOutStep, SignOut, verifyVars
  <2>2. PICK w \in Attempt, f \in Failure \cup {"ok"} : VerificationAnswers(w, f)
    BY <2>1 DEF VerificationStep
  <2>3. w = v
    BY <2>2 DEF VerificationAnswers, SessionInv, VerifyOK
  <2>4. active = attempt[v].id /\ active \notin ended
    BY <2>2, <2>3 DEF VerificationAnswers, StillConcerns, SessionInv, VerifyOK
  <2> QED
    BY <2>4
<1> QED
  BY <1>1, SessionInvariant, PTL DEF Spec, EndedAttemptsDoNothing

(***************************************************************************)
(* What a step of a refresh call does to the flight: it leaves it alone,   *)
(* reserves it, ends it without a successor, puts a candidate in it, looks *)
(* at the candidate, marks it verified, or installs it.                    *)
(***************************************************************************)
OwnerKept == UNCHANGED owner \/ SignedOut
LeavesFlight(c) ==
    /\ call'[c].pc \notin Stages \cup {"asking"}
    /\ UNCHANGED <<refresh, reserved>> /\ OwnerKept
Reserves(c) ==
    /\ call[c].pc = "arm" /\ ~(refresh.phase = "active" /\ refresh.gen = call[c].snap.gen)
    /\ call'[c].pc = "asking" /\ call'[c].id = reserved + 1 /\ call'[c].snap = call[c].snap
    /\ refresh' = Reservation(reserved + 1, call[c].snap) /\ reserved' = reserved + 1
    /\ UNCHANGED owner
EndsFlight(c) ==
    /\ \/ call[c].pc = "asking"
       \/ call[c].pc \in Stages /\ HoldsReservation(c)
    /\ call'[c].pc = "idle" /\ UNCHANGED reserved /\ OwnerKept
    /\ refresh'.phase = "completed" /\ refresh'.result # "ok" /\ refresh'.installed = 0
PutsCandidate(c) ==
    /\ call[c].pc = "asking" /\ refresh.phase = "active" /\ StillAskedFor(c)
    /\ MatchesSnapshot(call[c].snap)
    /\ refresh' = [refresh EXCEPT !.cand = NewCred(call[c].snap.cred.account)]
    /\ call'[c].pc = "staged" /\ call'[c].id = refresh.id /\ call'[c].snap = call[c].snap
    /\ UNCHANGED <<owner, reserved>>
LooksAtCandidate(c) ==
    /\ call[c].pc = "staged" /\ HoldsReservation(c)
    /\ call'[c].pc = "verifying" /\ call'[c].id = call[c].id /\ call'[c].cand = refresh.cand
    /\ call'[c].snap = [cred |-> refresh.source, gen |-> refresh.gen]
    /\ UNCHANGED <<owner, refresh, reserved>>
MarksVerified(c) ==
    /\ call[c].pc = "verifying" /\ HoldsReservation(c) /\ call[c].cand \in accepted'
    /\ refresh' = [refresh EXCEPT !.verified = TRUE]
    /\ call'[c].pc = "verified" /\ call'[c].id = call[c].id /\ call'[c].snap = call[c].snap
    /\ UNCHANGED <<owner, reserved>>
Installs(c) ==
    /\ call[c].pc \in {"staged", "verified"} /\ HoldsReservation(c) /\ refresh.verified
    /\ StandsFor([cred |-> refresh.source, gen |-> refresh.gen])
    /\ Replace("authenticated", refresh.cand)
    /\ refresh' = Completed(call[c].snap.gen, owner.gen + 1, "ok")
    /\ call'[c].pc = "idle" /\ UNCHANGED reserved
FlightEffect(c) ==
    \/ LeavesFlight(c) \/ Reserves(c) \/ EndsFlight(c) \/ PutsCandidate(c)
    \/ LooksAtCandidate(c) \/ MarksVerified(c) \/ Installs(c)

\* The other calls stay where they are, or wake up to begin again.
OthersStay(c) ==
    \A d \in Caller : d # c => \/ call'[d] = call[d]
                               \/ call[d].pc = "joined" /\ call'[d].pc = "begin"
\* What the server has done stays done.
HistoryGrows ==
    /\ issued <= issued' /\ accepted \subseteq accepted'
    /\ \A k \in 1..issued : obtained'[k] = obtained[k]

LEMMA CompletedFields ==
    ASSUME NEW gen, NEW installed, NEW result
    PROVE  /\ Completed(gen, installed, result).phase = "completed"
           /\ Completed(gen, installed, result).gen = gen
           /\ Completed(gen, installed, result).installed = installed
           /\ Completed(gen, installed, result).result = result
BY DEF Completed, Idle

\* One call changes, and the others at most wake up.
LEMMA OthersFacts ==
    ASSUME SessionInv, NEW c \in Caller, NEW k,
           \/ call' = [call EXCEPT ![c] = k]
           \/ \E id : call' = [Notified(id) EXCEPT ![c] = k]
    PROVE  call'[c] = k /\ OthersStay(c)
<1>1. CallsOK
  BY DEF SessionInv, FlightOK
<1>2. CASE call' = [call EXCEPT ![c] = k]
  BY <1>1, <1>2, CallUpdate DEF OthersStay
<1>3. ASSUME NEW id, call' = [Notified(id) EXCEPT ![c] = k]
      PROVE  call'[c] = k /\ OthersStay(c)
  <2>1. /\ call'[c] = k
        /\ \A d \in Caller : d # c => call'[d] = Notified(id)[d]
    BY <1>3 DEF Notified
  <2>2. ASSUME NEW d \in Caller, Notified(id)[d] # call[d]
        PROVE  call[d].pc = "joined" /\ Notified(id)[d].pc = "begin"
    <3>1. call[d] \in CallRecord
      BY <1>1 DEF CallsOK, GoodCall
    <3>2. [call[d] EXCEPT !.pc = "begin", !.id = 0].pc = "begin"
      BY <3>1 DEF CallRecord
    <3> QED
      BY <2>2, <3>2 DEF Notified
  <2> QED
    BY <2>1, <2>2 DEF OthersStay
<1> QED
  BY <1>2, <1>3

\* A step in which the call merely moves, and the flight stays as it is.
LEMMA MovesLeaveFlight ==
    ASSUME SessionInv, NEW c \in Caller, NEW k, k.pc \notin Stages \cup {"asking"},
           call' = [call EXCEPT ![c] = k], UNCHANGED <<refresh, reserved>>, OwnerKept
    PROVE  LeavesFlight(c) /\ OthersStay(c)
BY OthersFacts DEF LeavesFlight

LEMMA EndsLeaveFlight ==
    ASSUME SessionInv, NEW c \in Caller, NEW answer \in CallAnswer, Ends(c, answer),
           UNCHANGED <<refresh, reserved>>, OwnerKept
    PROVE  LeavesFlight(c) /\ OthersStay(c)
BY AnsweredFacts, MovesLeaveFlight DEF Ends, Stages

\* A flight that is completed without a successor.
LEMMA CompletesEndsFlight ==
    ASSUME SessionInv, NEW c \in Caller, NEW answer \in CallAnswer, NEW id, NEW gen,
           NEW result, result # "ok",
           \/ call[c].pc = "asking"
           \/ call[c].pc \in Stages /\ HoldsReservation(c),
           refresh' = Completed(gen, 0, result),
           call' = [Notified(id) EXCEPT ![c] = Answered(answer)],
           UNCHANGED reserved, OwnerKept
    PROVE  EndsFlight(c) /\ OthersStay(c)
<1>1. call'[c] = Answered(answer) /\ OthersStay(c)
  BY OthersFacts
<1> QED
  BY <1>1, AnsweredFacts, CompletedFields DEF EndsFlight

LEMMA AnswersExist ==
    /\ Failure \cup {"replaced", "reused", "storage", "continued"} \subseteq CallAnswer
    /\ {"notDue", "noCredential", "gate"} \subseteq CallAnswer
    /\ "ok" \notin Failure
BY DEF CallAnswer, Failure

\* Before the flight: beginning, looking, taking the snapshot, the gate.
LEMMA BeginsLeaveFlight ==
    ASSUME SessionInv, NEW c \in Caller,
           \/ \E t \in {"rejection", "checkpoint"} : Prepare(c, t)
           \/ LookForRefreshedSession(c) \/ PickSource(c) \/ GateRefuses(c)
    PROVE  LeavesFlight(c) /\ OthersStay(c)
<1>1. call[c] \in CallRecord
  BY CallFacts DEF SessionInv, GoodCall
<1>2. CASE \E t \in {"rejection", "checkpoint"} : Prepare(c, t)
  <2>1. PICK t \in {"rejection", "checkpoint"} : Prepare(c, t)
    BY <1>2
  <2> DEFINE k == [NoCall EXCEPT !.pc = "begin", !.trigger = t]
  <2>2. k.pc = "begin"
    BY DEF NoCall
  <2> HIDE DEF k
  <2>3. call' = [call EXCEPT ![c] = k] /\ UNCHANGED <<refresh, reserved>> /\ OwnerKept
    BY <2>1 DEF Prepare, k, OwnerKept
  <2> QED
    BY <2>2, <2>3, MovesLeaveFlight DEF Stages
<1>3. CASE LookForRefreshedSession(c)
  <2> DEFINE k == [call[c] EXCEPT !.pc = "pick"]
  <2>1. k.pc = "pick"
    BY <1>1 DEF CallRecord
  <2> HIDE DEF k
  <2>2. UNCHANGED <<refresh, reserved>> /\ OwnerKept
    BY <1>3 DEF LookForRefreshedSession, OwnerKept
  <2>3. CASE Ends(c, "reused")
    BY <2>2, <2>3, EndsLeaveFlight, AnswersExist
  <2>4. CASE call' = [call EXCEPT ![c] = k]
    BY <2>1, <2>2, <2>4, MovesLeaveFlight DEF Stages
  <2> QED
    BY <1>3, <2>3, <2>4 DEF LookForRefreshedSession, k
<1>4. CASE PickSource(c)
  <2> DEFINE k == [call[c] EXCEPT !.pc = "arm", !.snap = Here]
  <2>1. k.pc = "arm"
    BY <1>1 DEF CallRecord
  <2> HIDE DEF k
  <2>2. UNCHANGED <<refresh, reserved>> /\ OwnerKept
    BY <1>4 DEF PickSource, OwnerKept
  <2>3. CASE Ends(c, "notDue") \/ Ends(c, "noCredential")
    BY <2>2, <2>3, EndsLeaveFlight, AnswersExist
  <2>4. CASE call' = [call EXCEPT ![c] = k]
    BY <2>1, <2>2, <2>4, MovesLeaveFlight DEF Stages
  <2> QED
    BY <1>4, <2>3, <2>4 DEF PickSource, k
<1>5. CASE GateRefuses(c)
  <2>1. Ends(c, "gate") /\ UNCHANGED <<refresh, reserved>> /\ OwnerKept
    BY <1>5 DEF GateRefuses, OwnerKept
  <2> QED
    BY <2>1, EndsLeaveFlight, AnswersExist
<1> QED
  BY <1>2, <1>3, <1>4, <1>5

\* Joining the flight of the session, being told how it ended, or reserving a new one.
LEMMA ArmEffect ==
    ASSUME SessionInv, NEW c \in Caller, Arm(c)
    PROVE  (LeavesFlight(c) \/ Reserves(c)) /\ OthersStay(c)
<1>1. call[c] \in CallRecord
  BY CallFacts DEF SessionInv, GoodCall
<1> DEFINE k == [call[c] EXCEPT !.pc = "joined", !.id = refresh.id]
           l == [call[c] EXCEPT !.pc = "asking", !.id = reserved + 1]
           result == IF refresh.result = "ok" THEN "reused" ELSE refresh.result
<1>2. k.pc = "joined"
  BY <1>1 DEF CallRecord
<1>3. result \in CallAnswer
  BY DEF SessionInv, FlightOK, RefreshOK, RefreshRecord, RefreshResult, CallAnswer, Failure
<1> HIDE DEF k, result
<1>4. call[c].pc = "arm" /\ OwnerKept
  BY DEF Arm, OwnerKept
<1>5. CASE call' = [call EXCEPT ![c] = k] /\ UNCHANGED <<refresh, reserved>>
  BY <1>2, <1>4, <1>5, MovesLeaveFlight DEF Stages
<1>6. CASE Ends(c, result) /\ UNCHANGED <<refresh, reserved>>
  BY <1>3, <1>4, <1>6, EndsLeaveFlight
<1>7. CASE /\ ~(refresh.phase = "active" /\ refresh.gen = call[c].snap.gen)
           /\ reserved' = reserved + 1
           /\ refresh' = Reservation(reserved + 1, call[c].snap)
           /\ call' = [call EXCEPT ![c] = l]
  <2>1. l.pc = "asking" /\ l.id = reserved + 1 /\ l.snap = call[c].snap
    BY <1>1 DEF CallRecord
  <2> HIDE DEF l
  <2>2. call'[c] = l /\ OthersStay(c)
    BY <1>7, OthersFacts
  <2>3. UNCHANGED owner
    BY DEF Arm
  <2> QED
    BY <1>4, <1>7, <2>1, <2>2, <2>3 DEF Reserves
<1> QED
  BY <1>5, <1>6, <1>7 DEF Arm, k, l, result

\* The request fails, or is answered.
LEMMA AskingEffect ==
    ASSUME SessionInv, NEW c \in Caller,
           RefreshAnswers(c) \/ \E f \in Failure : RefreshFails(c, f)
    PROVE  /\ LeavesFlight(c) \/ EndsFlight(c) \/ PutsCandidate(c)
           /\ OthersStay(c)
<1>1. CASE RefreshAnswers(c)
  <2> DEFINE k == [call[c] EXCEPT !.pc = "staged", !.id = refresh.id]
  <2>1. /\ call[c].pc = "asking" /\ UNCHANGED <<owner, reserved>> /\ OwnerKept
        /\ "replaced" \in CallAnswer
    BY <1>1, AnswersExist DEF RefreshAnswers, OwnerKept
  <2>2. CASE Ends(c, "replaced") /\ UNCHANGED refresh
    BY <2>1, <2>2, EndsLeaveFlight
  <2>3. CASE Completes(c, "replaced", 0, "replaced")
    <3> HIDE DEF k
    <3> QED
      BY <2>1, <2>3, CompletesEndsFlight DEF Completes
  <2>4. CASE /\ refresh.phase = "active" /\ StillAskedFor(c) /\ MatchesSnapshot(call[c].snap)
             /\ refresh' = [refresh EXCEPT !.cand = NewCred(call[c].snap.cred.account)]
             /\ call' = [call EXCEPT ![c] = k]
    <3>1. k.pc = "staged" /\ k.id = refresh.id /\ k.snap = call[c].snap
      <4>1. call[c] \in CallRecord
        BY CallFacts DEF SessionInv, GoodCall
      <4> QED
        BY <4>1 DEF CallRecord
    <3> HIDE DEF k
    <3>2. call'[c] = k /\ OthersStay(c)
      BY <2>4, OthersFacts
    <3> QED
      BY <2>1, <2>4, <3>1, <3>2 DEF PutsCandidate
  <2> QED
    BY <1>1, <2>2, <2>3, <2>4 DEF RefreshAnswers, k
<1>2. CASE \E f \in Failure : RefreshFails(c, f)
  <2>1. PICK f \in Failure : RefreshFails(c, f)
    BY <1>2
  <2>2. /\ call[c].pc = "asking" /\ UNCHANGED reserved /\ OwnerKept
        /\ f \in CallAnswer /\ f # "ok"
    BY <2>1, AnswersExist DEF RefreshFails, OwnerKept
  <2>3. CASE Ends(c, f) /\ UNCHANGED refresh
    BY <2>2, <2>3, EndsLeaveFlight
  <2>4. CASE Completes(c, f, 0, f)
    BY <2>2, <2>4, CompletesEndsFlight DEF Completes
  <2> QED
    BY <2>1, <2>3, <2>4 DEF RefreshFails
<1> QED
  BY <1>1, <1>2

\* The candidate is looked at, verified, and installed or given up.
LEMMA CandidateEffect ==
    ASSUME SessionInv, NEW c \in Caller,
           \/ VerifyStaged(c) \/ CommitStaged(c) \/ AbortRefresh(c)
           \/ \E f \in Failure \cup {"ok"} : StagedAnswers(c, f)
    PROVE  /\ \/ LeavesFlight(c) \/ LooksAtCandidate(c) \/ MarksVerified(c)
              \/ EndsFlight(c) \/ Installs(c)
           /\ OthersStay(c)
<1>0. call[c] \in CallRecord
  BY CallFacts DEF SessionInv, GoodCall
<1>1. {"replaced", "storage", "continued"} \subseteq CallAnswer /\ Failure \subseteq CallAnswer
  BY AnswersExist
<1>2. CASE Ends(c, "replaced") /\ UNCHANGED <<owner, refresh, reserved>>
  BY <1>1, <1>2, EndsLeaveFlight DEF OwnerKept
<1>3. CASE VerifyStaged(c)
  <2> DEFINE k == [call[c] EXCEPT !.pc = "verifying", !.cand = refresh.cand,
                       !.snap = [cred |-> refresh.source, gen |-> refresh.gen]]
  <2>1. CASE HoldsReservation(c) /\ call' = [call EXCEPT ![c] = k]
    <3>1. /\ k.pc = "verifying" /\ k.id = call[c].id /\ k.cand = refresh.cand
          /\ k.snap = [cred |-> refresh.source, gen |-> refresh.gen]
      BY <1>0 DEF CallRecord
    <3> HIDE DEF k
    <3>2. call'[c] = k /\ OthersStay(c)
      BY <2>1, OthersFacts
    <3>3. call[c].pc = "staged" /\ UNCHANGED <<owner, refresh, reserved>>
      BY <1>3 DEF VerifyStaged
    <3> QED
      BY <2>1, <3>1, <3>2, <3>3 DEF LooksAtCandidate
  <2> QED
    BY <1>2, <1>3, <2>1 DEF VerifyStaged, k, HoldsReservation
<1>4. CASE CommitStaged(c)
  <2>1. CASE /\ HoldsReservation(c) /\ refresh.verified
             /\ StandsFor([cred |-> refresh.source, gen |-> refresh.gen])
             /\ Replace("authenticated", refresh.cand)
             /\ Completes(c, "continued", owner.gen + 1, "ok")
    <3>1. call'[c] = Answered("continued") /\ OthersStay(c)
      BY <2>1, OthersFacts DEF Completes
    <3>2. call'[c].pc = "idle"
      BY <1>1, <3>1, AnsweredFacts
    <3> QED
      BY <1>4, <2>1, <3>1, <3>2 DEF Installs, CommitStaged, Completes
  <2> QED
    BY <1>2, <1>4, <2>1 DEF CommitStaged
<1>5. CASE AbortRefresh(c)
  <2>1. CASE /\ HoldsReservation(c) /\ refresh' = Completed(refresh.gen, 0, "storage")
             /\ call' = [Notified(refresh.id) EXCEPT ![c] = Answered("storage")]
    <3>1. call[c].pc \in Stages /\ UNCHANGED reserved /\ OwnerKept
      BY <1>5 DEF AbortRefresh, Stages, OwnerKept
    <3> QED
      BY <1>1, <2>1, <3>1, CompletesEndsFlight
  <2> QED
    BY <1>2, <1>5, <2>1 DEF AbortRefresh
<1>6. ASSUME NEW f \in Failure \cup {"ok"}, StagedAnswers(c, f)
      PROVE  (LeavesFlight(c) \/ EndsFlight(c) \/ MarksVerified(c)) /\ OthersStay(c)
  <2>1. call[c].pc = "verifying" /\ call[c].pc \in Stages /\ UNCHANGED reserved
    BY <1>6 DEF StagedAnswers, Stages
  <2>2. CASE Ends(c, "replaced") /\ UNCHANGED <<owner, refresh>>
    BY <1>1, <2>1, <2>2, EndsLeaveFlight DEF OwnerKept
  <2>3. CASE /\ HoldsReservation(c) /\ f # "ok" /\ Completes(c, f, 0, f)
             /\ OwnerKept
    <3>1. f \in CallAnswer
      BY <1>1, <2>3
    <3> QED
      BY <2>1, <2>3, <3>1, CompletesEndsFlight DEF Completes
  <2>4. CASE /\ HoldsReservation(c) /\ f = "ok"
             /\ refresh' = [refresh EXCEPT !.verified = TRUE]
             /\ call' = [call EXCEPT ![c] = [call[c] EXCEPT !.pc = "verified"]]
             /\ UNCHANGED owner
    <3> DEFINE k == [call[c] EXCEPT !.pc = "verified"]
    <3>1. k.pc = "verified" /\ k.id = call[c].id /\ k.snap = call[c].snap
      BY <1>0 DEF CallRecord
    <3>2. call' = [call EXCEPT ![c] = k]
      BY <2>4
    <3> HIDE DEF k
    <3>3. call'[c] = k /\ OthersStay(c)
      BY <3>2, OthersFacts
    <3>4. call[c].cand \in accepted'
      BY <1>6, <2>4 DEF StagedAnswers
    <3> QED
      BY <2>1, <2>4, <3>1, <3>3, <3>4 DEF MarksVerified
  <2> QED
    BY <1>6, <2>2, <2>3, <2>4 DEF StagedAnswers, OwnerKept
<1> QED
  BY <1>3, <1>4, <1>5, <1>6

\* A step of a call, as the flight and the other components see it.
LEMMA CallStepEffect ==
    ASSUME SessionInv, NEW c \in Caller, CallStep(c)
    PROVE  /\ FlightEffect(c) /\ OthersStay(c) /\ HistoryGrows
           /\ UNCHANGED <<read, login>>
<1>1. FlightEffect(c) /\ OthersStay(c)
  <2>1. CASE \/ \E t \in {"rejection", "checkpoint"} : Prepare(c, t)
             \/ LookForRefreshedSession(c) \/ PickSource(c) \/ GateRefuses(c)
    BY <2>1, BeginsLeaveFlight DEF FlightEffect
  <2>2. CASE Arm(c)
    BY <2>2, ArmEffect DEF FlightEffect
  <2>3. CASE RefreshAnswers(c) \/ \E f \in Failure : RefreshFails(c, f)
    BY <2>3, AskingEffect DEF FlightEffect
  <2>4. CASE \/ VerifyStaged(c) \/ CommitStaged(c) \/ AbortRefresh(c)
             \/ \E f \in Failure \cup {"ok"} : StagedAnswers(c, f)
    BY <2>4, CandidateEffect DEF FlightEffect
  <2> QED
    BY <2>1, <2>2, <2>3, <2>4 DEF CallStep
<1>2. HistoryGrows
  <2>1. issued \in 1..MaxKey /\ obtained \in [1..MaxKey -> Snapshot]
    BY DEF SessionInv, ServerOK
  <2>2. CASE UNCHANGED <<issued, obtained>>
    BY <2>1, <2>2 DEF HistoryGrows, CallStep, StagedAnswers
  <2>3. CASE RefreshAnswers(c) /\ UNCHANGED accepted
    BY <2>1, <2>3, SessionBoundsAssumption DEF HistoryGrows, RefreshAnswers, Issues
  <2> QED
    BY <2>2, <2>3 DEF CallStep, RefreshFails
<1> QED
  BY <1>1, <1>2 DEF CallStep

(***************************************************************************)
(* What a refreshed session has to do with the reads that used the one     *)
(* before it.  A call that holds the reservation has the snapshot of the   *)
(* flight; a read under way has a snapshot of the current session or of an *)
(* older one; and if the current session was installed by the flight that  *)
(* completed last, its credential was obtained with the snapshot of every  *)
(* read of the session before.                                             *)
(***************************************************************************)
HoldersOK ==
    refresh.phase = "active" =>
        \A c \in Caller : call[c].pc \in Stages /\ call[c].id = refresh.id =>
            call[c].snap = [cred |-> refresh.source, gen |-> refresh.gen]
ReadsHold ==
    \A r \in Reader : read[r].pc = "reading" =>
        /\ read[r].snap.gen <= owner.gen
        /\ read[r].snap.gen = owner.gen => read[r].snap.cred = owner.cred
Succeeded == refresh.phase = "completed" /\ refresh.result = "ok"
SuccessorOK ==
    /\ refresh.installed <= owner.gen
    /\ Succeeded => refresh.gen < refresh.installed
    /\ Succeeded /\ refresh.installed = owner.gen /\ owner.state = "authenticated" =>
           \A r \in Reader : read[r].pc = "reading" /\ read[r].snap.gen = refresh.gen =>
               /\ owner.cred.key <= issued
               /\ obtained[owner.cred.key] = read[r].snap
SuccessionInv == HoldersOK /\ ReadsHold /\ SuccessorOK

\* A reservation that begins has installed nothing.
LEMMA ReservationInstallsNothing ==
    ASSUME NEW id, NEW s
    PROVE  /\ Reservation(id, s).installed = 0 /\ Reservation(id, s).phase = "active"
           /\ Reservation(id, s).id = id /\ Reservation(id, s).verified = FALSE
           /\ Reservation(id, s).gen = s.gen
BY DEF Reservation, Idle

\* The owner that is kept, or signed out.
LEMMA OwnerKeptFacts ==
    ASSUME OwnerKept, owner.gen \in Nat
    PROVE  owner' = owner \/ (owner'.gen = owner.gen + 1 /\ owner'.state = "signedOut")
BY DEF OwnerKept, SignedOut, Replace

\* The reservation belongs to the session whose snapshot its holders have.
LEMMA HoldersStep ==
    ASSUME SessionInv, HoldersOK, NEW c \in Caller, CallStep(c)
    PROVE  HoldersOK'
<1>1. FlightEffect(c) /\ OthersStay(c)
  BY CallStepEffect
<1>2. /\ \A d \in Caller : call[d] \in CallRecord /\ call[d].id <= reserved /\ call[d].id \in Nat
      /\ reserved \in Nat /\ refresh \in RefreshRecord /\ call[c].snap \in Snapshot
  BY CallFacts DEF SessionInv, GoodCall
<1>3. ASSUME NEW d \in Caller, d # c, call'[d].pc \in Stages
      PROVE  call'[d] = call[d]
  BY <1>1, <1>3 DEF OthersStay, Stages
<1> SUFFICES ASSUME refresh'.phase = "active", NEW d \in Caller, call'[d].pc \in Stages,
                    call'[d].id = refresh'.id
             PROVE  call'[d].snap = [cred |-> refresh'.source, gen |-> refresh'.gen]
  BY DEF HoldersOK
<1>4. CASE LeavesFlight(c) \/ EndsFlight(c) \/ Installs(c)
  <2>1. call'[c].pc \notin Stages /\ UNCHANGED refresh
    BY <1>4, CompletedFields DEF LeavesFlight, EndsFlight, Installs, Stages
  <2> QED
    BY <1>3, <2>1 DEF HoldersOK
<1>5. CASE Reserves(c)
  <2>1. call'[c].pc = "asking" /\ refresh'.id = reserved + 1
    BY <1>5, ReservationInstallsNothing DEF Reserves
  <2>2. call'[d] = call[d]
    BY <1>3, <2>1 DEF Stages
  <2> QED
    BY <1>2, <2>1, <2>2
<1>6. CASE PutsCandidate(c)
  <2>1. refresh'.source = refresh.source /\ refresh'.gen = refresh.gen /\ refresh'.id = refresh.id
    BY <1>2, <1>6 DEF PutsCandidate, RefreshRecord
  <2>2. call'[c].snap = call[c].snap
    BY <1>6 DEF PutsCandidate
  <2>3. call[c].snap = [cred |-> refresh.source, gen |-> refresh.gen]
    BY <1>2, <1>6 DEF PutsCandidate, StillAskedFor, Snapshot
  <2> QED
    BY <1>3, <1>6, <2>1, <2>2, <2>3 DEF HoldersOK, PutsCandidate
<1>7. CASE LooksAtCandidate(c)
  <2>1. call'[c].snap = [cred |-> refresh.source, gen |-> refresh.gen] /\ UNCHANGED refresh
    BY <1>7 DEF LooksAtCandidate
  <2> QED
    BY <1>3, <2>1 DEF HoldersOK
<1>8. CASE MarksVerified(c)
  <2>1. /\ refresh'.source = refresh.source /\ refresh'.gen = refresh.gen
        /\ refresh'.id = refresh.id /\ refresh.phase = "active"
    BY <1>2, <1>8 DEF MarksVerified, RefreshRecord, HoldsReservation
  <2>2. /\ call'[c].snap = call[c].snap /\ call'[c].id = call[c].id
        /\ call[c].pc \in Stages
    BY <1>8 DEF MarksVerified, Stages
  <2> QED
    BY <1>3, <2>1, <2>2 DEF HoldersOK
<1> QED
  BY <1>1, <1>4, <1>5, <1>6, <1>7, <1>8 DEF FlightEffect

\* A step of a call keeps what the reads and the last flight have to do with the owner.
LEMMA CallStepSucceeds ==
    ASSUME SessionInv, SuccessionInv, NEW c \in Caller, CallStep(c)
    PROVE  ReadsHold' /\ SuccessorOK'
<1>1. FlightEffect(c) /\ HistoryGrows /\ UNCHANGED read
  BY CallStepEffect
<1>2. /\ owner.gen \in Nat /\ refresh \in RefreshRecord /\ call[c] \in CallRecord
      /\ read \in [Reader -> [pc : {"idle", "reading", "ok", "rejected", "replaced"},
                              snap : Snapshot]]
      /\ refresh.installed \in Nat
  BY CallFacts DEF SessionInv, GoodCall, OwnerOK, ReadsOK, Gen, RefreshRecord
<1>3. owner' = owner \/ owner'.gen = owner.gen + 1
  BY <1>1, <1>2, OwnerKeptFacts
     DEF FlightEffect, LeavesFlight, Reserves, EndsFlight, PutsCandidate, LooksAtCandidate,
         MarksVerified, Installs, Replace
<1>4. \A r \in Reader : read[r].snap \in Snapshot /\ read[r].snap.gen \in Nat
  BY <1>2 DEF Snapshot
<1>5. ReadsHold'
  BY <1>1, <1>2, <1>3, <1>4 DEF SuccessionInv, ReadsHold
<1> SUFFICES SuccessorOK'
  BY <1>5
<1>6. ASSUME owner.state = "authenticated"
      PROVE  owner.cred.key \in Nat \ {0} /\ issued \in Nat /\ issued' >= issued
  <2>1. owner.cred \in RealCred /\ issued \in Nat
    BY <1>6, SignedInHasCred DEF SessionInv, ServerOK
  <2> QED
    BY <1>1, <2>1 DEF RealCred, HistoryGrows
<1>7. CASE UNCHANGED refresh /\ OwnerKept
  <2>1. CASE owner' = owner
    <3>1. ASSUME owner.state = "authenticated", owner.cred.key <= issued
          PROVE  owner.cred.key <= issued' /\ obtained'[owner.cred.key] = obtained[owner.cred.key]
      <4>1. issued' \in Nat
        BY <1>1, <3>1, CallStepIsGood DEF SessionInv, ServerOK
      <4> QED
        BY <1>1, <1>6, <3>1, <4>1 DEF HistoryGrows
    <3> QED
      BY <1>1, <1>7, <2>1, <3>1 DEF SuccessionInv, SuccessorOK, Succeeded
  <2>2. CASE owner'.gen = owner.gen + 1 /\ owner'.state = "signedOut"
    BY <1>2, <1>7, <2>2 DEF SuccessionInv, SuccessorOK, Succeeded
  <2> QED
    BY <1>2, <1>7, <2>1, <2>2, OwnerKeptFacts
<1>8. CASE LeavesFlight(c) \/ LooksAtCandidate(c)
  BY <1>7, <1>8 DEF LeavesFlight, LooksAtCandidate, OwnerKept
<1>9. CASE Reserves(c) \/ EndsFlight(c)
  <2>1. refresh'.installed = 0 /\ ~Succeeded'
    <3>1. CASE Reserves(c)
      <4>1. refresh'.installed = 0 /\ refresh'.phase = "active"
        <5>1. refresh' = Reservation(reserved + 1, call[c].snap)
          BY <3>1 DEF Reserves
        <5>2. /\ Reservation(reserved + 1, call[c].snap).installed = 0
              /\ Reservation(reserved + 1, call[c].snap).phase = "active"
          BY DEF Reservation, Idle
        <5> QED
          BY <5>1, <5>2
      <4> QED
        BY <4>1 DEF Succeeded
    <3>2. CASE EndsFlight(c)
      BY <3>2 DEF EndsFlight, Succeeded
    <3> QED
      BY <1>9, <3>1, <3>2
  <2>2. owner'.gen \in Nat
    BY <1>2, <1>3
  <2> QED
    BY <2>1, <2>2 DEF SuccessorOK
<1>10. CASE PutsCandidate(c) \/ MarksVerified(c)
  <2>1. refresh'.installed = refresh.installed /\ ~Succeeded' /\ owner' = owner
    BY <1>2, <1>10 DEF PutsCandidate, MarksVerified, HoldsReservation, Succeeded, RefreshRecord
  <2> QED
    BY <2>1 DEF SuccessionInv, SuccessorOK
<1>11. CASE Installs(c)
  <2>1. /\ refresh.phase = "active" /\ refresh.id = call[c].id /\ call[c].pc \in Stages
        /\ refresh.gen = owner.gen /\ refresh.source = owner.cred
        /\ owner'.cred = refresh.cand /\ owner'.gen = owner.gen + 1
    BY <1>11 DEF Installs, HoldsReservation, StandsFor, Here, Replace, Stages
  <2>2. call[c].snap.gen = refresh.gen
    BY <2>1 DEF SuccessionInv, HoldersOK
  <2>3. refresh'.installed = owner.gen + 1 /\ refresh'.gen = owner.gen
    BY <1>11, <2>1, <2>2, CompletedFields DEF Installs
  <2>4. /\ refresh.cand.key <= issued
        /\ obtained[refresh.cand.key] = [cred |-> owner.cred, gen |-> owner.gen]
    BY <1>11, <2>1 DEF Installs, SessionInv, FlightOK, LineageOK, Lineage
  <2>5. refresh.cand.key \in 1..issued
    BY <2>1, <2>4 DEF SessionInv, FlightOK, RefreshOK, RealCred, ServerOK
  <2>6. /\ refresh.cand.key <= issued'
        /\ obtained'[refresh.cand.key] = [cred |-> owner.cred, gen |-> owner.gen]
    <3>1. issued' \in Nat /\ issued \in Nat
      BY CallStepIsGood DEF SessionInv, ServerOK
    <3> QED
      BY <1>1, <2>4, <2>5, <3>1 DEF HistoryGrows
  <2>7. ASSUME NEW r \in Reader, read[r].pc = "reading", read[r].snap.gen = owner.gen
        PROVE  read[r].snap = [cred |-> owner.cred, gen |-> owner.gen]
    BY <1>4, <2>7 DEF SuccessionInv, ReadsHold, Snapshot
  <2> QED
    BY <1>1, <1>2, <2>1, <2>3, <2>6, <2>7 DEF SuccessorOK
<1> QED
  BY <1>1, <1>8, <1>9, <1>10, <1>11 DEF FlightEffect

\* A step of anybody but the calls replaces the session or keeps its generation, and leaves
\* the flight alone.
LEMMA OtherSteps ==
    ASSUME SessionInv, VerificationStep \/ RestoreStep \/ LoginStep \/ SignOutStep
    PROVE  /\ UNCHANGED <<refreshVars, read, obtained>> /\ issued \in Nat /\ issued' \in Nat
           /\ issued <= issued' /\ accepted \subseteq accepted'
           /\ owner' = owner \/ owner'.gen = owner.gen + 1
<1>1. issued \in Nat
  BY DEF SessionInv, ServerOK
<1>2. CASE VerificationStep
  BY <1>1, <1>2 DEF VerificationStep, VerificationAnswers, SignedOut, Replace
<1>3. CASE RestoreStep \/ SignOutStep
  BY <1>1, <1>3 DEF RestoreStep, Restore, SignOutStep, SignOut, SignedOut, Replace
<1>4. CASE LoginStep
  <2>1. UNCHANGED <<refreshVars, read, obtained>>
    BY <1>4 DEF LoginStep
  <2>2. CASE /\ \E l \in Login : BeginQr(l) \/ BeginDesktop(l)
             /\ UNCHANGED <<issued, accepted>>
    <3>1. UNCHANGED owner \/ SignedOut
      BY <2>2 DEF BeginQr, BeginDesktop, GivesUpUnverified
    <3> QED
      BY <1>1, <2>1, <2>2, <3>1 DEF SignedOut, Replace
  <2>3. CASE (\E l \in Login, a \in Account : LoginWon(l, a)) /\ UNCHANGED owner
    BY <1>1, <2>1, <2>3 DEF LoginWon, Issues
  <2>4. CASE (\E l \in Login : LoginInstalls(l)) /\ UNCHANGED <<issued, accepted>>
    BY <1>1, <2>1, <2>4 DEF LoginInstalls, Replace
  <2>5. CASE UNCHANGED <<owner, issued, accepted>>
    BY <1>1, <2>1, <2>5
  <2> QED
    BY <1>1, <1>4, <2>1, <2>2, <2>3, <2>4, <2>5 DEF LoginStep
<1> QED
  BY <1>2, <1>3, <1>4

\* Every step keeps what the reads and the last flight have to do with the owner.
LEMMA SuccessionStep == SessionInv /\ SuccessionInv /\ [Next]_qvars => SuccessionInv'
<1> SUFFICES ASSUME SessionInv, SuccessionInv, [Next]_qvars PROVE SuccessionInv'
  OBVIOUS
<1>1. CASE UNCHANGED qvars
  BY <1>1 DEF qvars, refreshVars, SuccessionInv, HoldersOK, ReadsHold, SuccessorOK, Succeeded
<1>2. ASSUME NEW c \in Caller, CallStep(c) PROVE SuccessionInv'
  BY <1>2, HoldersStep, CallStepSucceeds DEF SuccessionInv
<1>3. /\ owner.gen \in Nat /\ refresh.installed \in Nat
      /\ read \in [Reader -> [pc : {"idle", "reading", "ok", "rejected", "replaced"},
                              snap : Snapshot]]
      /\ \A r \in Reader : read[r].snap \in Snapshot /\ read[r].snap.gen \in Nat
  BY DEF SessionInv, OwnerOK, Gen, FlightOK, RefreshOK, RefreshRecord, ReadsOK, Snapshot
<1>4. CASE VerificationStep \/ RestoreStep \/ LoginStep \/ SignOutStep
  <2>1. /\ UNCHANGED <<refreshVars, read, obtained>> /\ issued \in Nat /\ issued' \in Nat
        /\ issued <= issued' /\ (owner' = owner \/ owner'.gen = owner.gen + 1)
    BY <1>4, OtherSteps
  <2>2. HoldersOK' /\ ReadsHold'
    BY <1>3, <2>1 DEF SuccessionInv, HoldersOK, ReadsHold, refreshVars
  <2>3. CASE owner' = owner
    <3>1. owner.state = "authenticated" => owner.cred.key \in Nat
      BY SignedInHasCred DEF SessionInv, RealCred
    <3> QED
      BY <2>1, <2>2, <2>3, <3>1 DEF SuccessionInv, SuccessorOK, Succeeded, refreshVars
  <2>4. CASE owner'.gen = owner.gen + 1
    BY <1>3, <2>1, <2>2, <2>4 DEF SuccessionInv, SuccessorOK, Succeeded, refreshVars
  <2> QED
    BY <2>1, <2>3, <2>4
<1>5. ASSUME NEW r \in Reader, ReadStep(r) PROVE SuccessionInv'
  <2>1. UNCHANGED <<refreshVars, issued, obtained>>
    BY <1>5 DEF ReadStep
  <2>2. \A q \in Reader : q # r => read'[q] = read[q]
    BY <1>3, <1>5 DEF ReadStep, StartRead, FinishRead
  <2>3. CASE StartRead(r)
    <3>1. UNCHANGED owner /\ read'[r].snap = Here
      BY <1>3, <2>3 DEF StartRead
    <3> QED
      BY <1>3, <2>1, <2>2, <3>1
         DEF SuccessionInv, HoldersOK, ReadsHold, SuccessorOK, Succeeded, refreshVars, Here
  <2>4. CASE \E rejected \in BOOLEAN : FinishRead(r, rejected)
    <3>1. read'[r].pc # "reading"
      BY <1>3, <2>4 DEF FinishRead, NoRead
    <3>2. \/ owner' = owner
          \/ owner'.state = "continuation" /\ owner'.gen = owner.gen /\ owner'.cred = owner.cred
      <4>1. owner \in [state : SessionState, cred : Cred, gen : Gen]
        BY DEF SessionInv, OwnerOK
      <4>2. CASE MatchesSnapshot(read[r].snap) /\ MarkContinuationRequired(read[r].snap)
        <5>1. owner.cred = read[r].snap.cred
          BY <4>2 DEF MatchesSnapshot, Here
        <5>2. owner' = [owner EXCEPT !.state = "continuation", !.cred = owner.cred]
          BY <4>2, <5>1 DEF MarkContinuationRequired
        <5> QED
          BY <4>1, <5>2
      <4> QED
        BY <2>4, <4>2 DEF FinishRead
    <3> QED
      BY <1>3, <2>1, <2>2, <3>1, <3>2
         DEF SuccessionInv, HoldersOK, ReadsHold, SuccessorOK, Succeeded, refreshVars
  <2> QED
    BY <1>5, <2>3, <2>4 DEF ReadStep
<1> QED
  BY <1>1, <1>2, <1>4, <1>5 DEF Next

THEOREM SuccessionInvariant == Spec => []SuccessionInv
<1>1. Init => SuccessionInv
  BY DEF Init, SuccessionInv, HoldersOK, ReadsHold, SuccessorOK, Succeeded, Idle, NoCall, NoRead
<1> QED
  BY <1>1, SuccessionStep, SessionInvariant, PTL DEF Spec

\* A rejected read only speaks for its own session, or for the one that was refreshed from
\* it (finish_authenticated_read).
THEOREM RejectionsBelong == Spec => RejectionBelongsToSession
<1>1. SessionInv /\ SuccessionInv /\ [Next]_qvars =>
          [\A r \in Reader : (read[r].pc = "reading" /\ read'[r].pc = "rejected") =>
               \/ owner'.state = "continuation" /\ owner'.gen = read[r].snap.gen
               \/ owner'.state = "authenticated" /\ obtained[owner'.cred.key] = read[r].snap]_qvars
  <2> SUFFICES ASSUME SessionInv, SuccessionInv, Next, NEW r \in Reader,
                      read[r].pc = "reading", read'[r].pc = "rejected"
               PROVE  \/ owner'.state = "continuation" /\ owner'.gen = read[r].snap.gen
                      \/ /\ owner'.state = "authenticated"
                         /\ obtained[owner'.cred.key] = read[r].snap
    BY DEF qvars
  <2>1. PICK q \in Reader : ReadStep(q)
    BY CallStepEffect, OtherSteps DEF Next
  <2>2. read \in [Reader -> [pc : {"idle", "reading", "ok", "rejected", "replaced"},
                             snap : Snapshot]]
    BY DEF SessionInv, ReadsOK
  <2>3. PICK rejected \in BOOLEAN : FinishRead(q, rejected)
    BY <2>1, <2>2 DEF ReadStep, StartRead
  <2>4. q = r
    BY <2>2, <2>3 DEF FinishRead
  <2>5. CASE MatchesSnapshot(read[r].snap)
    <3>1. rejected /\ MarkContinuationRequired(read[r].snap)
      BY <2>2, <2>3, <2>4, <2>5 DEF FinishRead, NoRead
    <3>2. owner \in [state : SessionState, cred : Cred, gen : Gen]
      BY DEF SessionInv, OwnerOK
    <3> QED
      BY <2>5, <3>1, <3>2 DEF MarkContinuationRequired, MatchesSnapshot, Here
  <2>6. CASE ~MatchesSnapshot(read[r].snap)
    <3>1. JustRefreshed(read[r].snap) /\ owner' = owner
      BY <2>2, <2>3, <2>4, <2>6 DEF FinishRead, NoRead
    <3> QED
      BY <3>1 DEF JustRefreshed, SuccessionInv, SuccessorOK, Succeeded
  <2> QED
    BY <2>5, <2>6
<1> QED
  BY <1>1, SessionInvariant, SuccessionInvariant, PTL DEF Spec, RejectionBelongsToSession

(***************************************************************************)
(* Calls for one session at a time.  A call takes its snapshot in one      *)
(* critical section, arms the flight in another and sends its request in   *)
(* between two more; as long as the calls that do so at one time do it for *)
(* one session, a request under way has the flight to itself.  A single    *)
(* caller is the simplest case.  (Without it none of this holds: the late  *)
(* answer of an older session completes the flight of the current one, and *)
(* a third call reserves that again.)                                      *)
(***************************************************************************)
OneSession ==
    \A c, d \in Caller :
        {call[c].pc, call[d].pc} \subseteq {"arm", "asking"} => call[c].snap = call[d].snap
SoleFlight ==
    \A c \in Caller : call[c].pc = "asking" =>
        /\ refresh.phase = "active" /\ refresh.gen = call[c].snap.gen
        /\ refresh.id = call[c].id /\ ~refresh.verified
        /\ \A d \in Caller : call[d].pc = "asking" => d = c
        /\ \A d \in Caller : call[d].pc \in Stages => call[d].id # refresh.id

\* One caller cannot ask for two sessions at once.
LEMMA OneCallerOneSession ==
    ASSUME \A c, d \in Caller : c = d
    PROVE  OneSession
BY DEF OneSession

\* A call that asks keeps the flight to itself.
LEMMA SoleFlightCallStep ==
    ASSUME SessionInv, SoleFlight, OneSession, NEW c \in Caller, CallStep(c)
    PROVE  SoleFlight'
<1>1. FlightEffect(c) /\ OthersStay(c)
  BY CallStepEffect
<1>2. /\ \A d \in Caller : call[d].id <= reserved /\ call[d].id \in Nat
      /\ reserved \in Nat
  BY CallFacts DEF SessionInv
<1>3. ASSUME NEW d \in Caller, d # c, call'[d].pc \in Stages \cup {"asking"}
      PROVE  call'[d] = call[d]
  BY <1>1, <1>3 DEF OthersStay, Stages
<1>4. CASE LeavesFlight(c)
  <2>1. UNCHANGED refresh /\ call'[c].pc \notin Stages \cup {"asking"}
    BY <1>4 DEF LeavesFlight
  <2> QED
    BY <1>3, <2>1 DEF SoleFlight
<1>5. CASE Reserves(c)
  <2>1. ASSUME NEW e \in Caller, call[e].pc = "asking" PROVE FALSE
    <3>1. call[e].snap = call[c].snap
      BY <1>5, <2>1 DEF OneSession, Reserves
    <3> QED
      BY <1>5, <2>1, <3>1 DEF SoleFlight, Reserves
  <2>2. refresh' = Reservation(reserved + 1, call[c].snap)
    BY <1>5 DEF Reserves
  <2>3. /\ refresh'.phase = "active" /\ ~refresh'.verified
        /\ refresh'.id = reserved + 1 /\ refresh'.gen = call[c].snap.gen
    BY <2>2 DEF Reservation, Idle
  <2>4. /\ call'[c].pc = "asking" /\ call'[c].id = reserved + 1
        /\ call'[c].snap = call[c].snap
    BY <1>5 DEF Reserves
  <2>5. \A d \in Caller : call'[d].pc = "asking" => d = c
    BY <1>3, <2>1
  <2>6. ASSUME NEW d \in Caller, call'[d].pc \in Stages PROVE call'[d].id # refresh'.id
    <3>1. d # c
      BY <2>4, <2>6 DEF Stages
    <3> QED
      BY <1>2, <1>3, <2>3, <2>6, <3>1
  <2> QED
    BY <2>3, <2>4, <2>5, <2>6 DEF SoleFlight
<1>6. CASE EndsFlight(c) \/ PutsCandidate(c) \/ LooksAtCandidate(c) \/ MarksVerified(c)
           \/ Installs(c)
  <2>1. call'[c].pc # "asking"
    BY <1>6 DEF EndsFlight, PutsCandidate, LooksAtCandidate, MarksVerified, Installs
  <2>2. call[c].pc = "asking" \/ (call[c].pc \in Stages /\ call[c].id = refresh.id)
    BY <1>6 DEF EndsFlight, PutsCandidate, LooksAtCandidate, MarksVerified, Installs,
       HoldsReservation, Stages
  <2>3. \A e \in Caller : call[e].pc = "asking" => e = c
    BY <2>2 DEF SoleFlight
  <2>4. \A e \in Caller : call'[e].pc # "asking"
    BY <1>3, <2>1, <2>3
  <2> QED
    BY <2>4 DEF SoleFlight
<1> QED
  BY <1>1, <1>4, <1>5, <1>6 DEF FlightEffect

LEMMA SoleFlightStep == SessionInv /\ SoleFlight /\ OneSession /\ [Next]_qvars => SoleFlight'
<1> SUFFICES ASSUME SessionInv, SoleFlight, OneSession, [Next]_qvars PROVE SoleFlight'
  OBVIOUS
<1>1. CASE UNCHANGED qvars
  BY <1>1 DEF qvars, refreshVars, SoleFlight
<1>2. CASE \E c \in Caller : CallStep(c)
  BY <1>2, SoleFlightCallStep
<1>3. CASE UNCHANGED refreshVars
  BY <1>3 DEF refreshVars, SoleFlight
<1> QED
  BY <1>1, <1>2, <1>3, OtherSteps DEF Next, ReadStep

THEOREM SoleFlights == Spec /\ []OneSession => []SoleFlight
<1>1. Init => SoleFlight
  BY DEF Init, SoleFlight, NoCall
<1> QED
  BY <1>1, SoleFlightStep, SessionInvariant, PTL DEF Spec

\* As long as the calls are for one session at a time, no session is refreshed twice at a
\* time (prepare_credential_refresh).
THEOREM NoFlightTwice == Spec /\ []OneSession => []OneFlightPerSession
<1>1. SoleFlight => OneFlightPerSession
  BY DEF SoleFlight, OneFlightPerSession
<1> QED
  BY <1>1, SoleFlights, PTL

(***************************************************************************)
(* What counts as authenticated.  The flight's mark says that its very     *)
(* candidate was accepted, and a verification under way is of that         *)
(* candidate.                                                              *)
(***************************************************************************)
LoginsAccepted == \A l \in Login : login[l].pc = "won" => login[l].cred \in accepted
CandidateAccepted ==
    refresh.phase = "active" =>
        /\ refresh.verified => refresh.cand \in accepted
        /\ \A c \in Caller : call[c].pc = "verifying" /\ call[c].id = refresh.id =>
               call[c].cand = refresh.cand
AcceptedInv == AuthenticatedWasAccepted /\ LoginsAccepted /\ CandidateAccepted

\* A step of a call installs only what was accepted.
LEMMA AcceptedCallStep ==
    ASSUME SessionInv, SoleFlight, AcceptedInv, NEW c \in Caller, CallStep(c)
    PROVE  AcceptedInv'
<1>1. FlightEffect(c) /\ OthersStay(c) /\ HistoryGrows /\ UNCHANGED login
  BY CallStepEffect
<1>2. /\ \A d \in Caller : call[d].id <= reserved /\ call[d].id \in Nat
      /\ reserved \in Nat /\ refresh \in RefreshRecord /\ owner.gen \in Nat
  BY CallFacts DEF SessionInv, OwnerOK, Gen
<1>3. LoginsAccepted'
  BY <1>1 DEF AcceptedInv, LoginsAccepted, HistoryGrows
<1>4. ASSUME NEW d \in Caller, d # c, call'[d].pc = "verifying"
      PROVE  call'[d] = call[d]
  BY <1>1, <1>4 DEF OthersStay
<1>5. AuthenticatedWasAccepted'
  <2>1. CASE OwnerKept
    BY <1>1, <1>2, <2>1, OwnerKeptFacts
       DEF AcceptedInv, AuthenticatedWasAccepted, HistoryGrows
  <2>2. CASE Installs(c)
    BY <1>1, <2>2 DEF Installs, HoldsReservation, Replace, AcceptedInv, CandidateAccepted,
       AuthenticatedWasAccepted, HistoryGrows
  <2> QED
    BY <1>1, <2>1, <2>2 DEF FlightEffect, LeavesFlight, Reserves, EndsFlight, PutsCandidate,
       LooksAtCandidate, MarksVerified, OwnerKept
<1>6. CandidateAccepted'
  <2>1. CASE LeavesFlight(c)
    BY <1>1, <1>4, <2>1 DEF LeavesFlight, Stages, AcceptedInv, CandidateAccepted, HistoryGrows
  <2>2. CASE Reserves(c)
    <3>1. refresh' = Reservation(reserved + 1, call[c].snap) /\ call'[c].pc = "asking"
      BY <2>2 DEF Reserves
    <3>2. ~refresh'.verified /\ refresh'.id = reserved + 1
      BY <3>1 DEF Reservation, Idle
    <3> QED
      BY <1>2, <1>4, <3>1, <3>2 DEF CandidateAccepted
  <2>3. CASE EndsFlight(c) \/ Installs(c)
    <3>1. refresh'.phase = "completed"
      BY <2>3, CompletedFields DEF EndsFlight, Installs
    <3> QED
      BY <3>1 DEF CandidateAccepted
  <2>4. CASE PutsCandidate(c)
    <3>1. /\ ~refresh.verified /\ call'[c].pc = "staged"
          /\ \A d \in Caller : call[d].pc \in Stages => call[d].id # refresh.id
      BY <2>4 DEF PutsCandidate, SoleFlight
    <3>2. refresh'.verified = refresh.verified /\ refresh'.id = refresh.id
      BY <1>2, <2>4 DEF PutsCandidate, RefreshRecord
    <3> QED
      BY <1>4, <3>1, <3>2 DEF CandidateAccepted, Stages
  <2>5. CASE LooksAtCandidate(c)
    BY <1>1, <1>4, <2>5 DEF LooksAtCandidate, AcceptedInv, CandidateAccepted, HistoryGrows
  <2>6. CASE MarksVerified(c)
    <3>1. /\ refresh.phase = "active" /\ refresh.cand \in accepted' /\ call'[c].pc = "verified"
      BY <2>6 DEF MarksVerified, HoldsReservation, AcceptedInv, CandidateAccepted
    <3>2. refresh'.cand = refresh.cand /\ refresh'.id = refresh.id
      BY <1>2, <2>6 DEF MarksVerified, RefreshRecord
    <3> QED
      BY <1>4, <3>1, <3>2 DEF AcceptedInv, CandidateAccepted
  <2> QED
    BY <1>1, <2>1, <2>2, <2>3, <2>4, <2>5, <2>6 DEF FlightEffect
<1> QED
  BY <1>3, <1>5, <1>6 DEF AcceptedInv

\* A login that has been won holds a credential the server has just issued.
LEMMA AcceptedLoginStep ==
    ASSUME SessionInv, AcceptedInv, LoginStep
    PROVE  AuthenticatedWasAccepted' /\ LoginsAccepted'
<1>1. login \in [Login -> LoginRecord] /\ \A l \in Login : login[l] \in LoginRecord
  BY DEF SessionInv, LoginOK
<1>2. NoLogin.pc = "idle"
  BY NoLoginFacts
<1>3. ASSUME NEW kind, NEW m \in Login, CalledOff(kind)[m].pc = "won"
      PROVE  CalledOff(kind)[m] = login[m]
  BY <1>2, <1>3 DEF CalledOff
<1>4. ASSUME NEW l \in Login, BeginQr(l) \/ BeginDesktop(l), UNCHANGED accepted
      PROVE  AuthenticatedWasAccepted' /\ LoginsAccepted'
  <2> DEFINE q == [NoLogin EXCEPT !.kind = "qr", !.pc = "waiting"]
             d == [NoLogin EXCEPT !.kind = "desktop", !.pc = "discovering"]
  <2>1. q.pc # "won" /\ d.pc # "won"
    BY DEF NoLogin
  <2> HIDE DEF q, d
  <2>2. AuthenticatedWasAccepted'
    BY <1>4 DEF BeginQr, BeginDesktop, GivesUpUnverified, SignedOut, Replace,
       AcceptedInv, AuthenticatedWasAccepted
  <2>3. CASE BeginQr(l)
    <3>1. login' = [CalledOff("qr") EXCEPT ![l] = q]
      BY <2>3 DEF BeginQr, q
    <3>2. \A m \in Login : login'[m] = IF m = l THEN q ELSE CalledOff("qr")[m]
      BY <3>1 DEF CalledOff
    <3> QED
      BY <1>3, <1>4, <2>1, <2>2, <3>2 DEF AcceptedInv, LoginsAccepted
  <2>4. CASE BeginDesktop(l)
    <3>1. login' = [login EXCEPT ![l] = d]
      BY <2>4 DEF BeginDesktop, d
    <3> QED
      BY <1>1, <1>4, <2>1, <2>2, <3>1 DEF AcceptedInv, LoginsAccepted
  <2> QED
    BY <1>4, <2>3, <2>4
<1>5. ASSUME NEW l \in Login, DesktopDiscovered(l) \/ LoginEnds(l), UNCHANGED <<owner, accepted>>
      PROVE  AuthenticatedWasAccepted' /\ LoginsAccepted'
  <2>1. AuthenticatedWasAccepted'
    BY <1>5 DEF AcceptedInv, AuthenticatedWasAccepted
  <2>2. CASE DesktopDiscovered(l)
    <3>1. \A m \in Login : m # l => login'[m] = CalledOff("desktop")[m]
      BY <2>2 DEF DesktopDiscovered, CalledOff
    <3>2. login'[l].pc = "waiting"
      <4>1. CalledOff("desktop")[l] \in LoginRecord
        BY <1>1, NoLoginFacts DEF CalledOff
      <4>2. login'[l] = [CalledOff("desktop")[l] EXCEPT !.pc = "waiting"]
        BY <2>2 DEF DesktopDiscovered, CalledOff
      <4> QED
        BY <4>1, <4>2 DEF LoginRecord
    <3> QED
      BY <1>3, <1>5, <2>1, <3>1, <3>2 DEF AcceptedInv, LoginsAccepted
  <2>3. CASE LoginEnds(l)
    BY <1>1, <1>2, <1>5, <2>1, <2>3 DEF LoginEnds, AcceptedInv, LoginsAccepted
  <2> QED
    BY <1>5, <2>2, <2>3
<1>6. ASSUME NEW l \in Login, NEW a \in Account, LoginWon(l, a), UNCHANGED owner
      PROVE  AuthenticatedWasAccepted' /\ LoginsAccepted'
  <2>1. accepted' = accepted \cup {NewCred(a)}
    BY <1>6 DEF LoginWon
  <2>2. login'[l].cred = NewCred(a) /\ \A m \in Login : m # l => login'[m] = login[m]
    <3> DEFINE k == [login[l] EXCEPT !.pc = "won", !.cred = NewCred(a)]
    <3>1. k.cred = NewCred(a)
      BY <1>1 DEF LoginRecord
    <3>2. login' = [login EXCEPT ![l] = k]
      BY <1>6 DEF LoginWon
    <3> HIDE DEF k
    <3> QED
      BY <1>1, <3>1, <3>2
  <2> QED
    BY <1>6, <2>1, <2>2 DEF AcceptedInv, AuthenticatedWasAccepted, LoginsAccepted
<1>7. ASSUME NEW l \in Login, LoginInstalls(l), UNCHANGED accepted
      PROVE  AuthenticatedWasAccepted' /\ LoginsAccepted'
  BY <1>1, <1>2, <1>7 DEF LoginInstalls, Replace, AcceptedInv, AuthenticatedWasAccepted,
     LoginsAccepted
<1> QED
  BY <1>4, <1>5, <1>6, <1>7 DEF LoginStep

LEMMA AcceptedStep == SessionInv /\ SoleFlight /\ AcceptedInv /\ [Next]_qvars => AcceptedInv'
<1> SUFFICES ASSUME SessionInv, SoleFlight, AcceptedInv, [Next]_qvars PROVE AcceptedInv'
  OBVIOUS
<1>1. CASE UNCHANGED qvars
  BY <1>1 DEF qvars, refreshVars, AcceptedInv, AuthenticatedWasAccepted, LoginsAccepted,
     CandidateAccepted
<1>2. ASSUME NEW c \in Caller, CallStep(c) PROVE AcceptedInv'
  BY <1>2, AcceptedCallStep
<1>3. ASSUME UNCHANGED refreshVars, accepted \subseteq accepted'
      PROVE  CandidateAccepted'
  BY <1>3 DEF refreshVars, AcceptedInv, CandidateAccepted
<1>4. ASSUME NEW r \in Reader, ReadStep(r) PROVE AcceptedInv'
  <2>1. UNCHANGED <<refreshVars, login, accepted>>
    BY <1>4 DEF ReadStep
  <2>2. \/ UNCHANGED owner
        \/ owner.state \in {"authenticated", "continuation"} /\ owner'.cred = owner.cred
    <3>1. owner \in [state : SessionState, cred : Cred, gen : Gen]
      BY DEF SessionInv, OwnerOK
    <3>2. CASE MatchesSnapshot(read[r].snap) /\ MarkContinuationRequired(read[r].snap)
      <4>1. owner.cred = read[r].snap.cred
        BY <3>2 DEF MatchesSnapshot, Here
      <4>2. owner' = [owner EXCEPT !.state = "continuation", !.cred = owner.cred]
        BY <3>2, <4>1 DEF MarkContinuationRequired
      <4> QED
        BY <3>1, <3>2, <4>2 DEF MatchesSnapshot
    <3> QED
      BY <1>4, <3>2 DEF ReadStep, StartRead, FinishRead
  <2> QED
    BY <1>3, <2>1, <2>2 DEF AcceptedInv, AuthenticatedWasAccepted, LoginsAccepted
<1>5. CASE VerificationStep
  <2>1. UNCHANGED <<refreshVars, login>> /\ accepted \subseteq accepted'
    BY <1>5, OtherSteps DEF VerificationStep
  <2>2. CASE UNCHANGED owner
    BY <1>3, <2>1, <2>2 DEF AcceptedInv, AuthenticatedWasAccepted, LoginsAccepted
  <2>3. CASE SignedOut
    BY <1>3, <2>1, <2>3 DEF SignedOut, Replace, AcceptedInv, AuthenticatedWasAccepted,
       LoginsAccepted
  <2>4. ASSUME NEW v \in Attempt, Replace("authenticated", attempt[v].cand),
               accepted' = accepted \cup {attempt[v].cand}
        PROVE  AcceptedInv'
    BY <1>3, <2>1, <2>4 DEF Replace, AcceptedInv, AuthenticatedWasAccepted, LoginsAccepted
  <2> QED
    BY <1>5, <2>2, <2>3, <2>4 DEF VerificationStep, VerificationAnswers
<1>6. CASE RestoreStep
  BY <1>3, <1>6 DEF RestoreStep, Restore, SignedOut, Replace, AcceptedInv,
     AuthenticatedWasAccepted, LoginsAccepted
<1>7. CASE LoginStep
  BY <1>3, <1>7, AcceptedLoginStep, OtherSteps DEF AcceptedInv
<1>8. CASE SignOutStep
  <2>1. \A l \in Login : login'[l].pc = "won" => login'[l] = login[l]
    BY <1>8, NoLoginFacts DEF SignOutStep, SignOut
  <2> QED
    BY <1>3, <1>8, <2>1 DEF SignOutStep, SignOut, SignedOut, Replace, AcceptedInv,
       AuthenticatedWasAccepted, LoginsAccepted
<1> QED
  BY <1>1, <1>2, <1>4, <1>5, <1>6, <1>7, <1>8 DEF Next

\* As long as the calls are for one session at a time, whatever counts as authenticated was
\* accepted by the server (verify_staged_refresh_candidate, commit_staged_refresh_candidate,
\* verify_restored_credential, and the logins).
THEOREM AuthenticatedAreAccepted == Spec /\ []OneSession => []AuthenticatedWasAccepted
<1>1. Init => AcceptedInv
  BY DEF Init, AcceptedInv, AuthenticatedWasAccepted, LoginsAccepted, CandidateAccepted,
     Idle, NoLogin
<1>2. AcceptedInv => AuthenticatedWasAccepted
  BY DEF AcceptedInv
<1> QED
  BY <1>1, <1>2, AcceptedStep, SoleFlights, SessionInvariant, PTL DEF Spec

\* The application refreshes from one place, which waits for each call before the next
\* (qq_session_continuation.dart): then both hold without a condition.
THEOREM OneCallerIsSafe ==
    ASSUME \A c, d \in Caller : c = d
    PROVE  Spec => []AuthenticatedWasAccepted /\ []OneFlightPerSession
<1>1. OneSession
  BY OneCallerOneSession
<1> QED
  BY <1>1, AuthenticatedAreAccepted, NoFlightTwice, PTL

=============================================================================
