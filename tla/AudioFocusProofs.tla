-------------------------- MODULE AudioFocusProofs --------------------------
(***************************************************************************)
(* Theorems about AudioFocus for any number of leases, callers and         *)
(* operations.                                                             *)
(*                                                                         *)
(* Everything rests on ArbiterInv: an operation is reserved exactly while  *)
(* its platform call is outstanding, it is about the owner if there is     *)
(* one, and an activation is only outstanding while nobody holds focus.    *)
(* The callers and the releaseAfter chains do not occur in it: whatever    *)
(* they do to the arbiter they do through Activate, Release and            *)
(* cancellation, which have a lemma each.                                  *)
(***************************************************************************)
EXTENDS AudioFocus, SequenceTheorems, TLAPS

\* The types of the arbiter's own state and of what it reads.
ArbiterTypes ==
    /\ owner \in Lease \cup {NoLease}
    /\ operation \in 0..MaxOperations
    /\ op \in [Operations -> OpRecord]
    /\ uncertain \in BOOLEAN
    /\ closed \in [Lease -> BOOLEAN]
    /\ revision \in [Lease -> Nat]
    /\ held \in BOOLEAN

\* Reserved exactly while a platform call is outstanding.
Reserved ==
    /\ \A c \in Operations : op[c].step # "none" => c = operation
    /\ operation # 0 => op[operation].step # "none" /\ op[operation].lease \in Lease

\* An activation waits only while nobody holds focus; a release is the owner's.
OperationFits ==
    /\ operation # 0 /\ owner # NoLease => op[operation].lease = owner
    /\ operation # 0 /\ op[operation].step = "activating" => owner = NoLease /\ ~held
    /\ uncertain => operation = 0

ArbiterInv ==
    ArbiterTypes /\ Reserved /\ OperationFits /\ FocusAccounted /\ ClosedLeaseLetsGo

\* What one step may do to the arbiter.
StepFailsClosed ==
    uncertain => uncertain' /\ Running' \subseteq Running /\ owner' \in {owner, NoLease}
StepHandsOver == owner # owner' => owner = NoLease \/ (owner' = NoLease /\ ~held')
StepKeepsToken == [Token!TokenNext]_<<TokenPhase, TokenHolder>>
GoodStep == StepFailsClosed /\ StepHandsOver /\ StepKeepsToken

\* An unused operation object.
LEMMA NoOpFacts == NoOp \in OpRecord /\ NoOp.step = "none" /\ NoOp.lease = NoLease
BY DEF NoOp, OpRecord

\* A new operation is the lease's and waits for the platform.
LEMMA NewOpFacts ==
    ASSUME NEW l \in Lease, NEW active \in BOOLEAN, revision \in [Lease -> Nat]
    PROVE  /\ NewOp(l, active) \in OpRecord
           /\ NewOp(l, active).lease = l
           /\ NewOp(l, active).step = IF active THEN "activating" ELSE "releasing"
<1>1. revision[l] \in Nat
  OBVIOUS
<1>2. (IF active THEN "activating" ELSE "releasing") \in {"none", "activating", "releasing"}
  OBVIOUS
<1> QED
  BY <1>1, <1>2 DEF NewOp, OpRecord

\* The program starts with nothing owned and nothing outstanding.
LEMMA InitEstablishes == FocusInit => ArbiterInv
<1> SUFFICES ASSUME FocusInit PROVE ArbiterInv
  OBVIOUS
<1>1. op = [c \in Operations |-> NoOp] /\ operation = 0 /\ owner = NoLease /\ uncertain = FALSE
      /\ held = FALSE
  BY DEF FocusInit
<1>2. ArbiterTypes
  <2>1. op \in [Operations -> OpRecord]
    BY <1>1, NoOpFacts
  <2>2. closed \in [Lease -> BOOLEAN]
    BY Zenon DEF FocusInit
  <2>3. revision \in [Lease -> Nat] /\ operation \in 0..MaxOperations
    BY <1>1, FocusBoundsAssumption DEF FocusInit
  <2> QED
    BY <1>1, <2>1, <2>2, <2>3 DEF ArbiterTypes
<1>3. Reserved
  BY <1>1, NoOpFacts DEF Reserved
<1>4. OperationFits /\ FocusAccounted
  BY <1>1 DEF OperationFits, FocusAccounted
<1>5. ClosedLeaseLetsGo
  BY <1>1, NoLeaseAssumption DEF ClosedLeaseLetsGo
<1> QED
  BY <1>2, <1>3, <1>4, <1>5 DEF ArbiterInv

\* A step that leaves the arbiter, the platform and the leases alone is harmless.
LEMMA NothingHappens ==
    ASSUME ArbiterInv, UNCHANGED arbiter, UNCHANGED <<held, closed>>,
           revision' \in [Lease -> Nat]
    PROVE ArbiterInv' /\ GoodStep
<1>1. ArbiterInv'
  BY DEF ArbiterInv, ArbiterTypes, Reserved, OperationFits, FocusAccounted,
         ClosedLeaseLetsGo, arbiter, Operations
<1>2. GoodStep
  BY DEF GoodStep, StepFailsClosed, StepHandsOver, StepKeepsToken, arbiter, Running,
         Operations, TokenPhase, TokenHolder, ArbiterInv, ArbiterTypes
<1> QED BY <1>1, <1>2

\* Reserving an operation: for an activation only when nobody holds focus, for a
\* release only by the owner.
LEMMA StartIsGood ==
    ASSUME ArbiterInv, NEW l \in Lease, NEW active \in BOOLEAN, Start(l, active),
           ~uncertain, operation = 0,
           IF active THEN owner = NoLease ELSE owner = l,
           held' = held, closed' \in [Lease -> BOOLEAN], revision' \in [Lease -> Nat],
           \A m \in Lease \ {l} : closed'[m] = closed[m],
           active => ~closed'[l]
    PROVE  ArbiterInv' /\ GoodStep
<1> DEFINE c == operation'
           o == NewOp(l, active)
<1>1. c \in Operations /\ op' = [op EXCEPT ![c] = o] /\ owner' = owner /\ uncertain' = uncertain
  BY DEF Start
<1>2. o \in OpRecord /\ o.lease = l /\ o.step = IF active THEN "activating" ELSE "releasing"
  BY NewOpFacts DEF ArbiterInv, ArbiterTypes
<1>3. /\ op \in [Operations -> OpRecord] /\ owner \in Lease \cup {NoLease}
      /\ \A d \in Operations : op[d].step = "none"
  BY DEF ArbiterInv, ArbiterTypes, Reserved, Operations
<1>4. op'[c] = o /\ \A d \in Operations : d # c => op'[d] = op[d]
  BY <1>1, <1>3
<1>5. c # 0
  BY <1>1, FocusBoundsAssumption DEF Operations
<1> HIDE DEF c, o
<1>6. ArbiterTypes'
  <2>1. op' \in [Operations -> OpRecord]
    BY <1>1, <1>2, <1>3
  <2>2. operation' \in 0..MaxOperations
    BY <1>1, FocusBoundsAssumption DEF Operations, c
  <2> QED
    BY <1>1, <2>1, <2>2 DEF ArbiterInv, ArbiterTypes
<1>7. Reserved'
  BY <1>1, <1>2, <1>3, <1>4 DEF Reserved, c
<1>8. OperationFits' /\ FocusAccounted'
  BY <1>1, <1>2, <1>4, <1>5 DEF OperationFits, FocusAccounted, ArbiterInv, c
<1>9. ClosedLeaseLetsGo'
  BY <1>1, <1>2, <1>4, <1>5, NoLeaseAssumption DEF ClosedLeaseLetsGo, ArbiterInv, c
<1>10. StepKeepsToken
  <2>1. TokenHolder' = l /\ TokenPhase' = IF active THEN "asking" ELSE "givingUp"
    BY <1>1, <1>2, <1>4, <1>5 DEF TokenPhase, TokenHolder, c
  <2>2. CASE active
    <3>1. TokenPhase = "free" /\ TokenHolder = NoLease
      BY <2>2 DEF TokenPhase, TokenHolder
    <3>2. Token!Ask(l)
      BY <2>1, <2>2, <3>1 DEF Token!Ask, Token!Free
    <3> QED
      BY <3>2 DEF StepKeepsToken, Token!TokenNext
  <2>3. CASE ~active
    <3>1. TokenPhase = "held" /\ TokenHolder = l
      BY <2>3, NoLeaseAssumption DEF TokenPhase, TokenHolder
    <3>2. Token!GiveUp
      BY <2>1, <2>3, <3>1 DEF Token!GiveUp
    <3> QED
      BY <3>2 DEF StepKeepsToken, Token!TokenNext
  <2> QED
    BY <2>2, <2>3
<1>11. StepFailsClosed /\ StepHandsOver
  BY <1>1 DEF StepFailsClosed, StepHandsOver
<1> QED
  BY <1>6, <1>7, <1>8, <1>9, <1>10, <1>11 DEF ArbiterInv, GoodStep

\* Giving up on an operation, by whatever flags of it are set: what it is waiting
\* for does not change.
LEMMA GivingUpIsGood ==
    ASSUME ArbiterInv, op' \in [Operations -> OpRecord],
           \A d \in Operations : op'[d].step = op[d].step /\ op'[d].lease = op[d].lease,
           UNCHANGED <<owner, operation, uncertain, held>>,
           closed' \in [Lease -> BOOLEAN], revision' \in [Lease -> Nat],
           \A l \in Lease : closed'[l] => closed[l] \/ owner # l \/ Pending(l)
    PROVE  ArbiterInv' /\ GoodStep
<1>1. operation # 0 => operation \in Operations
  BY FocusBoundsAssumption DEF ArbiterInv, ArbiterTypes, Operations
<1>2. ArbiterTypes' /\ Reserved'
  BY <1>1 DEF ArbiterInv, ArbiterTypes, Reserved
<1>3. OperationFits' /\ FocusAccounted'
  BY <1>1 DEF ArbiterInv, OperationFits, FocusAccounted
<1>4. ClosedLeaseLetsGo'
  <2> SUFFICES ASSUME NEW l \in Lease, closed'[l], owner = l, ~uncertain
               PROVE  operation # 0 /\ op'[operation].lease = l /\ op'[operation].step = "releasing"
    BY DEF ClosedLeaseLetsGo
  <2>1. CASE closed[l]
    BY <1>1, <2>1 DEF ArbiterInv, ClosedLeaseLetsGo
  <2>2. CASE Pending(l)
    <3>1. op[operation].step \in {"none", "activating", "releasing"}
      BY <1>1, <2>2 DEF ArbiterInv, ArbiterTypes, OpRecord, Pending
    <3> QED
      BY <1>1, <2>2, <3>1, NoLeaseAssumption DEF ArbiterInv, Reserved, OperationFits, Pending
  <2> QED
    BY <2>1, <2>2
<1>5. GoodStep
  BY <1>1 DEF GoodStep, StepFailsClosed, StepHandsOver, StepKeepsToken, Running, TokenPhase, TokenHolder
<1> QED
  BY <1>2, <1>3, <1>4, <1>5 DEF ArbiterInv

\* Setting the flags of an operation keeps its lease and its step.
LEMMA CancelledRecord ==
    ASSUME NEW o \in OpRecord, NEW x,
           \/ x = [o EXCEPT !.cancelled = TRUE]
           \/ x = [o EXCEPT !.cancelled = TRUE, !.expired = TRUE]
    PROVE  x \in OpRecord /\ x.step = o.step /\ x.lease = o.lease
BY DEF OpRecord

(***************************************************************************)
(* The two entry points.                                                   *)
(***************************************************************************)
\* _activate leaves a good arbiter, whatever it answers.
LEMMA ActivateIsGood ==
    ASSUME ArbiterInv, NEW k, NEW l \in Lease, Activate(k, l),
           UNCHANGED <<held, closed, revision>>
    PROVE  ArbiterInv' /\ GoodStep
<1>1. closed \in [Lease -> BOOLEAN] /\ revision \in [Lease -> Nat]
  BY DEF ArbiterInv, ArbiterTypes
<1>2. CASE UNCHANGED arbiter
  BY <1>1, <1>2, NothingHappens
<1>3. CASE ~closed[l] /\ ~uncertain /\ operation = 0 /\ owner = NoLease /\ Start(l, TRUE)
  BY <1>1, <1>3, StartIsGood
<1> QED
  BY <1>2, <1>3 DEF Activate, Unavailable

\* closed may gain l itself: Close releases in the same step.
LEMMA ReleaseIsGood ==
    ASSUME ArbiterInv, NEW l \in Lease, Release(l), held' = held,
           closed' \in {closed, [closed EXCEPT ![l] = TRUE]}, revision' \in [Lease -> Nat]
    PROVE  ArbiterInv' /\ GoodStep
<1>1. closed \in [Lease -> BOOLEAN] /\ closed' \in [Lease -> BOOLEAN]
  BY DEF ArbiterInv, ArbiterTypes
<1>2. \A m \in Lease \ {l} : closed'[m] = closed[m]
  BY <1>1
<1>3. CASE ~uncertain /\ ~Pending(l) /\ owner = l /\ Start(l, FALSE)
  <2>1. operation = 0
    BY <1>3, NoLeaseAssumption DEF ArbiterInv, OperationFits, Pending
  <2> QED
    BY <1>1, <1>2, <1>3, <2>1, StartIsGood
<1>4. CASE /\ ~uncertain /\ Pending(l)
           /\ op' = [op EXCEPT ![operation].cancelled = TRUE]
           /\ UNCHANGED <<owner, operation, uncertain>>
  <2>1. op \in [Operations -> OpRecord] /\ operation \in Operations
    BY <1>4, FocusBoundsAssumption DEF ArbiterInv, ArbiterTypes, Pending, Operations
  <2>2. op' = [op EXCEPT ![operation] = [op[operation] EXCEPT !.cancelled = TRUE]]
    BY <1>4
  <2>3. op' \in [Operations -> OpRecord]
    BY <2>1, <2>2, CancelledRecord
  <2>4. \A d \in Operations : op'[d].step = op[d].step /\ op'[d].lease = op[d].lease
    BY <2>1, <2>2, CancelledRecord
  <2> QED
    BY <1>1, <1>2, <1>4, <2>3, <2>4, GivingUpIsGood DEF arbiter
<1>5. CASE (uncertain \/ (~Pending(l) /\ owner # l)) /\ UNCHANGED arbiter
  <2>1. op \in [Operations -> OpRecord] /\ uncertain => operation = 0
    BY DEF ArbiterInv, ArbiterTypes, OperationFits
  <2>2. CASE owner # l
    BY <1>1, <1>2, <1>5, <2>2, GivingUpIsGood DEF arbiter, ArbiterInv, ArbiterTypes
  <2>3. CASE uncertain
    <3>1. ArbiterTypes' /\ Reserved' /\ OperationFits' /\ FocusAccounted'
      BY <1>1, <1>5 DEF arbiter, ArbiterInv, ArbiterTypes, Reserved, OperationFits, FocusAccounted
    <3>2. ClosedLeaseLetsGo'
      BY <1>5, <2>3 DEF arbiter, ClosedLeaseLetsGo
    <3>3. GoodStep
      BY <1>5 DEF GoodStep, StepFailsClosed, StepHandsOver, StepKeepsToken, Running, arbiter,
                  TokenPhase, TokenHolder
    <3> QED
      BY <3>1, <3>2, <3>3 DEF ArbiterInv
  <2> QED
    BY <1>5, <2>2, <2>3
<1> QED
  BY <1>3, <1>4, <1>5 DEF Release

\* A deadline cancels the operation it was set for.
LEMMA CancelIsGood ==
    ASSUME ArbiterInv, NEW c,
           \/ op' = [op EXCEPT ![c].cancelled = TRUE]
           \/ op' = [op EXCEPT ![c].cancelled = TRUE, ![c].expired = TRUE],
           UNCHANGED <<owner, operation, uncertain, held, closed, revision>>
    PROVE  ArbiterInv' /\ GoodStep
<1>1. /\ op \in [Operations -> OpRecord]
      /\ closed' \in [Lease -> BOOLEAN] /\ revision' \in [Lease -> Nat]
  BY DEF ArbiterInv, ArbiterTypes
<1>2. PICK o : /\ op' = [op EXCEPT ![c] = o]
               /\ \/ o = [op[c] EXCEPT !.cancelled = TRUE]
                  \/ o = [op[c] EXCEPT !.cancelled = TRUE, !.expired = TRUE]
  OBVIOUS
<1>3. ASSUME c \in Operations
      PROVE  o \in OpRecord /\ o.step = op[c].step /\ o.lease = op[c].lease
  <2>1. op[c] \in OpRecord
    BY <1>1, <1>3
  <2> QED
    BY <1>2, <2>1, CancelledRecord, Zenon
<1>4. op' \in [Operations -> OpRecord]
  BY <1>1, <1>2, <1>3
<1>5. \A d \in Operations : op'[d].step = op[d].step /\ op'[d].lease = op[d].lease
  BY <1>1, <1>2, <1>3
<1> QED
  BY <1>1, <1>4, <1>5, GivingUpIsGood

(***************************************************************************)
(* Platform answers.                                                       *)
(***************************************************************************)
\* The operation that answers is the reserved one.
LEMMA AnswerIsReserved ==
    ASSUME ArbiterInv, NEW c \in Operations, op[c].step # "none"
    PROVE  /\ operation = c /\ c # 0 /\ ~uncertain
           /\ op \in [Operations -> OpRecord]
           /\ op[c].lease \in Lease
           /\ owner \in {NoLease, op[c].lease}
           /\ \A d \in Operations : d # c => op[d].step = "none"
<1>1. operation = c /\ c # 0
  BY FocusBoundsAssumption DEF ArbiterInv, Reserved, Operations
<1> QED
  BY <1>1 DEF ArbiterInv, ArbiterTypes, Reserved, OperationFits

\* Once it has settled nothing is reserved.
LEMMA SettleFrees ==
    ASSUME ArbiterInv, NEW c \in Operations, op[c].step # "none", NEW a, Settle(c, a),
           owner' \in Lease \cup {NoLease}, uncertain' \in BOOLEAN, held' \in BOOLEAN
    PROVE  /\ operation' = 0 /\ closed' = closed
           /\ ArbiterTypes' /\ Reserved' /\ OperationFits'
           /\ Running' = {}
<1>1. operation' = 0 /\ closed' = closed /\ revision' = revision /\ op' = [op EXCEPT ![c] = NoOp]
  BY AnswerIsReserved DEF Settle
<1>2. op' \in [Operations -> OpRecord] /\ \A d \in Operations : op'[d].step = "none"
  BY <1>1, AnswerIsReserved, NoOpFacts
<1>3. ArbiterTypes'
  BY <1>1, <1>2, FocusBoundsAssumption DEF ArbiterInv, ArbiterTypes
<1> QED
  BY <1>1, <1>2, <1>3 DEF Reserved, OperationFits, Running

\* Going on to a release keeps the operation reserved.
LEMMA CompensateIsReserved ==
    ASSUME ArbiterInv, NEW c \in Operations, op[c].step = "activating", Compensate(c),
           owner' \in {owner, op[c].lease}, held' \in BOOLEAN
    PROVE  /\ ArbiterInv' /\ StepFailsClosed /\ StepHandsOver /\ StepKeepsToken
<1> DEFINE o == [op[c] EXCEPT !.step = "releasing"]
<1>1. /\ operation = c /\ c # 0 /\ ~uncertain /\ op \in [Operations -> OpRecord]
      /\ op[c].lease \in Lease /\ \A d \in Operations : d # c => op[d].step = "none"
  BY AnswerIsReserved
<1>2. owner = NoLease
  BY <1>1 DEF ArbiterInv, OperationFits
<1>3. o \in OpRecord /\ o.step = "releasing" /\ o.lease = op[c].lease
  BY <1>1 DEF OpRecord
<1>4. /\ op' = [op EXCEPT ![c] = o]
      /\ operation' = c /\ uncertain' = FALSE /\ closed' = closed /\ revision' = revision
  BY <1>1 DEF Compensate, ArbiterInv, ArbiterTypes
<1> HIDE DEF o
<1>5. op' \in [Operations -> OpRecord] /\ op'[c] = o /\ \A d \in Operations : d # c => op'[d] = op[d]
  BY <1>1, <1>3, <1>4
<1>6. owner' \in {NoLease, op[c].lease}
  BY <1>2
<1>7. ArbiterTypes' /\ Reserved' /\ OperationFits' /\ FocusAccounted'
  BY <1>1, <1>3, <1>4, <1>5, <1>6
     DEF ArbiterInv, ArbiterTypes, Reserved, OperationFits, FocusAccounted
<1>8. ClosedLeaseLetsGo'
  BY <1>1, <1>3, <1>4, <1>5, <1>6, NoLeaseAssumption DEF ClosedLeaseLetsGo
<1>9. StepKeepsToken
  <2>1. TokenPhase = "asking" /\ TokenHolder = op[c].lease
    BY <1>1 DEF TokenPhase, TokenHolder
  <2>2. TokenPhase' = "givingUp" /\ TokenHolder' = op[c].lease
    BY <1>1, <1>3, <1>4, <1>5 DEF TokenPhase, TokenHolder
  <2> QED
    BY <2>1, <2>2 DEF StepKeepsToken, Token!TokenNext, Token!GiveUp
<1> QED
  BY <1>1, <1>2, <1>7, <1>8, <1>9 DEF ArbiterInv, StepFailsClosed, StepHandsOver

\* The platform granted focus: the lease owns it or gives it up at once.
LEMMA GrantedIsGood ==
    ASSUME ArbiterInv, NEW c \in Operations, ActivationGranted(c)
    PROVE  ArbiterInv' /\ GoodStep
<1> DEFINE l == op[c].lease
<1>1. /\ op[c].step = "activating" /\ held' = TRUE /\ owner' = l /\ l \in Lease
      /\ operation = c /\ c # 0 /\ ~uncertain
  BY AnswerIsReserved DEF ActivationGranted
<1>2. owner = NoLease
  BY <1>1 DEF ArbiterInv, OperationFits
<1>3. CASE Compensate(c)
  BY <1>1, <1>3, CompensateIsReserved DEF GoodStep
<1>4. CASE ~closed[l] /\ Settle(c, "granted") /\ UNCHANGED uncertain
  <2>1. operation' = 0 /\ closed' = closed /\ ArbiterTypes' /\ Reserved' /\ OperationFits'
    <3>1. owner' \in Lease \cup {NoLease} /\ uncertain' \in BOOLEAN /\ held' \in BOOLEAN
      BY <1>1, <1>4 DEF ArbiterInv, ArbiterTypes
    <3> QED
      BY <1>1, <1>4, <3>1, SettleFrees
  <2>2. FocusAccounted' /\ ClosedLeaseLetsGo'
    BY <1>1, <1>4, <2>1, NoLeaseAssumption DEF FocusAccounted, ClosedLeaseLetsGo
  <2>3. StepKeepsToken
    <3>1. TokenPhase = "asking" /\ TokenHolder = l
      BY <1>1 DEF TokenPhase, TokenHolder
    <3>2. TokenPhase' = "held" /\ TokenHolder' = l
      BY <1>1, <1>4, <2>1, NoLeaseAssumption DEF TokenPhase, TokenHolder
    <3> QED
      BY <3>1, <3>2 DEF StepKeepsToken, Token!TokenNext, Token!Given
  <2> QED
    BY <1>1, <1>2, <2>1, <2>2, <2>3
       DEF ArbiterInv, GoodStep, StepFailsClosed, StepHandsOver
<1> QED
  BY <1>3, <1>4 DEF ActivationGranted

\* The platform refused.
LEMMA RejectedIsGood ==
    ASSUME ArbiterInv, NEW c \in Operations, ActivationRejected(c)
    PROVE  ArbiterInv' /\ GoodStep
<1>1. /\ op[c].step = "activating" /\ UNCHANGED <<owner, uncertain, held>>
      /\ operation = c /\ c # 0 /\ ~uncertain
  BY AnswerIsReserved DEF ActivationRejected
<1>2. owner = NoLease /\ ~held
  BY <1>1 DEF ArbiterInv, OperationFits
<1>3. operation' = 0 /\ closed' = closed /\ ArbiterTypes' /\ Reserved' /\ OperationFits'
  <2>1. owner' \in Lease \cup {NoLease} /\ uncertain' \in BOOLEAN /\ held' \in BOOLEAN
    BY <1>1 DEF ArbiterInv, ArbiterTypes
  <2> QED
    BY <1>1, <2>1, SettleFrees DEF ActivationRejected
<1>4. FocusAccounted' /\ ClosedLeaseLetsGo'
  BY <1>1, <1>2, <1>3, NoLeaseAssumption DEF FocusAccounted, ClosedLeaseLetsGo
<1>5. StepKeepsToken
  <2>1. TokenPhase = "asking"
    BY <1>1 DEF TokenPhase
  <2>2. TokenPhase' = "free" /\ TokenHolder' = NoLease
    BY <1>1, <1>2, <1>3 DEF TokenPhase, TokenHolder
  <2> QED
    BY <2>1, <2>2 DEF StepKeepsToken, Token!TokenNext, Token!Refused, Token!Free
<1> QED
  BY <1>1, <1>3, <1>4, <1>5 DEF ArbiterInv, GoodStep, StepFailsClosed, StepHandsOver

\* The platform threw: focus may be held, so it is released.
LEMMA ThrowsIsGood ==
    ASSUME ArbiterInv, NEW c \in Operations, ActivationThrows(c)
    PROVE  ArbiterInv' /\ GoodStep
BY CompensateIsReserved DEF ActivationThrows, GoodStep

\* The platform acknowledged a release.
LEMMA ConfirmedIsGood ==
    ASSUME ArbiterInv, NEW c \in Operations, ReleaseConfirmed(c)
    PROVE  ArbiterInv' /\ GoodStep
<1>1. /\ op[c].step = "releasing" /\ held' = FALSE /\ owner' = NoLease /\ uncertain' = uncertain
      /\ operation = c /\ c # 0 /\ ~uncertain
  BY AnswerIsReserved DEF ReleaseConfirmed
<1>2. operation' = 0 /\ ArbiterTypes' /\ Reserved' /\ OperationFits'
  <2>1. owner' \in Lease \cup {NoLease} /\ uncertain' \in BOOLEAN /\ held' \in BOOLEAN
    BY <1>1 DEF ArbiterInv, ArbiterTypes
  <2>2. PICK a : Settle(c, a)
    BY DEF ReleaseConfirmed
  <2> QED
    BY <1>1, <2>1, <2>2, SettleFrees
<1>3. FocusAccounted' /\ ClosedLeaseLetsGo'
  BY <1>1, NoLeaseAssumption DEF FocusAccounted, ClosedLeaseLetsGo
<1>4. StepKeepsToken
  <2>1. TokenPhase = "givingUp"
    BY <1>1 DEF TokenPhase
  <2>2. TokenPhase' = "free" /\ TokenHolder' = NoLease
    BY <1>1, <1>2 DEF TokenPhase, TokenHolder
  <2> QED
    BY <2>1, <2>2 DEF StepKeepsToken, Token!TokenNext, Token!GivenUp, Token!Free
<1> QED
  BY <1>1, <1>2, <1>3, <1>4 DEF ArbiterInv, GoodStep, StepFailsClosed, StepHandsOver

\* The platform did not acknowledge a release.
LEMMA UnconfirmedIsGood ==
    ASSUME ArbiterInv, NEW c \in Operations, ReleaseUnconfirmed(c)
    PROVE  ArbiterInv' /\ GoodStep
<1>1. /\ op[c].step = "releasing" /\ owner' = owner /\ uncertain' = TRUE
      /\ operation = c /\ c # 0 /\ ~uncertain
  BY AnswerIsReserved DEF ReleaseUnconfirmed
<1>2. operation' = 0 /\ ArbiterTypes' /\ Reserved' /\ OperationFits'
  <2>1. owner' \in Lease \cup {NoLease} /\ uncertain' \in BOOLEAN /\ held' \in BOOLEAN
    BY <1>1 DEF ReleaseUnconfirmed, ArbiterInv, ArbiterTypes
  <2> QED
    BY <1>1, <2>1, SettleFrees DEF ReleaseUnconfirmed
<1>3. FocusAccounted' /\ ClosedLeaseLetsGo'
  BY <1>1 DEF FocusAccounted, ClosedLeaseLetsGo
<1>4. StepKeepsToken
  <2>1. TokenPhase = "givingUp"
    BY <1>1 DEF TokenPhase
  <2>2. TokenPhase' = "unknown" /\ TokenHolder' = NoLease
    BY <1>1 DEF TokenPhase, TokenHolder
  <2> QED
    BY <2>1, <2>2 DEF StepKeepsToken, Token!TokenNext, Token!Lost
<1> QED
  BY <1>1, <1>2, <1>3, <1>4 DEF ArbiterInv, GoodStep, StepFailsClosed, StepHandsOver

(***************************************************************************)
(* Callers and chains: their types, and that a waiting call has a lease.   *)
(***************************************************************************)
GoodCalls(f) ==
    /\ f \in [Caller -> CallRecord]
    /\ \A k \in Caller : f[k].at \in {"quiescing", "quiesced"} => f[k].lease \in Lease

CallsInv == GoodCalls(calls) /\ quiescence \in [Lease -> Seq(EntryRecord)] /\ grantedAt \in Nat

FocusInv == ArbiterInv /\ CallsInv

\* A call that gets an answer, or whose wait for the chain is over.
Moved(f, g) ==
    /\ g = [k \in Caller |-> g[k]]
    /\ \A k \in Caller :
          \/ g[k] = f[k]
          \/ \E a \in Answers : g[k] = [f[k] EXCEPT !.at = a]
          \/ f[k].at = "quiescing" /\ g[k] = [f[k] EXCEPT !.at = "quiesced"]

\* Moving calls on keeps their types and their leases.
LEMMA MovedIsGood ==
    ASSUME NEW f, NEW g, GoodCalls(f), Moved(f, g)
    PROVE  GoodCalls(g)
<1>1. ASSUME NEW r \in CallRecord, NEW a \in {"idle", "quiescing", "quiesced", "activating"} \cup Answers
      PROVE  /\ [r EXCEPT !.at = a] \in CallRecord
             /\ [r EXCEPT !.at = a].at = a
             /\ [r EXCEPT !.at = a].lease = r.lease
  BY DEF CallRecord
<1>2. \A k \in Caller : f[k] \in CallRecord
  BY DEF GoodCalls
<1>3. \A k \in Caller : g[k] \in CallRecord
  BY <1>1, <1>2 DEF Moved
<1>4. ASSUME NEW k \in Caller, g[k].at \in {"quiescing", "quiesced"}
      PROVE  g[k].lease \in Lease
  <2>1. CASE g[k] = f[k]
    BY <1>4, <2>1 DEF GoodCalls
  <2>2. ASSUME NEW a \in Answers, g[k] = [f[k] EXCEPT !.at = a]
        PROVE  FALSE
    BY <1>1, <1>2, <1>4, <2>2 DEF Answers
  <2>3. CASE f[k].at = "quiescing" /\ g[k] = [f[k] EXCEPT !.at = "quiesced"]
    BY <1>1, <1>2, <2>3 DEF GoodCalls
  <2> QED
    BY <2>1, <2>2, <2>3 DEF Moved
<1> QED
  BY <1>3, <1>4 DEF GoodCalls, Moved

\* A call that is recorded anew.
LEMMA NewCallIsGood ==
    ASSUME ArbiterInv, GoodCalls(calls), NEW k \in Caller, NEW l \in Lease, NEW r \in CallRecord,
           r.at \in {"quiescing", "quiesced"} => r.lease \in Lease,
           calls' = [calls EXCEPT ![k] = r]
    PROVE  GoodCalls(calls')
BY DEF GoodCalls

\* The records that activate() makes.
LEMMA RecordsAreCalls ==
    ASSUME NEW l \in Lease \cup {NoLease}, NEW n \in Nat, NEW w \in Nat,
           NEW a \in {"idle", "quiescing", "quiesced", "activating"} \cup Answers
    PROVE  LET r == [at |-> a, lease |-> l, rev |-> n, awaits |-> w]
           IN  r \in CallRecord /\ r.at = a /\ r.lease = l
BY DEF CallRecord

\* _activate records the call it answers or makes wait.
LEMMA ActivateCalls ==
    ASSUME ArbiterInv, GoodCalls(calls), NEW k \in Caller, NEW l \in Lease, Activate(k, l)
    PROVE  GoodCalls(calls')
<1>1. revision[l] \in Nat /\ operation \in Nat
  BY FocusBoundsAssumption DEF ArbiterInv, ArbiterTypes
<1>2. ASSUME NEW a \in Answers, Answer(k, l, a)
      PROVE  GoodCalls(calls')
  <2> DEFINE r == [at |-> a, lease |-> l, rev |-> revision[l], awaits |-> 0]
  <2>1. r \in CallRecord /\ r.at = a
    BY <1>1, RecordsAreCalls
  <2>2. calls' = [calls EXCEPT ![k] = r]
    BY <1>2 DEF Answer
  <2> HIDE DEF r
  <2> QED
    BY <2>1, <2>2, NewCallIsGood DEF Answers
<1>3. ASSUME NEW w \in Nat, Await(k, l, w)
      PROVE  GoodCalls(calls')
  <2> DEFINE r == [at |-> "activating", lease |-> l, rev |-> revision[l], awaits |-> w]
  <2>1. r \in CallRecord /\ r.at = "activating" /\ calls' = [calls EXCEPT ![k] = r]
    BY <1>1, <1>3, RecordsAreCalls DEF Await
  <2> HIDE DEF r
  <2> QED
    BY <2>1, NewCallIsGood
<1>4. Start(l, TRUE) => operation' \in Nat
  BY DEF Start, Operations
<1> QED
  BY <1>1, <1>2, <1>3, <1>4 DEF Activate, Unavailable, Answers

\* Parts of a chain.
LEMMA ChainFacts ==
    ASSUME NEW s \in Seq(EntryRecord), s # <<>>
    PROVE  Tail(s) \in Seq(EntryRecord) /\ Head(s) \in EntryRecord /\ Last(s) \in EntryRecord
BY HeadTailProperties, LenProperties DEF Last

\* The head of a chain completes.
LEMMA HeadsAreGood ==
    ASSUME CallsInv, NEW l \in Lease, quiescence[l] # <<>>, NEW cs, GoodCalls(cs),
           HeadSucceeds(l, cs) \/ HeadFails(l, cs)
    PROVE  quiescence' \in [Lease -> Seq(EntryRecord)] /\ GoodCalls(calls')
<1>1. quiescence' \in [Lease -> Seq(EntryRecord)]
  <2>1. quiescence[l] \in Seq(EntryRecord) /\ <<>> \in Seq(EntryRecord)
    BY DEF CallsInv
  <2> QED
    BY <2>1, ChainFacts DEF HeadSucceeds, HeadFails, CallsInv
<1>2. Moved(cs, calls')
  BY DEF Moved, HeadSucceeds, HeadFails, Answers
<1> QED
  BY <1>1, <1>2, MovedIsGood

\* An operation settles and tells everyone.
LEMMA SettleCalls ==
    ASSUME FocusInv, NEW c \in Operations, op[c].lease \in Lease,
           NEW a \in Answers, Settle(c, a)
    PROVE  quiescence' \in [Lease -> Seq(EntryRecord)] /\ GoodCalls(calls')
<1> DEFINE cs == [k \in Caller |-> IF calls[k].at = "activating" /\ calls[k].awaits = c
                                 THEN [calls[k] EXCEPT !.at = a] ELSE calls[k]]
<1>1. Moved(calls, cs)
  BY DEF Moved, Answers
<1>2. GoodCalls(cs)
  BY <1>1, MovedIsGood DEF FocusInv, CallsInv
<1>3. CASE calls' = cs /\ UNCHANGED quiescence
  BY <1>2, <1>3 DEF FocusInv, CallsInv
<1>4. CASE quiescence[op[c].lease] # <<>>
           /\ (HeadSucceeds(op[c].lease, cs) \/ HeadFails(op[c].lease, cs))
  BY <1>2, <1>4, HeadsAreGood DEF FocusInv
<1> QED
  BY <1>3, <1>4 DEF Settle

(***************************************************************************)
(* Every step.                                                             *)
(***************************************************************************)
\* Revoking keeps the revisions natural numbers.
LEMMA RevisionIsNat ==
    ASSUME ArbiterInv, NEW l \in Lease
    PROVE  [revision EXCEPT ![l] = @ + 1] \in [Lease -> Nat]
BY DEF ArbiterInv, ArbiterTypes

\* Every step of the program keeps the invariant and is one of the permitted ones.
LEMMA StepIsGood ==
    ASSUME FocusInv, [FocusNext]_fvars
    PROVE  ArbiterInv' /\ GoodStep
<1>0. ArbiterInv
  BY DEF FocusInv
<1>1. revision \in [Lease -> Nat]
  BY <1>0 DEF ArbiterInv, ArbiterTypes
<1>2. CASE UNCHANGED fvars
  BY <1>0, <1>1, <1>2, NothingHappens DEF fvars, arbiter
<1>3. ASSUME NEW k \in Caller, NEW l \in Lease, CallActivate(k, l)
      PROVE  ArbiterInv' /\ GoodStep
  <2>1. CASE Activate(k, l)
    BY <1>0, <1>3, <2>1, ActivateIsGood DEF CallActivate
  <2>2. CASE UNCHANGED arbiter
    BY <1>0, <1>1, <1>3, <2>2, NothingHappens DEF CallActivate
  <2> QED
    BY <1>3, <2>1, <2>2 DEF CallActivate
<1>4. ASSUME NEW k \in Caller, ContinueActivate(k)
      PROVE  ArbiterInv' /\ GoodStep
  <2>0. calls[k].lease \in Lease
    BY <1>4 DEF ContinueActivate, FocusInv, CallsInv, GoodCalls
  <2>1. CASE Activate(k, calls[k].lease)
    BY <1>0, <1>4, <2>0, <2>1, ActivateIsGood DEF ContinueActivate
  <2>2. CASE UNCHANGED arbiter
    BY <1>0, <1>1, <1>4, <2>2, NothingHappens DEF ContinueActivate
  <2> QED
    BY <1>4, <2>1, <2>2 DEF ContinueActivate
<1>5. ASSUME NEW k \in Caller, QuiescenceExpires(k) \/ Return(k)
      PROVE  ArbiterInv' /\ GoodStep
  BY <1>0, <1>1, <1>5, NothingHappens DEF QuiescenceExpires, Return, arbiter
<1>6. ASSUME NEW l \in Lease, CallRelease(l)
      PROVE  ArbiterInv' /\ GoodStep
  BY <1>0, <1>6, RevisionIsNat, ReleaseIsGood DEF CallRelease
<1>7. ASSUME NEW l \in Lease, Close(l)
      PROVE  ArbiterInv' /\ GoodStep
  BY <1>0, <1>7, RevisionIsNat, ReleaseIsGood DEF Close
<1>8. ASSUME NEW l \in Lease, ReleaseAfter(l)
      PROVE  ArbiterInv' /\ GoodStep
  BY <1>0, <1>8, RevisionIsNat, NothingHappens DEF ReleaseAfter, arbiter
<1>9. ASSUME NEW l \in Lease, ReleaseExpires(l)
      PROVE  ArbiterInv' /\ GoodStep
  BY <1>0, <1>9, CancelIsGood DEF ReleaseExpires
<1>10. ASSUME NEW l \in Lease, NEW ok \in BOOLEAN, ControlSettles(l, ok)
       PROVE  ArbiterInv' /\ GoodStep
  BY <1>0, <1>1, <1>10, ReleaseIsGood DEF ControlSettles
<1>11. ASSUME NEW c \in Operations, ActivationExpires(c)
       PROVE  ArbiterInv' /\ GoodStep
  BY <1>0, <1>11, CancelIsGood DEF ActivationExpires
<1>12. ASSUME NEW c \in Operations, PlatformAnswers(c)
       PROVE  ArbiterInv' /\ GoodStep
  BY <1>0, <1>12, GrantedIsGood, RejectedIsGood, ThrowsIsGood, ConfirmedIsGood, UnconfirmedIsGood
     DEF PlatformAnswers
<1> QED
  BY <1>2, <1>3, <1>4, <1>5, <1>6, <1>7, <1>8, <1>9, <1>10, <1>11, <1>12 DEF FocusNext

\* Every step keeps the types of the calls and the chains.
LEMMA CallsStayGood ==
    ASSUME FocusInv, [FocusNext]_fvars
    PROVE  CallsInv'
<1>0. /\ ArbiterInv /\ GoodCalls(calls) /\ grantedAt \in Nat
      /\ quiescence \in [Lease -> Seq(EntryRecord)]
      /\ revision \in [Lease -> Nat]
  BY DEF FocusInv, CallsInv, ArbiterInv, ArbiterTypes
<1>2. CASE UNCHANGED <<calls, quiescence, grantedAt>>
  BY <1>0, <1>2 DEF CallsInv
<1>3. ASSUME NEW k \in Caller, NEW l \in Lease, CallActivate(k, l)
      PROVE  CallsInv'
  <2>1. CASE Activate(k, l)
    BY <1>0, <1>3, <2>1, ActivateCalls DEF CallActivate, CallsInv
  <2>2. CASE isReleasing(l) /\ ~Activate(k, l)
    <3> DEFINE r == [at |-> "quiescing", lease |-> l, rev |-> revision[l],
                     awaits |-> Last(quiescence[l]).id]
    <3>1. Last(quiescence[l]).id \in Nat
      BY <1>0, <2>2, ChainFacts DEF isReleasing, EntryRecord
    <3>2. r \in CallRecord /\ r.lease = l
      BY <1>0, <3>1, RecordsAreCalls
    <3>3. calls' = [calls EXCEPT ![k] = r] /\ UNCHANGED <<quiescence, grantedAt>>
      BY <1>3, <2>2 DEF CallActivate
    <3> HIDE DEF r
    <3> QED
      BY <1>0, <3>2, <3>3, NewCallIsGood DEF CallsInv
  <2> QED
    BY <1>3, <2>1, <2>2 DEF CallActivate
<1>4. ASSUME NEW k \in Caller, ContinueActivate(k)
      PROVE  CallsInv'
  <2>1. calls[k].lease \in Lease
    BY <1>0, <1>4 DEF ContinueActivate, GoodCalls
  <2>2. CASE Activate(k, calls[k].lease)
    BY <1>0, <1>4, <2>1, <2>2, ActivateCalls DEF ContinueActivate, CallsInv
  <2>3. CASE calls' = [calls EXCEPT ![k].at = "failed"]
    <3>1. Moved(calls, calls')
      BY <1>0, <2>3 DEF Moved, Answers, GoodCalls
    <3> QED
      BY <1>0, <1>4, <3>1, MovedIsGood DEF ContinueActivate, CallsInv
  <2> QED
    BY <1>4, <2>2, <2>3 DEF ContinueActivate
<1>5. ASSUME NEW k \in Caller, QuiescenceExpires(k)
      PROVE  CallsInv'
  <2>1. Moved(calls, calls')
    BY <1>0, <1>5 DEF Moved, Answers, GoodCalls, QuiescenceExpires
  <2> QED
    BY <1>0, <1>5, <2>1, MovedIsGood DEF QuiescenceExpires, CallsInv
<1>6. ASSUME NEW k \in Caller, Return(k)
      PROVE  CallsInv'
  <2>1. NoCall \in CallRecord /\ NoCall.at = "idle"
    BY DEF NoCall, CallRecord
  <2> QED
    BY <1>0, <1>6, <2>1 DEF Return, CallsInv, GoodCalls
<1>7. ASSUME NEW l \in Lease, ReleaseAfter(l)
      PROVE  CallsInv'
  <2>1. revision'[l] \in Nat
    BY <1>0, <1>7 DEF ReleaseAfter
  <2>2. Entry(revision'[l]) \in EntryRecord
    BY <2>1 DEF Entry, EntryRecord
  <2>3. Append(quiescence[l], Entry(revision'[l])) \in Seq(EntryRecord)
    BY <1>0, <2>2, AppendProperties
  <2> QED
    BY <1>0, <1>7, <2>3 DEF ReleaseAfter, CallsInv
<1>8. ASSUME NEW l \in Lease, ReleaseExpires(l)
      PROVE  CallsInv'
  BY <1>0, <1>8, HeadsAreGood DEF ReleaseExpires, CallsInv
<1>9. ASSUME NEW l \in Lease, NEW ok \in BOOLEAN, ControlSettles(l, ok)
      PROVE  CallsInv'
  <2>1. CASE HeadSucceeds(l, calls) \/ HeadFails(l, calls)
    BY <1>0, <1>9, <2>1, HeadsAreGood DEF ControlSettles, CallsInv
  <2>2. CASE /\ ReleaseAwaits(l) # 0
             /\ quiescence' = [quiescence EXCEPT ![l][1] =
                  [@ EXCEPT !.at = "release", !.ok = ok, !.awaits = ReleaseAwaits(l)]]
             /\ UNCHANGED calls
    <3> DEFINE s == quiescence[l]
               e == [s[1] EXCEPT !.at = "release", !.ok = ok, !.awaits = ReleaseAwaits(l)]
    <3>1. ArbiterInv'
      BY <1>0, <1>9, ReleaseIsGood DEF ControlSettles
    <3>2. ReleaseAwaits(l) \in Nat
      BY <3>1, FocusBoundsAssumption DEF ReleaseAwaits, ArbiterInv, ArbiterTypes
    <3>3. s \in Seq(EntryRecord) /\ s # <<>>
      BY <1>0, <1>9 DEF ControlSettles
    <3>4. s[1] \in EntryRecord /\ 1 \in 1..Len(s)
      BY <3>3, LenProperties
    <3>5. e \in EntryRecord
      BY <3>2, <3>4 DEF EntryRecord
    <3>6. [s EXCEPT ![1] = e] \in Seq(EntryRecord)
      BY <3>3, <3>4, <3>5, ExceptSeq
    <3>7. quiescence' = [quiescence EXCEPT ![l] = [s EXCEPT ![1] = e]]
      BY <2>2
    <3> QED
      BY <1>0, <1>9, <2>2, <3>6, <3>7 DEF ControlSettles, CallsInv
  <2> QED
    BY <1>9, <2>1, <2>2 DEF ControlSettles
<1>10. ASSUME NEW c \in Operations, ActivationExpires(c)
       PROVE  CallsInv'
  <2>1. Moved(calls, calls')
    BY <1>0, <1>10 DEF Moved, Answers, GoodCalls, ActivationExpires
  <2> QED
    BY <1>0, <1>10, <2>1, MovedIsGood DEF ActivationExpires, CallsInv
<1>11. ASSUME NEW c \in Operations, PlatformAnswers(c)
       PROVE  CallsInv'
  <2>1. op[c].step # "none"
    BY <1>11 DEF PlatformAnswers, ActivationGranted, ActivationRejected, ActivationThrows,
                 ReleaseConfirmed, ReleaseUnconfirmed
  <2>2. op[c].lease \in Lease /\ op[c].rev \in Nat
    BY <1>0, <2>1, AnswerIsReserved DEF OpRecord
  <2>3. grantedAt' \in Nat
    BY <1>0, <1>11, <2>2
       DEF PlatformAnswers, ActivationGranted, ActivationRejected, ActivationThrows,
           ReleaseConfirmed, ReleaseUnconfirmed
  <2>4. CASE UNCHANGED <<quiescence, calls>>
    BY <1>0, <2>3, <2>4 DEF CallsInv
  <2>5. CASE \E a \in Answers : Settle(c, a)
    BY <2>2, <2>3, <2>5, SettleCalls DEF CallsInv
  <2> QED
    BY <1>11, <2>4, <2>5
       DEF PlatformAnswers, ActivationGranted, ActivationRejected, ActivationThrows,
           ReleaseConfirmed, ReleaseUnconfirmed, Compensate, Answers
<1> QED
  BY <1>2, <1>3, <1>4, <1>5, <1>6, <1>7, <1>8, <1>9, <1>10, <1>11
     DEF FocusNext, fvars, CallRelease, Close

(***************************************************************************)
(* Theorems.                                                               *)
(***************************************************************************)
\* The inductive invariant of the arbiter with its callers and chains.
THEOREM FocusInvariant == FocusSpec => []FocusInv
<1>1. FocusInit => FocusInv
  <2> SUFFICES ASSUME FocusInit PROVE CallsInv
    BY InitEstablishes DEF FocusInv
  <2>1. NoCall \in CallRecord /\ NoCall.at = "idle"
    BY DEF NoCall, CallRecord
  <2>2. <<>> \in Seq(EntryRecord)
    OBVIOUS
  <2> QED
    BY <2>1, <2>2 DEF FocusInit, CallsInv, GoodCalls
<1>2. FocusInv /\ [FocusNext]_fvars => FocusInv'
  BY StepIsGood, CallsStayGood DEF FocusInv
<1> QED
  BY <1>1, <1>2, PTL DEF FocusSpec

\* Type correctness of the owner, the leases, the calls and the platform.
THEOREM FocusTypes == FocusSpec => []FocusTypeOK
<1>1. FocusInv => FocusTypeOK
  BY DEF FocusInv, ArbiterInv, ArbiterTypes, CallsInv, GoodCalls, FocusTypeOK
<1> QED
  BY <1>1, FocusInvariant, PTL

\* The platform never has two setActive calls outstanding.
THEOREM NeverTwoPlatformCalls == FocusSpec => []OnePlatformCall
<1>1. FocusInv => OnePlatformCall
  <2> SUFFICES ASSUME ArbiterInv PROVE OnePlatformCall
    BY DEF FocusInv
  <2>1. operation # 0 => operation \in Operations
    BY FocusBoundsAssumption DEF ArbiterInv, ArbiterTypes, Operations
  <2>2. 0 \notin Operations
    BY DEF Operations
  <2> QED
    BY <2>1, <2>2 DEF ArbiterInv, Reserved, OnePlatformCall, Running
<1> QED
  BY <1>1, FocusInvariant, PTL

\* At rest the arbiter and the platform agree on who holds focus.
THEOREM FocusNeverLeaks == FocusSpec => []FocusAccounted
<1>1. FocusInv => FocusAccounted
  BY DEF FocusInv, ArbiterInv
<1> QED
  BY <1>1, FocusInvariant, PTL

\* While a lease owns focus no other lease's platform operation is running.
THEOREM CleanupsStayHome == FocusSpec => []NoForeignCleanup
<1>1. FocusInv => NoForeignCleanup
  <2> SUFFICES ASSUME ArbiterInv PROVE NoForeignCleanup
    BY DEF FocusInv
  <2>1. \A c \in Running : c = operation /\ c # 0
    BY DEF ArbiterInv, Reserved, Running, Operations
  <2> QED
    BY <2>1 DEF ArbiterInv, OperationFits, NoForeignCleanup
<1> QED
  BY <1>1, FocusInvariant, PTL

\* A closed lease owns focus only until its release is done or has failed.
THEOREM ClosedLeasesLetGo == FocusSpec => []ClosedLeaseLetsGo
<1>1. FocusInv => ClosedLeaseLetsGo
  BY DEF FocusInv, ArbiterInv
<1> QED
  BY <1>1, FocusInvariant, PTL

\* After an unacknowledged release the platform is never asked again, and focus
\* passes between leases only through a confirmed release.
THEOREM StepsAreSafe == FocusSpec => FailClosed /\ HandoverThroughFree
<1>1. FocusInv /\ [FocusNext]_fvars
        => [StepFailsClosed]_fvars /\ [StepHandsOver]_fvars
  BY StepIsGood DEF GoodStep
<1> QED
  BY <1>1, FocusInvariant, PTL
     DEF FocusSpec, FailClosed, HandoverThroughFree, StepFailsClosed, StepHandsOver

\* The arbiter implements the token of FocusContract.
THEOREM ImplementsToken == FocusSpec => KeepsToken
<1>1. FocusInit => Token!Free
  BY DEF FocusInit, Token!Free, TokenPhase, TokenHolder
<1>2. FocusInv /\ [FocusNext]_fvars => [Token!TokenNext]_<<TokenPhase, TokenHolder>>
  BY StepIsGood DEF GoodStep, StepKeepsToken
<1> QED
  BY <1>1, <1>2, FocusInvariant, PTL
     DEF FocusSpec, KeepsToken, Token!TokenSpec, Token!tvars

=============================================================================
