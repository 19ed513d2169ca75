------------------------ MODULE CredentialVaultProofs ------------------------
(***************************************************************************)
(* Proofs about CredentialVault, for any number of keys and of             *)
(* continuations that wait, and whichever operations of the storage fail.  *)
(***************************************************************************)
EXTENDS CredentialVault, SequenceTheorems, TLAPS

SlotsRecord == [current : Key, staged : Stage]
Answer == {"none", "ok", "no", "failed", "replaced", "candidate", "gate", "notNeeded",
           "noCredential"} \cup Outcome
ProcRecord == [pc : Pc, epoch : Nat, key : Key, source : Key, silent : BOOLEAN, answer : Answer,
               trigger : {"none", "checkpoint", "rejection"}, recovery : Recovery,
               snap : SlotsRecord]
Operation == [kind : Kind, epoch : Nat, doc : Stage, by : User, at : 0..2]
SessionState == {"signedOut", "pending", "expired", "authenticated", "continuation"}
SessionRecord == [state : SessionState, key : Key,
                  flight : {"none", "active", "failed", "installed"}]
ShownStage == {"out", "retry", "in", "cleanup"}

(***************************************************************************)
(* Types; and no recovery is of an epoch to come.                          *)
(***************************************************************************)
SlotsOK == current \in Key /\ staged \in Stage
QueueOK == queue \in Seq(Operation) /\ epoch \in Nat
ProcOK == proc \in [User -> ProcRecord]
CoreOK == session \in SessionRecord /\ attempt \in User \cup {"none"}
RecoveryOK == recovery \in Recovery /\ recovery.epoch <= epoch
TodoOK == todo \in Seq({"checkpoint", "rejection"}) /\ Len(todo) <= MaxTodo
ServerOK == issued \in 1..MaxKey /\ refused \subseteq Key /\ from \in [1..MaxKey -> Key]
            /\ activated \in BOOLEAN
HistoryOK == saved \in Key /\ loggedOut \in BOOLEAN
StateOK == CoreOK /\ RecoveryOK /\ TodoOK /\ ServerOK /\ HistoryOK /\ shown \in ShownStage
VaultTypes == SlotsOK /\ QueueOK /\ ProcOK /\ StateOK

(***************************************************************************)
(* Who is where, and who waits for which operation.  A user has at most    *)
(* one in the queue; only the first one has begun; the deletion of a       *)
(* sign-out stands behind operations of older epochs only.                 *)
(***************************************************************************)
RecoveryPc == {"attempting", "republishing", "rereading", "finishing", "falling", "fallback",
               "dropping"}
Starting == {"boot", "snapshot", "plain", "unstaging"}
ControllerPc == RecoveryPc \cup Starting \cup {"idle", "begin", "deleting"}
CoordinatorPc == Pc \ {"boot", "plain", "waiting", "persisting"}
Waits(kind, pc) ==
    \/ kind = "read" /\ pc \in {"snapshot", "plain", "rereading", "fallback"}
    \/ kind = "stage" /\ pc = "staging"
    \/ kind = "publish" /\ pc \in {"republishing", "publishing"}
    \/ kind = "unstage" /\ pc \in {"unstaging", "finishing", "falling", "cleaning"}
    \/ kind = "replace" /\ pc = "persisting"
    \/ kind \in {"delete", "deleteIf"} /\ pc \in {"deleting", "dropping"}
Fits(op) ==
    /\ Waits(op.kind, proc[op.by].pc) /\ proc[op.by].answer = "none" /\ op.epoch <= epoch
    /\ op.kind = "read" /\ proc[op.by].pc = "snapshot" => op.epoch = proc[op.by].epoch
    /\ op.kind = "read" => op.at = 0
    /\ op.by = "leaver" => op.kind = "delete" /\ op.epoch = proc["leaver"].epoch
OpsOK ==
    \A i \in 1..Len(queue) :
        /\ Fits(queue[i])
        /\ i > 1 => queue[i].at = 0
        /\ \A j \in 1..Len(queue) : queue[j].by = queue[i].by => j = i
LeaverOK ==
    At("leaver", "deleting") =>
        /\ proc["leaver"].epoch > 0
        /\ proc["leaver"].answer = "none" =>
              \E j \in 1..Len(queue) :
                  /\ queue[j].by = "leaver"
                  /\ \A i \in 1..Len(queue) : i < j => queue[i].epoch < proc["leaver"].epoch
ProcsOK ==
    /\ proc["controller"].pc \in ControllerPc /\ proc["coordinator"].pc \in CoordinatorPc
    /\ proc["login"].pc \in {"idle", "waiting", "persisting"}
    /\ proc["leaver"].pc \in {"idle", "deleting"} /\ proc["leaver"].recovery = NoRecovery
    /\ At("leaver", "idle") => proc["leaver"].answer = "none"
    /\ \A p \in User :
          /\ proc[p].epoch <= epoch /\ proc[p].recovery.epoch <= epoch
          /\ proc[p].pc \notin RecoveryPc \cup {"deleting"} => proc[p].recovery = NoRecovery

(***************************************************************************)
(* Whose turn it is.  Nobody else begins before the controller has         *)
(* started; while a sign-out is under way, or a login waits for its user,  *)
(* the controller changes nothing that is shown.                           *)
(***************************************************************************)
Quieted == proc["controller"].pc = "idle" \/ proc["controller"].silent
TurnsOK ==
    /\ ~Booted => /\ shown = "out" /\ ~proc["controller"].silent
                  /\ \A p \in User \ {"controller"} : proc[p].pc = "idle"
    /\ At("leaver", "deleting") => shown \in {"in", "cleanup"} /\ Quieted
    /\ At("login", "waiting") => /\ ~loggedOut /\ shown = "out" /\ Quieted
                                 /\ At("leaver", "idle")

(***************************************************************************)
(* A sign-out that no newer work of the vault has taken over: its deletion *)
(* is under way, or done.  Meanwhile the session is signed out, and what   *)
(* was captured before is of an older epoch: whatever could write a slot   *)
(* will be skipped, and what was read since then is empty.                 *)
(***************************************************************************)
Leaves(answer) == /\ At("leaver", "deleting") /\ proc["leaver"].epoch = epoch
                  /\ proc["leaver"].answer = answer
Wiped == loggedOut \/ Leaves("ok")
Leaving == Wiped \/ Leaves("none")
SignedOff == session.state = "signedOut" /\ session.flight # "active"
Writing == {"stage", "publish", "replace"}
EmptySlots == [current |-> 0, staged |-> NoStage]
Harmless(p) ==
    /\ \/ proc[p].pc \in {"refreshing", "staging", "verifying", "publishing", "unstaging"}
       \/ proc[p].pc = "prepared" /\ proc[p].answer = "candidate"
       => proc[p].epoch < epoch
    /\ proc[p].pc = "snapshot" /\ proc[p].answer = "ok" =>
          proc[p].epoch < epoch \/ proc[p].snap = EmptySlots
    /\ proc[p].pc = "plain" /\ proc[p].answer = "ok" => proc[p].snap = EmptySlots
    /\ proc[p].pc \in RecoveryPc => proc[p].recovery.epoch < epoch
LeftOK ==
    /\ Leaving => /\ SignedOff /\ \A p \in User : Harmless(p)
                  /\ \A i \in 1..Len(queue) : queue[i].kind \in Writing => queue[i].epoch < epoch
    /\ Wiped => /\ current = 0 /\ staged = NoStage
                /\ \A i \in 1..Len(queue) : queue[i].kind \in Writing => queue[i].at = 0
    /\ Leaves("none") =>
          \A i \in 1..Len(queue) : queue[i].by = "leaver" /\ queue[i].at = 2 => staged = NoStage

UsersInv == OpsOK /\ LeaverOK /\ ProcsOK /\ TurnsOK
VaultInv == VaultTypes /\ UsersInv /\ LeftOK

-----------------------------------------------------------------------------
(***************************************************************************)
(* What a user does in one step: it moves, and may put one operation into  *)
(* the queue.                                                              *)
(***************************************************************************)
LEMMA NothingFacts ==
    /\ 0 \in Key /\ NoStage \in Stage /\ NoRecovery \in Recovery /\ Idle \in ProcRecord
    /\ Idle.pc = "idle" /\ Idle.epoch = 0 /\ Idle.answer = "none" /\ Idle.recovery = NoRecovery
    /\ Idle.silent = FALSE /\ NoRecovery.epoch = 0 /\ NoStage.cand = 0
    /\ EmptySlots \in SlotsRecord
<1>1. 0 \in Key
  BY VaultAssumption DEF Key
<1>2. NoStage \in Stage /\ NoStage.cand = 0
  BY <1>1 DEF NoStage, Stage
<1>3. NoRecovery \in Recovery /\ NoRecovery.epoch = 0
  BY DEF NoRecovery, Recovery
<1>4. [current |-> 0, staged |-> NoStage] \in SlotsRecord
  BY <1>1, <1>2 DEF SlotsRecord
<1>5. Idle \in ProcRecord
  BY <1>1, <1>3, <1>4 DEF Idle, ProcRecord, Pc, Answer
<1> QED
  BY <1>1, <1>2, <1>3, <1>4, <1>5 DEF Idle, EmptySlots

\* Everybody else stays, and this one goes to pc.
OthersStay(p) == \A q \in User : q # p => proc'[q] = proc[q]
Keeps(p) ==
    /\ proc'[p].epoch = proc[p].epoch /\ proc'[p].key = proc[p].key
    /\ proc'[p].source = proc[p].source /\ proc'[p].silent = proc[p].silent
    /\ proc'[p].trigger = proc[p].trigger /\ proc'[p].recovery = proc[p].recovery
    /\ proc'[p].snap = proc[p].snap
Goes(p, pc, answer) ==
    /\ ProcOK' /\ OthersStay(p)
    /\ proc'[p].pc = pc /\ proc'[p].answer = answer
Adds(p, kind, e) ==
    \E op \in Operation : /\ op.kind = kind /\ op.epoch = e /\ op.by = p /\ op.at = 0
                          /\ queue' = Append(queue, op)

LEMMA MovesFacts ==
    ASSUME ProcOK, NEW p \in User, NEW pc \in Pc, Moves(p, pc)
    PROVE  Goes(p, pc, "none") /\ Keeps(p)
<1> DEFINE r == [proc[p] EXCEPT !.pc = pc, !.answer = "none"]
<1>1. proc[p] \in ProcRecord /\ proc = [q \in User |-> proc[q]]
  BY DEF ProcOK
<1>2. /\ r \in ProcRecord /\ r.pc = pc /\ r.answer = "none" /\ r.epoch = proc[p].epoch
      /\ r.key = proc[p].key /\ r.source = proc[p].source /\ r.silent = proc[p].silent
      /\ r.trigger = proc[p].trigger /\ r.recovery = proc[p].recovery /\ r.snap = proc[p].snap
  BY <1>1 DEF ProcRecord, Answer
<1>3. proc' = [proc EXCEPT ![p] = r]
  BY <1>1 DEF Moves
<1> HIDE DEF r
<1> QED
  BY <1>1, <1>2, <1>3 DEF Goes, Keeps, OthersStay, ProcOK

LEMMA AnswerFacts ==
    ASSUME ProcOK, NEW p \in User, NEW a \in Answer, proc' = [proc EXCEPT ![p].answer = a]
    PROVE  Goes(p, proc[p].pc, a) /\ Keeps(p)
<1> DEFINE r == [proc[p] EXCEPT !.answer = a]
<1>1. proc[p] \in ProcRecord /\ proc = [q \in User |-> proc[q]]
  BY DEF ProcOK
<1>2. /\ r \in ProcRecord /\ r.pc = proc[p].pc /\ r.answer = a /\ r.epoch = proc[p].epoch
      /\ r.key = proc[p].key /\ r.source = proc[p].source /\ r.silent = proc[p].silent
      /\ r.trigger = proc[p].trigger /\ r.recovery = proc[p].recovery /\ r.snap = proc[p].snap
  BY <1>1 DEF ProcRecord
<1>3. proc' = [proc EXCEPT ![p] = r]
  BY <1>1
<1> HIDE DEF r
<1> QED
  BY <1>1, <1>2, <1>3 DEF Goes, Keeps, OthersStay, ProcOK

LEMMA DoneFacts ==
    ASSUME ProcOK, NEW p \in User, proc' = [proc EXCEPT ![p] = Idle]
    PROVE  Goes(p, "idle", "none") /\ proc'[p] = Idle
BY NothingFacts DEF ProcOK, Goes, OthersStay

LEMMA AddsFacts ==
    ASSUME NEW p \in User, NEW kind \in Kind, NEW e \in Nat, NEW doc \in Stage,
           queue' = Append(queue, Op(p, kind, e, doc))
    PROVE  Adds(p, kind, e)
<1> DEFINE op == Op(p, kind, e, doc)
<1>1. /\ op \in Operation /\ op.kind = kind /\ op.epoch = e /\ op.by = p /\ op.at = 0
  BY DEF Op, Operation
<1>2. queue' = Append(queue, op)
  OBVIOUS
<1> HIDE DEF op
<1> QED
  BY <1>1, <1>2 DEF Adds

-----------------------------------------------------------------------------
(***************************************************************************)
(* The queue of the vault.                                                 *)
(***************************************************************************)
\* No operation of this user is in the queue.
Free(p) == \A i \in 1..Len(queue) : queue[i].by # p
OthersWait(p) ==
    \A q \in User : q # p => /\ proc'[q].pc = proc[q].pc /\ proc'[q].epoch = proc[q].epoch
                             /\ proc'[q].answer = proc[q].answer
VaultStep(p) ==
    \/ UNCHANGED vault
    \/ \E kind \in Kind, e \in Nat :
          /\ Adds(p, kind, e) /\ Waits(kind, proc'[p].pc) /\ proc'[p].answer = "none"
          /\ epoch' \in {epoch, epoch + 1} /\ e <= epoch'
          /\ kind = "read" /\ proc'[p].pc = "snapshot" => e = proc'[p].epoch
          /\ Leaving /\ kind \in Writing => e < epoch'
          /\ p = "leaver" => kind = "delete" /\ e = proc'[p].epoch

LEMMA QueueFacts ==
    ASSUME QueueOK
    PROVE  /\ Len(queue) \in Nat /\ epoch \in Nat
           /\ \A i \in 1..Len(queue) :
                 /\ queue[i] \in Operation /\ queue[i].by \in User /\ queue[i].epoch \in Nat
                 /\ queue[i].kind \in Kind /\ queue[i].at \in 0..2 /\ queue[i].doc \in Stage
<1>1. queue \in Seq(Operation) /\ epoch \in Nat
  BY DEF QueueOK
<1>2. ASSUME NEW i \in 1..Len(queue) PROVE queue[i] \in Operation
  BY <1>1, ElementOfSeq
<1>3. Len(queue) \in Nat
  BY <1>1, LenProperties
<1> QED
  BY <1>1, <1>2, <1>3 DEF Operation

LEMMA ProcFacts ==
    ASSUME ProcOK
    PROVE  \A p \in User :
              /\ proc[p] \in ProcRecord /\ proc[p].pc \in Pc /\ proc[p].epoch \in Nat
              /\ proc[p].key \in Key /\ proc[p].source \in Key /\ proc[p].silent \in BOOLEAN
              /\ proc[p].answer \in Answer /\ proc[p].recovery \in Recovery
              /\ proc[p].recovery.epoch \in Nat /\ proc[p].snap \in SlotsRecord
              /\ proc[p].snap.current \in Key /\ proc[p].snap.staged \in Stage
              /\ proc[p].snap.staged.cand \in Key /\ proc[p].snap.staged.source \in Key
BY DEF ProcOK, ProcRecord, Recovery, SlotsRecord, Stage

\* A user that was answered, or that waits for nothing, has nothing in the queue.
LEMMA FreeFacts ==
    ASSUME QueueOK, OpsOK, NEW p \in User,
           proc[p].answer # "none" \/ \A kind \in Kind : ~Waits(kind, proc[p].pc)
    PROVE  Free(p)
BY QueueFacts DEF OpsOK, Fits, Free

LEMMA AppendFacts ==
    ASSUME QueueOK, NEW op \in Operation, queue' = Append(queue, op)
    PROVE  /\ queue' \in Seq(Operation) /\ Len(queue') = Len(queue) + 1
           /\ \A i \in 1..Len(queue) : queue'[i] = queue[i]
           /\ queue'[Len(queue) + 1] = op
           /\ \A i \in 1..Len(queue') : i \in 1..Len(queue) \/ i = Len(queue) + 1
<1>1. queue \in Seq(Operation) /\ Len(queue) \in Nat
  BY QueueFacts DEF QueueOK
<1>2. /\ queue' \in Seq(Operation) /\ Len(queue') = Len(queue) + 1
      /\ \A i \in 1..Len(queue) : queue'[i] = queue[i]
      /\ queue'[Len(queue) + 1] = op
  BY <1>1, AppendProperties
<1> QED
  BY <1>1, <1>2

LEMMA OpsKept ==
    ASSUME VaultTypes, OpsOK, NEW p \in User, Free(p), OthersWait(p), VaultStep(p)
    PROVE  QueueOK' /\ OpsOK' /\ epoch' >= epoch
<1>1. QueueOK /\ ProcOK
  BY DEF VaultTypes
<1>2. CASE UNCHANGED vault
  <2>1. QueueOK' /\ UNCHANGED <<queue, epoch>>
    BY <1>1, <1>2 DEF vault, QueueOK
  <2>2. ASSUME NEW i \in 1..Len(queue) PROVE Fits(queue[i])'
    <3>1. queue[i].by \in User /\ queue[i].by # p /\ Fits(queue[i])
      BY <1>1, QueueFacts DEF Free, OpsOK
    <3> QED
      BY <2>1, <3>1 DEF OthersWait, Fits
  <2> QED
    BY <2>1, <2>2, QueueFacts, <1>1 DEF OpsOK
<1>3. ASSUME NEW kind \in Kind, NEW e \in Nat, NEW op \in Operation,
             op.kind = kind, op.epoch = e, op.by = p, op.at = 0, queue' = Append(queue, op),
             Waits(kind, proc'[p].pc), proc'[p].answer = "none",
             epoch' \in {epoch, epoch + 1}, e <= epoch',
             kind = "read" /\ proc'[p].pc = "snapshot" => e = proc'[p].epoch,
             p = "leaver" => kind = "delete" /\ e = proc'[p].epoch
      PROVE  QueueOK' /\ OpsOK' /\ epoch' >= epoch
  <2>1. epoch \in Nat /\ epoch' \in Nat /\ epoch' >= epoch /\ Len(queue) \in Nat
    BY <1>1, <1>3, QueueFacts
  <2>2. QueueOK'
    BY <1>1, <1>3, <2>1, AppendFacts DEF QueueOK
  <2>3. ASSUME NEW i \in 1..Len(queue') PROVE Fits(queue[i])'
    <3>1. CASE i \in 1..Len(queue)
      <4>1. /\ queue'[i] = queue[i] /\ queue[i].by \in User /\ queue[i].by # p /\ Fits(queue[i])
            /\ queue[i].epoch \in Nat
        BY <1>1, <1>3, <3>1, QueueFacts, AppendFacts DEF Free, OpsOK
      <4> QED
        BY <2>1, <4>1 DEF OthersWait, Fits
    <3>2. CASE i = Len(queue) + 1
      <4>1. queue'[i] = op
        BY <1>1, <1>3, <3>2, AppendFacts
      <4> QED
        BY <1>3, <4>1 DEF Fits
    <3> QED
      BY <1>1, <1>3, <3>1, <3>2, AppendFacts
  <2>4. ASSUME NEW i \in 1..Len(queue') PROVE i > 1 => queue'[i].at = 0
    BY <1>1, <1>3, <2>4, AppendFacts DEF OpsOK
  <2>5. ASSUME NEW i \in 1..Len(queue'), NEW j \in 1..Len(queue'), queue'[j].by = queue'[i].by
        PROVE  j = i
    <3>1. CASE i \in 1..Len(queue) /\ j \in 1..Len(queue)
      BY <1>1, <1>3, <2>5, <3>1, AppendFacts DEF OpsOK
    <3>2. CASE i = Len(queue) + 1 /\ j \in 1..Len(queue)
      BY <1>1, <1>3, <2>5, <3>2, AppendFacts DEF Free
    <3>3. CASE j = Len(queue) + 1 /\ i \in 1..Len(queue)
      BY <1>1, <1>3, <2>5, <3>3, AppendFacts DEF Free
    <3> QED
      BY <1>1, <1>3, <3>1, <3>2, <3>3, AppendFacts
  <2> QED
    BY <2>1, <2>2, <2>3, <2>4, <2>5 DEF OpsOK
<1> QED
  BY <1>2, <1>3 DEF VaultStep, Adds

LEMMA LeaverKept ==
    ASSUME VaultTypes, LeaverOK, NEW p \in User, p # "leaver", OthersWait(p), VaultStep(p)
    PROVE  LeaverOK'
<1>1. QueueOK /\ "leaver" \in User
  BY DEF VaultTypes, User
<1>2. /\ proc'["leaver"].pc = proc["leaver"].pc /\ proc'["leaver"].epoch = proc["leaver"].epoch
      /\ proc'["leaver"].answer = proc["leaver"].answer
  BY <1>1 DEF OthersWait
<1>3. CASE UNCHANGED vault
  BY <1>2, <1>3 DEF vault, LeaverOK, At
<1>4. ASSUME NEW op \in Operation, queue' = Append(queue, op)
      PROVE  LeaverOK'
  <2>1. ASSUME NEW j \in 1..Len(queue), queue[j].by = "leaver",
               \A i \in 1..Len(queue) : i < j => queue[i].epoch < proc["leaver"].epoch
        PROVE  /\ j \in 1..Len(queue') /\ queue'[j].by = "leaver"
               /\ \A i \in 1..Len(queue') : i < j => queue'[i].epoch < proc["leaver"].epoch
    <3>1. /\ Len(queue) \in Nat /\ Len(queue') = Len(queue) + 1
          /\ \A i \in 1..Len(queue) : queue'[i] = queue[i]
      BY <1>1, <1>4, QueueFacts, AppendFacts
    <3>2. \A i \in 1..Len(queue') : i < j => i \in 1..Len(queue)
      BY <3>1
    <3> QED
      BY <2>1, <3>1, <3>2
  <2> QED
    BY <1>2, <2>1 DEF LeaverOK, At
<1> QED
  BY <1>3, <1>4 DEF VaultStep, Adds

-----------------------------------------------------------------------------
(***************************************************************************)
(* A turn of the controller or of the coordinator.                         *)
(***************************************************************************)
Shows(p) ==
    \/ p = "coordinator" /\ Booted /\ shown' = shown
    \/ /\ p = "controller" /\ shown' = shown
       /\ proc[p].pc = "idle" => shown = "retry"
       /\ proc'[p].pc \in Starting => proc[p].pc \in Starting
       /\ proc'[p].silent = proc[p].silent \/ proc'[p] = Idle
    \/ /\ p = "controller" /\ proc'[p] = Idle
       /\ proc[p].pc # "idle" /\ ~proc[p].silent
RestKept ==
    /\ CoreOK' /\ TodoOK' /\ ServerOK' /\ HistoryOK'
    /\ recovery' \in Recovery /\ recovery'.epoch <= epoch
SignsOff == Leaving => SignedOff'
SlotsKept == UNCHANGED <<current, staged, loggedOut>>
Turn(p) ==
    /\ SlotsKept /\ RestKept /\ SignsOff /\ shown' \in ShownStage
    /\ ProcOK' /\ OthersStay(p) /\ Free(p) /\ VaultStep(p) /\ Shows(p)
    /\ proc'[p].pc \in IF p = "controller" THEN ControllerPc ELSE CoordinatorPc
    /\ proc'[p].epoch <= epoch' /\ proc'[p].recovery.epoch <= epoch'
    /\ proc'[p].pc \notin RecoveryPc \cup {"deleting"} => proc'[p].recovery = NoRecovery
    /\ Leaving /\ Leaving' => Harmless(p)'

\* What has been left behind stays so: nobody but a login takes a sign-out back.
LEMMA LeavingIsOld ==
    ASSUME VaultTypes, ProcsOK, NEW p \in User, p # "leaver", OthersWait(p), epoch' >= epoch,
           QueueOK', loggedOut' => loggedOut
    PROVE  /\ Wiped' => Wiped
           /\ Leaves("none")' => Leaves("none") /\ epoch' = epoch
           /\ Leaving' => Leaving
           /\ Leaves("ok")' => Leaves("ok") /\ epoch' = epoch
<1>1. "leaver" \in User /\ proc["leaver"].epoch <= epoch /\ epoch \in Nat /\ epoch' \in Nat
      /\ proc["leaver"].epoch \in Nat
  BY ProcFacts DEF VaultTypes, QueueOK, ProcsOK, User
<1>2. /\ proc'["leaver"].pc = proc["leaver"].pc /\ proc'["leaver"].epoch = proc["leaver"].epoch
      /\ proc'["leaver"].answer = proc["leaver"].answer
  BY <1>1 DEF OthersWait
<1>3. ASSUME NEW a, Leaves(a)' PROVE Leaves(a) /\ epoch' = epoch
  BY <1>1, <1>2, <1>3 DEF Leaves, At
<1> QED
  BY <1>3 DEF Wiped, Leaving

\* The operations in the queue while somebody leaves.
LEMMA LeftOpsKept ==
    ASSUME VaultTypes, LeftOK, NEW p \in User, p # "leaver", OthersWait(p), VaultStep(p), ProcsOK,
           epoch' >= epoch, QueueOK', loggedOut' => loggedOut, UNCHANGED <<current, staged>>
    PROVE  /\ Leaving' => \A i \in 1..Len(queue') : queue'[i].kind \in Writing => queue'[i].epoch < epoch'
           /\ Wiped' => /\ current' = 0 /\ staged' = NoStage
                        /\ \A i \in 1..Len(queue') : queue'[i].kind \in Writing => queue'[i].at = 0
           /\ Leaves("none")' =>
                 \A i \in 1..Len(queue') : queue'[i].by = "leaver" /\ queue'[i].at = 2 => staged' = NoStage
<1>1. QueueOK /\ epoch \in Nat /\ epoch' \in Nat
  BY DEF VaultTypes, QueueOK
<1>2. /\ Wiped' => Wiped
      /\ Leaves("none")' => Leaves("none")
      /\ Leaving' => Leaving
  BY LeavingIsOld
<1>3. CASE UNCHANGED vault
  BY <1>2, <1>3 DEF vault, LeftOK
<1>4. ASSUME NEW op \in Operation, op.by = p, op.at = 0, queue' = Append(queue, op),
             Leaving /\ op.kind \in Writing => op.epoch < epoch'
      PROVE  /\ Leaving' => \A i \in 1..Len(queue') : queue'[i].kind \in Writing => queue'[i].epoch < epoch'
             /\ Wiped' => \A i \in 1..Len(queue') : queue'[i].kind \in Writing => queue'[i].at = 0
             /\ Leaves("none")' =>
                   \A i \in 1..Len(queue') : queue'[i].by = "leaver" /\ queue'[i].at = 2 => staged' = NoStage
  <2>1. /\ \A i \in 1..Len(queue) : queue'[i] = queue[i] /\ queue[i].epoch \in Nat
        /\ queue'[Len(queue) + 1] = op
        /\ \A i \in 1..Len(queue') : i \in 1..Len(queue) \/ i = Len(queue) + 1
    BY <1>1, <1>4, QueueFacts, AppendFacts
  <2>2. ASSUME Leaving', NEW i \in 1..Len(queue'), queue'[i].kind \in Writing
        PROVE  queue'[i].epoch < epoch'
    <3>1. CASE i \in 1..Len(queue)
      <4>1. queue'[i] = queue[i] /\ queue[i].epoch < epoch /\ queue[i].epoch \in Nat
        BY <1>2, <2>1, <2>2, <3>1 DEF LeftOK
      <4> QED
        BY <1>1, <4>1
    <3>2. CASE i = Len(queue) + 1
      BY <1>2, <1>4, <2>1, <2>2, <3>2
    <3> QED
      BY <2>1, <3>1, <3>2
  <2>3. ASSUME Wiped', NEW i \in 1..Len(queue'), queue'[i].kind \in Writing
        PROVE  queue'[i].at = 0
    BY <1>2, <1>4, <2>1, <2>3 DEF LeftOK
  <2>4. ASSUME Leaves("none")', NEW i \in 1..Len(queue'), queue'[i].by = "leaver", queue'[i].at = 2
        PROVE  staged' = NoStage
    BY <1>2, <1>4, <2>1, <2>4 DEF LeftOK
  <2> QED
    BY <2>2, <2>3, <2>4
<1>5. Wiped' => current' = 0 /\ staged' = NoStage
  BY <1>2 DEF LeftOK
<1> QED
  BY <1>3, <1>4, <1>5 DEF VaultStep, Adds

LEMMA TurnKeeps ==
    ASSUME VaultInv, NEW p \in {"controller", "coordinator"}, Turn(p)
    PROVE  VaultInv'
<1>1. VaultTypes /\ OpsOK /\ LeaverOK /\ ProcsOK /\ TurnsOK /\ LeftOK /\ p \in User /\ p # "leaver"
      /\ p # "login" /\ {"controller", "coordinator", "login", "leaver"} = User
  BY DEF VaultInv, UsersInv, User
<1>2. OthersStay(p) /\ OthersWait(p) /\ ProcOK' /\ VaultStep(p) /\ Free(p)
  BY DEF Turn, OthersWait, OthersStay
<1>3. QueueOK' /\ OpsOK' /\ epoch' >= epoch /\ LeaverOK'
  BY <1>1, <1>2, OpsKept, LeaverKept
<1>4. epoch \in Nat /\ epoch' \in Nat /\ SlotsKept /\ RestKept /\ shown' \in ShownStage
  BY <1>1, <1>3 DEF VaultTypes, QueueOK, Turn
<1>5. VaultTypes'
  BY <1>1, <1>2, <1>3, <1>4 DEF VaultTypes, SlotsOK, StateOK, SlotsKept, RestKept, RecoveryOK, Recovery
<1>6. ProcsOK'
  <2>1. \A q \in User : /\ proc[q].epoch <= epoch /\ proc[q].recovery.epoch <= epoch
                        /\ proc[q].epoch \in Nat /\ proc[q].recovery.epoch \in Nat
    BY <1>1, ProcFacts DEF ProcsOK, VaultTypes
  <2>2. ASSUME NEW q \in User
        PROVE  /\ proc'[q].epoch <= epoch' /\ proc'[q].recovery.epoch <= epoch'
               /\ proc'[q].pc \notin RecoveryPc \cup {"deleting"} => proc'[q].recovery = NoRecovery
    <3>1. CASE q = p
      BY <3>1 DEF Turn
    <3>2. CASE q # p
      BY <1>1, <1>2, <1>3, <1>4, <2>1, <3>2 DEF OthersStay, ProcsOK
    <3> QED
      BY <3>1, <3>2
  <2>3. /\ proc'["controller"].pc \in ControllerPc /\ proc'["coordinator"].pc \in CoordinatorPc
        /\ proc'["login"] = proc["login"] /\ proc'["leaver"] = proc["leaver"]
    BY <1>1, <1>2 DEF Turn, OthersStay, ProcsOK
  <2> QED
    BY <1>1, <2>2, <2>3 DEF ProcsOK, At
<1>7. TurnsOK'
  <2>1. proc'["login"] = proc["login"] /\ proc'["leaver"] = proc["leaver"]
        /\ (p = "coordinator" => proc'["controller"] = proc["controller"])
        /\ (p = "controller" => proc'["coordinator"] = proc["coordinator"])
    BY <1>1, <1>2 DEF OthersStay
  <2>2. CASE p = "coordinator" /\ Booted /\ shown' = shown
    BY <1>1, <1>4, <2>1, <2>2 DEF TurnsOK, Booted, Quieted, At, SlotsKept
  <2>3. CASE /\ p = "controller" /\ shown' = shown
             /\ proc[p].pc = "idle" => shown = "retry"
             /\ proc'[p].pc \in Starting => proc[p].pc \in Starting
             /\ proc'[p].silent = proc[p].silent \/ proc'[p] = Idle
    <3>1. ~Booted' => ~Booted /\ ~proc'[p].silent
      BY <1>1, <2>3, NothingFacts DEF Booted, Starting, TurnsOK
    <3>2. ~Booted' => \A q \in User \ {"controller"} : proc'[q].pc = "idle"
      BY <1>1, <1>2, <2>3, <3>1 DEF TurnsOK, OthersStay
    <3>3. Quieted /\ shown # "retry" => Quieted'
      BY <2>3, NothingFacts DEF Quieted
    <3> QED
      BY <1>1, <1>4, <2>1, <2>3, <3>1, <3>2, <3>3 DEF TurnsOK, At, SlotsKept
  <2>4. CASE p = "controller" /\ proc'[p] = Idle /\ proc[p].pc # "idle" /\ ~proc[p].silent
    <3>1. ~Quieted /\ Booted'
      BY <2>4, NothingFacts DEF Quieted, Booted
    <3> QED
      BY <1>1, <2>1, <3>1 DEF TurnsOK, At
  <2> QED
    BY <2>2, <2>3, <2>4 DEF Turn, Shows
<1>8. LeftOK'
  <2>1. /\ Wiped' => Wiped
        /\ Leaving' => Leaving
    BY <1>1, <1>2, <1>3, <1>4, LeavingIsOld DEF SlotsKept
  <2>2. ASSUME Leaving' PROVE SignedOff' /\ \A q \in User : Harmless(q)'
    <3>1. Leaving /\ SignedOff'
      BY <2>1, <2>2 DEF Turn, SignsOff
    <3>2. ASSUME NEW q \in User PROVE Harmless(q)'
      <4>1. CASE q = p
        BY <2>2, <3>1, <4>1 DEF Turn
      <4>2. CASE q # p
        <5>1. Harmless(q) /\ proc'[q] = proc[q] /\ proc[q].epoch \in Nat /\ proc[q].recovery.epoch \in Nat
          BY <1>1, <1>2, <3>1, <4>2, ProcFacts DEF LeftOK, OthersStay, VaultTypes
        <5> QED
          BY <1>3, <1>4, <5>1 DEF Harmless
      <4> QED
        BY <4>1, <4>2
    <3> QED
      BY <3>1, <3>2
  <2>3. /\ Leaving' => \A i \in 1..Len(queue') : queue'[i].kind \in Writing => queue'[i].epoch < epoch'
        /\ Wiped' => /\ current' = 0 /\ staged' = NoStage
                     /\ \A i \in 1..Len(queue') : queue'[i].kind \in Writing => queue'[i].at = 0
        /\ Leaves("none")' =>
              \A i \in 1..Len(queue') : queue'[i].by = "leaver" /\ queue'[i].at = 2 => staged' = NoStage
    BY <1>1, <1>2, <1>3, <1>4, LeftOpsKept DEF SlotsKept
  <2> QED
    BY <2>2, <2>3 DEF LeftOK
<1> QED
  BY <1>3, <1>5, <1>6, <1>7, <1>8 DEF VaultInv, UsersInv

-----------------------------------------------------------------------------
(***************************************************************************)
(* The ways a turn is taken: a user gives up, goes on, or goes on with an  *)
(* operation in the queue.                                                 *)
(***************************************************************************)
PcOf(p) == IF p = "controller" THEN ControllerPc ELSE CoordinatorPc
Bound == {"refreshing", "staging", "verifying", "publishing", "unstaging"}
Begun(p) == IF p = "controller" THEN At(p, "idle") => shown = "retry" ELSE Booted
Rest(p) == SlotsKept /\ RestKept /\ SignsOff /\ Free(p) /\ Begun(p)
Walks(p, next, answer) ==
    /\ next \in PcOf(p) /\ (p = "controller" => proc'[p].silent = proc[p].silent)
    /\ next \in Starting => p = "coordinator" \/ proc[p].pc \in Starting
    /\ proc'[p].epoch <= epoch /\ proc'[p].recovery.epoch <= epoch
    /\ next \notin RecoveryPc \cup {"deleting"} => proc'[p].recovery = NoRecovery
    /\ Leaving =>
          /\ next \in Bound \/ (next = "prepared" /\ answer = "candidate") => proc'[p].epoch < epoch
          /\ next \in RecoveryPc => proc'[p].recovery.epoch < epoch
          /\ next \in {"snapshot", "plain"} => answer # "ok"

LEMMA WalksTurn ==
    ASSUME VaultInv, NEW p \in {"controller", "coordinator"}, Rest(p), VaultStep(p), shown' = shown,
           NEW next, NEW answer, Goes(p, next, answer), Walks(p, next, answer)
    PROVE  Turn(p)
<1>1. VaultTypes /\ p \in User /\ shown \in ShownStage /\ epoch \in Nat
  BY DEF VaultInv, VaultTypes, StateOK, QueueOK, User
<1>2. ProcOK' /\ OthersStay(p) /\ proc'[p].pc = next /\ proc'[p].answer = answer
  BY DEF Goes
<1>3. proc'[p].epoch \in Nat /\ proc'[p].recovery.epoch \in Nat
  BY <1>1, <1>2 DEF ProcOK, ProcRecord, Recovery
<1>4. epoch' \in {epoch, epoch + 1}
  BY DEF VaultStep, vault
<1>5. proc'[p].epoch <= epoch' /\ proc'[p].recovery.epoch <= epoch'
  BY <1>1, <1>3, <1>4 DEF Walks
<1>6. Leaving => Harmless(p)'
  BY <1>1, <1>2, <1>3, <1>4 DEF Walks, Harmless, Bound
<1>7. Shows(p)
  BY <1>2 DEF Shows, Walks, Rest, Begun, At
<1>8. /\ proc'[p].pc \in IF p = "controller" THEN ControllerPc ELSE CoordinatorPc
      /\ proc'[p].pc \notin RecoveryPc \cup {"deleting"} => proc'[p].recovery = NoRecovery
  BY <1>2 DEF Walks, PcOf
<1> QED
  BY <1>1, <1>2, <1>5, <1>6, <1>7, <1>8 DEF Turn, Rest

LEMMA DoneTurn ==
    ASSUME VaultInv, NEW p \in {"controller", "coordinator"}, Rest(p), UNCHANGED vault,
           p = "controller" => proc[p].pc # "idle",
           NEW stage \in ShownStage, Done(p, stage)
    PROVE  Turn(p)
<1>1. /\ VaultTypes /\ p \in User /\ ProcOK /\ shown \in ShownStage /\ epoch \in Nat
      /\ UNCHANGED epoch
  BY DEF VaultInv, VaultTypes, StateOK, QueueOK, User, vault
<1>2. Goes(p, "idle", "none") /\ proc'[p] = Idle
  BY <1>1, DoneFacts DEF Done
<1>3. shown' \in ShownStage /\ Shows(p)
  BY <1>1, <1>2, NothingFacts DEF Shows, Done, Starting, Rest, Begun
<1>4. VaultStep(p) /\ "idle" \in ControllerPc /\ "idle" \in CoordinatorPc
  BY DEF VaultStep, ControllerPc, CoordinatorPc, Pc
<1>5. /\ proc'[p].pc = "idle" /\ proc'[p].epoch = 0 /\ proc'[p].recovery = NoRecovery
      /\ proc'[p].recovery.epoch = 0
  BY <1>2, NothingFacts
<1>6. Harmless(p)'
  BY <1>5 DEF Harmless, RecoveryPc
<1> QED
  BY <1>1, <1>2, <1>3, <1>4, <1>5, <1>6 DEF Turn, Rest, Goes

\* Where a user may go next, keeping what it holds.
NextOK(p, next) ==
    /\ next \in PcOf(p)
    /\ next \in Starting => p = "coordinator" \/ proc[p].pc \in Starting
    /\ next \notin RecoveryPc \cup {"deleting"} => proc[p].recovery = NoRecovery
    /\ Leaving => /\ next \in Bound => proc[p].epoch < epoch
                  /\ next \in RecoveryPc => proc[p].recovery.epoch < epoch

LEMMA KeepsWalks ==
    ASSUME VaultInv, NEW p \in {"controller", "coordinator"}, NEW next, NEW answer \in {"none", "no"},
           Goes(p, next, answer), Keeps(p), NextOK(p, next)
    PROVE  Walks(p, next, answer)
<1>1. p \in User /\ proc[p].epoch <= epoch /\ proc[p].recovery.epoch <= epoch
  BY DEF VaultInv, UsersInv, ProcsOK, User
<1> QED
  BY <1>1 DEF Walks, NextOK, Keeps

LEMMA MovesTurn ==
    ASSUME VaultInv, NEW p \in {"controller", "coordinator"}, Rest(p), UNCHANGED vault, shown' = shown,
           NEW next, Moves(p, next), NextOK(p, next)
    PROVE  Turn(p)
<1>1. ProcOK /\ p \in User /\ next \in Pc /\ VaultStep(p)
  BY DEF VaultInv, VaultTypes, User, NextOK, PcOf, VaultStep, ControllerPc, CoordinatorPc, RecoveryPc,
         Starting, Pc
<1>2. Goes(p, next, "none") /\ Keeps(p)
  BY <1>1, MovesFacts
<1> QED
  BY <1>1, <1>2, KeepsWalks, WalksTurn

LEMMA EnqueueTurn ==
    ASSUME VaultInv, NEW p \in {"controller", "coordinator"}, Rest(p), shown' = shown,
           NEW kind \in Kind, NEW e \in Nat, NEW doc \in Stage, NEW next, Enqueue(p, kind, e, doc, next),
           NextOK(p, next), Waits(kind, next), next # "snapshot", e <= epoch,
           Leaving /\ kind \in Writing => e < epoch
    PROVE  Turn(p)
<1>1. ProcOK /\ p \in User /\ next \in Pc /\ Moves(p, next) /\ epoch' = epoch
      /\ queue' = Append(queue, Op(p, kind, e, doc))
  BY DEF VaultInv, VaultTypes, User, NextOK, PcOf, ControllerPc, CoordinatorPc, RecoveryPc,
         Starting, Pc, Enqueue
<1>2. Goes(p, next, "none") /\ Keeps(p)
  BY <1>1, MovesFacts
<1>3. Adds(p, kind, e)
  BY <1>1, AddsFacts
<1>4. VaultStep(p)
  BY <1>1, <1>2, <1>3 DEF VaultStep, Goes
<1> QED
  BY <1>2, <1>4, KeepsWalks, WalksTurn

LEMMA NewTurn ==
    ASSUME VaultInv, NEW p \in {"controller", "coordinator"}, Rest(p), shown' = shown,
           NEW kind \in {"delete", "deleteIf"}, NEW next, EnqueueNew(p, kind, NoStage, next),
           NextOK(p, next), Waits(kind, next)
    PROVE  Turn(p)
<1>1. ProcOK /\ p \in User /\ next \in Pc /\ Moves(p, next) /\ epoch' = epoch + 1 /\ epoch + 1 \in Nat
      /\ queue' = Append(queue, Op(p, kind, epoch + 1, NoStage)) /\ kind \in Kind /\ kind \notin Writing
      /\ kind # "read"
  BY DEF VaultInv, VaultTypes, QueueOK, User, NextOK, PcOf, ControllerPc, CoordinatorPc, RecoveryPc,
         Starting, Pc, EnqueueNew, Kind, Writing
<1>2. Goes(p, next, "none") /\ Keeps(p)
  BY <1>1, MovesFacts
<1>3. Adds(p, kind, epoch + 1)
  BY <1>1, AddsFacts, NothingFacts
<1>4. VaultStep(p)
  BY <1>1, <1>2, <1>3 DEF VaultStep, Goes
<1> QED
  BY <1>2, <1>4, KeepsWalks, WalksTurn

LEMMA DeleteIfTurn ==
    ASSUME VaultInv, NEW p \in {"controller", "coordinator"}, Rest(p), shown' = shown,
           NEW e, NEW next \in {"dropping", "deleting"}, EnqueueDeleteIf(p, e, next), NextOK(p, next)
    PROVE  Turn(p)
<1>1. CASE e # epoch
  <2>1. proc' = [proc EXCEPT ![p].pc = next, ![p].answer = "no"] /\ UNCHANGED vault
    BY <1>1 DEF EnqueueDeleteIf
  <2>2. ProcOK /\ p \in User /\ VaultStep(p)
    BY <2>1 DEF VaultInv, VaultTypes, User, VaultStep
  <2>3. Goes(p, next, "no") /\ Keeps(p)
    <3> DEFINE r == [proc[p] EXCEPT !.pc = next, !.answer = "no"]
    <3>1. proc[p] \in ProcRecord /\ proc = [q \in User |-> proc[q]]
      BY <2>2 DEF ProcOK
    <3>2. /\ r \in ProcRecord /\ r.pc = next /\ r.answer = "no" /\ r.epoch = proc[p].epoch
          /\ r.key = proc[p].key /\ r.source = proc[p].source /\ r.silent = proc[p].silent
          /\ r.trigger = proc[p].trigger /\ r.recovery = proc[p].recovery /\ r.snap = proc[p].snap
      BY <3>1 DEF ProcRecord, Answer, Pc
    <3>3. proc' = [proc EXCEPT ![p] = r]
      BY <2>1, <3>1
    <3> HIDE DEF r
    <3> QED
      BY <2>2, <3>1, <3>2, <3>3 DEF Goes, Keeps, OthersStay, ProcOK
  <2> QED
    BY <2>2, <2>3, KeepsWalks, WalksTurn
<1>2. CASE e = epoch
  BY <1>2, NewTurn DEF EnqueueDeleteIf, Waits
<1> QED
  BY <1>1, <1>2

-----------------------------------------------------------------------------
(***************************************************************************)
(* The steps of a recovery, one lemma for each.                            *)
(***************************************************************************)
LEMMA UserFacts ==
    ASSUME VaultInv, NEW p \in {"controller", "coordinator"}
    PROVE  /\ p \in User /\ QueueOK /\ ProcOK /\ OpsOK /\ CoreOK /\ TodoOK /\ ServerOK /\ HistoryOK
           /\ shown \in ShownStage /\ epoch \in Nat /\ SlotsOK
           /\ session \in SessionRecord /\ attempt \in User \cup {"none"}
           /\ recovery \in Recovery /\ recovery.epoch <= epoch /\ recovery.epoch \in Nat
           /\ proc[p].epoch \in Nat /\ proc[p].epoch <= epoch
           /\ proc[p].recovery \in Recovery /\ proc[p].recovery.epoch \in Nat
           /\ proc[p].recovery.epoch <= epoch
           /\ proc[p].pc # "idle" => Begun(p)
           /\ proc[p].pc \notin RecoveryPc \cup {"deleting"} => proc[p].recovery = NoRecovery
           /\ proc[p].pc \in PcOf(p)
           /\ Leaving => session.state = "signedOut" /\ session.flight # "active" /\ Harmless(p)
           /\ proc[p].answer # "none" => Free(p)
<1>1. VaultTypes /\ ProcsOK /\ TurnsOK /\ LeftOK /\ OpsOK /\ p \in User
  BY DEF VaultInv, UsersInv, User
<1>2. /\ QueueOK /\ ProcOK /\ CoreOK /\ TodoOK /\ ServerOK /\ HistoryOK /\ shown \in ShownStage
      /\ epoch \in Nat /\ SlotsOK /\ session \in SessionRecord /\ attempt \in User \cup {"none"}
      /\ recovery \in Recovery /\ recovery.epoch <= epoch /\ recovery.epoch \in Nat
  BY <1>1 DEF VaultTypes, StateOK, CoreOK, RecoveryOK, QueueOK, Recovery
<1>3. proc[p].pc # "idle" => Begun(p)
  BY <1>1 DEF TurnsOK, Begun, At
<1>4. proc[p].answer # "none" => Free(p)
  BY <1>1, <1>2, FreeFacts
<1>5. proc[p].pc \in PcOf(p)
  BY <1>1 DEF ProcsOK, PcOf
<1> QED
  BY <1>1, <1>2, <1>3, <1>4, <1>5, ProcFacts DEF ProcsOK, LeftOK, SignedOff

RecoveryFrame(p) ==
    /\ saved' = IF AnsweredAt(p, "republishing", {"ok"}) THEN proc[p].key ELSE saved
    /\ UNCHANGED <<storage, server, loggedOut>>
LEMMA FrameFacts ==
    ASSUME VaultInv, NEW p \in {"controller", "coordinator"}, RecoveryFrame(p)
    PROVE  SlotsKept /\ ServerOK' /\ HistoryOK'
<1>1. p \in User /\ ProcOK /\ ServerOK /\ HistoryOK
  BY UserFacts
<1>2. saved' \in Key
  BY <1>1, ProcFacts DEF RecoveryFrame, HistoryOK
<1> QED
  BY <1>1, <1>2 DEF RecoveryFrame, storage, server, SlotsKept, ServerOK, HistoryOK

LEMMA ReplaceFacts ==
    ASSUME NEW state \in SessionState, NEW key \in Key, Replace(state, key)
    PROVE  /\ session' \in SessionRecord /\ session'.state = state /\ session'.key = key
           /\ session'.flight = "none"
           /\ state = "signedOut" => SignedOff'
BY DEF Replace, SessionRecord, SignedOff

LEMMA FlightFacts ==
    ASSUME session \in SessionRecord, FlightEnds
    PROVE  session' \in SessionRecord /\ (session.flight # "active" => session' = session)
BY DEF FlightEnds, SessionRecord

LEMMA ResolvedFacts ==
    ASSUME VaultInv, NEW p \in {"controller", "coordinator"},
           Resolved(p) \/ UNCHANGED recovery
    PROVE  recovery' \in Recovery /\ recovery'.epoch <= epoch
BY UserFacts, NothingFacts DEF Resolved

\* A step that leaves the session of the Rust core alone.
LEMMA SameRest ==
    ASSUME VaultInv, NEW p \in {"controller", "coordinator"}, SlotsKept, ServerOK', HistoryOK', TodoOK',
           UNCHANGED <<session, attempt>>, Resolved(p) \/ UNCHANGED recovery,
           proc[p].pc # "idle", Free(p)
    PROVE  Rest(p)
<1>1. CoreOK' /\ SignsOff
  BY UserFacts DEF CoreOK, SignsOff, SignedOff
<1> QED
  BY <1>1, UserFacts, ResolvedFacts DEF Rest, RestKept

LEMMA NewRecoveryFacts ==
    ASSUME VaultInv, NEW p \in {"controller", "coordinator"}, proc[p].recovery = NoRecovery,
           NEW action \in {"candidate", "committed"}, NewRecovery(p, action)
    PROVE  recovery' \in Recovery /\ recovery'.epoch <= epoch
<1> DEFINE taken == {recovery.id} \cup {proc[q].recovery.id : q \in User}
           other == IF p = "controller" THEN "coordinator" ELSE "controller"
           i == CHOOSE j \in 1..3 : j \notin taken
<1>1. /\ proc["login"].recovery = NoRecovery /\ proc["leaver"].recovery = NoRecovery
      /\ NoRecovery.id = 0
  BY DEF VaultInv, UsersInv, ProcsOK, User, NoRecovery, RecoveryPc
<1>2. \A q \in User : q = other \/ proc[q].recovery.id = 0
  BY <1>1 DEF User
<1>3. taken \subseteq {0, recovery.id, proc[other].recovery.id}
  BY <1>2
<1>4. \E j \in 1..3 : j \notin taken
  BY <1>3
<1>5. i \in 1..3
  BY <1>4
<1>6. proc[p].epoch \in Nat /\ proc[p].epoch <= epoch
  BY UserFacts
<1>7. recovery' = [action |-> action, epoch |-> proc[p].epoch, id |-> i]
  BY DEF NewRecovery
<1> HIDE DEF i
<1> QED
  BY <1>5, <1>6, <1>7 DEF Recovery

LEMMA SnapshotTurn ==
    ASSUME VaultInv, NEW p \in {"controller", "coordinator"}, RecoveryFrame(p), Snapshot(p)
    PROVE  Turn(p)
<1>1. SlotsKept /\ ServerOK' /\ HistoryOK' /\ TodoOK'
  BY UserFacts, FrameFacts DEF Snapshot, TodoOK
<1>2. proc[p].pc = "snapshot" /\ Free(p) /\ Begun(p) /\ p \in User /\ epoch \in Nat
  BY UserFacts DEF Snapshot, AnsweredAt
<1>3. proc[p].recovery = NoRecovery
  BY <1>2, UserFacts DEF RecoveryPc
<1>4. NoStage \in Stage /\ proc[p].snap.current \in Key /\ proc[p].snap.staged.cand \in Key
  BY <1>2, NothingFacts, ProcFacts, UserFacts
<1>5. \A next \in {"plain", "continue", "begin", "unstaging"} :
         (next = "continue" => p = "coordinator") /\ (next = "plain" => p = "controller")
         /\ (next = "unstaging" /\ Leaving => proc[p].epoch < epoch) => NextOK(p, next)
  BY <1>2, <1>3 DEF NextOK, PcOf, ControllerPc, CoordinatorPc, Pc, Starting, RecoveryPc, Bound
<1>6. CASE WithoutStage(p)
  <2>1. Rest(p) /\ shown' = shown
    BY <1>1, <1>2, <1>6, SameRest DEF WithoutStage
  <2>2. CASE p = "controller"
    BY <1>2, <1>4, <1>5, <1>6, <2>1, <2>2, EnqueueTurn DEF WithoutStage, Waits, Writing, Kind
  <2>3. CASE p = "coordinator"
    BY <1>2, <1>4, <1>5, <1>6, <2>1, <2>3, MovesTurn DEF WithoutStage
  <2> QED
    BY <2>2, <2>3
<1>7. CASE Done(p, "out") /\ UNCHANGED <<vault, session, attempt, recovery>>
  BY <1>1, <1>2, <1>7, SameRest, DoneTurn DEF ShownStage
<1>8. CASE proc[p].answer = "ok" /\ proc[p].snap.staged # NoStage /\ proc[p].epoch = epoch
           /\ Enqueue(p, "unstage", epoch, NoStage, "unstaging")
           /\ UNCHANGED <<session, attempt, recovery, shown>>
  <2>1. ~Leaving
    BY <1>2, <1>8, UserFacts DEF Harmless, EmptySlots
  <2>2. Rest(p) /\ shown' = shown
    BY <1>1, <1>2, <1>8, SameRest
  <2> QED
    BY <1>2, <1>4, <1>5, <1>8, <2>1, <2>2, EnqueueTurn DEF Waits, Writing, Kind
<1>9. CASE proc[p].answer = "ok" /\ proc[p].snap.staged # NoStage /\ proc[p].epoch = epoch
           /\ RecoveryAction(proc[p].snap) # "stale" /\ Recovers(p, RecoveryAction(proc[p].snap))
  <2>1. ~Leaving
    BY <1>2, <1>9, UserFacts DEF Harmless, EmptySlots
  <2>2. RecoveryAction(proc[p].snap) \in {"candidate", "committed"}
    BY <1>9 DEF RecoveryAction
  <2>3. recovery' \in Recovery /\ recovery'.epoch <= epoch
    BY <1>3, <1>9, <2>2, NewRecoveryFacts DEF Recovers
  <2>4. CoreOK'
    BY <1>4, <1>9, ReplaceFacts DEF Recovers, RestoreStaged, NoAttempt, CoreOK, SessionState
  <2>5. Rest(p) /\ Moves(p, "begin") /\ UNCHANGED vault /\ shown' = shown
    BY <1>1, <1>2, <1>9, <2>1, <2>3, <2>4 DEF Rest, RestKept, SignsOff, Recovers
  <2> QED
    BY <1>5, <2>1, <2>5, MovesTurn
<1> QED
  BY <1>6, <1>7, <1>8, <1>9 DEF Snapshot

LEMMA RestoredTurn ==
    ASSUME VaultInv, NEW p \in {"controller", "coordinator"}, RecoveryFrame(p), Restored(p)
    PROVE  Turn(p)
<1>1. SlotsKept /\ ServerOK' /\ HistoryOK' /\ UNCHANGED vault /\ UNCHANGED recovery
  BY FrameFacts DEF Restored
<1>2. proc[p].pc \in {"plain", "unstaging"} /\ Free(p) /\ Begun(p) /\ p \in User /\ epoch \in Nat
      /\ (proc[p].pc = "plain" => p = "controller")
  BY UserFacts DEF Restored, AnsweredAt, PcOf, CoordinatorPc
<1>3. proc[p].recovery = NoRecovery
  BY <1>2, UserFacts DEF RecoveryPc
<1>4. CASE Done(p, "out") /\ UNCHANGED <<session, attempt, todo>>
  <2>1. Rest(p)
    BY <1>1, <1>2, <1>4, SameRest, UserFacts DEF TodoOK
  <2> QED
    BY <1>1, <1>2, <1>4, <2>1, DoneTurn DEF ShownStage
<1>5. CASE proc[p].answer = "ok" /\ (At(p, "unstaging") => proc[p].epoch = epoch) /\ Imported(p)
  <2>1. Leaving => proc[p].snap.current = 0
    BY <1>2, <1>5, UserFacts DEF Harmless, EmptySlots, At
  <2>2. proc[p].snap.current \in Key /\ 0 \in Key
    BY <1>2, ProcFacts, UserFacts, NothingFacts
  <2>3. NoAttempt /\ \E state \in {"signedOut", "pending", "expired"}, key \in Key :
           /\ Replace(state, key)
           /\ proc[p].snap.current = 0 => state = "signedOut"
    BY <1>5, <2>2 DEF Imported, Import
  <2>4. session' \in SessionRecord /\ CoreOK' /\ SignsOff
    BY <2>1, <2>3, ReplaceFacts DEF CoreOK, NoAttempt, SignsOff, SessionState
  <2>5. CASE Moves(p, "begin") /\ UNCHANGED <<todo, shown>>
    <3>1. Rest(p)
      BY <1>1, <1>2, <2>4, <2>5, UserFacts DEF Rest, RestKept, TodoOK
    <3>2. NextOK(p, "begin")
      BY <1>3 DEF NextOK, PcOf, ControllerPc, CoordinatorPc, Pc, Starting, RecoveryPc, Bound
    <3> QED
      BY <1>1, <2>5, <3>1, <3>2, MovesTurn
  <2>6. CASE p = "coordinator" /\ Moves(p, "continue") /\ UNCHANGED <<todo, shown>>
    <3>1. Rest(p)
      BY <1>1, <1>2, <2>4, <2>6, UserFacts DEF Rest, RestKept, TodoOK
    <3>2. NextOK(p, "continue")
      BY <1>3, <2>6 DEF NextOK, PcOf, ControllerPc, CoordinatorPc, Pc, Starting, RecoveryPc, Bound
    <3> QED
      BY <1>1, <2>6, <3>1, <3>2, MovesTurn
  <2>7. CASE Done(p, "out") /\ todo' = IF session'.state = "expired" /\ Len(todo) < MaxTodo
                                       THEN Append(todo, "checkpoint") ELSE todo
    <3>1. TodoOK'
      <4>1. todo \in Seq({"checkpoint", "rejection"}) /\ Len(todo) <= MaxTodo /\ MaxTodo \in Nat
            /\ Len(todo) \in Nat
        BY UserFacts, VaultAssumption, LenProperties DEF TodoOK
      <4>2. CASE Len(todo) < MaxTodo /\ todo' = Append(todo, "checkpoint")
        <5>1. todo' \in Seq({"checkpoint", "rejection"}) /\ Len(todo') = Len(todo) + 1
          BY <4>1, <4>2, AppendProperties
        <5> QED
          BY <4>1, <4>2, <5>1 DEF TodoOK
      <4> QED
        BY <2>7, <4>1, <4>2 DEF TodoOK
    <3>2. Rest(p)
      BY <1>1, <1>2, <2>4, <3>1, UserFacts DEF Rest, RestKept
    <3> QED
      BY <1>1, <1>2, <2>7, <3>2, DoneTurn DEF ShownStage
  <2> QED
    BY <1>5, <2>5, <2>6, <2>7 DEF Imported
<1> QED
  BY <1>4, <1>5 DEF Restored

LEMMA BeginVerificationTurn ==
    ASSUME VaultInv, NEW p \in {"controller", "coordinator"}, RecoveryFrame(p), BeginVerification(p)
    PROVE  Turn(p)
<1>1. SlotsKept /\ ServerOK' /\ HistoryOK' /\ TodoOK' /\ UNCHANGED <<vault, session, recovery>>
  BY UserFacts, FrameFacts DEF BeginVerification, TodoOK
<1>2. proc[p].pc = "begin" /\ Begun(p) /\ p \in User /\ epoch \in Nat /\ Free(p)
  BY UserFacts, FreeFacts DEF BeginVerification, At, Waits
<1>3. CASE Done(p, "out") /\ UNCHANGED attempt
  BY <1>1, <1>2, <1>3, SameRest, DoneTurn DEF ShownStage
<1>4. CASE /\ session.state = "pending" /\ attempt' = p /\ UNCHANGED shown
           /\ proc' = [proc EXCEPT ![p] = [@ EXCEPT !.pc = "attempting", !.key = session.key,
                                                    !.recovery = recovery, !.answer = "none"]]
  <2>1. ~Leaving
    BY <1>4, UserFacts
  <2>2. CoreOK'
    BY <1>1, <1>2, <1>4, UserFacts DEF CoreOK
  <2>3. Rest(p)
    BY <1>1, <1>2, <2>1, <2>2, UserFacts DEF Rest, RestKept, SignsOff
  <2> DEFINE r == [proc[p] EXCEPT !.pc = "attempting", !.key = session.key,
                                  !.recovery = recovery, !.answer = "none"]
  <2>4. proc[p] \in ProcRecord /\ proc = [q \in User |-> proc[q]] /\ session.key \in Key
        /\ recovery \in Recovery /\ ProcOK
    BY <1>2, UserFacts, ProcFacts DEF ProcOK, SessionRecord
  <2>5. /\ r \in ProcRecord /\ r.pc = "attempting" /\ r.answer = "none" /\ r.epoch = proc[p].epoch
        /\ r.silent = proc[p].silent /\ r.recovery = recovery
    BY <2>4 DEF ProcRecord, Answer, Pc
  <2>6. proc' = [proc EXCEPT ![p] = r]
    BY <1>4, <2>4
  <2> HIDE DEF r
  <2>7. Goes(p, "attempting", "none") /\ proc'[p] = r
    BY <1>2, <2>4, <2>5, <2>6 DEF Goes, OthersStay, ProcOK
  <2>8. Walks(p, "attempting", "none")
    BY <2>1, <2>5, <2>7, UserFacts DEF Walks, PcOf, ControllerPc, CoordinatorPc, Pc, RecoveryPc, Starting
  <2>9. VaultStep(p) /\ shown' = shown
    BY <1>1, <1>4 DEF VaultStep
  <2> QED
    BY <2>3, <2>7, <2>8, <2>9, WalksTurn
<1> QED
  BY <1>3, <1>4 DEF BeginVerification

LEMMA VerifiesTurn ==
    ASSUME VaultInv, NEW p \in {"controller", "coordinator"}, NEW o \in Outcome,
           VerificationAnswers(p, o)
    PROVE  Turn(p)
<1> DEFINE a == IF StillVerified(p) THEN o ELSE "replaced"
<1>1. /\ UNCHANGED <<storage, vault, recovery, todo, shown, loggedOut>> /\ proc[p].pc = "attempting"
      /\ proc' = [proc EXCEPT ![p].answer = a] /\ a \in Answer /\ a \notin {"candidate", "ok"}
  BY DEF VerificationAnswers, At, Answer, Outcome
<1>2. p \in User /\ ProcOK /\ Begun(p) /\ Free(p) /\ proc[p].key \in Key /\ epoch \in Nat
      /\ proc[p].recovery.epoch <= epoch
  BY <1>1, UserFacts, ProcFacts, FreeFacts DEF Waits
<1>3. SlotsKept /\ TodoOK' /\ UNCHANGED <<shown, vault, recovery>>
  BY <1>1, UserFacts DEF storage, SlotsKept, TodoOK
<1>4. ServerOK'
  BY <1>2, UserFacts DEF VerificationAnswers, Says, ServerOK
<1>5. HistoryOK'
  BY <1>1, <1>2, UserFacts DEF VerificationAnswers, HistoryOK
<1>6. Leaving => ~StillVerified(p)
  BY UserFacts DEF StillVerified
<1>7. CoreOK' /\ SignsOff
  <2>1. CASE ~StillVerified(p)
    <3>1. UNCHANGED <<session, attempt>>
      BY <2>1 DEF VerificationAnswers
    <3> QED
      BY <3>1, UserFacts DEF CoreOK, SignsOff, SignedOff
  <2>2. CASE StillVerified(p)
    <3>1. attempt' = "none"
      BY <2>2 DEF VerificationAnswers, NoAttempt
    <3>2. \/ Replace("authenticated", proc[p].key)
          \/ Replace("signedOut", 0)
          \/ UNCHANGED session
      BY <2>2 DEF VerificationAnswers
    <3>3. session' \in SessionRecord
      BY <1>2, <3>2, ReplaceFacts, NothingFacts, UserFacts DEF SessionState
    <3> QED
      BY <1>6, <2>2, <3>1, <3>3 DEF CoreOK, SignsOff
  <2> QED
    BY <2>1, <2>2
<1>8. Rest(p)
  BY <1>1, <1>2, <1>3, <1>4, <1>5, <1>7, UserFacts DEF Rest, RestKept
<1> HIDE DEF a
<1>9. Goes(p, "attempting", a) /\ Keeps(p)
  BY <1>1, <1>2, AnswerFacts
<1>10. Leaving => proc[p].recovery.epoch < epoch
  BY <1>1, UserFacts DEF Harmless, RecoveryPc
<1>11. Walks(p, "attempting", a)
  BY <1>1, <1>9, <1>10, UserFacts DEF Walks, Keeps, PcOf, ControllerPc, CoordinatorPc, Pc, RecoveryPc,
                                      Starting, Bound
<1> QED
  BY <1>3, <1>8, <1>9, <1>11, WalksTurn DEF VaultStep

LEMMA AttemptedTurn ==
    ASSUME VaultInv, NEW p \in {"controller", "coordinator"}, RecoveryFrame(p), Attempted(p)
    PROVE  Turn(p)
<1> DEFINE mine == proc[p].recovery
<1>1. SlotsKept /\ ServerOK' /\ HistoryOK' /\ TodoOK' /\ UNCHANGED <<session, attempt>>
  BY UserFacts, FrameFacts DEF Attempted, TodoOK
<1>2. proc[p].pc = "attempting" /\ Free(p) /\ p \in User /\ epoch \in Nat
      /\ mine.epoch \in Nat /\ mine.epoch <= epoch
  BY UserFacts DEF Attempted, AnsweredAt
<1>3. Leaving => mine.epoch < epoch
  BY <1>2, UserFacts DEF Harmless, RecoveryPc
<1>4. \A next \in RecoveryPc \cup {"deleting"} : NextOK(p, next)
  BY <1>2, <1>3 DEF NextOK, PcOf, ControllerPc, CoordinatorPc, Pc, Starting, RecoveryPc, Bound
<1>5. NoStage \in Stage
  BY NothingFacts
<1>6. CASE /\ Resolved(p) \/ UNCHANGED recovery
           /\ UNCHANGED vault
           /\ Done(p, "out") \/ Done(p, "retry") \/ Done(p, "in")
  <2>1. Rest(p)
    BY <1>1, <1>2, <1>6, SameRest
  <2> QED
    BY <1>2, <1>6, <2>1, DoneTurn DEF ShownStage
<1>7. CASE /\ session.state = "authenticated" /\ UNCHANGED <<recovery, shown>>
           /\ Enqueue(p, "publish", mine.epoch, Document(session.key), "republishing")
  <2>1. Rest(p)
    BY <1>1, <1>2, <1>7, SameRest
  <2>2. Document(session.key) \in Stage
    BY UserFacts, NothingFacts DEF Document, Stage, SessionRecord
  <2> QED
    BY <1>2, <1>3, <1>4, <1>7, <2>1, <2>2, EnqueueTurn DEF Waits, Kind, RecoveryPc
<1>8. ASSUME NEW next \in {"finishing", "falling"}, UNCHANGED <<recovery, shown>>,
             Enqueue(p, "unstage", mine.epoch, NoStage, next)
      PROVE  Turn(p)
  <2>1. Rest(p)
    BY <1>1, <1>2, <1>8, SameRest
  <2> QED
    BY <1>2, <1>3, <1>4, <1>5, <1>8, <2>1, EnqueueTurn DEF Waits, Kind, RecoveryPc, Writing
<1>9. CASE EnqueueDeleteIf(p, mine.epoch, "dropping") /\ UNCHANGED <<recovery, shown>>
  <2>1. Rest(p)
    BY <1>1, <1>2, <1>9, SameRest
  <2> QED
    BY <1>4, <1>9, <2>1, DeleteIfTurn DEF RecoveryPc
<1>10. CASE EnqueueNew(p, "delete", NoStage, "deleting") /\ UNCHANGED <<recovery, shown>>
  <2>1. Rest(p)
    BY <1>1, <1>2, <1>10, SameRest
  <2> QED
    BY <1>4, <1>10, <2>1, NewTurn DEF Waits
<1> QED
  BY <1>6, <1>7, <1>8, <1>9, <1>10 DEF Attempted

LEMMA RepublishedTurn ==
    ASSUME VaultInv, NEW p \in {"controller", "coordinator"}, RecoveryFrame(p), Republished(p)
    PROVE  Turn(p)
<1>1. SlotsKept /\ ServerOK' /\ HistoryOK' /\ TodoOK' /\ UNCHANGED <<session, attempt>>
  BY UserFacts, FrameFacts DEF Republished, TodoOK
<1>2. proc[p].pc = "republishing" /\ Free(p) /\ p \in User /\ epoch \in Nat
      /\ proc[p].recovery.epoch \in Nat /\ proc[p].recovery.epoch <= epoch
  BY UserFacts DEF Republished, AnsweredAt
<1>3. Leaving => proc[p].recovery.epoch < epoch
  BY <1>2, UserFacts DEF Harmless, RecoveryPc
<1>4. \A next \in RecoveryPc : NextOK(p, next)
  BY <1>2, <1>3 DEF NextOK, PcOf, ControllerPc, CoordinatorPc, Pc, Starting, RecoveryPc, Bound
<1>5. NoStage \in Stage
  BY NothingFacts
<1>6. Rest(p)
  BY <1>1, <1>2, SameRest DEF Republished
<1>7. CASE Done(p, "out") /\ UNCHANGED vault
  BY <1>2, <1>6, <1>7, DoneTurn DEF ShownStage
<1>8. CASE UNCHANGED shown /\ Enqueue(p, "unstage", proc[p].recovery.epoch, NoStage, "finishing")
  BY <1>2, <1>3, <1>4, <1>5, <1>6, <1>8, EnqueueTurn DEF Waits, Kind, RecoveryPc, Writing
<1>9. CASE UNCHANGED shown /\ Enqueue(p, "read", epoch, NoStage, "rereading")
  BY <1>2, <1>3, <1>4, <1>5, <1>6, <1>9, EnqueueTurn DEF Waits, Kind, RecoveryPc, Writing
<1> QED
  BY <1>7, <1>8, <1>9 DEF Republished

LEMMA StageFallenTurn ==
    ASSUME VaultInv, NEW p \in {"controller", "coordinator"}, RecoveryFrame(p), StageFallen(p)
    PROVE  Turn(p)
<1>1. SlotsKept /\ ServerOK' /\ HistoryOK' /\ TodoOK' /\ UNCHANGED <<session, attempt>>
  BY UserFacts, FrameFacts DEF StageFallen, TodoOK
<1>2. proc[p].pc = "falling" /\ Free(p) /\ p \in User /\ epoch \in Nat
  BY UserFacts DEF StageFallen, AnsweredAt
<1>3. Leaving => proc[p].recovery.epoch < epoch
  BY <1>2, UserFacts DEF Harmless, RecoveryPc
<1>4. NextOK(p, "fallback")
  BY <1>2, <1>3 DEF NextOK, PcOf, ControllerPc, CoordinatorPc, Pc, Starting, RecoveryPc, Bound
<1>5. NoStage \in Stage
  BY NothingFacts
<1>6. Rest(p)
  BY <1>1, <1>2, SameRest DEF StageFallen
<1>7. CASE (Done(p, "out") \/ Done(p, "retry")) /\ UNCHANGED vault
  BY <1>2, <1>6, <1>7, DoneTurn DEF ShownStage
<1>8. CASE UNCHANGED shown /\ Enqueue(p, "read", epoch, NoStage, "fallback")
  BY <1>2, <1>4, <1>5, <1>6, <1>8, EnqueueTurn DEF Waits, Kind, Writing
<1> QED
  BY <1>7, <1>8 DEF StageFallen

LEMMA EndTurn ==
    ASSUME VaultInv, NEW p \in {"controller", "coordinator"}, RecoveryFrame(p),
           Reread(p) \/ Finished(p) \/ Dropped(p) \/ Deleted(p)
    PROVE  Turn(p)
<1>1. SlotsKept /\ ServerOK' /\ HistoryOK' /\ TodoOK' /\ UNCHANGED vault
  BY UserFacts, FrameFacts DEF Reread, Finished, Dropped, Deleted, TodoOK
<1>2. proc[p].pc \in {"rereading", "finishing", "dropping", "deleting"} /\ Free(p) /\ p \in User
  BY UserFacts DEF Reread, Finished, Dropped, Deleted, AnsweredAt
<1>3. Done(p, "out") \/ Done(p, "in") \/ Done(p, "retry")
  BY DEF Reread, Finished, Dropped, Deleted
<1>4. Resolved(p) \/ UNCHANGED recovery
  BY DEF Reread, Finished, Dropped, Deleted
<1>5. Rest(p)
  <2>1. CASE UNCHANGED <<session, attempt>>
    BY <1>1, <1>2, <1>4, <2>1, SameRest
  <2>2. CASE Reread(p) /\ proc[p].recovery.epoch = epoch /\ RestoreStaged(proc[p].snap)
    <3>1. ~Leaving
      BY <2>2, UserFacts DEF Reread, AnsweredAt, Harmless, RecoveryPc
    <3>2. proc[p].snap.staged.cand \in Key
      BY <1>2, UserFacts, ProcFacts
    <3>3. CoreOK'
      BY <2>2, <3>2, ReplaceFacts DEF RestoreStaged, NoAttempt, CoreOK, SessionState
    <3> QED
      BY <1>1, <1>2, <1>4, <3>1, <3>3, UserFacts, ResolvedFacts DEF Rest, RestKept, SignsOff
  <2> QED
    BY <2>1, <2>2 DEF Reread, Finished, Dropped, Deleted
<1> QED
  BY <1>1, <1>2, <1>3, <1>5, DoneTurn DEF ShownStage

LEMMA FallbackFacts ==
    ASSUME NEW mine \in Recovery
    PROVE  LET fallen == [mine EXCEPT !.action = "fallback", !.id = 0] IN
           fallen \in Recovery /\ fallen.epoch = mine.epoch
<1> DEFINE renamed == [mine EXCEPT !.action = "fallback"]
<1>1. renamed \in Recovery /\ renamed.epoch = mine.epoch
  BY DEF Recovery
<1>2. [mine EXCEPT !.action = "fallback", !.id = 0] = [renamed EXCEPT !.id = 0]
  BY DEF Recovery
<1> HIDE DEF renamed
<1>3. [renamed EXCEPT !.id = 0] \in Recovery /\ [renamed EXCEPT !.id = 0].epoch = renamed.epoch
  BY <1>1 DEF Recovery
<1> QED
  BY <1>1, <1>2, <1>3

LEMMA FallsBackTurn ==
    ASSUME VaultInv, NEW p \in {"controller", "coordinator"}, RecoveryFrame(p), FallsBack(p)
    PROVE  Turn(p)
<1>1. SlotsKept /\ ServerOK' /\ HistoryOK' /\ TodoOK' /\ UNCHANGED vault
  BY UserFacts, FrameFacts DEF FallsBack, TodoOK
<1>2. proc[p].pc = "fallback" /\ Free(p) /\ p \in User /\ epoch \in Nat /\ Begun(p) /\ ProcOK
  BY UserFacts DEF FallsBack, AnsweredAt
<1>3. proc[p].snap.current \in Key /\ 0 \in Key
  BY <1>2, UserFacts, ProcFacts, NothingFacts
<1>4. CASE /\ UNCHANGED <<session, attempt>>
           /\ Resolved(p) \/ UNCHANGED recovery
           /\ Done(p, "out") \/ Done(p, "retry")
  <2>1. Rest(p)
    BY <1>1, <1>2, <1>4, SameRest
  <2> QED
    BY <1>1, <1>2, <1>4, <2>1, DoneTurn DEF ShownStage
<1>5. CASE /\ proc[p].answer = "ok" /\ proc[p].recovery.epoch = epoch /\ Resolved(p)
           /\ IF proc[p].snap.current = 0 THEN Replace("signedOut", 0)
              ELSE Replace("expired", proc[p].snap.current)
           /\ NoAttempt /\ Done(p, "out")
  <2>1. ~Leaving
    BY <1>2, <1>5, UserFacts DEF Harmless, RecoveryPc
  <2>2. CoreOK'
    BY <1>3, <1>5, ReplaceFacts DEF NoAttempt, CoreOK, SessionState
  <2>3. Rest(p)
    BY <1>1, <1>2, <1>5, <2>1, <2>2, UserFacts, ResolvedFacts DEF Rest, RestKept, SignsOff
  <2> QED
    BY <1>1, <1>2, <1>5, <2>3, DoneTurn DEF ShownStage
<1>6. CASE /\ proc[p].answer = "ok" /\ proc[p].recovery.epoch = epoch /\ Resolved(p)
           /\ Replace("pending", proc[p].snap.current) /\ attempt' = p
           /\ proc' = [proc EXCEPT ![p] = [@ EXCEPT !.pc = "attempting", !.answer = "none",
                           !.key = proc[p].snap.current, !.recovery.action = "fallback",
                           !.recovery.id = 0]]
           /\ UNCHANGED shown
  <2>1. ~Leaving
    BY <1>2, <1>6, UserFacts DEF Harmless, RecoveryPc
  <2>2. CoreOK'
    BY <1>2, <1>3, <1>6, ReplaceFacts DEF CoreOK, SessionState
  <2>3. Rest(p)
    BY <1>1, <1>2, <1>6, <2>1, <2>2, UserFacts, ResolvedFacts DEF Rest, RestKept, SignsOff
  <2>4. proc[p] \in ProcRecord /\ proc = [q \in User |-> proc[q]] /\ proc[p].recovery \in Recovery
    BY <1>2, ProcFacts DEF ProcOK
  <2> DEFINE mine == [proc[p].recovery EXCEPT !.action = "fallback", !.id = 0]
             r == [proc[p] EXCEPT !.pc = "attempting", !.answer = "none",
                                  !.key = proc[p].snap.current, !.recovery = mine]
  <2>5. mine \in Recovery /\ mine.epoch = proc[p].recovery.epoch
    BY <2>4, FallbackFacts
  <2>6. proc' = [proc EXCEPT ![p] = r]
    BY <1>6, <2>4 DEF ProcRecord, Recovery
  <2> HIDE DEF mine
  <2>7. /\ r \in ProcRecord /\ r.pc = "attempting" /\ r.answer = "none" /\ r.epoch = proc[p].epoch
        /\ r.silent = proc[p].silent /\ r.recovery = mine
    BY <1>3, <2>4, <2>5 DEF ProcRecord, Answer, Pc
  <2> HIDE DEF r
  <2>8. Goes(p, "attempting", "none") /\ proc'[p] = r
    BY <1>2, <2>4, <2>6, <2>7 DEF Goes, OthersStay, ProcOK
  <2>9. Walks(p, "attempting", "none")
    BY <2>1, <2>5, <2>7, <2>8, UserFacts DEF Walks, PcOf, ControllerPc, CoordinatorPc, Pc, RecoveryPc,
                                             Starting
  <2> QED
    BY <1>1, <1>6, <2>3, <2>8, <2>9, WalksTurn DEF VaultStep
<1> QED
  BY <1>4, <1>5, <1>6 DEF FallsBack

LEMMA RecoveryTurn ==
    ASSUME VaultInv, NEW p \in {"controller", "coordinator"}, RecoveryStep(p)
    PROVE  Turn(p)
<1>1. RecoveryFrame(p)
  BY DEF RecoveryStep, RecoveryFrame
<1> QED
  BY <1>1, SnapshotTurn, RestoredTurn, BeginVerificationTurn, AttemptedTurn, RepublishedTurn,
     EndTurn, StageFallenTurn, FallsBackTurn DEF RecoveryStep

-----------------------------------------------------------------------------
(***************************************************************************)
(* The reads that begin a recovery, and the steps of the coordinator.      *)
(***************************************************************************)
LEMMA BeginRestoreTurn ==
    ASSUME VaultInv, NEW p \in {"controller", "coordinator"}, Rest(p), BeginRestore(p), shown' = shown,
           p = "controller" => proc[p].pc = "boot"
    PROVE  Turn(p)
<1>1. p \in User /\ ProcOK /\ epoch \in Nat /\ NoStage \in Stage
  BY UserFacts, NothingFacts
<1> DEFINE r == [Idle EXCEPT !.pc = "snapshot", !.epoch = epoch]
<1>2. /\ r \in ProcRecord /\ r.pc = "snapshot" /\ r.answer = "none" /\ r.epoch = epoch
      /\ r.silent = FALSE /\ r.recovery = NoRecovery
  BY <1>1, NothingFacts DEF ProcRecord, Pc
<1>3. proc' = [proc EXCEPT ![p] = r] /\ epoch' = epoch
      /\ queue' = Append(queue, Op(p, "read", epoch, NoStage))
  BY DEF BeginRestore
<1> HIDE DEF r
<1>4. Goes(p, "snapshot", "none") /\ proc'[p] = r
  BY <1>1, <1>2, <1>3 DEF Goes, OthersStay, ProcOK
<1>5. p = "controller" => proc[p].silent = FALSE
  <2>1. p = "controller" => ~proc[p].silent
    BY DEF VaultInv, UsersInv, TurnsOK, Booted
  <2>2. proc[p].silent \in BOOLEAN
    BY <1>1, ProcFacts
  <2> QED
    BY <2>1, <2>2
<1>6. Walks(p, "snapshot", "none")
  <2>1. p = "controller" => proc'[p].silent = proc[p].silent
    BY <1>2, <1>4, <1>5
  <2>2. /\ "snapshot" \in PcOf(p) /\ ("snapshot" \in Starting => p = "coordinator" \/ proc[p].pc \in Starting)
        /\ "snapshot" \notin RecoveryPc \cup {"deleting"} \cup Bound
    BY DEF PcOf, ControllerPc, CoordinatorPc, Pc, RecoveryPc, Starting, Bound
  <2>3. proc'[p].epoch <= epoch /\ proc'[p].recovery.epoch <= epoch /\ proc'[p].recovery = NoRecovery
    BY <1>1, <1>2, <1>4, NothingFacts
  <2> QED
    BY <2>1, <2>2, <2>3 DEF Walks
<1>7. Adds(p, "read", epoch)
  BY <1>1, <1>3, AddsFacts DEF Kind
<1>8. VaultStep(p)
  BY <1>1, <1>2, <1>3, <1>4, <1>7 DEF VaultStep, Waits, Kind, Writing
<1> QED
  BY <1>4, <1>6, <1>8, WalksTurn

LEMMA TakeTodoTurn ==
    ASSUME VaultInv, TakeTodo, UNCHANGED <<storage, server, history>>
    PROVE  Turn("coordinator")
<1> DEFINE p == "coordinator"
           next == IF Head(todo) = "checkpoint" THEN "begin" ELSE "continue"
<1>1. /\ p \in User /\ ProcOK /\ epoch \in Nat /\ proc[p].pc = "idle" /\ Booted /\ shown' = shown
      /\ UNCHANGED <<session, attempt, recovery>> /\ proc[p].recovery = NoRecovery
      /\ proc[p].epoch <= epoch
  BY UserFacts DEF TakeTodo, At, Coord, RecoveryPc
<1>2. /\ Head(todo) \in {"checkpoint", "rejection"}
      /\ todo' \in Seq({"checkpoint", "rejection"}) /\ Len(todo') <= MaxTodo
  <2>1. todo \in Seq({"checkpoint", "rejection"}) /\ todo # <<>> /\ Len(todo) <= MaxTodo
        /\ MaxTodo \in Nat /\ todo' = Tail(todo)
    BY UserFacts, VaultAssumption DEF TakeTodo, TodoOK
  <2>2. Head(todo) \in {"checkpoint", "rejection"} /\ todo' \in Seq({"checkpoint", "rejection"})
        /\ Len(todo') = Len(todo) - 1 /\ Len(todo) \in Nat
    BY <2>1, HeadTailProperties, LenProperties
  <2> QED
    BY <2>1, <2>2
<1>3. Rest(p)
  <2>1. SlotsKept /\ ServerOK' /\ HistoryOK' /\ TodoOK'
    BY <1>2, UserFacts DEF storage, server, history, SlotsKept, ServerOK, HistoryOK, TodoOK
  <2>2. CoreOK' /\ SignsOff
    BY <1>1, UserFacts DEF CoreOK, SignsOff, SignedOff
  <2>3. Free(p) /\ Begun(p)
    BY <1>1, FreeFacts, UserFacts DEF Waits, Begun
  <2> QED
    BY <1>1, <2>1, <2>2, <2>3, UserFacts DEF Rest, RestKept
<1>4. CASE BeginRestore(p)
  BY <1>1, <1>3, <1>4, BeginRestoreTurn
<1>5. CASE /\ UNCHANGED vault
           /\ proc' = [proc EXCEPT ![p].trigger = Head(todo), ![p].pc = next]
  <2> DEFINE r == [proc[p] EXCEPT !.trigger = Head(todo), !.pc = next]
  <2>1. proc[p] \in ProcRecord /\ proc = [q \in User |-> proc[q]]
    BY <1>1 DEF ProcOK
  <2>2. proc' = [proc EXCEPT ![p] = r]
    BY <1>5, <2>1
  <2>3. next \in {"begin", "continue"}
    OBVIOUS
  <2> HIDE DEF next
  <2>4. /\ r \in ProcRecord /\ r.pc = next /\ r.answer = proc[p].answer /\ r.epoch = proc[p].epoch
        /\ r.recovery = proc[p].recovery
    BY <1>2, <2>1, <2>3 DEF ProcRecord, Pc
  <2> HIDE DEF r
  <2>5. Goes(p, next, proc[p].answer) /\ proc'[p] = r
    BY <1>1, <2>2, <2>4 DEF Goes, OthersStay, ProcOK
  <2>6. Walks(p, next, proc[p].answer)
    BY <1>1, <2>3, <2>4, <2>5, NothingFacts DEF Walks, PcOf, CoordinatorPc, Pc, RecoveryPc, Starting, Bound
  <2> QED
    BY <1>1, <1>3, <1>5, <2>5, <2>6, WalksTurn DEF VaultStep
<1> QED
  BY <1>4, <1>5 DEF TakeTodo, Coord

LEMMA PrepareTurn ==
    ASSUME VaultInv, Prepare, UNCHANGED <<storage, loggedOut>>
    PROVE  Turn("coordinator")
<1> DEFINE p == "coordinator"
<1>1. /\ p \in User /\ ProcOK /\ epoch \in Nat /\ proc[p].pc = "continue" /\ Begun(p) /\ Free(p)
      /\ UNCHANGED <<vault, attempt, recovery, todo, shown, server, saved>>
      /\ proc[p].recovery = NoRecovery
  BY UserFacts, FreeFacts DEF Prepare, At, Coord, RecoveryPc, Waits
<1>2. SlotsKept /\ ServerOK' /\ HistoryOK' /\ TodoOK' /\ UNCHANGED <<vault, shown>>
  BY <1>1, UserFacts DEF storage, server, SlotsKept, ServerOK, HistoryOK, TodoOK
<1>3. proc[p] \in ProcRecord /\ proc = [q \in User |-> proc[q]] /\ session.key \in Key
  BY <1>1, UserFacts DEF ProcOK, SessionRecord
<1>4. ASSUME NEW answer \in Answer \ {"candidate", "ok"}, Prepared(answer), CoreOK', SignsOff
      PROVE  Turn(p)
  <2> DEFINE r == [proc[p] EXCEPT !.pc = "prepared", !.epoch = epoch, !.answer = answer]
  <2>1. proc' = [proc EXCEPT ![p] = r]
    BY <1>3, <1>4 DEF Prepared, Coord
  <2>2. /\ r \in ProcRecord /\ r.pc = "prepared" /\ r.answer = answer /\ r.epoch = epoch
        /\ r.recovery = proc[p].recovery
    BY <1>1, <1>3 DEF ProcRecord, Pc
  <2> HIDE DEF r
  <2>3. Goes(p, "prepared", answer) /\ proc'[p] = r
    BY <1>1, <2>1, <2>2 DEF Goes, OthersStay, ProcOK
  <2>4. Walks(p, "prepared", answer)
    BY <1>1, <2>2, <2>3, NothingFacts DEF Walks, PcOf, CoordinatorPc, Pc, RecoveryPc, Starting, Bound
  <2>5. Rest(p)
    BY <1>1, <1>2, <1>4, UserFacts DEF Rest, RestKept
  <2> QED
    BY <1>2, <2>3, <2>4, <2>5, WalksTurn DEF VaultStep
<1>5. UNCHANGED session => CoreOK' /\ SignsOff
  BY <1>1, UserFacts DEF CoreOK, SignsOff, SignedOff
<1>6. Replace("signedOut", 0) => CoreOK' /\ SignsOff
  BY <1>1, UserFacts, ReplaceFacts, NothingFacts DEF CoreOK, SignsOff, SessionState
<1>7. CASE /\ session.state \in {"continuation", "expired", "authenticated"}
           /\ session' = [session EXCEPT !.flight = "active"]
           /\ proc' = [proc EXCEPT ![p] = [@ EXCEPT !.pc = "refreshing", !.epoch = epoch,
                                                    !.source = session.key]]
  <2>1. ~Leaving
    BY <1>7, UserFacts
  <2>2. CoreOK'
    BY <1>1, <1>7, UserFacts DEF CoreOK, SessionRecord
  <2>3. Rest(p)
    BY <1>1, <1>2, <2>1, <2>2, UserFacts DEF Rest, RestKept, SignsOff
  <2> DEFINE r == [proc[p] EXCEPT !.pc = "refreshing", !.epoch = epoch, !.source = session.key]
  <2>4. proc' = [proc EXCEPT ![p] = r]
    BY <1>3, <1>7
  <2>5. /\ r \in ProcRecord /\ r.pc = "refreshing" /\ r.answer = proc[p].answer /\ r.epoch = epoch
        /\ r.recovery = proc[p].recovery
    BY <1>1, <1>3 DEF ProcRecord, Pc
  <2> HIDE DEF r
  <2>6. Goes(p, "refreshing", proc[p].answer) /\ proc'[p] = r
    BY <1>1, <2>4, <2>5 DEF Goes, OthersStay, ProcOK
  <2>7. Walks(p, "refreshing", proc[p].answer)
    BY <1>1, <2>1, <2>5, <2>6, NothingFacts DEF Walks, PcOf, CoordinatorPc, Pc, RecoveryPc, Starting
  <2> QED
    BY <1>2, <2>3, <2>6, <2>7, WalksTurn DEF VaultStep
<1>8. \/ Prepared("gate") /\ (Replace("signedOut", 0) \/ UNCHANGED session)
      \/ Prepared("noCredential") /\ UNCHANGED session
      \/ Prepared("notNeeded") /\ UNCHANGED session
      \/ Prepared("transient") /\ UNCHANGED session
      \/ /\ session.state \in {"continuation", "expired", "authenticated"}
         /\ session' = [session EXCEPT !.flight = "active"]
         /\ proc' = [proc EXCEPT ![p] = [@ EXCEPT !.pc = "refreshing", !.epoch = epoch,
                                                  !.source = session.key]]
  BY DEF Prepare, Coord
<1> QED
  BY <1>4, <1>5, <1>6, <1>7, <1>8 DEF Answer, Outcome

LEMMA RefreshTurn ==
    ASSUME VaultInv, NEW o \in Outcome, RefreshAnswers(o), UNCHANGED <<storage, loggedOut>>
    PROVE  Turn("coordinator")
<1> DEFINE p == "coordinator"
           mine == session.flight = "active"
<1>1. /\ p \in User /\ ProcOK /\ epoch \in Nat /\ proc[p].pc = "refreshing" /\ Begun(p) /\ Free(p)
      /\ UNCHANGED <<vault, attempt, recovery, todo, shown, activated, saved>>
      /\ proc[p].recovery = NoRecovery /\ proc[p].epoch <= epoch /\ proc[p].source \in Key
      /\ issued \in 1..MaxKey /\ MaxKey \in Nat
  BY UserFacts, ProcFacts, FreeFacts, VaultAssumption DEF RefreshAnswers, At, Coord, RecoveryPc, Waits, ServerOK
<1>2. SlotsKept /\ HistoryOK' /\ TodoOK' /\ UNCHANGED <<vault, shown>>
  BY <1>1, UserFacts DEF storage, SlotsKept, HistoryOK, TodoOK
<1>3. ServerOK' /\ (o = "accepted" => issued + 1 \in Key)
  <2>1. refused' \subseteq Key /\ activated' \in BOOLEAN
    BY <1>1, UserFacts DEF RefreshAnswers, ServerOK, Coord
  <2>2. CASE o = "accepted"
    <3>1. issued < MaxKey /\ issued' = issued + 1 /\ issued + 1 \in 1..MaxKey
          /\ from' = [from EXCEPT ![issued + 1] = proc[p].source]
      BY <1>1, <2>2 DEF RefreshAnswers, Coord
    <3>2. from' \in [1..MaxKey -> Key]
      BY <1>1, <3>1, UserFacts DEF ServerOK
    <3> QED
      BY <1>1, <2>1, <3>1, <3>2 DEF ServerOK, Key
  <2>3. CASE o # "accepted"
    BY <2>1, <2>3, UserFacts DEF RefreshAnswers, ServerOK
  <2> QED
    BY <2>2, <2>3
<1>4. proc[p] \in ProcRecord /\ proc = [q \in User |-> proc[q]]
  BY <1>1 DEF ProcOK
<1>5. Leaving => ~mine /\ proc[p].epoch < epoch
  BY <1>1, UserFacts DEF Harmless
<1>6. CASE /\ o = "accepted" /\ mine /\ UNCHANGED session
           /\ proc' = [proc EXCEPT ![p] = [@ EXCEPT !.pc = "prepared", !.answer = "candidate",
                                                    !.key = issued + 1]]
  <2> DEFINE r == [proc[p] EXCEPT !.pc = "prepared", !.answer = "candidate", !.key = issued + 1]
  <2>1. proc' = [proc EXCEPT ![p] = r]
    BY <1>4, <1>6
  <2>2. /\ r \in ProcRecord /\ r.pc = "prepared" /\ r.answer = "candidate"
        /\ r.epoch = proc[p].epoch /\ r.recovery = proc[p].recovery
    BY <1>3, <1>4, <1>6 DEF ProcRecord, Pc, Answer
  <2> HIDE DEF r
  <2>3. Goes(p, "prepared", "candidate") /\ proc'[p] = r
    BY <1>1, <2>1, <2>2 DEF Goes, OthersStay, ProcOK
  <2>4. Walks(p, "prepared", "candidate")
    BY <1>1, <1>5, <2>2, <2>3, NothingFacts DEF Walks, PcOf, CoordinatorPc, Pc, RecoveryPc, Starting
  <2>5. CoreOK' /\ SignsOff
    BY <1>1, <1>6, UserFacts DEF CoreOK, SignsOff, SignedOff
  <2>6. Rest(p)
    BY <1>1, <1>2, <1>3, <2>5, UserFacts DEF Rest, RestKept
  <2> QED
    BY <1>2, <2>3, <2>4, <2>6, WalksTurn DEF VaultStep
<1>7. ASSUME NEW answer \in {"replaced", "refused", "transient"},
             proc' = [proc EXCEPT ![p] = [@ EXCEPT !.pc = "prepared", !.answer = answer]],
             IF o = "refused" /\ mine THEN Replace("signedOut", 0) ELSE FlightEnds
      PROVE  Turn(p)
  <2> DEFINE r == [proc[p] EXCEPT !.pc = "prepared", !.answer = answer]
  <2>1. proc' = [proc EXCEPT ![p] = r]
    BY <1>4, <1>7
  <2>2. /\ r \in ProcRecord /\ r.pc = "prepared" /\ r.answer = answer
        /\ r.epoch = proc[p].epoch /\ r.recovery = proc[p].recovery
    BY <1>4, <1>7 DEF ProcRecord, Pc, Answer, Outcome
  <2> HIDE DEF r
  <2>3. Goes(p, "prepared", answer) /\ proc'[p] = r
    BY <1>1, <2>1, <2>2 DEF Goes, OthersStay, ProcOK
  <2>4. Walks(p, "prepared", answer)
    BY <1>1, <1>5, <2>2, <2>3, NothingFacts DEF Walks, PcOf, CoordinatorPc, Pc, RecoveryPc, Starting, Bound
  <2>5. CoreOK' /\ SignsOff
    <3>1. CASE Replace("signedOut", 0)
      BY <1>1, <3>1, UserFacts, ReplaceFacts, NothingFacts DEF CoreOK, SignsOff, SessionState
    <3>2. CASE FlightEnds
      BY <1>1, <1>5, <3>2, UserFacts, FlightFacts DEF CoreOK, SignsOff, SignedOff
    <3> QED
      BY <1>7, <3>1, <3>2
  <2>6. Rest(p)
    BY <1>1, <1>2, <1>3, <2>5, UserFacts DEF Rest, RestKept
  <2> QED
    BY <1>2, <2>3, <2>4, <2>6, WalksTurn DEF VaultStep
<1>8. CASE proc' = [proc EXCEPT ![p] = [@ EXCEPT !.pc = "prepared",
                        !.answer = IF o = "accepted" THEN "replaced" ELSE o]]
           /\ IF o = "refused" /\ mine THEN Replace("signedOut", 0) ELSE FlightEnds
  <2> DEFINE answer == IF o = "accepted" THEN "replaced" ELSE o
  <2>1. answer \in {"replaced", "refused", "transient"}
    BY DEF Outcome
  <2>2. proc' = [proc EXCEPT ![p] = [@ EXCEPT !.pc = "prepared", !.answer = answer]]
    BY <1>8
  <2> HIDE DEF answer
  <2> QED
    BY <1>7, <1>8, <2>1, <2>2
<1> QED
  BY <1>6, <1>8 DEF RefreshAnswers, Coord

LEMMA StagedVerifiedTurn ==
    ASSUME VaultInv, NEW o \in Outcome, StagedVerified(o), UNCHANGED <<storage, loggedOut>>
    PROVE  Turn("coordinator")
<1> DEFINE p == "coordinator"
           mine == session.flight = "active"
           a == IF mine THEN o ELSE "replaced"
<1>1. /\ p \in User /\ ProcOK /\ epoch \in Nat /\ proc[p].pc = "verifying" /\ Begun(p) /\ Free(p)
      /\ UNCHANGED <<vault, attempt, recovery, todo, shown, saved>>
      /\ proc[p].recovery = NoRecovery /\ proc[p].epoch <= epoch /\ proc[p].key \in Key
      /\ proc' = [proc EXCEPT ![p].answer = a] /\ a \in Answer /\ a \notin {"candidate", "ok"}
  BY UserFacts, ProcFacts, FreeFacts DEF StagedVerified, At, Coord, RecoveryPc, Waits, Answer, Outcome
<1>2. SlotsKept /\ HistoryOK' /\ TodoOK' /\ UNCHANGED <<vault, shown>>
  BY <1>1, UserFacts DEF storage, SlotsKept, HistoryOK, TodoOK
<1>3. ServerOK'
  BY <1>1, UserFacts DEF StagedVerified, Says, ServerOK, Coord
<1>4. Leaving => ~mine /\ proc[p].epoch < epoch
  BY <1>1, UserFacts DEF Harmless
<1>5. CoreOK' /\ SignsOff
  <2>1. CASE UNCHANGED session
    BY <1>1, <2>1, UserFacts DEF CoreOK, SignsOff, SignedOff
  <2>2. CASE Replace("signedOut", 0)
    BY <1>1, <2>2, UserFacts, ReplaceFacts, NothingFacts DEF CoreOK, SignsOff, SessionState
  <2>3. CASE FlightEnds
    BY <1>1, <1>4, <2>3, UserFacts, FlightFacts DEF CoreOK, SignsOff, SignedOff
  <2> QED
    BY <2>1, <2>2, <2>3 DEF StagedVerified
<1>6. Rest(p)
  BY <1>1, <1>2, <1>3, <1>5, UserFacts DEF Rest, RestKept
<1> HIDE DEF a
<1>7. Goes(p, "verifying", a) /\ Keeps(p)
  BY <1>1, AnswerFacts
<1>8. Walks(p, "verifying", a)
  BY <1>1, <1>4, <1>7, NothingFacts DEF Walks, Keeps, PcOf, CoordinatorPc, Pc, RecoveryPc, Starting
<1> QED
  BY <1>2, <1>6, <1>7, <1>8, WalksTurn DEF VaultStep

LEMMA ContinueTurn ==
    ASSUME VaultInv, Continue, UNCHANGED <<storage, loggedOut>>
    PROVE  Turn("coordinator")
<1> DEFINE p == "coordinator"
           mine == proc[p]
<1>1. /\ p \in User /\ ProcOK /\ epoch \in Nat /\ Begun(p) /\ Free(p) /\ shown' = shown
      /\ UNCHANGED <<session, attempt, recovery, todo, server, saved>> /\ shown \in ShownStage
      /\ mine.recovery = NoRecovery /\ mine.epoch <= epoch /\ mine.epoch \in Nat
      /\ mine.pc \in {"prepared", "staging", "verifying", "cleaning"}
  BY UserFacts DEF Continue, AnsweredAt, Coord, RecoveryPc
<1>2. SlotsKept /\ HistoryOK' /\ TodoOK' /\ ServerOK'
  BY <1>1, UserFacts DEF storage, server, SlotsKept, HistoryOK, TodoOK, ServerOK
<1>3. Rest(p)
  BY <1>1, <1>2, SameRest
<1>4. NoStage \in Stage /\ Document(mine.key) \in Stage
      /\ [source |-> mine.source, cand |-> mine.key] \in Stage
  BY <1>1, ProcFacts, NothingFacts DEF Document, Stage
<1>5. \A next \in {"staging", "verifying", "publishing", "deleting"} :
         (next \in Bound /\ Leaving => mine.epoch < epoch) => NextOK(p, next)
  BY <1>1 DEF NextOK, PcOf, CoordinatorPc, Pc, Starting, RecoveryPc
<1>6. ASSUME Leaving PROVE /\ mine.pc \in {"staging", "verifying"} => mine.epoch < epoch
                           /\ mine.pc = "prepared" /\ mine.answer = "candidate" => mine.epoch < epoch
  BY <1>6, UserFacts DEF Harmless
<1>7. CASE /\ AnsweredAt(p, "prepared", {"candidate"})
           /\ Enqueue(p, "stage", mine.epoch, [source |-> mine.source, cand |-> mine.key], "staging")
  BY <1>1, <1>3, <1>4, <1>5, <1>6, <1>7, EnqueueTurn DEF AnsweredAt, Waits, Kind
<1>8. CASE Done(p, shown) /\ UNCHANGED vault
  BY <1>1, <1>3, <1>8, DoneTurn
<1>9. CASE EnqueueDeleteIf(p, mine.epoch, "deleting")
  BY <1>1, <1>3, <1>5, <1>9, DeleteIfTurn DEF Bound
<1>10. CASE AnsweredAt(p, "staging", {"ok"}) /\ Moves(p, "verifying") /\ UNCHANGED vault
  BY <1>1, <1>3, <1>5, <1>6, <1>10, MovesTurn DEF AnsweredAt
<1>11. CASE /\ AnsweredAt(p, "verifying", {"accepted"})
            /\ Enqueue(p, "publish", mine.epoch, Document(mine.key), "publishing")
  BY <1>1, <1>3, <1>4, <1>5, <1>6, <1>11, EnqueueTurn DEF AnsweredAt, Waits, Kind
<1> QED
  BY <1>7, <1>8, <1>9, <1>10, <1>11 DEF Continue, Coord, Gives

LEMMA AbortsTurn ==
    ASSUME VaultInv, Aborts, UNCHANGED <<storage, loggedOut>>
    PROVE  Turn("coordinator")
<1> DEFINE p == "coordinator"
<1>1. /\ p \in User /\ Begun(p) /\ Free(p) /\ FlightEnds /\ Done(p, shown) /\ UNCHANGED vault
      /\ UNCHANGED <<attempt, recovery, todo, server, saved>> /\ shown \in ShownStage
  BY UserFacts DEF Aborts, AnsweredAt, Coord, Gives
<1>2. SlotsKept /\ HistoryOK' /\ TodoOK' /\ ServerOK'
  BY <1>1, UserFacts DEF storage, server, SlotsKept, HistoryOK, TodoOK, ServerOK
<1>3. CoreOK' /\ SignsOff
  BY <1>1, UserFacts, FlightFacts DEF CoreOK, SignsOff, SignedOff
<1>4. Rest(p)
  BY <1>1, <1>2, <1>3, UserFacts DEF Rest, RestKept
<1> QED
  BY <1>1, <1>4, DoneTurn

LEMMA CommitTurn ==
    ASSUME VaultInv, Commit, UNCHANGED <<storage, loggedOut>>
    PROVE  Turn("coordinator")
<1> DEFINE p == "coordinator"
<1>1. /\ p \in User /\ ProcOK /\ epoch \in Nat /\ Begun(p) /\ Free(p) /\ proc[p].pc = "publishing"
      /\ UNCHANGED <<attempt, recovery, todo, shown, server>> /\ saved' = proc[p].key
      /\ proc[p].key \in Key /\ proc[p].recovery = NoRecovery /\ shown \in ShownStage
      /\ proc[p].epoch \in Nat /\ proc[p].epoch <= epoch
  BY UserFacts, ProcFacts DEF Commit, AnsweredAt, Coord, RecoveryPc
<1>2. SlotsKept /\ HistoryOK' /\ TodoOK' /\ ServerOK'
  BY <1>1, UserFacts DEF storage, server, SlotsKept, HistoryOK, TodoOK, ServerOK
<1>3. CASE Done(p, shown) /\ UNCHANGED vault /\ UNCHANGED session
  <2>1. Rest(p)
    BY <1>1, <1>2, <1>3, SameRest
  <2> QED
    BY <1>1, <1>3, <2>1, DoneTurn
<1>4. CASE /\ session.flight = "active"
           /\ session' = [state |-> "authenticated", key |-> proc[p].key, flight |-> "installed"]
           /\ Enqueue(p, "unstage", proc[p].epoch, NoStage, "cleaning")
  <2>1. ~Leaving
    BY <1>4, UserFacts
  <2>2. CoreOK'
    BY <1>1, <1>4, UserFacts DEF CoreOK, SessionRecord, SessionState
  <2>3. Rest(p)
    BY <1>1, <1>2, <2>1, <2>2, UserFacts DEF Rest, RestKept, SignsOff
  <2>4. NextOK(p, "cleaning")
    BY <1>1 DEF NextOK, PcOf, CoordinatorPc, Pc, Starting, RecoveryPc, Bound
  <2> QED
    BY <1>1, <1>4, <2>1, <2>3, <2>4, EnqueueTurn, NothingFacts DEF Waits, Kind
<1> QED
  BY <1>3, <1>4 DEF Commit, Coord, Gives

LEMMA CoordinatorTurn ==
    ASSUME VaultInv, CoordinatorStep
    PROVE  Turn("coordinator")
BY TakeTodoTurn, PrepareTurn, RefreshTurn, StagedVerifiedTurn, ContinueTurn, AbortsTurn, CommitTurn
   DEF CoordinatorStep

-----------------------------------------------------------------------------
(***************************************************************************)
(* Steps that take no turn: the start, a resume, a rejected read, and what *)
(* the controller notices.                                                 *)
(***************************************************************************)
LEMMA StartsTurn ==
    ASSUME VaultInv, RetryVerification \/ Boot
    PROVE  Turn("controller")
<1> DEFINE p == "controller"
<1>1. /\ p \in User /\ ProcOK /\ epoch \in Nat /\ shown' = shown /\ proc[p].recovery = NoRecovery
      /\ UNCHANGED <<storage, session, attempt, recovery, todo, server, history>>
      /\ proc[p].pc \in {"idle", "boot"}
  BY UserFacts DEF RetryVerification, Boot, At, RecoveryPc
<1>2. SlotsKept /\ ServerOK' /\ HistoryOK' /\ TodoOK' /\ CoreOK' /\ SignsOff
  BY <1>1, UserFacts DEF storage, server, history, SlotsKept, ServerOK, HistoryOK, TodoOK, CoreOK, SignsOff,
                         SignedOff
<1>3. Free(p) /\ Begun(p)
  BY <1>1, FreeFacts, UserFacts DEF Waits, Begun, RetryVerification, Boot, At
<1>4. Rest(p)
  BY <1>1, <1>2, <1>3, UserFacts DEF Rest, RestKept
<1>5. CASE RetryVerification
  <2>1. NextOK(p, "begin")
    BY <1>1 DEF NextOK, PcOf, ControllerPc, Starting, RecoveryPc, Bound
  <2> QED
    BY <1>1, <1>4, <1>5, <2>1, MovesTurn DEF RetryVerification
<1>6. CASE Boot
  BY <1>1, <1>4, <1>6, BeginRestoreTurn DEF Boot, At
<1> QED
  BY <1>5, <1>6

LEMMA AsksFacts ==
    ASSUME TodoOK, NEW request \in {"checkpoint", "rejection"}, Asks(request)
    PROVE  TodoOK'
<1>1. todo \in Seq({"checkpoint", "rejection"}) /\ MaxTodo \in Nat /\ Len(todo) < MaxTodo
      /\ Len(todo) \in Nat /\ todo' = Append(todo, request)
  BY VaultAssumption, LenProperties DEF TodoOK, Asks
<1>2. todo' \in Seq({"checkpoint", "rejection"}) /\ Len(todo') = Len(todo) + 1
  BY <1>1, AppendProperties
<1> QED
  BY <1>1, <1>2 DEF TodoOK

LEMMA StillKeeps ==
    ASSUME VaultInv, UNCHANGED <<proc, vault, storage, recovery, loggedOut>>,
           CoreOK', TodoOK', ServerOK', HistoryOK', SignsOff,
           \/ shown' = shown
           \/ shown' = "in" /\ At("controller", "idle") /\ At("login", "idle") /\ At("leaver", "idle")
    PROVE  VaultInv'
<1>1. VaultTypes /\ OpsOK /\ LeaverOK /\ ProcsOK /\ TurnsOK /\ LeftOK
  BY DEF VaultInv, UsersInv
<1>2. UNCHANGED <<proc, queue, epoch, current, staged, recovery, loggedOut>>
  BY DEF vault, storage
<1>3. VaultTypes'
  BY <1>1, <1>2 DEF VaultTypes, SlotsOK, QueueOK, ProcOK, StateOK, RecoveryOK, ShownStage
<1>4. OpsOK' /\ LeaverOK' /\ ProcsOK'
  BY <1>1, <1>2 DEF OpsOK, Fits, LeaverOK, ProcsOK, At
<1>5. TurnsOK'
  BY <1>1, <1>2 DEF TurnsOK, Booted, Quieted, At
<1>6. (Leaving' <=> Leaving) /\ (Wiped' <=> Wiped) /\ (Leaves("none")' <=> Leaves("none"))
  BY <1>2 DEF Leaving, Wiped, Leaves, At
<1>7. \A p \in User : Harmless(p) => Harmless(p)'
  BY <1>2 DEF Harmless
<1> QED
  BY <1>1, <1>2, <1>3, <1>4, <1>5, <1>6, <1>7 DEF VaultInv, UsersInv, LeftOK, SignsOff

LEMMA AsideKeeps ==
    ASSUME VaultInv, NoticeSession \/ Resume \/ ReadRejected
    PROVE  VaultInv'
<1>1. CoreOK /\ TodoOK /\ ServerOK /\ HistoryOK /\ session \in SessionRecord
      /\ (Leaving => session.state = "signedOut" /\ session.flight # "active")
  BY UserFacts
<1>2. CASE NoticeSession
  <2>1. CoreOK' /\ TodoOK' /\ ServerOK' /\ HistoryOK' /\ SignsOff
    BY <1>1, <1>2 DEF NoticeSession, CoreOK, TodoOK, ServerOK, HistoryOK, SignsOff, SignedOff, server, history
  <2> QED
    BY <1>2, <2>1, StillKeeps DEF NoticeSession, history
<1>3. CASE Resume
  <2>1. CoreOK' /\ TodoOK' /\ ServerOK' /\ HistoryOK' /\ SignsOff
    BY <1>1, <1>3, AsksFacts DEF Resume, CoreOK, ServerOK, HistoryOK, SignsOff, SignedOff, server, history
  <2> QED
    BY <1>3, <2>1, StillKeeps DEF Resume, history
<1>4. CASE ReadRejected
  <2>1. session' \in SessionRecord /\ session.key \in Key
    BY <1>1, <1>4 DEF ReadRejected, SessionRecord, SessionState
  <2>2. CoreOK' /\ HistoryOK' /\ SignsOff
    BY <1>1, <1>4, <2>1 DEF ReadRejected, CoreOK, HistoryOK, SignsOff, history
  <2>3. TodoOK' /\ ServerOK'
    BY <1>1, <1>4, <2>1, AsksFacts DEF ReadRejected, ServerOK
  <2> QED
    BY <1>4, <2>2, <2>3, StillKeeps DEF ReadRejected, history
<1> QED
  BY <1>2, <1>3, <1>4

-----------------------------------------------------------------------------
(***************************************************************************)
(* The process starts, and starts again.                                   *)
(***************************************************************************)
LEMMA WaitingFacts ==
    /\ Waiting \in [User -> ProcRecord] /\ Waiting["controller"].pc = "boot"
    /\ \A p \in User \ {"controller"} : Waiting[p].pc = "idle"
    /\ \A p \in User : /\ Waiting[p].epoch = 0 /\ Waiting[p].answer = "none"
                       /\ Waiting[p].recovery = NoRecovery /\ Waiting[p].silent = FALSE
<1> DEFINE r == [Idle EXCEPT !.pc = "boot"]
<1>1. /\ r \in ProcRecord /\ r.pc = "boot" /\ r.epoch = 0 /\ r.answer = "none"
      /\ r.recovery = NoRecovery /\ r.silent = FALSE
  BY NothingFacts DEF ProcRecord, Pc
<1>2. Waiting = [p \in User |-> IF p = "controller" THEN r ELSE Idle]
  BY DEF Waiting
<1> HIDE DEF r
<1> QED
  BY <1>1, <1>2, NothingFacts DEF User

Fresh ==
    /\ epoch = 0 /\ queue = <<>> /\ todo = <<>> /\ attempt = "none" /\ recovery = NoRecovery
    /\ session = SignedOutSession /\ proc = Waiting /\ shown = "out" /\ saved = 0
    /\ SlotsOK /\ ServerOK /\ loggedOut \in BOOLEAN
    /\ loggedOut => current = 0 /\ staged = NoStage
LEMMA FreshInv == Fresh => VaultInv
<1> SUFFICES ASSUME Fresh PROVE VaultInv
  OBVIOUS
<1> USE DEF Fresh
<1>1. QueueOK /\ Len(queue) = 0
  BY EmptySeq DEF QueueOK
<1>2. ProcOK
  BY WaitingFacts DEF ProcOK
<1>3. CoreOK /\ SignedOff
  BY NothingFacts DEF CoreOK, SignedOutSession, SessionRecord, SessionState, SignedOff
<1>4. TodoOK
  <2>1. todo \in Seq({"checkpoint", "rejection"}) /\ Len(todo) = 0
    BY EmptySeq
  <2> QED
    BY <2>1, VaultAssumption DEF TodoOK
<1>5. VaultTypes
  BY <1>1, <1>2, <1>3, <1>4, NothingFacts
     DEF VaultTypes, StateOK, RecoveryOK, HistoryOK, ShownStage
<1>6. OpsOK /\ LeaverOK
  BY <1>1, WaitingFacts DEF OpsOK, LeaverOK, At, User
<1>7. ProcsOK
  BY WaitingFacts, NothingFacts DEF ProcsOK, At, User, ControllerPc, CoordinatorPc, Pc, Starting, RecoveryPc
<1>8. TurnsOK
  BY WaitingFacts DEF TurnsOK, At, User
<1>9. LeftOK
  <2>1. \A p \in User : Harmless(p)
    BY WaitingFacts DEF Harmless, RecoveryPc
  <2>2. ~At("leaver", "deleting")
    BY WaitingFacts DEF At, User
  <2>3. Wiped => loggedOut
    BY <2>2 DEF Wiped, Leaves
  <2>4. ~Leaves("none")
    BY <2>2 DEF Leaves
  <2> QED
    BY <1>1, <1>3, <2>1, <2>3, <2>4 DEF LeftOK
<1> QED
  BY <1>5, <1>6, <1>7, <1>8, <1>9 DEF VaultInv, UsersInv

LEMMA InitInv == Init => VaultInv
<1> SUFFICES ASSUME Init PROVE VaultInv
  OBVIOUS
<1>1. SlotsOK
  BY VaultAssumption, NothingFacts DEF Init, SlotsOK, Key
<1>2. ServerOK
  <2>1. from \in [1..MaxKey -> Key]
    BY NothingFacts DEF Init
  <2> QED
    BY <2>1, VaultAssumption DEF Init, ServerOK
<1> QED
  BY <1>1, <1>2, FreshInv DEF Init, Fresh

LEMMA RestartKeeps ==
    ASSUME VaultInv, Restart
    PROVE  VaultInv'
<1>1. SlotsOK' /\ ServerOK' /\ loggedOut' \in BOOLEAN
  BY DEF VaultInv, VaultTypes, StateOK, HistoryOK, SlotsOK, ServerOK, Restart, storage, server
<1>2. loggedOut' => current' = 0 /\ staged' = NoStage
  BY DEF VaultInv, LeftOK, Wiped, Restart, storage
<1>3. Fresh'
  BY <1>1, <1>2 DEF Restart, Fresh
<1>4. Fresh' => VaultInv'
  BY FreshInv, PTL
<1> QED
  BY <1>3, <1>4

-----------------------------------------------------------------------------
(***************************************************************************)
(* The login and the sign-out.                                             *)
(***************************************************************************)
LEMMA SilencedFacts ==
    ASSUME ProcOK
    PROVE  /\ Silenced \in [User -> ProcRecord]
           /\ \A p \in User \ {"controller"} : Silenced[p] = proc[p]
           /\ Silenced["controller"].pc = proc["controller"].pc
           /\ Silenced["controller"].epoch = proc["controller"].epoch
           /\ Silenced["controller"].answer = proc["controller"].answer
           /\ Silenced["controller"].snap = proc["controller"].snap
           /\ Silenced["controller"].recovery = proc["controller"].recovery
           /\ proc["controller"].pc = "idle" \/ Silenced["controller"].silent
<1> DEFINE quiet == proc["controller"].pc # "idle"
           r == [proc["controller"] EXCEPT !.silent = quiet]
<1>1. "controller" \in User /\ proc["controller"] \in ProcRecord /\ quiet \in BOOLEAN
      /\ proc = [q \in User |-> proc[q]]
  BY DEF ProcOK, User
<1>2. Silenced = [proc EXCEPT !["controller"] = r]
  BY <1>1 DEF Silenced
<1>3. quiet = TRUE \/ proc["controller"].pc = "idle"
  BY <1>1
<1> HIDE DEF quiet
<1>4. /\ r \in ProcRecord /\ r.pc = proc["controller"].pc /\ r.epoch = proc["controller"].epoch
      /\ r.answer = proc["controller"].answer /\ r.snap = proc["controller"].snap
      /\ r.recovery = proc["controller"].recovery /\ r.silent = quiet
  BY <1>1 DEF ProcRecord
<1> HIDE DEF r
<1> QED
  BY <1>1, <1>2, <1>3, <1>4 DEF ProcOK

LEMMA LoginBeginsKeeps ==
    ASSUME VaultInv, LoginBegins
    PROVE  VaultInv'
<1>1. /\ VaultTypes /\ OpsOK /\ LeaverOK /\ ProcsOK /\ TurnsOK /\ LeftOK
      /\ {"controller", "coordinator", "login", "leaver"} = User
      /\ QueueOK /\ ProcOK /\ StateOK /\ session \in SessionRecord
  BY DEF VaultInv, UsersInv, User, VaultTypes, StateOK, CoreOK
<1>2. /\ UNCHANGED <<current, staged, epoch, queue, recovery, todo, server, saved>>
      /\ shown' = "out" /\ loggedOut' = FALSE /\ attempt' = "none" /\ Booted
      /\ proc["login"].pc = "idle" /\ shown \in {"out", "retry"}
  BY DEF LoginBegins, storage, vault, NoAttempt, At
<1>3. session' \in SessionRecord
  BY <1>1, ReplaceFacts, NothingFacts DEF LoginBegins, SessionState
<1> DEFINE s == Silenced
           r == [s["login"] EXCEPT !.pc = "waiting"]
<1>4. /\ s \in [User -> ProcRecord]
      /\ \A p \in User \ {"controller"} : s[p] = proc[p]
      /\ s["controller"].pc = proc["controller"].pc
      /\ s["controller"].epoch = proc["controller"].epoch
      /\ s["controller"].answer = proc["controller"].answer
      /\ s["controller"].recovery = proc["controller"].recovery
      /\ proc["controller"].pc = "idle" \/ s["controller"].silent
  BY <1>1, SilencedFacts
<1>5. proc' = [s EXCEPT !["login"].pc = "waiting"]
  BY DEF LoginBegins
<1> HIDE DEF s
<1>6. s["login"] \in ProcRecord
  BY <1>1, <1>4
<1>7. proc' = [s EXCEPT !["login"] = r]
  BY <1>1, <1>4, <1>5
<1>8. /\ r \in ProcRecord /\ r.pc = "waiting" /\ r.epoch = s["login"].epoch
      /\ r.answer = s["login"].answer /\ r.recovery = s["login"].recovery
  BY <1>6 DEF ProcRecord, Pc
<1> HIDE DEF r
<1>9. /\ ProcOK'
      /\ \A p \in User : /\ proc'[p].epoch = proc[p].epoch /\ proc'[p].answer = proc[p].answer
                         /\ proc'[p].recovery = proc[p].recovery
                         /\ p # "login" => proc'[p].pc = proc[p].pc
      /\ proc'["login"].pc = "waiting"
      /\ proc["controller"].pc = "idle" \/ proc'["controller"].silent
  BY <1>1, <1>4, <1>7, <1>8 DEF ProcOK
<1>10. VaultTypes'
  BY <1>1, <1>2, <1>3, <1>9
     DEF VaultTypes, SlotsOK, QueueOK, StateOK, CoreOK, RecoveryOK, TodoOK, ServerOK, HistoryOK, ShownStage,
         server
<1>11. OpsOK'
  <2>1. Free("login")
    BY <1>1, <1>2, FreeFacts DEF Waits
  <2>2. ASSUME NEW i \in 1..Len(queue) PROVE Fits(queue[i])'
    <3>1. queue[i].by \in User /\ queue[i].by # "login" /\ Fits(queue[i])
      BY <1>1, <2>1, QueueFacts DEF Free, OpsOK
    <3> QED
      BY <1>1, <1>2, <1>9, <3>1 DEF Fits
  <2> QED
    BY <1>1, <1>2, <2>2 DEF OpsOK
<1>12. LeaverOK'
  BY <1>1, <1>2, <1>9 DEF LeaverOK, At
<1>13. ProcsOK'
  BY <1>1, <1>2, <1>9 DEF ProcsOK, At, RecoveryPc
<1>14. proc'["leaver"].pc = "idle"
  BY <1>1, <1>2, <1>9 DEF TurnsOK, ProcsOK, At
<1>15. TurnsOK'
  BY <1>1, <1>2, <1>9, <1>14 DEF TurnsOK, At, Quieted, Booted
<1>16. LeftOK'
  BY <1>2, <1>14 DEF LeftOK, Leaving, Wiped, Leaves, At
<1> QED
  BY <1>10, <1>11, <1>12, <1>13, <1>15, <1>16 DEF VaultInv, UsersInv

LEMMA LoginWinsKeeps ==
    ASSUME VaultInv, LoginWins
    PROVE  VaultInv'
<1> DEFINE p == "login"
<1>1. /\ VaultTypes /\ OpsOK /\ LeaverOK /\ ProcsOK /\ TurnsOK /\ LeftOK /\ p \in User
      /\ {"controller", "coordinator", "login", "leaver"} = User
      /\ QueueOK /\ ProcOK /\ StateOK /\ epoch \in Nat /\ epoch + 1 \in Nat
  BY DEF VaultInv, UsersInv, User, VaultTypes, QueueOK
<1>2. /\ UNCHANGED <<current, staged, attempt, recovery, todo, refused, from, activated, saved, loggedOut>>
      /\ issued' = issued + 1 /\ issued + 1 \in 1..MaxKey /\ shown' = "in"
      /\ proc[p].pc = "waiting" /\ Moves(p, "persisting") /\ epoch' = epoch + 1
      /\ queue' = Append(queue, Op(p, "replace", epoch + 1, Document(issued + 1)))
      /\ Replace("authenticated", issued + 1) /\ issued + 1 \in Key
  BY <1>1, VaultAssumption DEF LoginWins, storage, EnqueueNew, At, StateOK, ServerOK, history, Key
<1>3. ~loggedOut /\ proc["leaver"].pc = "idle"
  BY <1>1, <1>2 DEF TurnsOK, At
<1>4. ~Leaving
  BY <1>3 DEF Leaving, Wiped, Leaves, At
<1>5. Goes(p, "persisting", "none") /\ Keeps(p)
  BY <1>1, <1>2, MovesFacts DEF Pc
<1>6. Document(issued + 1) \in Stage
  BY <1>2, NothingFacts DEF Document, Stage
<1>7. VaultStep(p) /\ Free(p) /\ OthersWait(p)
  <2>1. Adds(p, "replace", epoch + 1)
    BY <1>1, <1>2, <1>6, AddsFacts DEF Kind
  <2>2. VaultStep(p)
    BY <1>1, <1>2, <1>4, <1>5, <2>1 DEF VaultStep, Goes, Waits, Kind
  <2>3. Free(p)
    BY <1>1, <1>2, FreeFacts DEF Waits
  <2> QED
    BY <1>5, <2>2, <2>3 DEF OthersWait, Goes, OthersStay
<1>8. QueueOK' /\ OpsOK' /\ LeaverOK'
  BY <1>1, <1>7, OpsKept, LeaverKept
<1>9. session' \in SessionRecord
  BY <1>2, ReplaceFacts DEF SessionState
<1>10. VaultTypes'
  BY <1>1, <1>2, <1>5, <1>8, <1>9
     DEF VaultTypes, SlotsOK, StateOK, CoreOK, RecoveryOK, TodoOK, ServerOK, HistoryOK, ShownStage,
         Recovery, Goes
<1>11. ProcsOK'
  <2>1. ASSUME NEW q \in User
        PROVE  /\ proc'[q].epoch <= epoch' /\ proc'[q].recovery.epoch <= epoch'
               /\ proc'[q].pc \notin RecoveryPc \cup {"deleting"} => proc'[q].recovery = NoRecovery
    <3>1. proc[q].epoch \in Nat /\ proc[q].recovery.epoch \in Nat
          /\ proc[q].epoch <= epoch /\ proc[q].recovery.epoch <= epoch
      BY <1>1, ProcFacts DEF ProcsOK
    <3>2. CASE q = p
      BY <1>1, <1>2, <1>5, <3>1, <3>2 DEF Keeps, ProcsOK, RecoveryPc
    <3>3. CASE q # p
      BY <1>1, <1>2, <1>5, <3>1, <3>3 DEF Goes, OthersStay, ProcsOK
    <3> QED
      BY <3>2, <3>3
  <2>2. /\ proc'["controller"] = proc["controller"] /\ proc'["coordinator"] = proc["coordinator"]
        /\ proc'["leaver"] = proc["leaver"] /\ proc'["login"].pc = "persisting"
    BY <1>1, <1>5 DEF Goes, OthersStay
  <2> QED
    BY <1>1, <2>1, <2>2 DEF ProcsOK, At
<1>12. /\ proc'["controller"] = proc["controller"] /\ proc'["leaver"] = proc["leaver"]
       /\ proc'["login"].pc = "persisting" /\ Booted
  BY <1>1, <1>2, <1>5 DEF Goes, OthersStay, TurnsOK
<1>13. TurnsOK'
  BY <1>3, <1>12 DEF TurnsOK, Booted, At
<1>14. LeftOK'
  BY <1>2, <1>3, <1>12 DEF LeftOK, Leaving, Wiped, Leaves, At
<1> QED
  BY <1>8, <1>10, <1>11, <1>13, <1>14 DEF VaultInv, UsersInv

\* A user that has finished, and nothing else that is said of the vault.
LEMMA LoginPersistedKeeps ==
    ASSUME VaultInv, LoginPersisted
    PROVE  VaultInv'
<1> DEFINE p == "login"
<1>1. /\ VaultTypes /\ OpsOK /\ LeaverOK /\ ProcsOK /\ TurnsOK /\ LeftOK /\ p \in User
      /\ {"controller", "coordinator", "login", "leaver"} = User
      /\ QueueOK /\ ProcOK /\ StateOK /\ epoch \in Nat /\ session.key \in Key
  BY DEF VaultInv, UsersInv, User, VaultTypes, QueueOK, StateOK, CoreOK, SessionRecord
<1>2. /\ UNCHANGED <<current, staged, epoch, queue, session, attempt, recovery, todo, shown, server, loggedOut>>
      /\ saved' \in {saved, session.key} /\ proc' = [proc EXCEPT ![p] = Idle]
      /\ proc[p].pc = "persisting" /\ proc[p].answer # "none"
  BY DEF LoginPersisted, storage, vault, AnsweredAt
<1>3. Goes(p, "idle", "none") /\ proc'[p] = Idle
  BY <1>1, <1>2, DoneFacts
<1>4. VaultStep(p) /\ Free(p) /\ OthersWait(p)
  BY <1>1, <1>2, <1>3, FreeFacts DEF VaultStep, vault, OthersWait, Goes, OthersStay
<1>5. QueueOK' /\ OpsOK' /\ LeaverOK' /\ epoch' >= epoch
  BY <1>1, <1>4, OpsKept, LeaverKept
<1>6. VaultTypes'
  BY <1>1, <1>2, <1>3, <1>5
     DEF VaultTypes, SlotsOK, StateOK, CoreOK, RecoveryOK, TodoOK, ServerOK, HistoryOK, Goes, server
<1>7. /\ \A q \in User : q # p => proc'[q] = proc[q]
      /\ proc'[p].pc = "idle" /\ proc'[p].epoch = 0 /\ proc'[p].recovery = NoRecovery
      /\ proc'[p].recovery.epoch = 0
  BY <1>3, NothingFacts DEF Goes, OthersStay
<1>8. ProcsOK' /\ TurnsOK'
  <2>1. ProcsOK'
    BY <1>1, <1>2, <1>7 DEF ProcsOK, At
  <2>2. /\ proc'["controller"] = proc["controller"] /\ proc'["leaver"] = proc["leaver"] /\ Booted
    BY <1>1, <1>2, <1>7 DEF TurnsOK
  <2> QED
    BY <1>1, <1>2, <1>7, <2>1, <2>2 DEF TurnsOK, Booted, Quieted, At
<1>9. LeftOK'
  <2>1. Wiped' => Wiped
    BY <1>1, <1>2, <1>4, <1>5, LeavingIsOld
  <2>2. Leaving' => Leaving
    BY <1>1, <1>2, <1>4, <1>5, LeavingIsOld
  <2>3. Harmless(p)'
    BY <1>7 DEF Harmless, RecoveryPc
  <2>4. \A q \in User : Harmless(q) => Harmless(q)'
    BY <1>2, <1>7, <2>3 DEF Harmless
  <2>5. SignedOff => SignedOff'
    BY <1>2 DEF SignedOff
  <2>6. /\ Leaving' => \A i \in 1..Len(queue') : queue'[i].kind \in Writing => queue'[i].epoch < epoch'
        /\ Wiped' => /\ current' = 0 /\ staged' = NoStage
                     /\ \A i \in 1..Len(queue') : queue'[i].kind \in Writing => queue'[i].at = 0
        /\ Leaves("none")' =>
              \A i \in 1..Len(queue') : queue'[i].by = "leaver" /\ queue'[i].at = 2 => staged' = NoStage
    BY <1>1, <1>2, <1>4, <1>5, LeftOpsKept
  <2> QED
    BY <1>1, <2>1, <2>2, <2>4, <2>5, <2>6 DEF LeftOK
<1> QED
  BY <1>5, <1>6, <1>8, <1>9 DEF VaultInv, UsersInv

LEMMA SignOutKeeps ==
    ASSUME VaultInv, SignOut
    PROVE  VaultInv'
<1> DEFINE p == "leaver"
<1>1. /\ VaultTypes /\ OpsOK /\ LeaverOK /\ ProcsOK /\ TurnsOK /\ LeftOK /\ p \in User
      /\ {"controller", "coordinator", "login", "leaver"} = User
      /\ QueueOK /\ ProcOK /\ StateOK /\ epoch \in Nat /\ epoch + 1 \in Nat
  BY DEF VaultInv, UsersInv, User, VaultTypes, QueueOK
<1>2. /\ UNCHANGED <<current, staged, todo, shown, server, saved, loggedOut>>
      /\ attempt' = "none" /\ recovery' = NoRecovery /\ Replace("signedOut", 0)
      /\ epoch' = epoch + 1 /\ queue' = Append(queue, Op(p, "delete", epoch + 1, NoStage))
      /\ proc[p].pc = "idle" /\ shown \in {"in", "cleanup"}
  BY DEF SignOut, storage, NoAttempt, history, At
<1>3. session' \in SessionRecord /\ SignedOff'
  BY <1>2, ReplaceFacts, NothingFacts DEF SessionState
<1> DEFINE s == Silenced
           r == [s["leaver"] EXCEPT !.pc = "deleting", !.epoch = epoch + 1]
<1>4. /\ s \in [User -> ProcRecord]
      /\ \A q \in User \ {"controller"} : s[q] = proc[q]
      /\ s["controller"].pc = proc["controller"].pc
      /\ s["controller"].epoch = proc["controller"].epoch
      /\ s["controller"].answer = proc["controller"].answer
      /\ s["controller"].recovery = proc["controller"].recovery
      /\ s["controller"].snap = proc["controller"].snap
      /\ proc["controller"].pc = "idle" \/ s["controller"].silent
  BY <1>1, SilencedFacts
<1>5. proc' = [s EXCEPT !["leaver"].pc = "deleting", !["leaver"].epoch = epoch + 1]
  BY DEF SignOut
<1> HIDE DEF s
<1>6. s["leaver"] \in ProcRecord /\ s = [q \in User |-> s[q]]
  BY <1>1, <1>4
<1>7. proc' = [s EXCEPT !["leaver"] = r]
  BY <1>1, <1>5, <1>6
<1>8. /\ r \in ProcRecord /\ r.pc = "deleting" /\ r.epoch = epoch + 1
      /\ r.answer = s["leaver"].answer /\ r.recovery = s["leaver"].recovery
  BY <1>1, <1>6 DEF ProcRecord, Pc
<1> HIDE DEF r
<1>9. /\ ProcOK' /\ OthersWait(p)
      /\ \A q \in User : proc'[q].recovery = proc[q].recovery /\ (q # p => proc'[q].pc = proc[q].pc)
      /\ proc'[p].pc = "deleting" /\ proc'[p].epoch = epoch + 1 /\ proc'[p].answer = "none"
      /\ proc["controller"].pc = "idle" \/ proc'["controller"].silent
  BY <1>1, <1>2, <1>4, <1>7, <1>8 DEF ProcOK, OthersWait, ProcsOK, At
<1>10. VaultStep(p) /\ Free(p)
  <2>1. Adds(p, "delete", epoch + 1)
    BY <1>1, <1>2, AddsFacts, NothingFacts DEF Kind
  <2>2. VaultStep(p)
    BY <1>1, <1>2, <1>9, <2>1 DEF VaultStep, Waits, Kind, Writing
  <2> QED
    BY <1>1, <1>2, <2>2, FreeFacts DEF Waits
<1>11. QueueOK' /\ OpsOK'
  BY <1>1, <1>9, <1>10, OpsKept
<1> DEFINE op == Op(p, "delete", epoch + 1, NoStage)
<1>12. op \in Operation /\ op.by = p /\ op.kind = "delete" /\ op.epoch = epoch + 1 /\ op.at = 0
  BY <1>1, NothingFacts DEF Op, Operation, Kind
<1>13. queue' = Append(queue, op)
  BY <1>2
<1> HIDE DEF op
<1>14. /\ \A i \in 1..Len(queue) : queue'[i] = queue[i] /\ queue[i].epoch \in Nat
                                   /\ queue[i].epoch <= epoch /\ queue[i].at \in 0..2
       /\ Len(queue) \in Nat /\ Len(queue') = Len(queue) + 1 /\ queue'[Len(queue) + 1] = op
       /\ \A i \in 1..Len(queue') : i \in 1..Len(queue) \/ i = Len(queue) + 1
  BY <1>1, <1>12, <1>13, QueueFacts, AppendFacts DEF OpsOK, Fits
<1>15. LeaverOK'
  <2>1. \A i \in 1..Len(queue') : i < Len(queue') => queue'[i].epoch < epoch + 1
    BY <1>1, <1>14
  <2>2. Len(queue') \in 1..Len(queue') /\ queue'[Len(queue')].by = p
    BY <1>12, <1>14
  <2> QED
    BY <1>1, <1>9, <2>1, <2>2 DEF LeaverOK, At
<1>16. VaultTypes'
  BY <1>1, <1>2, <1>3, <1>9, <1>11, NothingFacts
     DEF VaultTypes, SlotsOK, StateOK, CoreOK, RecoveryOK, TodoOK, ServerOK, HistoryOK, server
<1>17. \A q \in User : proc[q].epoch \in Nat /\ proc[q].epoch <= epoch
                       /\ proc[q].recovery.epoch \in Nat /\ proc[q].recovery.epoch <= epoch
  BY <1>1, ProcFacts DEF ProcsOK
<1>18. ProcsOK'
  <2>1. ASSUME NEW q \in User
        PROVE  /\ proc'[q].epoch <= epoch' /\ proc'[q].recovery.epoch <= epoch'
               /\ proc'[q].pc \notin RecoveryPc \cup {"deleting"} => proc'[q].recovery = NoRecovery
    <3>1. CASE q = p
      BY <1>1, <1>2, <1>9, <1>17, <3>1
    <3>2. CASE q # p
      BY <1>1, <1>2, <1>9, <1>17, <3>2 DEF OthersWait, ProcsOK
    <3> QED
      BY <3>1, <3>2
  <2> QED
    BY <1>1, <1>9, <2>1 DEF ProcsOK, At
<1>19. Booted
  BY <1>1, <1>2 DEF TurnsOK
<1>20. TurnsOK'
  <2>1. ~At("login", "waiting")
    BY <1>1, <1>2 DEF TurnsOK
  <2> QED
    BY <1>1, <1>2, <1>9, <1>19, <2>1 DEF TurnsOK, Booted, Quieted, At
<1>21. LeftOK'
  <2>1. ASSUME NEW q \in User PROVE Harmless(q)'
    <3>1. proc'[q].pc # "plain"
      BY <1>1, <1>9, <1>19 DEF Booted, ProcsOK, CoordinatorPc
    <3>2. CASE q = p
      BY <1>9, <3>2 DEF Harmless, RecoveryPc
    <3>3. CASE q # p
      <4>1. proc'[q].epoch < epoch' /\ proc'[q].recovery.epoch < epoch'
        BY <1>1, <1>2, <1>9, <1>17, <3>3 DEF OthersWait
      <4> QED
        BY <3>1, <4>1 DEF Harmless
    <3> QED
      BY <3>2, <3>3
  <2>2. \A i \in 1..Len(queue') : queue'[i].kind \in Writing => queue'[i].epoch < epoch'
    BY <1>1, <1>2, <1>12, <1>14 DEF Writing
  <2>3. Wiped' => loggedOut
    BY <1>2, <1>9 DEF Wiped, Leaves, At
  <2>4. Wiped' => /\ current' = 0 /\ staged' = NoStage
                  /\ \A i \in 1..Len(queue') : queue'[i].kind \in Writing => queue'[i].at = 0
    BY <1>1, <1>2, <1>12, <1>14, <2>3 DEF LeftOK, Wiped
  <2>5. \A i \in 1..Len(queue') : ~(queue'[i].by = "leaver" /\ queue'[i].at = 2)
    BY <1>1, <1>10, <1>12, <1>14 DEF Free
  <2> QED
    BY <1>3, <2>1, <2>2, <2>4, <2>5 DEF LeftOK
<1> QED
  BY <1>11, <1>15, <1>16, <1>18, <1>20, <1>21 DEF VaultInv, UsersInv

LEMMA SignedOutKeeps ==
    ASSUME VaultInv, SignedOut
    PROVE  VaultInv'
<1> DEFINE p == "leaver"
<1>1. /\ VaultTypes /\ OpsOK /\ LeaverOK /\ ProcsOK /\ TurnsOK /\ LeftOK /\ p \in User
      /\ {"controller", "coordinator", "login", "leaver"} = User
      /\ QueueOK /\ ProcOK /\ StateOK /\ epoch \in Nat
  BY DEF VaultInv, UsersInv, User, VaultTypes, QueueOK
<1>2. /\ UNCHANGED <<current, staged, epoch, queue, session, attempt, recovery, todo, server, saved>>
      /\ shown' \in {"out", "cleanup"} /\ proc' = [proc EXCEPT ![p] = Idle]
      /\ loggedOut' = (proc[p].answer = "ok" /\ proc[p].epoch = epoch)
      /\ proc[p].pc = "deleting" /\ proc[p].answer # "none"
  BY DEF SignedOut, storage, vault, AnsweredAt
<1>3. Goes(p, "idle", "none") /\ proc'[p] = Idle
  BY <1>1, <1>2, DoneFacts
<1>4. VaultStep(p) /\ Free(p) /\ OthersWait(p)
  BY <1>1, <1>2, <1>3, FreeFacts DEF VaultStep, vault, OthersWait, Goes, OthersStay
<1>5. QueueOK' /\ OpsOK'
  BY <1>1, <1>4, OpsKept
<1>6. VaultTypes'
  BY <1>1, <1>2, <1>3, <1>5
     DEF VaultTypes, SlotsOK, StateOK, CoreOK, RecoveryOK, TodoOK, ServerOK, HistoryOK, Goes, server, ShownStage
<1>7. /\ \A q \in User : q # p => proc'[q] = proc[q]
      /\ proc'[p].pc = "idle" /\ proc'[p].epoch = 0 /\ proc'[p].recovery = NoRecovery
      /\ proc'[p].recovery.epoch = 0 /\ proc'[p].answer = "none"
  BY <1>3, NothingFacts DEF Goes, OthersStay
<1>8. LeaverOK' /\ ProcsOK'
  BY <1>1, <1>2, <1>7 DEF LeaverOK, ProcsOK, At
<1>9. TurnsOK'
  <2>1. ~At("login", "waiting") /\ Booted
    BY <1>1, <1>2 DEF TurnsOK, At
  <2> QED
    BY <1>1, <1>7, <2>1 DEF TurnsOK, Booted, At
<1>10. LeftOK'
  <2>1. Leaving' => loggedOut'
    BY <1>7 DEF Leaving, Wiped, Leaves, At
  <2>2. loggedOut' => Wiped /\ Leaving
    BY <1>2 DEF Wiped, Leaving, Leaves, At
  <2>3. Harmless(p)'
    BY <1>7 DEF Harmless, RecoveryPc
  <2>4. \A q \in User : Harmless(q) => Harmless(q)'
    BY <1>2, <1>7, <2>3 DEF Harmless
  <2>5. SignedOff => SignedOff'
    BY <1>2 DEF SignedOff
  <2>6. ~Leaves("none")' /\ (Wiped' => Leaving')
    BY <1>7 DEF Leaves, At, Leaving
  <2> QED
    BY <1>1, <1>2, <2>1, <2>2, <2>4, <2>5, <2>6 DEF LeftOK
<1> QED
  BY <1>5, <1>6, <1>8, <1>9, <1>10 DEF VaultInv, UsersInv

-----------------------------------------------------------------------------
(***************************************************************************)
(* The vault carries out its first operation.                              *)
(***************************************************************************)
LEMMA HeadFacts ==
    ASSUME QueueOK, queue # <<>>
    PROVE  /\ Head(queue) = queue[1] /\ 1 \in 1..Len(queue) /\ Len(queue) \in Nat
           /\ Head(queue) \in Operation
<1>1. queue \in Seq(Operation) /\ Len(queue) \in Nat /\ Len(queue) # 0
  BY QueueFacts, EmptySeq DEF QueueOK
<1>2. 1 \in 1..Len(queue) /\ Head(queue) = queue[1]
  BY <1>1
<1> QED
  BY <1>1, <1>2, QueueFacts

LEMMA TailFacts ==
    ASSUME QueueOK, queue # <<>>, queue' = Tail(queue), UNCHANGED epoch
    PROVE  /\ QueueOK' /\ Len(queue') = Len(queue) - 1
           /\ \A i \in 1..Len(queue') : i + 1 \in 1..Len(queue) /\ queue'[i] = queue[i + 1]
<1>1. queue \in Seq(Operation) /\ Len(queue) \in Nat /\ epoch \in Nat
  BY QueueFacts DEF QueueOK
<1>2. /\ queue' \in Seq(Operation) /\ Len(queue') = Len(queue) - 1
      /\ \A i \in 1..Len(queue') : queue'[i] = queue[i + 1]
  BY <1>1, HeadTailProperties
<1> QED
  BY <1>1, <1>2 DEF QueueOK

StorageRest == UNCHANGED <<session, attempt, recovery, todo, shown, server, history>>

\* An operation that is over has left nothing a sign-out would have to fear.
FinishSafe(op, a) ==
    /\ Leaving /\ a = "ok" /\ op.kind = "read" =>
          proc'[op.by].snap = [current |-> current, staged |-> staged]
    /\ Wiped => current' = 0 /\ staged' = NoStage
    /\ Leaves("none") /\ op.by = "leaver" /\ a = "ok" => current' = 0 /\ staged' = NoStage

LEMMA FinishKeeps ==
    ASSUME VaultInv, queue # <<>>, NEW op, op = Head(queue), queue' = Tail(queue), UNCHANGED epoch,
           NEW a \in {"ok", "no", "failed"}, Goes(op.by, proc[op.by].pc, a),
           proc'[op.by].epoch = proc[op.by].epoch, proc'[op.by].silent = proc[op.by].silent,
           proc'[op.by].recovery = proc[op.by].recovery, SlotsOK', StorageRest, FinishSafe(op, a)
    PROVE  VaultInv'
<1> DEFINE p == op.by
<1>1. /\ VaultTypes /\ OpsOK /\ LeaverOK /\ ProcsOK /\ TurnsOK /\ LeftOK
      /\ {"controller", "coordinator", "login", "leaver"} = User
      /\ QueueOK /\ ProcOK /\ StateOK /\ epoch \in Nat /\ epoch' = epoch
  BY DEF VaultInv, UsersInv, User, VaultTypes, QueueOK
<1>2. /\ op = queue[1] /\ 1 \in 1..Len(queue) /\ Len(queue) \in Nat /\ op \in Operation
      /\ p \in User /\ op.kind \in Kind /\ op.epoch \in Nat /\ Fits(op)
  BY <1>1, HeadFacts DEF Operation, OpsOK
<1>3. /\ QueueOK' /\ Len(queue') = Len(queue) - 1
      /\ \A i \in 1..Len(queue') : i + 1 \in 1..Len(queue) /\ queue'[i] = queue[i + 1]
  BY <1>1, TailFacts
<1>4. /\ ProcOK' /\ \A q \in User : q # p => proc'[q] = proc[q]
      /\ proc'[p].pc = proc[p].pc /\ proc'[p].answer = a
      /\ Waits(op.kind, proc[p].pc) /\ proc[p].answer = "none"
  BY <1>2 DEF Goes, OthersStay, Fits
<1>5. UNCHANGED <<session, attempt, recovery, todo, shown, server, saved, loggedOut>>
  BY DEF StorageRest, history
<1>6. VaultTypes'
  BY <1>1, <1>3, <1>4, <1>5
     DEF VaultTypes, StateOK, CoreOK, RecoveryOK, TodoOK, ServerOK, HistoryOK, server
<1>7. \A i \in 1..Len(queue') : queue'[i].by # p /\ queue'[i].by \in User /\ queue'[i].at = 0
  BY <1>1, <1>2, <1>3, QueueFacts DEF OpsOK
<1>8. OpsOK'
  <2>1. ASSUME NEW i \in 1..Len(queue') PROVE Fits(queue[i])'
    <3>1. i + 1 \in 1..Len(queue) /\ queue'[i] = queue[i + 1] /\ Fits(queue[i + 1])
          /\ queue'[i].by # p /\ queue'[i].by \in User
      BY <1>1, <1>3, <1>7 DEF OpsOK
    <3>2. proc'[queue'[i].by] = proc[queue[i + 1].by]
      BY <1>4, <3>1
    <3>3. queue'[i].by = "leaver" => proc'["leaver"] = proc["leaver"]
      BY <3>1, <3>2
    <3> QED
      BY <1>1, <3>1, <3>2, <3>3 DEF Fits
  <2>2. ASSUME NEW i \in 1..Len(queue'), NEW j \in 1..Len(queue'), queue'[j].by = queue'[i].by
        PROVE  j = i
    <3>1. j + 1 = i + 1
      BY <1>1, <1>3, <2>2 DEF OpsOK
    <3> QED
      BY <1>2, <1>3, <3>1
  <2> QED
    BY <1>7, <2>1, <2>2 DEF OpsOK
<1>9. LeaverOK'
  <2>1. CASE p = "leaver"
    BY <1>1, <1>4, <2>1 DEF LeaverOK, At
  <2>2. CASE p # "leaver"
    <3>1. proc'["leaver"] = proc["leaver"]
      BY <1>1, <1>4, <2>2
    <3>2. ASSUME At("leaver", "deleting"), proc["leaver"].answer = "none"
          PROVE  \E j \in 1..Len(queue') :
                    /\ queue'[j].by = "leaver"
                    /\ \A i \in 1..Len(queue') : i < j => queue'[i].epoch < proc["leaver"].epoch
      <4>1. PICK j \in 1..Len(queue) :
               /\ queue[j].by = "leaver"
               /\ \A i \in 1..Len(queue) : i < j => queue[i].epoch < proc["leaver"].epoch
        BY <1>1, <3>2 DEF LeaverOK
      <4>2. j # 1
        BY <1>2, <2>2, <4>1
      <4>3. j - 1 \in 1..Len(queue') /\ queue'[j - 1] = queue[j]
        BY <1>2, <1>3, <4>1, <4>2
      <4>4. \A i \in 1..Len(queue') : i < j - 1 => queue'[i].epoch < proc["leaver"].epoch
        BY <1>2, <1>3, <4>1
      <4> QED
        BY <4>1, <4>3, <4>4
    <3> QED
      BY <1>1, <3>1, <3>2 DEF LeaverOK, At
  <2> QED
    BY <2>1, <2>2
<1>10. \A q \in User : /\ proc'[q].pc = proc[q].pc /\ proc'[q].epoch = proc[q].epoch
                       /\ proc'[q].recovery = proc[q].recovery /\ proc'[q].silent = proc[q].silent
  BY <1>4
<1>11. ProcsOK'
  <2>1. At("leaver", "idle") => p # "leaver"
    BY <1>4 DEF At, Waits
  <2>2. At("leaver", "idle")' => proc'["leaver"].answer = "none"
    BY <1>1, <1>4, <1>10, <2>1 DEF ProcsOK, At
  <2> QED
    BY <1>1, <1>10, <2>2 DEF ProcsOK
<1>12. TurnsOK'
  BY <1>1, <1>5, <1>10 DEF TurnsOK, Booted, Quieted, At
<1>13. /\ Leaves("none")' => Leaves("none") /\ p # "leaver"
       /\ Leaves("ok")' => Leaves("ok") \/ (Leaves("none") /\ p = "leaver" /\ a = "ok")
  BY <1>1, <1>4, <1>10 DEF Leaves, At
<1>14. Leaving' => Leaving
  BY <1>5, <1>13 DEF Leaving, Wiped
<1>15. Wiped' => current' = 0 /\ staged' = NoStage
  BY <1>5, <1>13 DEF Wiped, FinishSafe
<1>16. ASSUME Leaving' PROVE SignedOff' /\ \A q \in User : Harmless(q)'
  <2>1. Leaving /\ SignedOff /\ \A q \in User : Harmless(q)
    BY <1>1, <1>14, <1>16 DEF LeftOK
  <2>2. ASSUME NEW q \in User, q # p PROVE Harmless(q)'
    BY <1>1, <1>4, <2>1, <2>2 DEF Harmless
  <2>3. Harmless(p)'
    <3>1. /\ proc[p].pc \in Bound => proc[p].epoch < epoch
          /\ proc[p].pc \in RecoveryPc => proc[p].recovery.epoch < epoch
          /\ proc[p].pc # "prepared"
      BY <1>2, <1>4, <2>1 DEF Harmless, Bound, Waits
    <3>2. ASSUME proc[p].pc \in {"snapshot", "plain"}, a = "ok"
          PROVE  /\ proc[p].pc = "snapshot" => proc[p].epoch < epoch \/ proc'[p].snap = EmptySlots
                 /\ proc[p].pc = "plain" => proc'[p].snap = EmptySlots
      <4>1. op.kind = "read" /\ proc'[p].snap = [current |-> current, staged |-> staged]
        BY <1>4, <2>1, <3>2 DEF Waits, FinishSafe
      <4>2. CASE Wiped
        BY <1>1, <4>1, <4>2 DEF LeftOK, EmptySlots
      <4>3. CASE Leaves("none")
        <5>1. proc["leaver"].pc = "deleting" /\ proc["leaver"].epoch = epoch /\ proc["leaver"].answer = "none"
          BY <4>3 DEF Leaves, At
        <5>2. Booted
          BY <1>1, <5>1 DEF TurnsOK
        <5>3. proc[p].pc # "plain"
          BY <1>1, <1>2, <5>2 DEF Booted, ProcsOK, CoordinatorPc
        <5>4. PICK j \in 1..Len(queue) :
                 /\ queue[j].by = "leaver"
                 /\ \A i \in 1..Len(queue) : i < j => queue[i].epoch < proc["leaver"].epoch
          BY <1>1, <5>1 DEF LeaverOK, At
        <5>5. op.by # "leaver"
          BY <1>2, <4>1 DEF Fits
        <5>6. 1 < j
          BY <1>2, <5>4, <5>5
        <5>7. op.epoch < epoch
          BY <1>2, <5>1, <5>4, <5>6
        <5> QED
          BY <1>2, <3>2, <4>1, <5>3, <5>7 DEF Fits
      <4> QED
        BY <2>1, <4>2, <4>3 DEF Leaving
    <3> QED
      BY <1>1, <1>4, <1>10, <3>1, <3>2 DEF Harmless, Bound
  <2> QED
    BY <1>5, <2>1, <2>2, <2>3 DEF SignedOff
<1>17. ASSUME Leaving', NEW i \in 1..Len(queue'), queue'[i].kind \in Writing
       PROVE  queue'[i].epoch < epoch'
  BY <1>1, <1>3, <1>14, <1>17 DEF LeftOK
<1> QED
  BY <1>6, <1>7, <1>8, <1>9, <1>11, <1>12, <1>15, <1>16, <1>17 DEF VaultInv, UsersInv, LeftOK

LEMMA ProceedsKeeps ==
    ASSUME VaultInv, queue # <<>>, NEW op, op = Head(queue), op.kind # "read", ~Stale(op),
           Proceeds, UNCHANGED <<epoch, current>>, StorageRest,
           \/ op.at = 0 /\ UNCHANGED staged
           \/ op.at = 1 /\ staged' = NoStage
    PROVE  VaultInv'
<1>1. /\ VaultTypes /\ OpsOK /\ LeaverOK /\ ProcsOK /\ TurnsOK /\ LeftOK
      /\ QueueOK /\ ProcOK /\ StateOK /\ epoch \in Nat /\ epoch' = epoch /\ proc' = proc
      /\ current' = current
  BY DEF VaultInv, UsersInv, VaultTypes, QueueOK, Proceeds
<1>2. /\ op = queue[1] /\ 1 \in 1..Len(queue) /\ Len(queue) \in Nat /\ op \in Operation
      /\ op.epoch = epoch
  BY <1>1, HeadFacts DEF Stale
<1> DEFINE next == [op EXCEPT !.at = @ + 1]
<1>3. /\ next \in Operation /\ next.kind = op.kind /\ next.epoch = op.epoch /\ next.by = op.by
      /\ next.at = op.at + 1
  BY <1>2 DEF Operation
<1>4. queue' = [queue EXCEPT ![1] = next]
  BY <1>1, <1>2 DEF Proceeds, QueueOK
<1> HIDE DEF next
<1>5. /\ queue' \in Seq(Operation) /\ Len(queue') = Len(queue) /\ queue'[1] = next
      /\ \A i \in 1..Len(queue) : i # 1 => queue'[i] = queue[i]
  BY <1>1, <1>2, <1>3, <1>4, ExceptSeq DEF QueueOK
<1>6. \A i \in 1..Len(queue) : /\ queue'[i].kind = queue[i].kind /\ queue'[i].epoch = queue[i].epoch
                               /\ queue'[i].by = queue[i].by
  BY <1>2, <1>3, <1>5
<1>7. UNCHANGED <<session, attempt, recovery, todo, shown, server, saved, loggedOut>>
  BY DEF StorageRest, history
<1>8. VaultTypes'
  BY <1>1, <1>5, <1>7, NothingFacts
     DEF VaultTypes, SlotsOK, QueueOK, ProcOK, StateOK, CoreOK, RecoveryOK, TodoOK, ServerOK, HistoryOK, server
<1>9. OpsOK'
  <2>1. ASSUME NEW i \in 1..Len(queue) PROVE Fits(queue[i])'
    BY <1>1, <1>2, <1>3, <1>5, <1>6 DEF OpsOK, Fits
  <2>2. \A i \in 1..Len(queue) : i > 1 => queue'[i].at = 0
    BY <1>1, <1>5 DEF OpsOK
  <2>3. \A i \in 1..Len(queue), j \in 1..Len(queue) : queue'[j].by = queue'[i].by => j = i
    BY <1>1, <1>6 DEF OpsOK
  <2> QED
    BY <1>5, <2>1, <2>2, <2>3 DEF OpsOK
<1>10. LeaverOK'
  BY <1>1, <1>5, <1>6 DEF LeaverOK, At
<1>11. ProcsOK' /\ TurnsOK'
  BY <1>1, <1>7 DEF ProcsOK, TurnsOK, Booted, Quieted, At
<1>12. (Leaving' <=> Leaving) /\ (Wiped' <=> Wiped)
  BY <1>1, <1>7 DEF Leaving, Wiped, Leaves, At
<1>13. \A p \in User : Harmless(p) => Harmless(p)'
  BY <1>1 DEF Harmless
<1>14. SignedOff => SignedOff'
  BY <1>7 DEF SignedOff
<1>15. Leaving => op.kind \notin Writing
  BY <1>1, <1>2 DEF LeftOK
<1>16. Leaving' => \A i \in 1..Len(queue') : queue'[i].kind \in Writing => queue'[i].epoch < epoch'
  BY <1>1, <1>5, <1>6, <1>12 DEF LeftOK
<1>17. ASSUME Wiped' PROVE /\ current' = 0 /\ staged' = NoStage
                           /\ \A i \in 1..Len(queue') : queue'[i].kind \in Writing => queue'[i].at = 0
  <2>1. Wiped /\ Leaving
    BY <1>12, <1>17 DEF Leaving
  <2> QED
    BY <1>1, <1>2, <1>3, <1>5, <1>15, <2>1 DEF LeftOK
<1>18. \A i \in 1..Len(queue') : queue'[i].by = "leaver" /\ queue'[i].at = 2 => staged' = NoStage
  BY <1>3, <1>5, <1>9 DEF OpsOK
<1> QED
  BY <1>1, <1>8, <1>9, <1>10, <1>11, <1>12, <1>13, <1>14, <1>16, <1>17, <1>18 DEF VaultInv, UsersInv, LeftOK

LEMMA FinishesFacts ==
    ASSUME ProcOK, NEW op \in Operation, NEW a \in {"ok", "no", "failed"}, Finishes(op, a)
    PROVE  /\ queue' = Tail(queue) /\ Goes(op.by, proc[op.by].pc, a) /\ Keeps(op.by)
<1>1. op.by \in User /\ a \in Answer
  BY DEF Operation, Answer
<1> QED
  BY <1>1, AnswerFacts DEF Finishes

LEMMA StorageKeeps ==
    ASSUME VaultInv, StorageStep
    PROVE  VaultInv'
<1> DEFINE op == Head(queue)
<1>1. /\ VaultTypes /\ OpsOK /\ ProcsOK /\ LeftOK /\ QueueOK /\ ProcOK /\ SlotsOK
      /\ queue # <<>> /\ UNCHANGED epoch /\ StorageRest
  BY DEF VaultInv, UsersInv, VaultTypes, StorageStep, StorageSucceeds, StorageFails, StorageRest
<1>2. /\ op = queue[1] /\ 1 \in 1..Len(queue) /\ op \in Operation /\ op.by \in User /\ op.kind \in Kind
      /\ op.doc \in Stage /\ op.doc.cand \in Key /\ Fits(op)
  BY <1>1, HeadFacts DEF Operation, Stage, OpsOK
<1>3. /\ Leaving => (op.kind \in Writing => Stale(op))
      /\ Wiped => /\ current = 0 /\ staged = NoStage /\ (op.kind \in Writing => op.at = 0)
      /\ Leaves("none") /\ op.by = "leaver" => op.kind = "delete" /\ ~Stale(op)
                                               /\ (op.at = 2 => staged = NoStage)
  <2>1. Leaving => (op.kind \in Writing => Stale(op))
    <3>1. op.epoch \in Nat /\ epoch \in Nat
      BY <1>1, <1>2 DEF Operation, QueueOK
    <3> QED
      BY <1>1, <1>2, <3>1 DEF LeftOK, Stale
  <2>2. Wiped => /\ current = 0 /\ staged = NoStage /\ (op.kind \in Writing => op.at = 0)
    BY <1>1, <1>2 DEF LeftOK
  <2>3. Leaves("none") /\ op.by = "leaver" => op.kind = "delete" /\ ~Stale(op)
                                              /\ (op.at = 2 => staged = NoStage)
    BY <1>1, <1>2 DEF LeftOK, Leaves, Fits, Stale
  <2> QED
    BY <2>1, <2>2, <2>3
<1> HIDE DEF op
<1>4. ASSUME NEW a \in {"ok", "no", "failed"}, Finishes(op, a), SlotsOK',
             a = "ok" => op.kind # "read",
             Wiped => current' = 0 /\ staged' = NoStage,
             Leaves("none") /\ op.by = "leaver" /\ a = "ok" => current' = 0 /\ staged' = NoStage
      PROVE  VaultInv'
  <2>1. queue' = Tail(queue) /\ Goes(op.by, proc[op.by].pc, a) /\ Keeps(op.by)
    BY <1>1, <1>2, <1>4, FinishesFacts
  <2>2. FinishSafe(op, a)
    BY <1>4 DEF FinishSafe
  <2>3. op = Head(queue)
    BY DEF op
  <2> QED
    BY <1>1, <1>4, <2>1, <2>2, <2>3, FinishKeeps DEF Keeps
<1>5. ASSUME ReadSlots(op) PROVE VaultInv'
  <2> DEFINE slots == [current |-> current, staged |-> staged]
             r == [proc[op.by] EXCEPT !.answer = "ok", !.snap = slots]
  <2>1. slots \in SlotsRecord
    BY <1>1 DEF SlotsRecord, SlotsOK
  <2>2. /\ queue' = Tail(queue) /\ op.kind = "read" /\ UNCHANGED <<current, staged>>
        /\ proc' = [proc EXCEPT ![op.by].answer = "ok", ![op.by].snap = slots]
    BY <1>5 DEF ReadSlots, storage
  <2> HIDE DEF slots
  <2>3. proc[op.by] \in ProcRecord /\ proc = [q \in User |-> proc[q]]
    BY <1>1, <1>2 DEF ProcOK
  <2>4. proc' = [proc EXCEPT ![op.by] = r]
    BY <1>2, <2>2, <2>3
  <2>5. /\ r \in ProcRecord /\ r.pc = proc[op.by].pc /\ r.answer = "ok" /\ r.snap = slots
        /\ r.epoch = proc[op.by].epoch /\ r.silent = proc[op.by].silent
        /\ r.recovery = proc[op.by].recovery
    BY <2>1, <2>3 DEF ProcRecord, Answer
  <2> HIDE DEF r
  <2>6. Goes(op.by, proc[op.by].pc, "ok") /\ proc'[op.by] = r
    BY <1>1, <1>2, <2>4, <2>5 DEF Goes, OthersStay, ProcOK
  <2>7. FinishSafe(op, "ok")
    BY <1>3, <2>2, <2>5, <2>6 DEF FinishSafe, slots
  <2>8. op = Head(queue) /\ SlotsOK'
    BY <1>1, <2>2 DEF op, SlotsOK
  <2> QED
    BY <1>1, <2>2, <2>5, <2>6, <2>7, <2>8, FinishKeeps
<1>6. ASSUME StartWriting(op) PROVE VaultInv'
  <2>1. op.kind # "read" /\ op.at = 0 /\ UNCHANGED <<current, staged>> /\ SlotsOK'
    BY <1>1, <1>6 DEF StartWriting, storage, SlotsOK
  <2>2. CASE Stale(op) /\ Finishes(op, Skipped(op))
    BY <1>3, <1>4, <2>1, <2>2 DEF Skipped
  <2>3. CASE ~Stale(op) /\ Proceeds
    BY <1>1, <2>1, <2>3, ProceedsKeeps DEF op
  <2> QED
    BY <1>6, <2>2, <2>3 DEF StartWriting
<1>7. ASSUME WriteSlot(op) PROVE VaultInv'
  <2> DEFINE a == IF Stale(op) THEN "no" ELSE "ok"
  <2>1. Finishes(op, a) /\ a \in {"ok", "no", "failed"}
    BY <1>7 DEF WriteSlot
  <2>2. op.kind \in {"stage", "publish", "unstage"} /\ op.at = 1
        /\ staged' \in {op.doc, NoStage, staged} /\ current' \in {op.doc.cand, current}
        /\ (op.kind = "unstage" => staged' = NoStage /\ current' = current)
    BY <1>7 DEF WriteSlot
  <2>3. SlotsOK'
    BY <1>1, <1>2, <2>2, NothingFacts DEF SlotsOK
  <2>4. Wiped => op.kind = "unstage"
    BY <1>3, <2>2 DEF Writing
  <2> HIDE DEF a
  <2> QED
    BY <1>3, <1>4, <2>1, <2>2, <2>3, <2>4
<1>8. ASSUME DeleteStage(op) PROVE VaultInv'
  <2>1. op.kind \in {"replace", "delete", "deleteIf"} /\ op.at = 1 /\ staged' = NoStage
        /\ UNCHANGED current /\ SlotsOK'
    BY <1>1, <1>8, NothingFacts DEF DeleteStage, SlotsOK
  <2>2. CASE Stale(op) /\ Finishes(op, Skipped(op))
    BY <1>3, <1>4, <2>1, <2>2 DEF Skipped
  <2>3. CASE ~Stale(op) /\ Proceeds
    BY <1>1, <2>1, <2>3, ProceedsKeeps DEF op
  <2> QED
    BY <1>8, <2>2, <2>3 DEF DeleteStage
<1>9. ASSUME WriteCurrent(op) PROVE VaultInv'
  <2>1. op.at = 2 /\ UNCHANGED staged /\ Finishes(op, "ok")
        /\ current' = IF op.kind = "replace" THEN op.doc.cand ELSE 0
    BY <1>9 DEF WriteCurrent
  <2>2. SlotsOK'
    BY <1>1, <1>2, <2>1, NothingFacts DEF SlotsOK
  <2>3. Wiped => op.kind # "replace"
    BY <1>3, <2>1 DEF Writing
  <2>4. op.kind # "read"
    BY <1>2, <2>1 DEF Fits
  <2> QED
    BY <1>3, <1>4, <2>1, <2>2, <2>3, <2>4
<1>10. ASSUME StorageFails PROVE VaultInv'
  <2>1. Finishes(op, "failed") /\ UNCHANGED <<current, staged>> /\ SlotsOK'
    BY <1>1, <1>10 DEF StorageFails, storage, SlotsOK, op
  <2> QED
    BY <1>3, <1>4, <2>1
<1>11. \/ ReadSlots(op) \/ StartWriting(op) \/ WriteSlot(op) \/ DeleteStage(op) \/ WriteCurrent(op)
       \/ StorageFails
  BY DEF StorageStep, StorageSucceeds, op
<1> QED
  BY <1>5, <1>6, <1>7, <1>8, <1>9, <1>10, <1>11

-----------------------------------------------------------------------------
(***************************************************************************)
(* The theorems.                                                           *)
(***************************************************************************)
LEMMA NextKeeps ==
    ASSUME VaultInv, [Next]_cvars
    PROVE  VaultInv'
<1>1. ASSUME NEW p \in {"controller", "coordinator"}, RecoveryStep(p) PROVE VaultInv'
  BY <1>1, RecoveryTurn, TurnKeeps
<1>2. ASSUME NEW p \in {"controller", "coordinator"}, Verifies(p) PROVE VaultInv'
  BY <1>2, VerifiesTurn, TurnKeeps DEF Verifies
<1>3. CASE CoordinatorStep
  BY <1>3, CoordinatorTurn, TurnKeeps
<1>4. CASE StorageStep
  BY <1>4, StorageKeeps
<1>5. CASE UserStep
  BY <1>5, LoginBeginsKeeps, LoginWinsKeeps, LoginPersistedKeeps, SignOutKeeps, SignedOutKeeps DEF UserStep
<1>6. CASE NoticeSession \/ Resume \/ ReadRejected
  BY <1>6, AsideKeeps
<1>7. CASE RetryVerification \/ Boot
  BY <1>7, StartsTurn, TurnKeeps
<1>8. CASE Restart
  BY <1>8, RestartKeeps
<1>9. CASE UNCHANGED cvars
  <2>1. UNCHANGED <<proc, vault, storage, recovery, loggedOut, session, attempt, todo, server, saved, shown>>
    BY <1>9 DEF cvars, history
  <2>2. CoreOK' /\ TodoOK' /\ ServerOK' /\ HistoryOK' /\ SignsOff
    BY <2>1, UserFacts DEF CoreOK, TodoOK, ServerOK, HistoryOK, SignsOff, SignedOff, server
  <2> QED
    BY <2>1, <2>2, StillKeeps
<1> QED
  BY <1>1, <1>2, <1>3, <1>4, <1>5, <1>6, <1>7, <1>8, <1>9 DEF Next

(***************************************************************************)
(* The invariant from which the two theorems below follow, whichever       *)
(* operations of the storage fail, and however often a user signs in and   *)
(* out and the process starts again.                                       *)
(***************************************************************************)
THEOREM VaultInvariant == Spec => []VaultInv
<1>1. VaultInv /\ [Next]_cvars => VaultInv'
  BY NextKeeps
<1> QED
  BY InitInv, <1>1, PTL DEF Spec

GivenUpTyped == givenUp \in BOOLEAN
LEMMA GivenUpKeeps ==
    ASSUME GivenUpTyped, [Next]_cvars PROVE GivenUpTyped'
<1>1. ASSUME givenUp' = givenUp \/ givenUp' = FALSE \/ givenUp' = (givenUp \/ epoch' # epoch)
      PROVE  givenUp' \in BOOLEAN
  BY <1>1 DEF GivenUpTyped
<1>2. CASE UNCHANGED cvars \/ StorageStep \/ Resume \/ ReadRejected \/ RetryVerification
           \/ NoticeSession \/ Boot
  BY <1>1, <1>2 DEF cvars, history, StorageStep, Resume, ReadRejected, RetryVerification, NoticeSession,
                    Boot, GivenUpTyped
<1>3. CASE UserStep
  BY <1>1, <1>3 DEF UserStep, LoginBegins, LoginWins, LoginPersisted, SignOut, SignedOut, history,
                    GivenUpTyped
<1>4. CASE CoordinatorStep
  BY <1>1, <1>4 DEF CoordinatorStep, history, GivenUpTyped
<1>5. CASE \E p \in {"controller", "coordinator"} : RecoveryStep(p) \/ Verifies(p)
  BY <1>1, <1>5 DEF RecoveryStep, Verifies, VerificationAnswers, GivenUpTyped
<1>6. CASE Restart
  BY <1>6 DEF Restart, GivenUpTyped
<1> QED
  BY <1>2, <1>3, <1>4, <1>5, <1>6 DEF Next

(***************************************************************************)
(* Every variable has its type, and everybody who uses the vault waits for *)
(* one operation of it at most, and has not been answered meanwhile.       *)
(***************************************************************************)
THEOREM VaultTyped == Spec => []TypeOK
<1>1. VaultInv /\ GivenUpTyped => TypeOK
  <2> SUFFICES ASSUME VaultInv, GivenUpTyped PROVE TypeOK
    OBVIOUS
  <2>1. VaultTypes /\ OpsOK /\ QueueOK
    BY DEF VaultInv, UsersInv, VaultTypes
  <2>2. queue \in Seq([kind : Kind, epoch : Nat, doc : Stage, by : User, at : 0..2])
    BY <2>1 DEF QueueOK, Operation
  <2>3. DOMAIN queue = 1..Len(queue)
    BY <2>2
  <2>4. /\ \A i, j \in DOMAIN queue : i # j => queue[i].by # queue[j].by
        /\ \A i \in DOMAIN queue : proc[queue[i].by].answer = "none"
    BY <2>1, <2>3 DEF OpsOK, Fits
  <2>5. session \in SessionRecord /\ attempt \in User \cup {"none"} /\ recovery \in Recovery
        /\ todo \in Seq({"checkpoint", "rejection"}) /\ Len(todo) <= MaxTodo
        /\ activated \in BOOLEAN /\ issued \in 1..MaxKey /\ refused \subseteq Key
        /\ from \in [1..MaxKey -> Key] /\ saved \in Key /\ loggedOut \in BOOLEAN
        /\ shown \in ShownStage /\ current \in Key /\ staged \in Stage /\ epoch \in Nat
    BY <2>1 DEF VaultTypes, StateOK, CoreOK, RecoveryOK, TodoOK, ServerOK, HistoryOK, SlotsOK, QueueOK
  <2>6. proc \in [User -> ProcRecord]
    BY <2>1 DEF VaultTypes, ProcOK
  <2> QED
    BY <2>2, <2>4, <2>5, <2>6 DEF TypeOK, SessionRecord, SessionState, ShownStage, ProcRecord, Answer,
                                  SlotsRecord, GivenUpTyped
<1>2. Init => GivenUpTyped
  BY DEF Init, GivenUpTyped
<1>3. GivenUpTyped /\ [Next]_cvars => GivenUpTyped'
  BY GivenUpKeeps
<1> QED
  BY VaultInvariant, <1>1, <1>2, <1>3, PTL DEF Spec

(***************************************************************************)
(* A sign-out that was reported complete leaves both slots empty: not a    *)
(* rotation that was being stored, not a recovery that had read the slots  *)
(* before, not a failed write and not a crash puts a credential back.      *)
(***************************************************************************)
THEOREM SignOutsAreFinal == Spec => []LogoutLeavesNothing
<1>1. VaultInv => LogoutLeavesNothing
  BY DEF VaultInv, LeftOK, Wiped, LogoutLeavesNothing
<1> QED
  BY VaultInvariant, <1>1, PTL

-----------------------------------------------------------------------------
(***************************************************************************)
(* The line of keys.  A key is exchanged for its source when a refresh is  *)
(* accepted.  What is staged, or waits to be staged, is such an exchange;  *)
(* from the answer to the last write the coordinator carries the source    *)
(* and the key of one; and while a flight is active, it is the             *)
(* coordinator's, and its source is the key of the session.  The flight is *)
(* over as soon as the verification of a candidate has not accepted it.    *)
(***************************************************************************)
Exchanged(source, key) == key \in 1..issued /\ from[key] = source
InLine(stage) == stage = NoStage \/ Exchanged(stage.source, stage.cand)
RotatingPc == {"staging", "verifying", "publishing"}
Rotates == AnsweredAt(Coord, "prepared", {"candidate"}) \/ proc[Coord].pc \in RotatingPc
StagesInLine ==
    /\ InLine(staged)
    /\ \A i \in 1..Len(queue) : queue[i].kind = "stage" => InLine(queue[i].doc)
FlightInLine ==
    /\ Rotates => Exchanged(proc[Coord].source, proc[Coord].key)
    /\ session.flight = "active" => /\ At(Coord, "refreshing") \/ Rotates
                                    /\ proc[Coord].source = session.key
    /\ AnsweredAt(Coord, "verifying", {"refused", "replaced", "transient"}) =>
          session.flight # "active"
LineInv == StagesInLine /\ FlightInLine

\* The server issues keys and takes none of its exchanges back.
Grows == issued' >= issued /\ \A k \in 1..issued : from'[k] = from[k]
NowInLine(stage) ==
    stage = NoStage \/ (stage.cand \in 1..issued' /\ from'[stage.cand] = stage.source)

LEMMA GrowsFacts ==
    ASSUME ServerOK, ServerOK', Grows
    PROVE  /\ \A stage : InLine(stage) => NowInLine(stage)
           /\ \A s, c : Exchanged(s, c) => c \in 1..issued' /\ from'[c] = s
<1>1. issued \in Nat /\ issued' \in Nat
  BY DEF ServerOK
<1> QED
  BY <1>1 DEF Grows, InLine, NowInLine, Exchanged

LEMMA LineTypes ==
    ASSUME VaultInv
    PROVE  /\ QueueOK /\ ProcOK /\ OpsOK /\ ServerOK /\ SlotsOK /\ Coord \in User
           /\ session \in SessionRecord /\ proc[Coord].pc \in Pc
           /\ proc["controller"].pc \in ControllerPc
BY ProcFacts DEF VaultInv, UsersInv, VaultTypes, StateOK, CoreOK, ProcsOK, Coord, User

LEMMA StagesKept ==
    ASSUME VaultInv, VaultInv', StagesInLine, Grows, UNCHANGED staged,
           \/ queue' = queue
           \/ \E op \in Operation : /\ queue' = Append(queue, op)
                                    /\ op.kind = "stage" => NowInLine(op.doc)
    PROVE  StagesInLine'
<1>1. QueueOK /\ ServerOK /\ ServerOK' /\ Len(queue) \in Nat
  <2>1. VaultInv' => ServerOK'
    BY LineTypes, PTL
  <2> QED
    BY <2>1, LineTypes, QueueFacts
<1>2. /\ NowInLine(staged')
      /\ \A i \in 1..Len(queue) : queue[i].kind = "stage" => NowInLine(queue[i].doc)
  BY <1>1, GrowsFacts DEF StagesInLine
<1>3. \A i \in 1..Len(queue') : queue'[i].kind = "stage" => NowInLine(queue'[i].doc)
  <2>1. ASSUME NEW op \in Operation, queue' = Append(queue, op),
               op.kind = "stage" => NowInLine(op.doc), NEW i \in 1..Len(queue'),
               queue'[i].kind = "stage"
        PROVE  NowInLine(queue'[i].doc)
    BY <1>1, <1>2, <2>1, AppendFacts
  <2> QED
    BY <1>2, <2>1
<1> QED
  BY <1>2, <1>3 DEF StagesInLine, InLine, NowInLine, Exchanged

\* A turn that does not stage anything.
LEMMA TurnStages ==
    ASSUME VaultInv, VaultInv', StagesInLine, Grows, NEW p \in {"controller", "coordinator"}, Turn(p),
           proc'[p].pc # "staging"
    PROVE  StagesInLine'
<1>1. UNCHANGED staged /\ VaultStep(p)
  BY DEF Turn, SlotsKept
<1>2. CASE UNCHANGED vault
  BY <1>1, <1>2, StagesKept DEF vault
<1>3. ASSUME NEW kind \in Kind, NEW e \in Nat, Adds(p, kind, e), Waits(kind, proc'[p].pc)
      PROVE  StagesInLine'
  <2>1. kind # "stage"
    BY <1>3 DEF Waits
  <2> QED
    BY <1>1, <1>3, <2>1, StagesKept DEF Adds
<1> QED
  BY <1>1, <1>2, <1>3 DEF VaultStep

\* A step of somebody else, which may end the flight of a session by replacing it.
LEMMA FlightStays ==
    ASSUME VaultInv, VaultInv', FlightInLine, Grows, proc'[Coord] = proc[Coord],
           \/ session'.flight # "active"
           \/ session'.flight = session.flight /\ session'.key = session.key
    PROVE  FlightInLine'
<1>1. ServerOK /\ ServerOK'
  <2>1. VaultInv' => ServerOK'
    BY LineTypes, PTL
  <2> QED
    BY <2>1, LineTypes
<1>2. Rotates' <=> Rotates
  BY DEF Rotates, AnsweredAt
<1>3. Rotates => /\ proc'[Coord].key \in 1..issued'
                 /\ from'[proc'[Coord].key] = proc'[Coord].source
  BY <1>1, GrowsFacts DEF FlightInLine
<1> QED
  BY <1>2, <1>3 DEF FlightInLine, At, AnsweredAt, Exchanged

LEMMA FlightOver ==
    ASSUME session'.flight # "active", ~Rotates'
    PROVE  FlightInLine'
BY DEF FlightInLine

-----------------------------------------------------------------------------
(***************************************************************************)
(* Whoever restores, verifies or falls back has no flight under way, and   *)
(* does not come to carry a candidate.                                     *)
(***************************************************************************)
Elsewhere(p) == proc'[p].pc \notin {"prepared"} \cup RotatingPc
NoFlight == session' = session \/ session'.flight = "none"

LEMMA WentElsewhere ==
    ASSUME ProcOK, NEW p \in User, NEW next \in Pc \ ({"prepared"} \cup RotatingPc),
           \/ Moves(p, next)
           \/ \E kind, e, doc : Enqueue(p, kind, e, doc, next) \/ EnqueueNew(p, kind, doc, next)
           \/ \E e : EnqueueDeleteIf(p, e, next)
    PROVE  Elsewhere(p)
<1>1. CASE Moves(p, next)
  BY <1>1, MovesFacts DEF Elsewhere, Goes
<1>2. CASE proc' = [proc EXCEPT ![p].pc = next, ![p].answer = "no"]
  <2>1. proc[p] \in ProcRecord /\ proc = [q \in User |-> proc[q]]
    BY DEF ProcOK
  <2> DEFINE r == [proc[p] EXCEPT !.pc = next, !.answer = "no"]
  <2>2. proc' = [proc EXCEPT ![p] = r]
    BY <1>2, <2>1
  <2>3. r.pc = next
    BY <2>1 DEF ProcRecord
  <2> HIDE DEF r
  <2> QED
    BY <2>1, <2>2, <2>3 DEF Elsewhere
<1> QED
  BY <1>1, <1>2 DEF Enqueue, EnqueueNew, EnqueueDeleteIf

LEMMA WentIdle ==
    ASSUME ProcOK, NEW p \in User, NEW stage, Done(p, stage)
    PROVE  Elsewhere(p)
BY DoneFacts DEF Done, Elsewhere, Goes, RotatingPc

LEMMA RecoverySteps ==
    ASSUME VaultInv, NEW p \in {"controller", "coordinator"}, RecoveryStep(p)
    PROVE  /\ NoFlight /\ Elsewhere(p) /\ UNCHANGED <<issued, from>>
           /\ proc[p].pc \notin {"refreshing", "prepared"} \cup RotatingPc
<1>1. p \in User /\ ProcOK
  BY UserFacts
<1>2. UNCHANGED <<issued, from>>
  BY DEF RecoveryStep, server
<1>3. /\ \A stage : Done(p, stage) => Elsewhere(p)
      /\ \A state, key : Replace(state, key) => NoFlight
  BY <1>1, WentIdle DEF Replace, NoFlight
<1>4. \A next \in {"plain", "continue", "begin", "unstaging", "republishing", "finishing", "falling",
                   "dropping", "deleting", "rereading", "fallback"} :
         next \in Pc \ ({"prepared"} \cup RotatingPc)
  BY DEF Pc, RotatingPc
<1>5. CASE Snapshot(p)
  <2>1. NoFlight
    BY <1>3, <1>5 DEF Snapshot, WithoutStage, Recovers, RestoreStaged, NoFlight
  <2>2. \/ \E stage : Done(p, stage)
        \/ \E next \in {"plain", "continue", "begin", "unstaging"} :
              Moves(p, next) \/ \E kind, e, doc : Enqueue(p, kind, e, doc, next)
    BY <1>5 DEF Snapshot, WithoutStage, Recovers
  <2>3. Elsewhere(p)
    BY <1>1, <1>3, <1>4, <2>2, WentElsewhere
  <2> QED
    BY <1>2, <1>5, <2>1, <2>3 DEF Snapshot, AnsweredAt, RotatingPc
<1>6. CASE Restored(p)
  <2>1. NoFlight
    BY <1>3, <1>6 DEF Restored, Imported, Import, NoFlight
  <2>2. (\E stage : Done(p, stage)) \/ Moves(p, "begin") \/ Moves(p, "continue")
    BY <1>6 DEF Restored, Imported
  <2>3. Elsewhere(p)
    BY <1>1, <1>3, <1>4, <2>2, WentElsewhere
  <2> QED
    BY <1>2, <1>6, <2>1, <2>3 DEF Restored, AnsweredAt, RotatingPc
<1>7. CASE BeginVerification(p)
  <2>1. NoFlight
    BY <1>7 DEF BeginVerification, NoFlight
  <2>2. ASSUME proc' = [proc EXCEPT ![p] = [@ EXCEPT !.pc = "attempting", !.key = session.key,
                                                     !.recovery = recovery, !.answer = "none"]]
        PROVE  Elsewhere(p)
    <3> DEFINE r == [proc[p] EXCEPT !.pc = "attempting", !.key = session.key,
                                    !.recovery = recovery, !.answer = "none"]
    <3>1. proc[p] \in ProcRecord /\ proc = [q \in User |-> proc[q]]
      BY <1>1 DEF ProcOK
    <3>2. proc' = [proc EXCEPT ![p] = r] /\ r.pc = "attempting"
      BY <2>2, <3>1 DEF ProcRecord
    <3> HIDE DEF r
    <3> QED
      BY <1>1, <3>1, <3>2 DEF Elsewhere, RotatingPc
  <2>3. Elsewhere(p)
    BY <1>3, <1>7, <2>2 DEF BeginVerification
  <2> QED
    BY <1>2, <1>7, <2>1, <2>3 DEF BeginVerification, At, RotatingPc
<1>8. CASE Attempted(p)
  <2>1. NoFlight
    BY <1>8 DEF Attempted, NoFlight
  <2>2. \/ \E stage : Done(p, stage)
        \/ \E next \in {"republishing", "finishing", "falling", "dropping", "deleting"} :
              \/ \E kind, e, doc : Enqueue(p, kind, e, doc, next) \/ EnqueueNew(p, kind, doc, next)
              \/ \E e : EnqueueDeleteIf(p, e, next)
    BY <1>8 DEF Attempted
  <2>3. Elsewhere(p)
    BY <1>1, <1>3, <1>4, <2>2, WentElsewhere
  <2> QED
    BY <1>2, <1>8, <2>1, <2>3 DEF Attempted, AnsweredAt, RotatingPc
<1>9. CASE Republished(p) \/ StageFallen(p)
  <2>1. NoFlight
    BY <1>9 DEF Republished, StageFallen, NoFlight
  <2>2. \/ \E stage : Done(p, stage)
        \/ \E next \in {"finishing", "rereading", "fallback"} :
              \E kind, e, doc : Enqueue(p, kind, e, doc, next)
    BY <1>9 DEF Republished, StageFallen
  <2>3. Elsewhere(p)
    BY <1>1, <1>3, <1>4, <2>2, WentElsewhere
  <2> QED
    BY <1>2, <1>9, <2>1, <2>3 DEF Republished, StageFallen, AnsweredAt, RotatingPc
<1>10. CASE Reread(p) \/ Finished(p) \/ Dropped(p) \/ Deleted(p)
  <2>1. NoFlight /\ \E stage : Done(p, stage)
    BY <1>3, <1>10 DEF Reread, RestoreStaged, Finished, Dropped, Deleted, NoFlight
  <2> QED
    BY <1>2, <1>3, <1>10, <2>1 DEF Reread, Finished, Dropped, Deleted, AnsweredAt, RotatingPc
<1>11. CASE FallsBack(p)
  <2>1. NoFlight
    BY <1>3, <1>11 DEF FallsBack, NoFlight
  <2>2. ASSUME proc' = [proc EXCEPT ![p] = [@ EXCEPT !.pc = "attempting", !.answer = "none",
                                !.key = proc[p].snap.current, !.recovery.action = "fallback",
                                !.recovery.id = 0]]
        PROVE  Elsewhere(p)
    <3> DEFINE mine == [proc[p].recovery EXCEPT !.action = "fallback", !.id = 0]
               r == [proc[p] EXCEPT !.pc = "attempting", !.answer = "none",
                                    !.key = proc[p].snap.current, !.recovery = mine]
    <3>1. proc[p] \in ProcRecord /\ proc = [q \in User |-> proc[q]]
      BY <1>1 DEF ProcOK
    <3>2. proc' = [proc EXCEPT ![p] = r]
      BY <2>2, <3>1 DEF ProcRecord, Recovery
    <3> HIDE DEF mine
    <3>3. r.pc = "attempting"
      BY <3>1 DEF ProcRecord
    <3> HIDE DEF r
    <3> QED
      BY <1>1, <3>1, <3>2, <3>3 DEF Elsewhere, RotatingPc
  <2>3. Elsewhere(p)
    BY <1>3, <1>11, <2>2 DEF FallsBack
  <2> QED
    BY <1>2, <1>11, <2>1, <2>3 DEF FallsBack, AnsweredAt, RotatingPc
<1> QED
  BY <1>5, <1>6, <1>7, <1>8, <1>9, <1>10, <1>11 DEF RecoveryStep

\* A turn of the controller, or of a coordinator that recovers.
LEMMA LineOfRecovery ==
    ASSUME VaultInv, LineInv, NEW p \in {"controller", "coordinator"}, Turn(p), VaultInv', Grows,
           NoFlight, Elsewhere(p),
           p = "coordinator" => proc[p].pc \notin {"refreshing", "prepared"} \cup RotatingPc
    PROVE  LineInv'
<1>1. StagesInLine'
  BY TurnStages DEF LineInv, Elsewhere, RotatingPc
<1>2. CASE p = "controller"
  <2>1. proc'[Coord] = proc[Coord]
    BY <1>2, LineTypes DEF Turn, OthersStay, Coord
  <2> QED
    BY <1>1, <2>1, FlightStays DEF LineInv, NoFlight
<1>3. CASE p = "coordinator"
  <2>1. session.flight # "active"
    BY <1>3 DEF LineInv, FlightInLine, At, AnsweredAt, Rotates, Coord
  <2>2. session'.flight # "active" /\ ~Rotates'
    BY <1>3, <2>1 DEF NoFlight, Elsewhere, Rotates, AnsweredAt, Coord
  <2> QED
    BY <1>1, <2>2, FlightOver DEF LineInv
<1> QED
  BY <1>2, <1>3

LEMMA RecoveryLine ==
    ASSUME VaultInv, LineInv, NEW p \in {"controller", "coordinator"}, RecoveryStep(p)
    PROVE  LineInv'
<1>1. Turn(p) /\ VaultInv'
  BY RecoveryTurn, TurnKeeps
<1>2. Grows
  <2>1. UNCHANGED <<issued, from>> /\ issued \in Nat
    BY RecoverySteps, LineTypes DEF ServerOK
  <2> QED
    BY <2>1 DEF Grows
<1> QED
  BY <1>1, <1>2, RecoverySteps, LineOfRecovery

LEMMA VerifiesLine ==
    ASSUME VaultInv, LineInv, NEW p \in {"controller", "coordinator"}, NEW o \in Outcome,
           VerificationAnswers(p, o)
    PROVE  LineInv'
<1>1. Turn(p) /\ VaultInv'
  BY VerifiesTurn, TurnKeeps
<1>2. Grows
  BY LineTypes DEF VerificationAnswers, Says, Grows, ServerOK
<1>3. NoFlight
  BY DEF VerificationAnswers, Replace, NoFlight
<1> DEFINE a == IF StillVerified(p) THEN o ELSE "replaced"
<1>4. a \in Answer /\ proc' = [proc EXCEPT ![p].answer = a] /\ proc[p].pc = "attempting"
  BY DEF Answer, VerificationAnswers, At, Outcome
<1> HIDE DEF a
<1>5. Elsewhere(p)
  BY <1>4, UserFacts, AnswerFacts DEF Goes, Elsewhere, RotatingPc
<1> QED
  BY <1>1, <1>2, <1>3, <1>4, <1>5, LineOfRecovery DEF RotatingPc

LEMMA StartsLine ==
    ASSUME VaultInv, LineInv, RetryVerification \/ Boot
    PROVE  LineInv'
<1> DEFINE p == "controller"
<1>1. Turn(p) /\ VaultInv'
  BY StartsTurn, TurnKeeps
<1>2. UNCHANGED <<session, server>>
  BY DEF RetryVerification, Boot
<1>3. Grows /\ NoFlight
  BY <1>2, LineTypes DEF server, Grows, NoFlight, ServerOK
<1>4. proc'[p].pc \in ControllerPc
  BY <1>1 DEF Turn
<1>5. Elsewhere(p)
  BY <1>4 DEF ControllerPc, RecoveryPc, Starting, Elsewhere, RotatingPc
<1> QED
  BY <1>1, <1>3, <1>5, LineOfRecovery

-----------------------------------------------------------------------------
(***************************************************************************)
(* The coordinator: it asks, carries the exchange it was given to the      *)
(* current slot, and lets the core install it, or gives up.                *)
(***************************************************************************)
LEMMA TakeTodoLine ==
    ASSUME VaultInv, LineInv, TakeTodo, UNCHANGED <<storage, server, history>>
    PROVE  LineInv'
<1> DEFINE p == "coordinator"
           next == IF Head(todo) = "checkpoint" THEN "begin" ELSE "continue"
<1>1. /\ Turn(p) /\ VaultInv' /\ proc[p].pc = "idle" /\ p \in User
      /\ proc[p] \in ProcRecord /\ proc = [q \in User |-> proc[q]]
  BY TakeTodoTurn, TurnKeeps, UserFacts DEF TakeTodo, At, Coord, ProcOK
<1>2. Grows /\ NoFlight
  BY LineTypes DEF TakeTodo, server, Grows, NoFlight, ServerOK
<1>3. CASE BeginRestore(p)
  <2> DEFINE r == [Idle EXCEPT !.pc = "snapshot", !.epoch = epoch]
  <2>1. proc' = [proc EXCEPT ![p] = r] /\ r.pc = "snapshot"
    BY <1>3 DEF BeginRestore, Idle
  <2> HIDE DEF r
  <2>2. Elsewhere(p)
    BY <1>1, <2>1 DEF Elsewhere, RotatingPc
  <2> QED
    BY <1>1, <1>2, <2>2, LineOfRecovery DEF RotatingPc
<1>4. CASE proc' = [proc EXCEPT ![p].trigger = Head(todo), ![p].pc = next]
  <2> DEFINE r == [proc[p] EXCEPT !.trigger = Head(todo), !.pc = next]
  <2>1. next \in {"begin", "continue"}
    OBVIOUS
  <2> HIDE DEF next
  <2>2. proc' = [proc EXCEPT ![p] = r] /\ r.pc = next
    BY <1>1, <1>4 DEF ProcRecord
  <2> HIDE DEF r
  <2>3. Elsewhere(p)
    BY <1>1, <2>1, <2>2 DEF Elsewhere, RotatingPc
  <2> QED
    BY <1>1, <1>2, <2>3, LineOfRecovery DEF RotatingPc
<1> QED
  BY <1>3, <1>4 DEF TakeTodo, Coord

LEMMA PrepareLine ==
    ASSUME VaultInv, LineInv, Prepare, UNCHANGED <<storage, loggedOut>>
    PROVE  LineInv'
<1> DEFINE p == "coordinator"
<1>1. /\ Turn(p) /\ VaultInv' /\ proc[p].pc = "continue" /\ p \in User
      /\ proc[p] \in ProcRecord /\ proc = [q \in User |-> proc[q]] /\ session \in SessionRecord
  BY PrepareTurn, TurnKeeps, UserFacts DEF Prepare, At, Coord, ProcOK
<1>2. Grows
  BY LineTypes DEF Prepare, server, Grows, ServerOK
<1>3. session.flight # "active"
  BY <1>1 DEF LineInv, FlightInLine, Rotates, AnsweredAt, At, RotatingPc, Coord
<1>4. ASSUME NEW a \in {"gate", "noCredential", "notNeeded", "transient"}, Prepared(a),
             Replace("signedOut", 0) \/ UNCHANGED session
      PROVE  LineInv'
  <2> DEFINE r == [proc[p] EXCEPT !.pc = "prepared", !.epoch = epoch, !.answer = a]
  <2>1. proc' = [proc EXCEPT ![p] = r] /\ r.pc = "prepared" /\ r.answer = a
    BY <1>1, <1>4 DEF Prepared, Coord, ProcRecord
  <2> HIDE DEF r
  <2>2. proc'[p].pc = "prepared" /\ proc'[p].answer = a
    BY <1>1, <2>1
  <2>3. ~Rotates' /\ session'.flight # "active"
    BY <1>3, <1>4, <2>2 DEF Rotates, AnsweredAt, RotatingPc, Coord, Replace
  <2> QED
    BY <1>1, <1>2, <2>2, <2>3, TurnStages, FlightOver DEF LineInv
<1>5. ASSUME session' = [session EXCEPT !.flight = "active"],
             proc' = [proc EXCEPT ![p] = [@ EXCEPT !.pc = "refreshing", !.epoch = epoch,
                                                   !.source = session.key]]
      PROVE  LineInv'
  <2> DEFINE r == [proc[p] EXCEPT !.pc = "refreshing", !.epoch = epoch, !.source = session.key]
  <2>1. proc' = [proc EXCEPT ![p] = r] /\ r.pc = "refreshing" /\ r.source = session.key
    BY <1>1, <1>5 DEF ProcRecord
  <2> HIDE DEF r
  <2>2. proc'[p].pc = "refreshing" /\ proc'[p].source = session'.key
    BY <1>1, <1>5, <2>1 DEF SessionRecord
  <2>3. FlightInLine'
    BY <2>2 DEF FlightInLine, Rotates, AnsweredAt, At, RotatingPc, Coord
  <2> QED
    BY <1>1, <1>2, <2>2, <2>3, TurnStages DEF LineInv
<1> QED
  BY <1>4, <1>5 DEF Prepare, Coord

\* A key that is issued for the source of the flight is an exchange from then on.
LEMMA RefreshLine ==
    ASSUME VaultInv, LineInv, NEW o \in Outcome, RefreshAnswers(o), UNCHANGED <<storage, loggedOut>>
    PROVE  LineInv'
<1> DEFINE p == "coordinator"
<1>1. /\ Turn(p) /\ VaultInv' /\ proc[p].pc = "refreshing" /\ p \in User
      /\ proc[p] \in ProcRecord /\ proc = [q \in User |-> proc[q]] /\ session \in SessionRecord
  BY RefreshTurn, TurnKeeps, UserFacts DEF RefreshAnswers, At, Coord, ProcOK
<1>2. issued \in 1..MaxKey /\ MaxKey \in Nat /\ from \in [1..MaxKey -> Key]
  BY LineTypes, VaultAssumption DEF ServerOK
<1>3. /\ Grows
      /\ o = "accepted" => issued + 1 \in 1..issued' /\ from'[issued + 1] = proc[p].source
  <2>1. CASE o = "accepted"
    BY <1>2, <2>1 DEF RefreshAnswers, Grows, Coord
  <2>2. CASE o # "accepted"
    BY <1>2, <2>2 DEF RefreshAnswers, Grows
  <2> QED
    BY <2>1, <2>2
<1>4. CASE /\ o = "accepted" /\ session.flight = "active" /\ UNCHANGED session
           /\ proc' = [proc EXCEPT ![p] = [@ EXCEPT !.pc = "prepared", !.answer = "candidate",
                                                    !.key = issued + 1]]
  <2> DEFINE r == [proc[p] EXCEPT !.pc = "prepared", !.answer = "candidate", !.key = issued + 1]
  <2>1. /\ proc' = [proc EXCEPT ![p] = r] /\ r.pc = "prepared" /\ r.answer = "candidate"
        /\ r.key = issued + 1 /\ r.source = proc[p].source
    BY <1>1, <1>4 DEF ProcRecord
  <2> HIDE DEF r
  <2>2. /\ proc'[p].pc = "prepared" /\ proc'[p].answer = "candidate"
        /\ proc'[p].key = issued + 1 /\ proc'[p].source = proc[p].source
    BY <1>1, <2>1
  <2>3. session'.flight = "active" => proc'[p].source = session'.key
    BY <1>4, <2>2 DEF LineInv, FlightInLine, Coord
  <2>4. FlightInLine'
    BY <1>3, <1>4, <2>2, <2>3
       DEF FlightInLine, Rotates, AnsweredAt, At, RotatingPc, Coord, Exchanged
  <2> QED
    BY <1>1, <1>3, <2>2, <2>4, TurnStages DEF LineInv
<1>5. CASE /\ proc' = [proc EXCEPT ![p] = [@ EXCEPT !.pc = "prepared",
                           !.answer = IF o = "accepted" THEN "replaced" ELSE o]]
           /\ IF o = "refused" /\ session.flight = "active" THEN Replace("signedOut", 0) ELSE FlightEnds
  <2> DEFINE a == IF o = "accepted" THEN "replaced" ELSE o
             r == [proc[p] EXCEPT !.pc = "prepared", !.answer = a]
  <2>1. a # "candidate"
    BY DEF Outcome
  <2>2. proc' = [proc EXCEPT ![p] = r]
    BY <1>1, <1>5
  <2> HIDE DEF a
  <2>3. r.pc = "prepared" /\ r.answer = a
    BY <1>1 DEF ProcRecord
  <2> HIDE DEF r
  <2>4. proc'[p].pc = "prepared" /\ proc'[p].answer = a
    BY <1>1, <2>2, <2>3
  <2>5. session'.flight # "active"
    BY <1>1, <1>5 DEF Replace, FlightEnds, SessionRecord
  <2>6. ~Rotates'
    BY <2>1, <2>4 DEF Rotates, AnsweredAt, RotatingPc, Coord
  <2> QED
    BY <1>1, <1>3, <2>4, <2>5, <2>6, TurnStages, FlightOver DEF LineInv
<1> QED
  BY <1>4, <1>5 DEF RefreshAnswers, Coord

\* The coordinator goes on with the exchange it carries.
LEMMA CarriesOn ==
    ASSUME VaultInv, FlightInLine, Rotates, UNCHANGED <<session, server>>, Keeps("coordinator"),
           proc'["coordinator"].pc \in RotatingPc, proc'["coordinator"].answer = "none"
    PROVE  FlightInLine'
BY DEF FlightInLine, Rotates, AnsweredAt, At, Keeps, Coord, Exchanged, server

LEMMA ContinueLine ==
    ASSUME VaultInv, LineInv, Continue, UNCHANGED <<storage, loggedOut>>
    PROVE  LineInv'
<1> DEFINE p == "coordinator"
           mine == proc[p]
<1>1. /\ Turn(p) /\ VaultInv' /\ p \in User /\ ProcOK /\ UNCHANGED <<session, server, staged>>
      /\ mine.source \in Key /\ mine.key \in Key /\ mine.epoch \in Nat
  BY ContinueTurn, TurnKeeps, UserFacts, ProcFacts DEF Continue, storage
<1>2. Grows
  BY <1>1, LineTypes DEF server, Grows, ServerOK
<1>3. CASE /\ AnsweredAt(p, "prepared", {"candidate"})
           /\ Enqueue(p, "stage", mine.epoch, [source |-> mine.source, cand |-> mine.key], "staging")
  <2> DEFINE doc == [source |-> mine.source, cand |-> mine.key]
             op == Op(p, "stage", mine.epoch, doc)
  <2>1. Rotates /\ Goes(p, "staging", "none") /\ Keeps(p)
    BY <1>1, <1>3, MovesFacts DEF Rotates, Coord, Enqueue, Pc
  <2>2. FlightInLine'
    BY <1>1, <2>1, CarriesOn DEF LineInv, Goes, RotatingPc
  <2>3. doc \in Stage /\ NowInLine(doc)
    BY <1>1, <2>1 DEF LineInv, FlightInLine, Stage, NowInLine, Exchanged, Coord, server
  <2> HIDE DEF doc
  <2>4. op \in Operation /\ op.doc = doc /\ queue' = Append(queue, op)
    BY <1>1, <1>3, <2>3 DEF Op, Operation, Enqueue, Kind, doc
  <2> HIDE DEF op
  <2>5. StagesInLine'
    BY <1>1, <1>2, <2>3, <2>4, StagesKept DEF LineInv
  <2> QED
    BY <2>2, <2>5 DEF LineInv
<1>4. CASE \/ AnsweredAt(p, "staging", {"ok"}) /\ Moves(p, "verifying")
           \/ /\ AnsweredAt(p, "verifying", {"accepted"})
              /\ Enqueue(p, "publish", mine.epoch, Document(mine.key), "publishing")
  <2>1. Rotates
    BY <1>4 DEF Rotates, AnsweredAt, Coord, RotatingPc
  <2>2. Keeps(p) /\ proc'[p].pc \in {"verifying", "publishing"} /\ proc'[p].answer = "none"
    BY <1>1, <1>4, MovesFacts DEF Enqueue, Pc, Goes
  <2> QED
    BY <1>1, <1>2, <2>1, <2>2, TurnStages, CarriesOn DEF LineInv, RotatingPc
<1>5. CASE /\ \/ AnsweredAt(p, "prepared", {"notNeeded", "replaced", "transient", "gate", "noCredential",
                                            "refused"})
              \/ AnsweredAt(p, "verifying", {"transient", "replaced", "refused"})
              \/ AnsweredAt(p, "cleaning", {"ok", "no", "failed"})
           /\ Done(p, shown) \/ EnqueueDeleteIf(p, mine.epoch, "deleting")
  <2>1. session.flight # "active"
    BY <1>5 DEF LineInv, FlightInLine, Rotates, AnsweredAt, At, RotatingPc, Coord
  <2>2. "deleting" \in Pc \ ({"prepared"} \cup RotatingPc)
    BY DEF Pc, RotatingPc
  <2>3. Elsewhere(p)
    BY <1>1, <1>5, <2>2, WentElsewhere, WentIdle
  <2> QED
    BY <1>1, <1>2, <2>1, <2>3, TurnStages, FlightOver
       DEF LineInv, Elsewhere, Rotates, AnsweredAt, RotatingPc, Coord
<1> QED
  BY <1>3, <1>4, <1>5 DEF Continue, Gives, Coord, AnsweredAt

LEMMA StagedVerifiedLine ==
    ASSUME VaultInv, LineInv, NEW o \in Outcome, StagedVerified(o), UNCHANGED <<storage, loggedOut>>
    PROVE  LineInv'
<1> DEFINE p == "coordinator"
           mine == session.flight = "active"
           a == IF mine THEN o ELSE "replaced"
<1>1. /\ Turn(p) /\ VaultInv' /\ p \in User /\ ProcOK /\ session \in SessionRecord
      /\ proc[p].pc = "verifying" /\ UNCHANGED <<issued, from>>
  BY StagedVerifiedTurn, TurnKeeps, UserFacts DEF StagedVerified, Says, At, Coord
<1>2. Grows
  BY <1>1, LineTypes DEF Grows, ServerOK
<1>3. /\ a \in Answer /\ proc' = [proc EXCEPT ![p].answer = a]
      /\ a = "accepted" \/ a = "replaced" => UNCHANGED session
      /\ a # "accepted" => session'.flight # "active"
  BY <1>1 DEF StagedVerified, Coord, Answer, Outcome, Replace, FlightEnds, SessionRecord
<1> HIDE DEF a
<1>4. Keeps(p) /\ proc'[p].pc = "verifying" /\ proc'[p].answer = a
  BY <1>1, <1>3, AnswerFacts DEF Goes
<1>5. Exchanged(proc[p].source, proc[p].key)
  BY <1>1 DEF LineInv, FlightInLine, Rotates, RotatingPc, Coord
<1>6. session'.flight = "active" => UNCHANGED session /\ a = "accepted"
  BY <1>3
<1>7. session'.flight = "active" => proc'[p].source = session'.key
  BY <1>4, <1>6 DEF LineInv, FlightInLine, Coord, Keeps
<1>8. FlightInLine'
  BY <1>1, <1>4, <1>5, <1>6, <1>7
     DEF FlightInLine, Rotates, AnsweredAt, At, RotatingPc, Coord, Exchanged, Keeps
<1> QED
  BY <1>1, <1>2, <1>4, <1>8, TurnStages DEF LineInv

LEMMA AbortsLine ==
    ASSUME VaultInv, LineInv, Aborts, UNCHANGED <<storage, loggedOut>>
    PROVE  LineInv'
<1> DEFINE p == "coordinator"
<1>1. /\ Turn(p) /\ VaultInv' /\ p \in User /\ ProcOK /\ session \in SessionRecord
      /\ UNCHANGED <<issued, from>> /\ Done(p, shown)
  BY AbortsTurn, TurnKeeps, UserFacts DEF Aborts, Gives, Coord, server
<1>2. Grows
  BY <1>1, LineTypes DEF Grows, ServerOK
<1>3. session'.flight # "active" /\ Elsewhere(p)
  BY <1>1, WentIdle DEF Aborts, FlightEnds, SessionRecord
<1> QED
  BY <1>1, <1>2, <1>3, TurnStages, FlightOver DEF LineInv, Elsewhere, Rotates, AnsweredAt, RotatingPc, Coord

LEMMA CommitLine ==
    ASSUME VaultInv, LineInv, Commit, UNCHANGED <<storage, loggedOut>>
    PROVE  LineInv'
<1> DEFINE p == "coordinator"
<1>1. /\ Turn(p) /\ VaultInv' /\ p \in User /\ ProcOK /\ UNCHANGED <<issued, from>>
  BY CommitTurn, TurnKeeps, UserFacts DEF Commit, server
<1>2. Grows
  BY <1>1, LineTypes DEF Grows, ServerOK
<1>3. session'.flight # "active"
  BY DEF Commit
<1>4. "cleaning" \in Pc \ ({"prepared"} \cup RotatingPc)
  BY DEF Pc, RotatingPc
<1>5. Elsewhere(p)
  BY <1>1, <1>4, WentElsewhere, WentIdle DEF Commit, Gives, Coord
<1> QED
  BY <1>1, <1>2, <1>3, <1>5, TurnStages, FlightOver DEF LineInv, Elsewhere, Rotates, AnsweredAt, RotatingPc, Coord

-----------------------------------------------------------------------------
(***************************************************************************)
(* The user, a rejected read, and the storage.                             *)
(***************************************************************************)
LEMMA AsideLine ==
    ASSUME VaultInv, LineInv, VaultInv', Grows, proc'[Coord] = proc[Coord], UNCHANGED <<staged, queue>>,
           NoFlight \/ (session'.flight = session.flight /\ session'.key = session.key)
    PROVE  LineInv'
BY StagesKept, FlightStays DEF LineInv, NoFlight

LEMMA UserLine ==
    ASSUME VaultInv, LineInv, VaultInv', UserStep
    PROVE  LineInv'
<1>1. /\ QueueOK /\ ProcOK /\ ServerOK /\ "login" \in User /\ "leaver" \in User /\ Coord \in User
      /\ Coord \notin {"login", "leaver", "controller"} /\ epoch \in Nat /\ issued \in Nat
      /\ proc = [q \in User |-> proc[q]]
  BY LineTypes DEF QueueOK, ProcOK, ServerOK, User, Coord
<1> DEFINE s == Silenced
<1>2. s \in [User -> ProcRecord] /\ s[Coord] = proc[Coord] /\ s = [q \in User |-> s[q]]
  <2>1. s \in [User -> ProcRecord] /\ s[Coord] = proc[Coord]
    BY <1>1, SilencedFacts
  <2> QED
    BY <2>1
<1> HIDE DEF s
<1>3. CASE LoginBegins
  <2>1. proc' = [s EXCEPT !["login"].pc = "waiting"] /\ UNCHANGED <<staged, queue, issued, from>>
    BY <1>3 DEF LoginBegins, storage, vault, server, s
  <2>2. proc'[Coord] = proc[Coord] /\ Grows
    BY <1>1, <1>2, <2>1 DEF Grows
  <2>3. NoFlight
    BY <1>3 DEF LoginBegins, Replace, NoFlight
  <2> QED
    BY <2>1, <2>2, <2>3, AsideLine
<1>4. CASE LoginWins
  <2> DEFINE doc == Document(issued + 1)
             op == Op("login", "replace", epoch + 1, doc)
  <2>1. Moves("login", "persisting") /\ queue' = Append(queue, op) /\ UNCHANGED <<staged, from>>
        /\ issued < MaxKey /\ issued' = issued + 1 /\ session'.flight = "none"
    BY <1>4 DEF LoginWins, EnqueueNew, storage, Replace
  <2>2. proc'[Coord] = proc[Coord] /\ Grows
    BY <1>1, <2>1, MovesFacts DEF Goes, OthersStay, Pc, Grows
  <2>3. doc \in Stage
    BY <1>1, <2>1, NothingFacts, VaultAssumption DEF Document, Stage, Key
  <2> HIDE DEF doc
  <2>4. op \in Operation /\ op.kind # "stage"
    BY <1>1, <2>3 DEF Op, Operation, Kind
  <2> HIDE DEF op
  <2> QED
    BY <2>1, <2>2, <2>4, StagesKept, FlightStays DEF LineInv
<1>5. CASE LoginPersisted \/ SignedOut
  <2>1. UNCHANGED <<storage, vault, session, server>>
        /\ (proc' = [proc EXCEPT !["login"] = Idle] \/ proc' = [proc EXCEPT !["leaver"] = Idle])
    BY <1>5 DEF LoginPersisted, SignedOut
  <2>2. proc'[Coord] = proc[Coord] /\ Grows /\ NoFlight /\ UNCHANGED <<staged, queue>>
    BY <1>1, <2>1 DEF storage, vault, server, Grows, NoFlight
  <2> QED
    BY <2>2, AsideLine
<1>6. CASE SignOut
  <2> DEFINE op == Op("leaver", "delete", epoch + 1, NoStage)
  <2>1. /\ proc' = [s EXCEPT !["leaver"].pc = "deleting", !["leaver"].epoch = epoch + 1]
        /\ queue' = Append(queue, op) /\ UNCHANGED <<staged, issued, from>> /\ session'.flight = "none"
    BY <1>6 DEF SignOut, storage, server, Replace, s
  <2>2. proc'[Coord] = proc[Coord] /\ Grows
    BY <1>1, <1>2, <2>1 DEF Grows
  <2>3. op \in Operation /\ op.kind # "stage"
    BY <1>1, NothingFacts DEF Op, Operation, Kind
  <2> HIDE DEF op
  <2> QED
    BY <2>1, <2>2, <2>3, StagesKept, FlightStays DEF LineInv
<1> QED
  BY <1>3, <1>4, <1>5, <1>6 DEF UserStep

LEMMA NoticesLine ==
    ASSUME VaultInv, LineInv, VaultInv', NoticeSession \/ Resume \/ ReadRejected \/ UNCHANGED cvars
    PROVE  LineInv'
<1>1. /\ UNCHANGED <<proc, staged, queue, issued, from>>
      /\ session' = session \/ session' = [session EXCEPT !.state = "continuation"]
  BY DEF NoticeSession, Resume, ReadRejected, storage, vault, server, cvars
<1>2. session \in SessionRecord /\ issued \in Nat
  BY LineTypes DEF ServerOK
<1>3. session'.flight = session.flight /\ session'.key = session.key
  BY <1>1, <1>2 DEF SessionRecord
<1>4. Grows /\ proc'[Coord] = proc[Coord]
  BY <1>1, <1>2 DEF Grows
<1> QED
  BY <1>1, <1>3, <1>4, AsideLine

\* Somebody is answered: nobody who carries a candidate waits for the queue but to write it.
LEMMA AnsweredLine ==
    ASSUME VaultInv, LineInv, NEW q \in User, UNCHANGED <<session, server>>,
           \E kind \in Kind : Waits(kind, proc[q].pc), OthersStay(q),
           proc'[q].pc = proc[q].pc, proc'[q].key = proc[q].key, proc'[q].source = proc[q].source
    PROVE  FlightInLine'
<1>1. /\ proc'[Coord].pc = proc[Coord].pc /\ proc'[Coord].key = proc[Coord].key
      /\ proc'[Coord].source = proc[Coord].source
      /\ proc[Coord].pc \in {"prepared", "verifying"} => proc'[Coord] = proc[Coord]
  BY LineTypes DEF OthersStay, Waits
<1>2. Rotates' <=> Rotates
  BY <1>1 DEF Rotates, AnsweredAt, RotatingPc
<1> QED
  BY <1>1, <1>2 DEF LineInv, FlightInLine, AnsweredAt, At, Exchanged, server

LEMMA StorageLine ==
    ASSUME VaultInv, LineInv, StorageStep
    PROVE  LineInv'
<1> DEFINE op == Head(queue)
<1>1. /\ queue # <<>> /\ UNCHANGED <<epoch, session, server>>
      /\ QueueOK /\ ProcOK /\ OpsOK
  BY LineTypes DEF StorageStep, StorageSucceeds, StorageFails
<1>2. /\ op = queue[1] /\ 1 \in 1..Len(queue) /\ Len(queue) \in Nat /\ op \in Operation
      /\ op.by \in User /\ op.kind \in Kind /\ Waits(op.kind, proc[op.by].pc)
  BY <1>1, HeadFacts DEF Operation, OpsOK, Fits
<1>3. op.kind = "stage" => InLine(op.doc)
  BY <1>2 DEF LineInv, StagesInLine
<1> HIDE DEF op
<1>4. \/ ReadSlots(op) \/ StartWriting(op) \/ WriteSlot(op) \/ DeleteStage(op) \/ WriteCurrent(op)
      \/ StorageFails
  BY DEF StorageStep, StorageSucceeds, op
<1>5. staged' \in {staged, NoStage} \/ (op.kind = "stage" /\ staged' = op.doc)
  BY <1>4 DEF ReadSlots, StartWriting, WriteSlot, DeleteStage, WriteCurrent, StorageFails, storage
<1>6. InLine(staged')
  BY <1>3, <1>5 DEF LineInv, StagesInLine, InLine
<1>7. ASSUME queue' = Tail(queue)
      PROVE  StagesInLine'
  BY <1>1, <1>6, <1>7, TailFacts DEF LineInv, StagesInLine, InLine, Exchanged, server
<1>8. ASSUME NEW a \in {"ok", "no", "failed"}, Finishes(op, a)
      PROVE  LineInv'
  <2>1. queue' = Tail(queue) /\ Goes(op.by, proc[op.by].pc, a) /\ Keeps(op.by)
    BY <1>1, <1>2, <1>8, FinishesFacts
  <2> QED
    BY <1>1, <1>2, <1>7, <2>1, AnsweredLine DEF LineInv, Goes, Keeps
<1>9. ASSUME Proceeds
      PROVE  LineInv'
  <2> DEFINE next == [op EXCEPT !.at = @ + 1]
  <2>1. next.kind = op.kind /\ next.doc = op.doc /\ next.at \in Nat
    BY <1>2 DEF Operation
  <2>2. queue \in Seq(Operation) /\ DOMAIN queue = 1..Len(queue)
    BY <1>1 DEF QueueOK
  <2>3. queue' = [queue EXCEPT ![1] = next] /\ proc' = proc
    BY <1>2, <1>9, <2>2 DEF Proceeds
  <2> HIDE DEF next
  <2>4. /\ Len(queue') = Len(queue)
        /\ \A i \in 1..Len(queue) : queue'[i].kind = queue[i].kind /\ queue'[i].doc = queue[i].doc
    BY <1>2, <2>1, <2>2, <2>3
  <2>5. StagesInLine'
    BY <1>1, <1>6, <2>4 DEF LineInv, StagesInLine, InLine, Exchanged, server
  <2>6. FlightInLine'
    BY <1>1, <2>3 DEF LineInv, FlightInLine, Rotates, AnsweredAt, At, Exchanged, server
  <2> QED
    BY <2>5, <2>6 DEF LineInv
<1>10. CASE ReadSlots(op)
  <2> DEFINE slots == [current |-> current, staged |-> staged]
             r == [proc[op.by] EXCEPT !.answer = "ok", !.snap = slots]
  <2>1. proc[op.by] \in ProcRecord /\ proc = [q \in User |-> proc[q]]
    BY <1>1, <1>2 DEF ProcOK
  <2>2. queue' = Tail(queue) /\ proc' = [proc EXCEPT ![op.by].answer = "ok", ![op.by].snap = slots]
    BY <1>10 DEF ReadSlots
  <2> HIDE DEF slots
  <2>3. proc' = [proc EXCEPT ![op.by] = r]
    BY <1>2, <2>1, <2>2
  <2>4. r.pc = proc[op.by].pc /\ r.key = proc[op.by].key /\ r.source = proc[op.by].source
    BY <2>1 DEF ProcRecord
  <2> HIDE DEF r
  <2>5. proc'[op.by] = r /\ OthersStay(op.by)
    BY <1>2, <2>1, <2>3 DEF OthersStay
  <2> QED
    BY <1>1, <1>2, <1>7, <2>2, <2>4, <2>5, AnsweredLine DEF LineInv
<1> QED
  BY <1>4, <1>8, <1>9, <1>10
     DEF StartWriting, WriteSlot, DeleteStage, WriteCurrent, StorageFails, Skipped, op

LEMMA NextLine ==
    ASSUME VaultInv, LineInv, [Next]_cvars
    PROVE  LineInv'
<1>1. VaultInv'
  BY NextKeeps
<1>2. ASSUME NEW p \in {"controller", "coordinator"}, RecoveryStep(p) PROVE LineInv'
  BY <1>2, RecoveryLine
<1>3. ASSUME NEW p \in {"controller", "coordinator"}, Verifies(p) PROVE LineInv'
  BY <1>3, VerifiesLine DEF Verifies
<1>4. CASE CoordinatorStep
  BY <1>4, TakeTodoLine, PrepareLine, RefreshLine, StagedVerifiedLine, ContinueLine, AbortsLine, CommitLine
     DEF CoordinatorStep
<1>5. CASE StorageStep
  BY <1>5, StorageLine
<1>6. CASE UserStep
  BY <1>1, <1>6, UserLine
<1>7. CASE NoticeSession \/ Resume \/ ReadRejected \/ UNCHANGED cvars
  BY <1>1, <1>7, NoticesLine
<1>8. CASE RetryVerification \/ Boot
  BY <1>8, StartsLine
<1>9. CASE Restart
  <2>1. /\ queue' = <<>> /\ session' = SignedOutSession /\ proc' = Waiting
        /\ UNCHANGED <<staged, issued, from>> /\ Coord \in User \ {"controller"}
    BY <1>9 DEF Restart, storage, server, Coord, User
  <2>2. session'.flight # "active" /\ ~Rotates'
    BY <2>1, WaitingFacts DEF SignedOutSession, Rotates, AnsweredAt, RotatingPc
  <2>3. StagesInLine'
    BY <2>1 DEF LineInv, StagesInLine, InLine, Exchanged
  <2> QED
    BY <2>2, <2>3, FlightOver DEF LineInv
<1> QED
  BY <1>2, <1>3, <1>4, <1>5, <1>6, <1>7, <1>8, <1>9 DEF Next

(***************************************************************************)
(* What is staged, what waits to be staged and what the coordinator        *)
(* carries between its requests was exchanged by the server for the source *)
(* it is filed under; a flight that is active was begun by the coordinator *)
(* for the key of this very session, and its candidate has not been turned *)
(* down (qq_session_continuation.dart, _continue).                         *)
(***************************************************************************)
THEOREM RotationsAreExchanges == Spec => []LineInv
<1>1. Init => LineInv
  <2> SUFFICES ASSUME Init PROVE LineInv
    OBVIOUS
  <2>1. Coord \in User \ {"controller"}
    BY DEF Coord, User
  <2>2. session.flight # "active" /\ ~Rotates
    BY <2>1, WaitingFacts DEF Init, SignedOutSession, Rotates, AnsweredAt, RotatingPc
  <2>3. StagesInLine
    BY DEF Init, StagesInLine, InLine
  <2> QED
    BY <2>2, <2>3 DEF LineInv, FlightInLine, AnsweredAt, Rotates, RotatingPc
<1>2. VaultInv /\ LineInv /\ [Next]_cvars => LineInv'
  BY NextLine
<1> QED
  BY VaultInvariant, <1>1, <1>2, PTL DEF Spec

(***************************************************************************)
(* The core's part of a rotation (commit_staged_refresh): a session gives  *)
(* way to a candidate only while its own flight is active, and only to a   *)
(* key the server exchanged for the key of this very session, whoever      *)
(* replaced, restored or signed out a session since the refresh was sent.  *)
(***************************************************************************)
InstallsASuccessor ==
    session'.flight = "installed" /\ session.flight # "installed" =>
        session.flight = "active" /\ Exchanged(session.key, session'.key)
THEOREM SuccessorsAreInstalled == Spec => [][InstallsASuccessor]_cvars
<1>1. VaultInv /\ LineInv /\ [Next]_cvars => [InstallsASuccessor]_cvars
  <2> SUFFICES ASSUME VaultInv, LineInv, Next, session'.flight = "installed", session.flight # "installed"
               PROVE  session.flight = "active" /\ Exchanged(session.key, session'.key)
    BY DEF InstallsASuccessor, cvars
  <2>1. session \in SessionRecord
    BY LineTypes
  <2>2. ~ NoFlight
    BY DEF NoFlight
  <2>3. ~ (session' = [session EXCEPT !.state = "continuation"])
    BY <2>1 DEF SessionRecord
  <2>4. /\ \A p \in {"controller", "coordinator"} : ~RecoveryStep(p) /\ ~Verifies(p)
        /\ ~StorageStep /\ ~RetryVerification /\ ~NoticeSession /\ ~Boot /\ ~Resume /\ ~ReadRejected
    <3>1. ASSUME NEW p \in {"controller", "coordinator"} PROVE ~RecoveryStep(p) /\ ~Verifies(p)
      BY <2>2, RecoverySteps DEF Verifies, VerificationAnswers, Replace, NoFlight
    <3> QED
      BY <2>2, <2>3, <3>1 DEF NoFlight, StorageStep, RetryVerification, NoticeSession, Boot, Resume, ReadRejected
  <2>5. ~UserStep /\ ~Restart
    BY <2>2 DEF UserStep, LoginBegins, LoginWins, LoginPersisted, SignOut, SignedOut, Restart, Replace,
                NoFlight, SignedOutSession
  <2>6. CASE Commit
    <3>1. session.flight = "active" /\ session'.key = proc[Coord].key /\ proc[Coord].pc = "publishing"
      BY <2>2, <2>6 DEF Commit, NoFlight, AnsweredAt
    <3> QED
      BY <3>1 DEF LineInv, FlightInLine, Rotates, RotatingPc
  <2>7. ~TakeTodo /\ ~Continue /\ ~Aborts
    BY <2>1, <2>2 DEF TakeTodo, Continue, Aborts, FlightEnds, NoFlight, SessionRecord
  <2>8. ~Prepare
    BY <2>1, <2>2 DEF Prepare, Replace, NoFlight, SessionRecord
  <2>9. \A o \in Outcome : ~RefreshAnswers(o) /\ ~StagedVerified(o)
    BY <2>1, <2>2 DEF RefreshAnswers, StagedVerified, Replace, FlightEnds, NoFlight, SessionRecord
  <2> QED
    BY <2>4, <2>5, <2>6, <2>7, <2>8, <2>9 DEF Next, CoordinatorStep
<1> QED
  BY VaultInvariant, RotationsAreExchanges, <1>1, PTL DEF Spec

(***************************************************************************)
(* If the process died now, between whichever two writes of the two slots, *)
(* the next one would start with the current credential or with the key    *)
(* the server gave in exchange for it, never with the rotation of another  *)
(* session (restore_staged_credential_rotation).                           *)
(***************************************************************************)
StartupInLine == Startup = current \/ Exchanged(current, Startup)
THEOREM CrashesKeepTheLine == Spec => []StartupInLine
<1>1. LineInv => StartupInLine
  BY DEF LineInv, StagesInLine, InLine, StartupInLine, Startup, RecoveryAction
<1> QED
  BY RotationsAreExchanges, <1>1, PTL

=============================================================================
