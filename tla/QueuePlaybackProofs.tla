------------------------ MODULE QueuePlaybackProofs ------------------------
(***************************************************************************)
(* Proofs about PlaybackQueue, for every set of tracks and every bound,    *)
(* and about QueuePlayback, for every queue, collection and number of      *)
(* commands: the track player has been given what the queue says is        *)
(* current.                                                                *)
(***************************************************************************)
EXTENDS QueuePlayback, SequenceTheorems, TLAPS

(***************************************************************************)
(* The queue.                                                              *)
(***************************************************************************)

\* The inductive invariant: types, the current entry and the shuffle cycle.
QueueInv == QueueTypeOK /\ CurrentIsAnEntry /\ CycleMatchesQueue

(***************************************************************************)
(* Shuffle cycles.                                                         *)
(***************************************************************************)

\* A cycle over n positions is a sequence of n positions, none of them twice.
LEMMA CycleIsSeq ==
    ASSUME NEW n \in Nat, NEW s \in Permutations1(n)
    PROVE  /\ s \in Seq(Nat)
           /\ Len(s) = n
           /\ DOMAIN s = 1..n
           /\ \A p \in 1..n : s[p] \in 1..n
           /\ \A p, q \in 1..n : s[p] = s[q] => p = q
<1>1. s \in [1..n -> 1..n] /\ \A p, q \in 1..n : s[p] = s[q] => p = q
  BY DEF Permutations1, Injection, IsInjective
<1>2. s \in [1..n -> Nat]
  BY <1>1
<1>3. s \in Seq(Nat) /\ Len(s) = n
  BY <1>2, IsASeq, LenProperties
<1> QED
  BY <1>1, <1>3

\* Exchanging the first two positions of a cycle, when it opens with the entry
\* that just played, leaves a cycle over the same positions.
LEMMA WithoutRepeatIsCycle ==
    ASSUME NEW n \in Nat, NEW s \in Permutations1(n)
    PROVE  WithoutRepeat(s) \in Permutations1(n)
<1>1. CASE Len(s) > 1 /\ s[1] = currentIndex
  <2> DEFINE t == SwapFirstTwo(s)
  <2>1. n > 1 /\ DOMAIN s = 1..n
    BY <1>1, CycleIsSeq
  <2>2. t = [p \in 1..n |-> IF p = 1 THEN s[2] ELSE IF p = 2 THEN s[1] ELSE s[p]]
    BY <2>1 DEF SwapFirstTwo
  <2>3. t \in [1..n -> 1..n]
    BY <2>1, <2>2, CycleIsSeq
  <2>4. \A p, q \in 1..n : t[p] = t[q] => p = q
    BY <2>1, <2>2, CycleIsSeq
  <2> QED
    BY <1>1, <2>3, <2>4 DEF WithoutRepeat, Permutations1, Injection, IsInjective
<1>2. CASE ~(Len(s) > 1 /\ s[1] = currentIndex)
  BY <1>2 DEF WithoutRepeat
<1> QED
  BY <1>1, <1>2

\* The first entry of the next cycle is not the entry that closed the last one.
LEMMA WithoutRepeatChangesFirst ==
    ASSUME NEW n \in Nat, n > 1, NEW s \in Permutations1(n)
    PROVE  WithoutRepeat(s)[1] # currentIndex
  BY CycleIsSeq DEF WithoutRepeat, SwapFirstTwo

\* Rebuilding the cycle restores its part of the invariant, whatever the entries,
\* the order and the current entry have become.
LEMMA RebuildRestoresCycle ==
    ASSUME tracks' \in Seq(Track), CurrentIsAnEntry', RebuildShuffleCycle
    PROVE  CycleMatchesQueue' /\ shuffleOrder' \in Seq(Nat) /\ shuffleCursor' \in Nat
<1> DEFINE n == Len(tracks')
<1>1. n \in Nat
  BY LenProperties
<1>2. CASE order' = "Shuffle" /\ currentIndex' # NoPosition
  <2>1. shuffleOrder' \in Permutations1(n) /\ shuffleOrder'[1] = currentIndex' /\ shuffleCursor' = 1
    BY <1>2 DEF RebuildShuffleCycle
  <2>2. tracks' # <<>> /\ currentIndex' \in 1..n
    BY <1>2 DEF CurrentIsAnEntry
  <2> QED
    BY <1>1, <1>2, <2>1, <2>2, CycleIsSeq DEF CycleMatchesQueue
<1>3. CASE order' # "Shuffle" \/ currentIndex' = NoPosition
  <2>1. shuffleOrder' = <<>> /\ shuffleCursor' = NoPosition
    BY <1>3 DEF RebuildShuffleCycle
  <2>2. order' # "Shuffle" \/ tracks' = <<>>
    BY <1>1, <1>3 DEF CurrentIsAnEntry, NoPosition
  <2> QED
    BY <2>1, <2>2 DEF CycleMatchesQueue, NoPosition
<1> QED
  BY <1>2, <1>3

\* A refused operation keeps whatever held.
LEMMA RefuseKeepsInv ==
    ASSUME QueueInv, NEW op \in Operations, NEW failure \in Failures, Refuse(op, failure)
    PROVE  QueueInv'
  BY DEF QueueInv, QueueTypeOK, CurrentIsAnEntry, CycleMatchesQueue, Refuse, content,
         Updates, CompletionActions, Wraps

\* Taking one element out leaves a sequence that is one shorter.
LEMMA RemovalShortens ==
    ASSUME NEW S, NEW s \in Seq(S), NEW i \in 1..Len(s)
    PROVE  /\ RemoveAt(s, i) \in Seq(S)
           /\ Len(RemoveAt(s, i)) = Len(s) - 1
<1>1. Len(s) \in Nat /\ \A p \in 1..Len(s) : s[p] \in S
  BY LenProperties, ElementOfSeq
<1>2. /\ SubSeq(s, 1, i-1) \in Seq(S)
      /\ Len(SubSeq(s, 1, i-1)) = i - 1
  <2>1. \A p \in 1..(i-1) : s[p] \in S
    BY <1>1
  <2>2. /\ SubSeq(s, 1, i-1) \in Seq(S)
        /\ Len(SubSeq(s, 1, i-1)) = IF 1 <= i-1 THEN (i-1)-1+1 ELSE 0
    BY <2>1, SubSeqProperties
  <2> QED
    BY <1>1, <2>2
<1>3. /\ SubSeq(s, i+1, Len(s)) \in Seq(S)
      /\ Len(SubSeq(s, i+1, Len(s))) = Len(s) - i
  <2>1. \A p \in (i+1)..Len(s) : s[p] \in S
    BY <1>1
  <2>2. /\ SubSeq(s, i+1, Len(s)) \in Seq(S)
        /\ Len(SubSeq(s, i+1, Len(s))) = IF i+1 <= Len(s) THEN Len(s)-(i+1)+1 ELSE 0
    BY <1>1, <2>1, SubSeqProperties
  <2> QED
    BY <1>1, <2>2
<1> DEFINE a == SubSeq(s, 1, i-1)
           b == SubSeq(s, i+1, Len(s))
<1>4. a \o b \in Seq(S) /\ Len(a \o b) = Len(a) + Len(b)
  <2> HIDE DEF a, b
  <2>1. a \in Seq(S) /\ b \in Seq(S)
    BY <1>2, <1>3 DEF a, b
  <2> QED
    BY <2>1, ConcatProperties
<1>5. RemoveAt(s, i) = a \o b
  BY DEF RemoveAt
<1>6. Len(a) + Len(b) = Len(s) - 1
  <2>1. i \in Int /\ Len(s) \in Int /\ (i - 1) + (Len(s) - i) = Len(s) - 1
    BY <1>1
  <2>2. Len(a) = i - 1 /\ Len(b) = Len(s) - i
    BY <1>2, <1>3
  <2> HIDE DEF a, b
  <2> QED
    BY <2>1, <2>2
<1> QED
  BY <1>4, <1>5, <1>6

(***************************************************************************)
(* Navigation.                                                             *)
(***************************************************************************)

\* What a step of the cursor or the index does to the queue without its answer.
NavigationTypes ==
    /\ tracks \in Seq(Track) /\ currentIndex \in Nat
    /\ order \in Orders /\ repeatMode \in RepeatModes
    /\ shuffleOrder \in Seq(Nat) /\ shuffleCursor \in Nat

\* Going to a position of the running cycle keeps the cycle.
LEMMA GoToCursorKeepsCycle ==
    ASSUME QueueInv, order = "Shuffle", tracks # <<>>, UNCHANGED <<tracks, order, repeatMode>>,
           NEW c \in 1..Len(tracks), GoToCursor(c)
    PROVE  NavigationTypes' /\ CurrentIsAnEntry' /\ CycleMatchesQueue'
<1>1. Len(tracks) \in Nat /\ shuffleOrder \in Permutations1(Len(tracks))
  BY LenProperties DEF QueueInv, QueueTypeOK, CycleMatchesQueue
<1>2. shuffleOrder[c] \in 1..Len(tracks)
  BY <1>1, CycleIsSeq
<1> QED
  BY <1>1, <1>2 DEF QueueInv, QueueTypeOK, GoToCursor, NavigationTypes, CurrentIsAnEntry,
                    CycleMatchesQueue

\* Drawing the next cycle leaves a cycle that starts at the current entry.
LEMMA NextCycleKeepsCycle ==
    ASSUME QueueInv, order = "Shuffle", tracks # <<>>, UNCHANGED <<tracks, order, repeatMode>>,
           StartNextShuffleCycle
    PROVE  /\ NavigationTypes' /\ CurrentIsAnEntry' /\ CycleMatchesQueue'
           /\ Len(tracks) > 1 => currentIndex' # currentIndex
<1>1. Len(tracks) \in Nat /\ Len(tracks) > 0
  BY EmptySeq, LenProperties DEF QueueInv, QueueTypeOK
<1>2. PICK s \in Permutations1(Len(tracks)) : shuffleOrder' = WithoutRepeat(s)
  BY DEF StartNextShuffleCycle
<1>3. shuffleOrder' \in Permutations1(Len(tracks))
  BY <1>1, <1>2, WithoutRepeatIsCycle
<1>4. shuffleOrder'[1] \in 1..Len(tracks) /\ shuffleOrder' \in Seq(Nat)
  BY <1>1, <1>3, CycleIsSeq
<1>5. Len(tracks) > 1 => currentIndex' # currentIndex
  BY <1>1, <1>2, WithoutRepeatChangesFirst DEF StartNextShuffleCycle
<1> QED
  BY <1>1, <1>3, <1>4, <1>5 DEF QueueInv, QueueTypeOK, StartNextShuffleCycle, NavigationTypes,
                          CurrentIsAnEntry, CycleMatchesQueue

\* advance() keeps the invariant, answers TRUE exactly when has_next() did, and
\* moves to another entry when there is one.
LEMMA AdvanceFacts ==
    ASSUME QueueInv, NEW moved \in BOOLEAN, AdvanceQueue(moved)
    PROVE  /\ NavigationTypes' /\ CurrentIsAnEntry' /\ CycleMatchesQueue'
           /\ moved <=> HasNext
           /\ moved => currentIndex' # NoPosition
           /\ moved /\ Len(tracks) > 1 => currentIndex' # currentIndex
<1> USE DEF NoPosition
<1>1. Len(tracks) \in Nat /\ (tracks # <<>> => Len(tracks) > 0) /\ (tracks = <<>> => Len(tracks) = 0)
  BY EmptySeq, LenProperties DEF QueueInv, QueueTypeOK
<1>2. CASE tracks = <<>>
  <2>1. ~moved /\ Stay /\ UNCHANGED <<tracks, order, repeatMode>>
    BY <1>2 DEF AdvanceQueue
  <2>2. ~HasNext
    BY <1>2 DEF HasNext, Wraps, QueueInv, CurrentIsAnEntry, CycleMatchesQueue
  <2> QED
    BY <2>1, <2>2 DEF QueueInv, QueueTypeOK, Stay, NavigationTypes, CurrentIsAnEntry, CycleMatchesQueue
<1>3. CASE tracks # <<>> /\ order = "Sequential"
  <2>1. AdvanceSequential(moved) /\ UNCHANGED <<tracks, order, repeatMode>>
    BY <1>3 DEF AdvanceQueue
  <2>2. currentIndex \in 1..Len(tracks)
    BY <1>3 DEF QueueInv, CurrentIsAnEntry
  <2>3. /\ currentIndex' \in 1..Len(tracks)
        /\ moved <=> currentIndex < Len(tracks) \/ repeatMode = "All"
        /\ moved /\ Len(tracks) > 1 => currentIndex' # currentIndex
    BY <1>1, <1>3, <2>1, <2>2 DEF AdvanceSequential
  <2>4. moved <=> HasNext
    BY <1>3, <2>2, <2>3 DEF HasNext, Wraps
  <2>5. UNCHANGED <<shuffleOrder, shuffleCursor>>
    BY <2>1 DEF AdvanceSequential
  <2> QED
    BY <1>1, <1>3, <2>1, <2>3, <2>4, <2>5 DEF QueueInv, QueueTypeOK, NavigationTypes,
       CurrentIsAnEntry, CycleMatchesQueue
<1>4. CASE tracks # <<>> /\ order = "Shuffle"
  <2>1. AdvanceShuffle(moved) /\ UNCHANGED <<tracks, order, repeatMode>>
    BY <1>4 DEF AdvanceQueue
  <2>2. /\ shuffleOrder \in Permutations1(Len(tracks))
        /\ shuffleCursor \in 1..Len(tracks)
        /\ shuffleOrder[shuffleCursor] = currentIndex
    BY <1>4 DEF QueueInv, CycleMatchesQueue
  <2>3. Len(shuffleOrder) = Len(tracks)
    BY <1>1, <2>2, CycleIsSeq
  <2>4. HasNext <=> shuffleCursor < Len(tracks) \/ repeatMode = "All"
    BY <1>4, <2>2, <2>3 DEF HasNext, Wraps
  <2>5. CASE shuffleCursor < Len(tracks)
    <3>1. moved /\ GoToCursor(shuffleCursor + 1) /\ shuffleCursor + 1 \in 1..Len(tracks)
      BY <1>1, <2>1, <2>2, <2>3, <2>5 DEF AdvanceShuffle
    <3>2. NavigationTypes' /\ CurrentIsAnEntry' /\ CycleMatchesQueue'
      BY <1>4, <2>1, <3>1, GoToCursorKeepsCycle
    <3>3. currentIndex' = shuffleOrder[shuffleCursor + 1]
      BY <3>1 DEF GoToCursor
    <3>4. currentIndex' # currentIndex /\ currentIndex' # NoPosition
      BY <1>1, <2>2, <3>1, <3>3, CycleIsSeq
    <3> QED
      BY <2>4, <2>5, <3>1, <3>2, <3>4
  <2>6. CASE shuffleCursor >= Len(tracks) /\ repeatMode = "All"
    <3>1. moved /\ StartNextShuffleCycle
      BY <1>1, <2>1, <2>2, <2>3, <2>6 DEF AdvanceShuffle
    <3>2. /\ NavigationTypes' /\ CurrentIsAnEntry' /\ CycleMatchesQueue'
          /\ Len(tracks) > 1 => currentIndex' # currentIndex
      BY <1>4, <2>1, <3>1, NextCycleKeepsCycle
    <3>3. currentIndex' # NoPosition
      BY <1>1, <1>4, <2>1, <3>2 DEF CurrentIsAnEntry
    <3> QED
      BY <2>4, <2>6, <3>1, <3>2, <3>3
  <2>7. CASE shuffleCursor >= Len(tracks) /\ repeatMode # "All"
    <3>1. ~moved /\ Stay
      BY <1>1, <2>1, <2>2, <2>3, <2>7 DEF AdvanceShuffle
    <3> QED
      BY <1>1, <2>1, <2>2, <2>4, <2>7, <3>1 DEF QueueInv, QueueTypeOK, Stay, NavigationTypes,
         CurrentIsAnEntry, CycleMatchesQueue
  <2> QED
    BY <1>1, <2>2, <2>5, <2>6, <2>7
<1> QED
  BY <1>2, <1>3, <1>4 DEF QueueInv, QueueTypeOK, Orders

\* A valid batch is a sequence of tracks.
LEMMA BatchIsSeq ==
    ASSUME NEW batch \in Batch, Valid(batch)
    PROVE  batch \in Seq(Track) /\ Len(batch) \in Nat
<1>1. PICK n \in 0..MaxBatch : batch \in [1..n -> Track \cup {InvalidTrack}]
  BY DEF Batch, BoundedSeq, SeqOf
<1>2. batch \in [1..n -> Track]
  BY <1>1 DEF Valid
<1> QED
  BY <1>1, <1>2, IsASeq, LenProperties, BoundsAssumption

\* rewind() keeps the invariant, answers TRUE exactly when has_previous() did, and
\* moves to another entry when there is one.
LEMMA RewindFacts ==
    ASSUME QueueInv, NEW moved \in BOOLEAN, RewindQueue(moved)
    PROVE  /\ NavigationTypes' /\ CurrentIsAnEntry' /\ CycleMatchesQueue'
           /\ moved <=> HasPrevious
           /\ moved /\ Len(tracks) > 1 => currentIndex' # currentIndex
<1> USE DEF NoPosition
<1>1. Len(tracks) \in Nat /\ (tracks # <<>> => Len(tracks) > 0) /\ (tracks = <<>> => Len(tracks) = 0)
  BY EmptySeq, LenProperties DEF QueueInv, QueueTypeOK
<1>2. CASE tracks = <<>>
  <2>1. ~moved /\ Stay /\ UNCHANGED <<tracks, order, repeatMode>>
    BY <1>2 DEF RewindQueue
  <2>2. ~HasPrevious
    BY <1>2 DEF HasPrevious, Wraps, QueueInv, CurrentIsAnEntry, CycleMatchesQueue
  <2> QED
    BY <2>1, <2>2 DEF QueueInv, QueueTypeOK, Stay, NavigationTypes, CurrentIsAnEntry, CycleMatchesQueue
<1>3. CASE tracks # <<>> /\ order = "Sequential"
  <2>1. RewindSequential(moved) /\ UNCHANGED <<tracks, order, repeatMode>>
    BY <1>3 DEF RewindQueue
  <2>2. currentIndex \in 1..Len(tracks)
    BY <1>3 DEF QueueInv, CurrentIsAnEntry
  <2>3. /\ currentIndex' \in 1..Len(tracks)
        /\ moved <=> currentIndex > 1 \/ repeatMode = "All"
        /\ moved /\ Len(tracks) > 1 => currentIndex' # currentIndex
    BY <1>1, <1>3, <2>1, <2>2 DEF RewindSequential
  <2>4. moved <=> HasPrevious
    BY <1>3, <2>2, <2>3 DEF HasPrevious, Wraps
  <2>5. UNCHANGED <<shuffleOrder, shuffleCursor>>
    BY <2>1 DEF RewindSequential
  <2> QED
    BY <1>1, <1>3, <2>1, <2>3, <2>4, <2>5 DEF QueueInv, QueueTypeOK, NavigationTypes,
       CurrentIsAnEntry, CycleMatchesQueue
<1>4. CASE tracks # <<>> /\ order = "Shuffle"
  <2>1. RewindShuffle(moved) /\ UNCHANGED <<tracks, order, repeatMode>>
    BY <1>4 DEF RewindQueue
  <2>2. /\ shuffleOrder \in Permutations1(Len(tracks))
        /\ shuffleCursor \in 1..Len(tracks)
        /\ shuffleOrder[shuffleCursor] = currentIndex
    BY <1>4 DEF QueueInv, CycleMatchesQueue
  <2>3. Len(shuffleOrder) = Len(tracks)
    BY <1>1, <2>2, CycleIsSeq
  <2>4. HasPrevious <=> shuffleCursor > 1 \/ repeatMode = "All"
    BY <1>4, <2>2, <2>3 DEF HasPrevious, Wraps
  <2>5. CASE moved
    <3>1. PICK c \in 1..Len(tracks) : GoToCursor(c) /\ (Len(tracks) > 1 => c # shuffleCursor)
      BY <1>1, <1>4, <2>1, <2>2, <2>3, <2>5 DEF RewindShuffle
    <3>2. NavigationTypes' /\ CurrentIsAnEntry' /\ CycleMatchesQueue'
      BY <1>4, <2>1, <3>1, GoToCursorKeepsCycle
    <3>3. currentIndex' = shuffleOrder[c]
      BY <3>1 DEF GoToCursor
    <3>4. Len(tracks) > 1 => currentIndex' # currentIndex
      BY <1>1, <2>2, <3>1, <3>3, CycleIsSeq
    <3>5. HasPrevious
      BY <2>1, <2>2, <2>4, <2>5 DEF RewindShuffle
    <3> QED
      BY <2>5, <3>2, <3>4, <3>5
  <2>6. CASE ~moved
    <3>1. Stay /\ ~(shuffleCursor > 1) /\ repeatMode # "All"
      BY <1>1, <2>1, <2>2, <2>6 DEF RewindShuffle
    <3> QED
      BY <2>1, <2>2, <2>4, <2>6, <3>1 DEF QueueInv, QueueTypeOK, Stay, NavigationTypes,
         CurrentIsAnEntry, CycleMatchesQueue
  <2> QED
    BY <2>5, <2>6
<1> QED
  BY <1>2, <1>3, <1>4 DEF QueueInv, QueueTypeOK, Orders

(***************************************************************************)
(* Every operation keeps the invariant.                                    *)
(***************************************************************************)

\* The answers are well typed.
LEMMA AnswerIsUpdate ==
    ASSUME NEW op \in Operations, NEW requested \in BOOLEAN, Answer(op, requested)
    PROVE  update' \in Updates
  BY DEF Answer, Updates, CompletionActions, Failures

LEMMA AnswerCompletionIsUpdate ==
    ASSUME NEW action \in CompletionActions, AnswerCompletion(action)
    PROVE  update' \in Updates
<1> DEFINE requested == action # "None"
<1>1. requested \in BOOLEAN
  OBVIOUS
<1>2. update' = [op |-> "complete", playbackRequested |-> requested,
                 completionAction |-> action, failure |-> "none"]
  BY DEF AnswerCompletion
<1> HIDE DEF requested
<1> QED
  BY <1>1, <1>2 DEF Updates, Operations, Failures

\* replace() keeps the invariant.
LEMMA ReplaceKeepsInv ==
    ASSUME QueueInv, NEW batch, Valid(batch) => batch \in Seq(Track),
           NEW index \in Nat, Replace(batch, index)
    PROVE  QueueInv'
<1>1. CASE \E f \in Failures : Refuse("replace", f)
  BY <1>1, RefuseKeepsInv DEF Operations
<1>2. CASE Valid(batch) /\ ValidPosition(Len(batch), index) /\ ~\E f \in Failures : Refuse("replace", f)
  <2>1. /\ tracks' = batch /\ currentIndex' = index /\ UNCHANGED <<order, repeatMode>>
        /\ RebuildShuffleCycle /\ Answer("replace", tracks # <<>> \/ batch # <<>>)
    BY <1>2 DEF Replace, Failures
  <2>2. batch \in Seq(Track) /\ Len(batch) \in Nat
    BY <1>2, LenProperties
  <2>3. CurrentIsAnEntry'
    BY <1>2, <2>1, <2>2, EmptySeq DEF CurrentIsAnEntry, ValidPosition
  <2>4. CycleMatchesQueue' /\ shuffleOrder' \in Seq(Nat) /\ shuffleCursor' \in Nat
    BY <2>1, <2>2, <2>3, RebuildRestoresCycle
  <2>5. update' \in Updates
    BY <2>1, AnswerIsUpdate DEF Operations
  <2> QED
    BY <2>1, <2>2, <2>3, <2>4, <2>5 DEF QueueInv, QueueTypeOK
<1> QED
  BY <1>1, <1>2 DEF Replace, Failures

\* The part that push() and extend() share keeps the invariant.
LEMMA AppendKeepsInv ==
    ASSUME QueueInv, NEW op \in Operations, NEW batch \in Seq(Track), batch # <<>>,
           AppendEntries(op, batch)
    PROVE  QueueInv'
<1>1. /\ tracks' \in Seq(Track) /\ Len(tracks') = Len(tracks) + Len(batch)
      /\ Len(batch) \in Nat /\ Len(batch) > 0 /\ Len(tracks) \in Nat
  BY ConcatProperties, LenProperties, EmptySeq DEF AppendEntries, QueueInv, QueueTypeOK
<1>2. CurrentIsAnEntry' /\ currentIndex' \in Nat
  BY <1>1, EmptySeq DEF AppendEntries, QueueInv, QueueTypeOK, CurrentIsAnEntry, NoPosition
<1>3. CycleMatchesQueue' /\ shuffleOrder' \in Seq(Nat) /\ shuffleCursor' \in Nat
  BY <1>1, <1>2, RebuildRestoresCycle DEF AppendEntries
<1>4. update' \in Updates
  BY AnswerIsUpdate DEF AppendEntries
<1> QED
  BY <1>1, <1>2, <1>3, <1>4 DEF QueueInv, QueueTypeOK, AppendEntries

\* extend_and_advance_from_terminal() keeps the invariant.
LEMMA ContinueKeepsInv ==
    ASSUME QueueInv, NEW batch, Valid(batch) => batch \in Seq(Track),
           ExtendAndAdvanceFromTerminal(batch)
    PROVE  QueueInv'
<1>1. CASE \E f \in Failures : Refuse("continue", f)
  BY <1>1, RefuseKeepsInv DEF Operations
<1>2. CASE ~\E f \in Failures : Refuse("continue", f)
  <2>1. /\ Valid(batch) /\ batch # <<>>
        /\ tracks' = tracks \o batch /\ currentIndex' = Len(tracks) + 1
        /\ UNCHANGED <<order, repeatMode>>
        /\ RebuildShuffleCycle /\ Answer("continue", TRUE)
    BY <1>2 DEF ExtendAndAdvanceFromTerminal, Failures
  <2>2. batch \in Seq(Track)
    BY <2>1
  <2>3. /\ tracks' \in Seq(Track) /\ Len(tracks') = Len(tracks) + Len(batch)
        /\ Len(batch) \in Nat /\ Len(batch) > 0 /\ Len(tracks) \in Nat
    BY <2>1, <2>2, ConcatProperties, LenProperties, EmptySeq DEF QueueInv, QueueTypeOK
  <2>4. CurrentIsAnEntry' /\ currentIndex' \in Nat
    BY <2>1, <2>3, EmptySeq DEF CurrentIsAnEntry
  <2>5. CycleMatchesQueue' /\ shuffleOrder' \in Seq(Nat) /\ shuffleCursor' \in Nat
    BY <2>1, <2>3, <2>4, RebuildRestoresCycle
  <2>6. update' \in Updates
    BY <2>1, AnswerIsUpdate DEF Operations
  <2> QED
    BY <2>1, <2>3, <2>4, <2>5, <2>6 DEF QueueInv, QueueTypeOK
<1> QED
  BY <1>1, <1>2

\* remove() keeps the invariant.
LEMMA RemoveKeepsInv ==
    ASSUME QueueInv, NEW index \in Nat, RemoveEntry(index)
    PROVE  QueueInv'
<1>1. CASE Refuse("remove", "InvalidPosition")
  BY <1>1, RefuseKeepsInv DEF Operations, Failures
<1>2. CASE ~Refuse("remove", "InvalidPosition")
  <2> DEFINE n == Len(tracks)
  <2>1. /\ index \in 1..n /\ tracks' = RemoveAt(tracks, index)
        /\ currentIndex' = CurrentAfterRemoval(index, n - 1)
        /\ UNCHANGED <<order, repeatMode>>
        /\ RebuildShuffleCycle /\ Answer("remove", index = currentIndex)
    BY <1>2 DEF RemoveEntry
  <2>2. tracks \in Seq(Track) /\ n \in Nat /\ n > 0 /\ tracks # <<>>
    BY <2>1, LenProperties, EmptySeq DEF QueueInv, QueueTypeOK
  <2>3. tracks' \in Seq(Track) /\ Len(tracks') = n - 1
    BY <2>1, <2>2, RemovalShortens
  <2>4. currentIndex \in 1..n
    BY <2>2 DEF QueueInv, CurrentIsAnEntry
  <2>5. IF n - 1 = 0 THEN currentIndex' = NoPosition ELSE currentIndex' \in 1..(n - 1)
    <3>1. currentIndex' = IF n - 1 = 0 THEN NoPosition
                          ELSE IF index < currentIndex THEN currentIndex - 1
                          ELSE IF index > currentIndex THEN currentIndex
                          ELSE IF index <= n - 1 THEN index ELSE n - 1
      BY <2>1 DEF CurrentAfterRemoval
    <3>2. index \in 1..n
      BY <2>1
    <3> HIDE DEF n
    <3> QED
      BY <2>2, <2>4, <3>1, <3>2
  <2>6. tracks' = <<>> <=> n - 1 = 0
    BY <2>2, <2>3, EmptySeq
  <2>7. CurrentIsAnEntry' /\ currentIndex' \in Nat
    BY <2>2, <2>3, <2>5, <2>6 DEF CurrentIsAnEntry, NoPosition
  <2>8. CycleMatchesQueue' /\ shuffleOrder' \in Seq(Nat) /\ shuffleCursor' \in Nat
    BY <2>1, <2>3, <2>7, RebuildRestoresCycle
  <2>9. update' \in Updates
    BY <2>1, AnswerIsUpdate DEF Operations
  <2> QED
    BY <2>1, <2>3, <2>7, <2>8, <2>9 DEF QueueInv, QueueTypeOK
<1> QED
  BY <1>1, <1>2

\* set_order() and select() rebuild the cycle only when something changed.
LEMMA SetOrderKeepsInv ==
    ASSUME QueueInv, NEW o \in Orders, SetOrder(o)
    PROVE  QueueInv'
<1>1. update' \in Updates
  BY AnswerIsUpdate DEF SetOrder, Operations
<1>2. tracks' \in Seq(Track) /\ CurrentIsAnEntry' /\ currentIndex' \in Nat
  BY DEF SetOrder, QueueInv, QueueTypeOK, CurrentIsAnEntry
<1>3. CycleMatchesQueue' /\ shuffleOrder' \in Seq(Nat) /\ shuffleCursor' \in Nat
  <2>1. CASE o = order
    BY <2>1 DEF SetOrder, QueueInv, QueueTypeOK, CycleMatchesQueue
  <2>2. CASE o # order
    BY <2>2, <1>2, RebuildRestoresCycle DEF SetOrder
  <2> QED
    BY <2>1, <2>2
<1> QED
  BY <1>1, <1>2, <1>3 DEF SetOrder, QueueInv, QueueTypeOK

\* select() keeps the invariant.
LEMMA SelectKeepsInv ==
    ASSUME QueueInv, NEW index \in Nat, Select(index)
    PROVE  QueueInv'
<1>1. CASE Refuse("select", "InvalidPosition")
  BY <1>1, RefuseKeepsInv DEF Operations, Failures
<1>2. CASE ~Refuse("select", "InvalidPosition")
  <2>1. update' \in Updates
    BY <1>2, AnswerIsUpdate DEF Select, Operations
  <2>2. Len(tracks) \in Nat /\ index \in 1..Len(tracks)
    BY <1>2, LenProperties DEF Select, QueueInv, QueueTypeOK
  <2>3. tracks' \in Seq(Track) /\ CurrentIsAnEntry' /\ currentIndex' \in Nat
    BY <1>2, <2>2, EmptySeq DEF Select, QueueInv, QueueTypeOK, CurrentIsAnEntry
  <2>4. CycleMatchesQueue' /\ shuffleOrder' \in Seq(Nat) /\ shuffleCursor' \in Nat
    <3>1. CASE index = currentIndex
      BY <1>2, <3>1 DEF Select, QueueInv, QueueTypeOK, CycleMatchesQueue
    <3>2. CASE index # currentIndex
      BY <1>2, <3>2, <2>3, RebuildRestoresCycle DEF Select
    <3> QED
      BY <3>1, <3>2
  <2> QED
    BY <1>2, <2>1, <2>3, <2>4 DEF Select, QueueInv, QueueTypeOK
<1> QED
  BY <1>1, <1>2

\* A completion keeps the invariant.
LEMMA CompleteKeepsInv ==
    ASSUME QueueInv, CompleteCurrent
    PROVE  QueueInv'
<1>1. CASE UNCHANGED content /\ AnswerCompletion("ReplayCurrent")
  BY <1>1, AnswerCompletionIsUpdate DEF content, CompletionActions, QueueInv, QueueTypeOK,
     CurrentIsAnEntry, CycleMatchesQueue
<1>2. ASSUME NEW moved \in BOOLEAN, AdvanceQueue(moved),
             AnswerCompletion(IF moved THEN "PlayCurrent" ELSE "None")
      PROVE  QueueInv'
  BY <1>2, AdvanceFacts, AnswerCompletionIsUpdate DEF CompletionActions, QueueInv, QueueTypeOK, NavigationTypes
<1> QED
  BY <1>1, <1>2 DEF CompleteCurrent

\* advance() and rewind() keep the invariant.
LEMMA NavigationKeepsInv ==
    ASSUME QueueInv, Advance \/ Rewind
    PROVE  QueueInv'
<1>1. ASSUME NEW moved \in BOOLEAN, AdvanceQueue(moved), Answer("advance", moved)
      PROVE  QueueInv'
  BY <1>1, AdvanceFacts, AnswerIsUpdate DEF Operations, QueueInv, QueueTypeOK, NavigationTypes
<1>2. ASSUME NEW moved \in BOOLEAN, RewindQueue(moved), Answer("rewind", moved)
      PROVE  QueueInv'
  BY <1>2, RewindFacts, AnswerIsUpdate DEF Operations, QueueInv, QueueTypeOK, NavigationTypes
<1> QED
  BY <1>1, <1>2 DEF Advance, Rewind

\* push() and extend() keep the invariant.
LEMMA PushKeepsInv ==
    ASSUME QueueInv, NEW track, Push(track)
    PROVE  QueueInv'
<1>1. CASE Refuse("push", "InvalidTrack")
  BY <1>1, RefuseKeepsInv DEF Operations, Failures
<1>2. CASE track \in Track /\ AppendEntries("push", <<track>>)
  <2>1. <<track>> \in Seq(Track) /\ <<track>> # <<>>
    BY <1>2
  <2> QED
    BY <1>2, <2>1, AppendKeepsInv DEF Operations
<1> QED
  BY <1>1, <1>2 DEF Push

LEMMA ExtendKeepsInv ==
    ASSUME QueueInv, NEW batch, Valid(batch) => batch \in Seq(Track), Extend(batch)
    PROVE  QueueInv'
<1>1. CASE \E f \in Failures : Refuse("extend", f)
  BY <1>1, RefuseKeepsInv DEF Operations
<1>2. CASE Valid(batch) /\ batch # <<>> /\ AppendEntries("extend", batch)
  BY <1>2, AppendKeepsInv DEF Operations
<1> QED
  BY <1>1, <1>2 DEF Extend, Failures

\* set_repeat_mode() and clear() keep the invariant.
LEMMA PlainSettersKeepInv ==
    ASSUME QueueInv, (\E mode \in RepeatModes : SetRepeatMode(mode)) \/ Clear
    PROVE  QueueInv'
<1>1. ASSUME NEW mode \in RepeatModes, SetRepeatMode(mode)
      PROVE  QueueInv'
  BY <1>1, AnswerIsUpdate DEF SetRepeatMode, Operations, QueueInv, QueueTypeOK, CurrentIsAnEntry,
     CycleMatchesQueue
<1>2. CASE Clear
  <2>1. update' \in Updates
    BY <1>2, AnswerIsUpdate DEF Clear, Operations
  <2> QED
    BY <1>2, <2>1 DEF Clear, QueueInv, QueueTypeOK, CurrentIsAnEntry, CycleMatchesQueue, NoPosition
<1> QED
  BY <1>1, <1>2

\* Every step keeps the invariant.
LEMMA NextKeepsInv ==
    ASSUME QueueInv, [QueueNext]_qvars
    PROVE  QueueInv'
<1>1. ASSUME NEW batch \in Batch, NEW index \in 0..(MaxLength + 1), Replace(batch, index)
      PROVE  QueueInv'
  <2>1. index \in Nat
    BY BoundsAssumption
  <2> QED
    BY <1>1, <2>1, BatchIsSeq, ReplaceKeepsInv
<1>2. ASSUME NEW o \in Orders, SetOrder(o)
      PROVE  QueueInv'
  BY <1>2, SetOrderKeepsInv
<1>3. CASE \E mode \in RepeatModes : SetRepeatMode(mode)
  BY <1>3, PlainSettersKeepInv
<1>4. ASSUME NEW index \in 1..(MaxLength + 1), Select(index)
      PROVE  QueueInv'
  BY <1>4, SelectKeepsInv
<1>5. CASE Advance \/ Rewind
  BY <1>5, NavigationKeepsInv
<1>6. CASE CompleteCurrent
  BY <1>6, CompleteKeepsInv
<1>7. ASSUME NEW track \in Track \cup {InvalidTrack}, Push(track)
      PROVE  QueueInv'
  BY <1>7, PushKeepsInv
<1>8. ASSUME NEW batch \in Batch, Extend(batch) \/ ExtendAndAdvanceFromTerminal(batch)
      PROVE  QueueInv'
  BY <1>8, BatchIsSeq, ExtendKeepsInv, ContinueKeepsInv
<1>9. ASSUME NEW index \in 1..(MaxLength + 1), RemoveEntry(index)
      PROVE  QueueInv'
  BY <1>9, RemoveKeepsInv
<1>10. CASE Clear
  BY <1>10, PlainSettersKeepInv
<1>11. CASE UNCHANGED qvars
  BY <1>11 DEF qvars, QueueInv, QueueTypeOK, CurrentIsAnEntry, CycleMatchesQueue
<1> QED
  BY <1>1, <1>2, <1>3, <1>4, <1>5, <1>6, <1>7, <1>8, <1>9, <1>10, <1>11 DEF QueueNext

\* A new queue satisfies the invariant.
LEMMA CreateEstablishesInv == Create => QueueInv
  BY DEF Create, QueueInv, QueueTypeOK, CurrentIsAnEntry, CycleMatchesQueue, NoPosition, Orders,
     RepeatModes, Updates, Operations, CompletionActions, Failures

\* Only advance() answers as "advance", and only rewind() as "rewind".
LEMMA OtherAnswers ==
    ASSUME QueueNext, ~Advance, ~Rewind
    PROVE  /\ update'.op \notin {"advance", "rewind"}
           /\ update'.completionAction = "PlayCurrent" => CompleteCurrent
<1> USE DEF Answer, Refuse
<1>1. ASSUME NEW batch, NEW index, Replace(batch, index)
      PROVE  update'.op \notin {"advance", "rewind"} /\ update'.completionAction # "PlayCurrent"
  BY <1>1 DEF Replace
<1>2. ASSUME NEW o, SetOrder(o) \/ SetRepeatMode(o)
      PROVE  update'.op \notin {"advance", "rewind"} /\ update'.completionAction # "PlayCurrent"
  BY <1>2 DEF SetOrder, SetRepeatMode
<1>3. ASSUME NEW index, Select(index) \/ RemoveEntry(index)
      PROVE  update'.op \notin {"advance", "rewind"} /\ update'.completionAction # "PlayCurrent"
  BY <1>3 DEF Select, RemoveEntry
<1>4. CASE CompleteCurrent
  BY <1>4 DEF CompleteCurrent, AnswerCompletion
<1>5. ASSUME NEW batch, Push(batch) \/ Extend(batch) \/ ExtendAndAdvanceFromTerminal(batch)
      PROVE  update'.op \notin {"advance", "rewind"} /\ update'.completionAction # "PlayCurrent"
  BY <1>5 DEF Push, Extend, ExtendAndAdvanceFromTerminal, AppendEntries
<1>6. CASE Clear
  BY <1>6 DEF Clear
<1> HIDE DEF Answer, Refuse
<1> QED
  BY <1>1, <1>2, <1>3, <1>4, <1>5, <1>6 DEF QueueNext

\* Only a completion answers with a completion action.
LEMMA OnlyCompletionHasAction ==
    ASSUME QueueNext, ~CompleteCurrent
    PROVE  update'.completionAction = "absent"
<1> USE DEF Answer, Refuse
<1>1. ASSUME NEW batch, NEW index, Replace(batch, index)
      PROVE  update'.completionAction = "absent"
  BY <1>1 DEF Replace
<1>2. ASSUME NEW o, SetOrder(o) \/ SetRepeatMode(o)
      PROVE  update'.completionAction = "absent"
  BY <1>2 DEF SetOrder, SetRepeatMode
<1>3. ASSUME NEW index, Select(index) \/ RemoveEntry(index)
      PROVE  update'.completionAction = "absent"
  BY <1>3 DEF Select, RemoveEntry
<1>4. CASE Advance \/ Rewind
  BY <1>4 DEF Advance, Rewind
<1>5. ASSUME NEW batch, Push(batch) \/ Extend(batch) \/ ExtendAndAdvanceFromTerminal(batch)
      PROVE  update'.completionAction = "absent"
  BY <1>5 DEF Push, Extend, ExtendAndAdvanceFromTerminal, AppendEntries
<1>6. CASE Clear
  BY <1>6 DEF Clear
<1> HIDE DEF Answer, Refuse
<1> QED
  BY <1>1, <1>2, <1>3, <1>4, <1>5, <1>6 DEF QueueNext

(***************************************************************************)
(* Theorems.                                                               *)
(***************************************************************************)

\* The invariant holds of every queue that any sequence of operations produces.
THEOREM QueueInvariant == QueueSpec => []QueueInv
  BY CreateEstablishesInv, NextKeepsInv, PTL DEF QueueSpec

\* The type invariant (the Rust types of the queue's fields).
THEOREM QueueTypes == QueueSpec => []QueueTypeOK
<1>1. QueueInv => QueueTypeOK
  BY DEF QueueInv
<1> QED
  BY <1>1, QueueInvariant, PTL

\* current() never indexes out of bounds: a queue with entries has a current one.
THEOREM CurrentAlwaysValid == QueueSpec => []CurrentIsAnEntry
<1>1. QueueInv => CurrentIsAnEntry
  BY DEF QueueInv
<1> QED
  BY <1>1, QueueInvariant, PTL

\* No expect() of the shuffle code can panic, for any length of queue and any
\* stream of random numbers.
THEOREM ShuffleNeverPanics == QueueSpec => []CycleMatchesQueue
<1>1. QueueInv => CycleMatchesQueue
  BY DEF QueueInv
<1> QED
  BY <1>1, QueueInvariant, PTL

\* has_next() and has_previous() predict what advance() and rewind() do.
THEOREM AnnouncedNavigation == QueueSpec => NavigationAsAnnounced
<1>1. QueueInv /\ [QueueNext]_qvars =>
          [/\ update'.op = "advance" => (update'.playbackRequested <=> HasNext)
           /\ update'.op = "rewind" => (update'.playbackRequested <=> HasPrevious)]_qvars
  <2> SUFFICES ASSUME QueueInv, QueueNext
               PROVE  /\ update'.op = "advance" => (update'.playbackRequested <=> HasNext)
                      /\ update'.op = "rewind" => (update'.playbackRequested <=> HasPrevious)
    OBVIOUS
  <2>1. CASE Advance
    <3>1. PICK moved \in BOOLEAN : AdvanceQueue(moved) /\ Answer("advance", moved)
      BY <2>1 DEF Advance
    <3> QED
      BY <3>1, AdvanceFacts DEF Answer
  <2>2. CASE Rewind
    <3>1. PICK moved \in BOOLEAN : RewindQueue(moved) /\ Answer("rewind", moved)
      BY <2>2 DEF Rewind
    <3> QED
      BY <3>1, RewindFacts DEF Answer
  <2>3. CASE ~Advance /\ ~Rewind
    <3>1. update'.op # "advance" /\ update'.op # "rewind"
      BY <2>3, OtherAnswers
    <3> QED
      BY <3>1
  <2> QED
    BY <2>1, <2>2, <2>3
<1> QED
  BY <1>1, QueueInvariant, PTL DEF QueueSpec, NavigationAsAnnounced

\* An entry never follows itself while the queue has another one.
THEOREM NeverReplaysAtOnce == QueueSpec => NoImmediateReplay
<1> DEFINE Navigated == /\ update'.op \in {"advance", "rewind"} \/ update'.completionAction = "PlayCurrent"
                        /\ update'.playbackRequested
                        /\ Len(tracks) > 1
<1>1. QueueInv /\ [QueueNext]_qvars => [Navigated => currentIndex' # currentIndex]_qvars
  <2> SUFFICES ASSUME QueueInv, QueueNext, Navigated
               PROVE  currentIndex' # currentIndex
    OBVIOUS
  <2>1. CASE Advance
    <3>1. PICK moved \in BOOLEAN : AdvanceQueue(moved) /\ Answer("advance", moved)
      BY <2>1 DEF Advance
    <3> QED
      BY <3>1, AdvanceFacts DEF Answer
  <2>2. CASE Rewind
    <3>1. PICK moved \in BOOLEAN : RewindQueue(moved) /\ Answer("rewind", moved)
      BY <2>2 DEF Rewind
    <3> QED
      BY <3>1, RewindFacts DEF Answer
  <2>3. CASE ~Advance /\ ~Rewind
    <3>1. CompleteCurrent /\ update'.completionAction = "PlayCurrent"
      BY <2>3, OtherAnswers
    <3>2. PICK moved \in BOOLEAN :
               AdvanceQueue(moved) /\ AnswerCompletion(IF moved THEN "PlayCurrent" ELSE "None")
      BY <3>1 DEF CompleteCurrent, AnswerCompletion
    <3>3. moved
      BY <3>1, <3>2 DEF AnswerCompletion
    <3> QED
      BY <3>2, <3>3, AdvanceFacts
  <2> QED
    BY <2>1, <2>2, <2>3
<1> QED
  BY <1>1, QueueInvariant, PTL DEF QueueSpec, NoImmediateReplay

(***************************************************************************)
(* The Dart gateway.                                                       *)
(***************************************************************************)

\* A consistent queue passes the checks on the snapshot's content.
LEMMA InvImpliesSnapshotAccepted ==
    ASSUME QueueInv
    PROVE  ValidEmpty \/ ValidContent
<1>1. Len(tracks) \in Nat /\ (tracks # <<>> => Len(tracks) > 0)
  BY EmptySeq, LenProperties DEF QueueInv, QueueTypeOK
<1>2. CASE tracks = <<>>
  BY <1>2 DEF ValidEmpty, HasPrevious, HasNext, Wraps, QueueInv, CurrentIsAnEntry,
              CycleMatchesQueue, NoPosition
<1>3. CASE tracks # <<>> /\ order = "Sequential"
  BY <1>1, <1>3 DEF ValidContent, ExpectedSequentialNavigation, HasPrevious, HasNext, Wraps,
                    QueueInv, CurrentIsAnEntry, NoPosition
<1>4. CASE tracks # <<>> /\ order = "Shuffle"
  <2>1. shuffleCursor \in 1..Len(tracks) /\ Len(shuffleOrder) = Len(tracks)
    BY <1>1, <1>4, CycleIsSeq DEF QueueInv, CycleMatchesQueue
  <2>2. /\ HasPrevious <=> shuffleCursor > 1 \/ repeatMode = "All"
        /\ HasNext <=> shuffleCursor < Len(tracks) \/ repeatMode = "All"
    BY <1>4, <2>1 DEF HasPrevious, HasNext, Wraps, NoPosition
  <2>3. ExpectedShuffleNavigation
    BY <1>1, <2>1, <2>2 DEF ExpectedShuffleNavigation
  <2> QED
    BY <1>4, <2>3 DEF ValidContent, QueueInv, CurrentIsAnEntry
<1> QED
  BY <1>2, <1>3, <1>4 DEF QueueInv, QueueTypeOK, Orders

\* The answer to a completion passes the checks on its action.
LEMMA CompletionAccepted ==
    ASSUME QueueInv, ValidCompletion, [QueueNext]_qvars
    PROVE  ValidCompletion'
<1>1. CASE CompleteCurrent
  <2>1. CASE currentIndex # NoPosition /\ UNCHANGED content /\ AnswerCompletion("ReplayCurrent")
    BY <2>1 DEF content, AnswerCompletion, ValidCompletion
  <2>2. ASSUME NEW moved \in BOOLEAN, AdvanceQueue(moved),
               AnswerCompletion(IF moved THEN "PlayCurrent" ELSE "None")
        PROVE  ValidCompletion'
    <3>1. moved => currentIndex' # NoPosition
      BY <2>2, AdvanceFacts
    <3>2. CASE moved
      BY <2>2, <3>1, <3>2 DEF AnswerCompletion, ValidCompletion
    <3>3. CASE ~moved
      BY <2>2, <3>3 DEF AnswerCompletion, ValidCompletion
    <3> QED
      BY <3>2, <3>3
  <2> QED
    BY <1>1, <2>1, <2>2 DEF CompleteCurrent
<1>2. CASE UNCHANGED qvars
  BY <1>2 DEF qvars, ValidCompletion
<1>3. CASE QueueNext /\ ~CompleteCurrent
  BY <1>3, OnlyCompletionHasAction DEF ValidCompletion
<1> QED
  BY <1>1, <1>2, <1>3

\* The gateway never discards an answer as an invalid response, for queues of any
\* length: the Dart side and the Rust side agree on what a snapshot may say.
THEOREM GatewayAlwaysAccepts == QueueSpec => []GatewayAccepts
<1>1. Create => ValidCompletion
  BY DEF Create, ValidCompletion
<1>2. QueueInv /\ ValidCompletion => GatewayAccepts
  BY InvImpliesSnapshotAccepted DEF GatewayAccepts
<1> QED
  BY <1>1, <1>2, CompletionAccepted, QueueInvariant, PTL DEF QueueSpec

-----------------------------------------------------------------------------
(***************************************************************************)
(* The controller.                                                         *)
(***************************************************************************)

\* The fields of the controller that the proofs read are there.
Sound(k) ==
    /\ {"on", "coll", "ends", "player", "handled", "roamStage"} \subseteq DOMAIN k
    /\ "pump" \in DOMAIN k.coll

\* From k to j the controller keeps its track, and asks for a page only while the
\* queue it has just accepted has a current entry.
Follows(k, j) ==
    /\ Sound(j)
    /\ j.on = k.on
    /\ j.coll.pump = "asking" => k.coll.pump = "asking" \/ currentIndex' # NoPosition

\* Methods that the controller calls one after the other follow when each does.
LEMMA FollowsIsTransitive ==
    ASSUME NEW k, NEW j, NEW m, Follows(k, j), Follows(j, m)
    PROVE  Follows(k, m)
  BY DEF Follows

\* _onPlaybackChanged of an end makes every claim stale, and nothing else.
LEMMA NewEpochFollows == ASSUME NEW k, Sound(k) PROVE Follows(k, NewEpoch(k))
  BY DEF Sound, Follows, NewEpoch, ForAll

\* _invalidateRoam keeps the track and the pages.
LEMMA InvalidateRoamFollows == ASSUME NEW k, Sound(k) PROVE Follows(k, InvalidateRoam(k))
<1> DEFINE j == NewEpoch(k)
<1>1. Follows(k, j)
  BY NewEpochFollows
<1> HIDE DEF j
<1>2. Follows(j, [j EXCEPT !.roamStage = "idle",
        !.ends = ForAll(@, LAMBDA e : [e EXCEPT !.live = FALSE, !.op = FALSE])])
  BY <1>1 DEF Sound, Follows, ForAll
<1> QED
  BY <1>1, <1>2, FollowsIsTransitive DEF InvalidateRoam, j

\* _invalidateCollection leaves no page under way.
LEMMA InvalidateCollectionFollows ==
    ASSUME NEW k, Sound(k)
    PROVE  Follows(k, InvalidateCollection(k)) /\ InvalidateCollection(k).coll.pump = "none"
  BY DEF Sound, Follows, InvalidateCollection, NoCollection, ForAll

\* _maybeDemandCollection asks for a page only behind a current entry.
LEMMA DemandFollows ==
    ASSUME NEW k, Sound(k), NEW force \in BOOLEAN, NEW viewport \in BOOLEAN
    PROVE  Follows(k, Demand(k, force, viewport))
  BY DEF Sound, Follows, Demand, MayDemand

\* A notification of the player gives roaming up and may ask for a page.
LEMMA NoticeFollows == ASSUME NEW k, Sound(k) PROVE Follows(k, Notice(k))
<1> DEFINE roaming == \E i \in DOMAIN k.ends : k.ends[i].op
           j == IF roaming THEN InvalidateRoam(k) ELSE k
           m == [j EXCEPT !.handled = FALSE]
<1>1. Follows(k, j)
  BY InvalidateRoamFollows DEF Follows
<1>2. Follows(j, m)
  <2> HIDE DEF j
  <2> QED BY <1>1 DEF Follows, Sound
<1>3. Follows(m, Demand(m, FALSE, FALSE))
  BY <1>2, DemandFollows DEF Follows
<1>4. Notice(k) = Demand(m, FALSE, FALSE)
  BY DEF Notice
<1> HIDE DEF m, j
<1> QED
  BY <1>1, <1>2, <1>3, <1>4, FollowsIsTransitive

\* playTrack gives the player the current entry.
LEMMA PlayTrackFacts ==
    ASSUME NEW k, Sound(k)
    PROVE  /\ Sound(PlayTrack(k)) /\ PlayTrack(k).on = Current
           /\ PlayTrack(k).coll.pump = "asking" =>
                  k.coll.pump = "asking" \/ currentIndex' # NoPosition
<1> DEFINE j == [k EXCEPT !.player = "busy", !.on = Current]
<1>1. Sound(j) /\ j.on = Current /\ j.coll = k.coll
  BY DEF Sound
<1> HIDE DEF j
<1>2. Follows(j, Notice(j))
  BY <1>1, NoticeFollows
<1> QED
  BY <1>1, <1>2 DEF PlayTrack, Follows, j

\* stop keeps the track.
LEMMA StopPlayerFollows == ASSUME NEW k, Sound(k) PROVE Follows(k, StopPlayer(k))
<1> DEFINE j == [k EXCEPT !.player = "idle"]
<1>1. Follows(k, j)
  BY DEF Sound, Follows
<1> HIDE DEF j
<1>2. Follows(j, Notice(j))
  BY <1>1, NoticeFollows DEF Follows
<1> QED
  BY <1>1, <1>2, FollowsIsTransitive DEF StopPlayer, j

\* An update that asks for playback makes the controller play the current entry or,
\* when there is none, stop.
LEMMA ApplyFacts ==
    ASSUME NEW k, Sound(k)
    PROVE  /\ Sound(Apply(k))
           /\ Apply(k).coll.pump = "asking" => k.coll.pump = "asking" \/ currentIndex' # NoPosition
           /\ IF update'.playbackRequested
              THEN currentIndex' # NoPosition => Apply(k).on = Current
              ELSE Apply(k).on = k.on
  BY StopPlayerFollows, PlayTrackFacts DEF Apply, Follows

\* A continuation that ends keeps the rest of the controller.
LEMMA WithoutFollows == ASSUME NEW k, Sound(k), NEW i PROVE Follows(k, Without(k, i))
  BY DEF Without, Sound, Follows

\* So does the end of the load that continuations wait for.
LEMMA WokenFollows == ASSUME NEW k, Sound(k) PROVE Follows(k, Woken(k))
  BY DEF Woken, Sound, Follows, ForAll

\* A load that fails is over.
LEMMA FailLoadFollows ==
    ASSUME NEW k, Sound(k) PROVE Follows(k, FailLoad(k))
<1> DEFINE j == Woken(k)
<1>1. Follows(k, j)
  BY WokenFollows
<1> HIDE DEF j
<1>2. Follows(j, [j EXCEPT !.coll.stage = "failed", !.coll.pump = "none", !.coll.claim = NoClaim])
  BY <1>1 DEF Sound, Follows
<1> QED
  BY <1>1, <1>2, FollowsIsTransitive DEF FailLoad, j

\* A load that is done may ask for the next page, behind a current entry.
LEMMA FinishLoadFollows ==
    ASSUME NEW k, Sound(k), NEW more PROVE Follows(k, FinishLoad(k, more))
<1> DEFINE w == Woken(k)
           j == [w EXCEPT !.coll.cursor = @ + 1, !.coll.hasMore = more,
                 !.coll.filled = IF k.coll.target > 0 /\ @ < MaxInitialPages THEN @ + 1 ELSE @,
                 !.coll.stage = IF more THEN "ready" ELSE "exhausted",
                 !.coll.claim = NoClaim, !.coll.pump = "none"]
<1>1. Follows(k, w)
  BY WokenFollows
<1>2. Follows(w, j)
  <2> HIDE DEF w
  <2> QED BY <1>1 DEF Sound, Follows
<1>3. FinishLoad(k, more) = IF NeedsInitialFill(j.coll) THEN Demand(j, FALSE, FALSE) ELSE j
  BY DEF FinishLoad
<1> HIDE DEF j, w
<1>4. Follows(k, j)
  BY <1>1, <1>2, FollowsIsTransitive
<1>5. Sound(j) /\ Follows(j, Demand(j, FALSE, FALSE))
  BY <1>4, DemandFollows DEF Follows
<1>6. Follows(k, Demand(j, FALSE, FALSE))
  BY <1>4, <1>5, FollowsIsTransitive
<1> QED
  BY <1>3, <1>4, <1>6

\* A request for related tracks keeps track and pages.
LEMMA BeginRoamFollows ==
    ASSUME NEW k, Sound(k), NEW i, NEW j \in BeginRoam(k, i) PROVE Follows(k, j)
  BY DEF BeginRoam, Without, Sound, Follows, ForAll

\* A continuation may ask for a page, behind a current entry.
LEMMA AwaitPageFollows ==
    ASSUME NEW k, Sound(k), NEW i, NEW tries PROVE Follows(k, AwaitPage(k, i, tries))
<1> DEFINE key == IF tries = 0 THEN Current ELSE k.ends[i].key
           claim == [fresh |-> k.ends[i].fresh, length |-> Len(tracks'),
                     key |-> IF MayDemand(k.coll, TRUE, FALSE) THEN Current ELSE key]
           c == [k EXCEPT !.coll.claim = claim]
           j == Demand(c, TRUE, FALSE)
           e == [k.ends[i] EXCEPT !.pc = IF j.coll.pump = "none" THEN "resumed" ELSE "waiting",
                                  !.tries = tries, !.length = Len(tracks'), !.key = key]
<1>1. AwaitPage(k, i, tries) = [j EXCEPT !.ends = Append(RemoveAt(@, i), e)]
  BY DEF AwaitPage
<1> HIDE DEF claim
<1>2. Follows(k, c)
  BY DEF Sound, Follows
<1> HIDE DEF c, e
<1>3. Follows(c, j)
  BY <1>2, DemandFollows DEF Follows
<1> HIDE DEF j
<1>4. Follows(j, [j EXCEPT !.ends = Append(RemoveAt(@, i), e)])
  BY <1>3 DEF Sound, Follows
<1> QED
  BY <1>1, <1>2, <1>3, <1>4, FollowsIsTransitive

(***************************************************************************)
(* What the operations of the queue do to its current entry.               *)
(***************************************************************************)

\* The current entry is the same track as before, or there is none any more.
Carried ==
    currentIndex' # NoPosition =>
        currentIndex # NoPosition /\ tracks'[currentIndex'] = tracks[currentIndex]

\* An operation that emptied the queue is one that gives up the collection.
Occupied == currentIndex # NoPosition => currentIndex' # NoPosition

\* A refused operation leaves the current entry alone.
LEMMA RefuseCarries ==
    ASSUME NEW op, NEW failure, Refuse(op, failure) PROVE Carried /\ Occupied
  BY DEF Refuse, content, Carried, Occupied

\* replace() asks for playback unless the queue was and stays empty.
LEMMA ReplaceCarries ==
    ASSUME NEW batch, NEW index, Replace(batch, index),
           Valid(batch) => batch \in Seq(Track)
    PROVE  /\ update'.playbackRequested \/ Carried
           /\ batch # <<>> => Occupied
<1>1. CASE \E f \in Failures : Refuse("replace", f)
  BY <1>1, RefuseCarries
<1>2. CASE /\ Valid(batch) /\ ValidPosition(Len(batch), index) /\ currentIndex' = index
           /\ Answer("replace", tracks # <<>> \/ batch # <<>>)
  <2>1. CASE batch # <<>>
    <3>1. Len(batch) \in Nat /\ Len(batch) # 0
      BY <1>2, <2>1, EmptySeq, LenProperties
    <3>2. index # NoPosition
      BY <1>2, <3>1 DEF ValidPosition, NoPosition
    <3>3. update'.playbackRequested
      BY <1>2, <2>1 DEF Answer
    <3> QED
      BY <1>2, <3>2, <3>3 DEF Occupied
  <2>2. CASE batch = <<>>
    BY <1>2, <2>2 DEF ValidPosition, Carried
  <2> QED
    BY <2>1, <2>2
<1> QED
  BY <1>1, <1>2 DEF Replace, Failures

\* select() asks for playback unless the entry is the current one.
LEMMA SelectCarries ==
    ASSUME QueueInv, NEW index \in Nat, Select(index)
    PROVE  (update'.playbackRequested \/ Carried) /\ Occupied
<1>1. CASE Refuse("select", "InvalidPosition")
  BY <1>1, RefuseCarries
<1>2. CASE /\ index \in 1..Len(tracks) /\ currentIndex' = index /\ tracks' = tracks
           /\ Answer("select", index # currentIndex)
  <2>1. index # NoPosition
    BY <1>2 DEF NoPosition
  <2>2. update'.playbackRequested \/ index = currentIndex
    BY <1>2 DEF Answer
  <2> QED
    BY <1>2, <2>1, <2>2 DEF Carried, Occupied
<1> QED
  BY <1>1, <1>2 DEF Select

\* advance() moves, or leaves the current entry alone.
LEMMA AdvanceCarries ==
    ASSUME QueueInv, NEW moved \in BOOLEAN, AdvanceQueue(moved)
    PROVE  (moved \/ Carried) /\ Occupied
<1>1. ~moved => UNCHANGED <<tracks, currentIndex>>
  BY DEF AdvanceQueue, AdvanceSequential, AdvanceShuffle, Stay
<1>2. moved => currentIndex' # NoPosition
  BY AdvanceFacts
<1> QED
  BY <1>1, <1>2 DEF Carried, Occupied

\* rewind() moves, or leaves the current entry alone.
LEMMA RewindCarries ==
    ASSUME QueueInv, NEW moved \in BOOLEAN, RewindQueue(moved)
    PROVE  (moved \/ Carried) /\ Occupied
<1>1. ~moved => UNCHANGED <<tracks, currentIndex>>
  BY DEF RewindQueue, RewindSequential, RewindShuffle, Stay
<1>2. tracks' = tracks /\ CurrentIsAnEntry'
  BY RewindFacts DEF RewindQueue
<1>3. tracks # <<>> => currentIndex' # NoPosition
  BY <1>2, EmptySeq, LenProperties DEF CurrentIsAnEntry, NoPosition, QueueInv, QueueTypeOK
<1>4. tracks = <<>> => currentIndex = NoPosition
  BY DEF QueueInv, CurrentIsAnEntry
<1> QED
  BY <1>1, <1>3, <1>4 DEF Carried, Occupied

\* Either of them asks for playback exactly when it moves.
LEMMA NavigationCarries ==
    ASSUME QueueInv, Advance \/ Rewind
    PROVE  (update'.playbackRequested \/ Carried) /\ Occupied
<1>1. ASSUME NEW moved \in BOOLEAN, AdvanceQueue(moved), Answer("advance", moved)
      PROVE  (update'.playbackRequested \/ Carried) /\ Occupied
  BY <1>1, AdvanceCarries DEF Answer
<1>2. ASSUME NEW moved \in BOOLEAN, RewindQueue(moved), Answer("rewind", moved)
      PROVE  (update'.playbackRequested \/ Carried) /\ Occupied
  BY <1>2, RewindCarries DEF Answer
<1> QED
  BY <1>1, <1>2 DEF Advance, Rewind

\* complete_current() asks for the next entry exactly when it moves.
LEMMA CompletionCarries ==
    ASSUME QueueInv, CompleteCurrent
    PROVE  (update'.completionAction = "PlayCurrent" \/ Carried) /\ Occupied
<1>1. CASE UNCHANGED content
  BY <1>1 DEF content, Carried, Occupied
<1>2. ASSUME NEW moved \in BOOLEAN, AdvanceQueue(moved),
             AnswerCompletion(IF moved THEN "PlayCurrent" ELSE "None")
      PROVE  (update'.completionAction = "PlayCurrent" \/ Carried) /\ Occupied
  BY <1>2, AdvanceCarries DEF AnswerCompletion
<1> QED
  BY <1>1, <1>2 DEF CompleteCurrent

\* What push() and extend() share changes the current entry only of an empty queue.
LEMMA AppendCarries ==
    ASSUME QueueInv, NEW op, NEW batch \in Seq(Track), AppendEntries(op, batch)
    PROVE  /\ update'.playbackRequested \/ Carried
           /\ currentIndex # NoPosition => Carried
           /\ Occupied
<1>1. /\ tracks' = tracks \o batch
      /\ currentIndex' = IF currentIndex = NoPosition THEN 1 ELSE currentIndex
      /\ Answer(op, currentIndex = NoPosition)
  BY DEF AppendEntries
<1>2. CASE currentIndex = NoPosition
  BY <1>1, <1>2 DEF Answer, Occupied
<1>3. CASE currentIndex # NoPosition
  <2>1. tracks \in Seq(Track) /\ currentIndex \in 1..Len(tracks)
    BY <1>3 DEF QueueInv, QueueTypeOK, CurrentIsAnEntry
  <2>2. (tracks \o batch)[currentIndex] = tracks[currentIndex]
    BY <2>1, ConcatProperties
  <2> QED
    BY <1>1, <1>3, <2>2 DEF Carried, Occupied
<1> QED
  BY <1>2, <1>3

\* push() asks for playback when the queue was empty.
LEMMA PushCarries ==
    ASSUME QueueInv, NEW track, Push(track)
    PROVE  (update'.playbackRequested \/ Carried) /\ Occupied
<1>1. CASE Refuse("push", "InvalidTrack")
  BY <1>1, RefuseCarries
<1>2. CASE track \in Track /\ AppendEntries("push", <<track>>)
  <2>1. <<track>> \in Seq(Track)
    BY <1>2
  <2> QED
    BY <1>2, <2>1, AppendCarries
<1> QED
  BY <1>1, <1>2 DEF Push

\* extend() of a queue that has a current entry keeps it.
LEMMA ExtendCarries ==
    ASSUME QueueInv, NEW batch, Valid(batch) => batch \in Seq(Track), Extend(batch),
           currentIndex # NoPosition
    PROVE  Carried /\ Occupied
<1>1. CASE \E f \in Failures : Refuse("extend", f)
  BY <1>1, RefuseCarries
<1>2. CASE Valid(batch) /\ AppendEntries("extend", batch)
  BY <1>2, AppendCarries
<1> QED
  BY <1>1, <1>2 DEF Extend, Failures

\* extend_and_advance_from_terminal() asks for playback unless it is refused.
LEMMA ContinueCarries ==
    ASSUME QueueInv, NEW batch, ExtendAndAdvanceFromTerminal(batch)
    PROVE  (update'.playbackRequested \/ Carried) /\ Occupied
<1>1. CASE \E f \in Failures : Refuse("continue", f)
  BY <1>1, RefuseCarries
<1>2. CASE currentIndex' = Len(tracks) + 1 /\ Answer("continue", TRUE)
  BY <1>2, LenProperties DEF Answer, Occupied, NoPosition, QueueInv, QueueTypeOK
<1> QED
  BY <1>1, <1>2 DEF ExtendAndAdvanceFromTerminal, Failures

\* Taking out another entry moves the current one with its position.
LEMMA RemovalMoves ==
    ASSUME NEW S, NEW s \in Seq(S), NEW i \in 1..Len(s), NEW c \in 1..Len(s), c # i
    PROVE  RemoveAt(s, i)[IF i < c THEN c - 1 ELSE c] = s[c]
<1> DEFINE a == SubSeq(s, 1, i-1)
           b == SubSeq(s, i+1, Len(s))
<1>1. Len(s) \in Nat /\ \A p \in 1..Len(s) : s[p] \in S
  BY LenProperties, ElementOfSeq
<1>2. a \in Seq(S) /\ Len(a) = i - 1 /\ \A p \in 1..(i-1) : a[p] = s[p]
  <2>1. \A p \in 1..(i-1) : s[p] \in S
    BY <1>1
  <2> QED
    BY <1>1, <2>1, SubSeqProperties
<1>3. /\ b \in Seq(S) /\ Len(b) = Len(s) - i
      /\ \A p \in 1..(Len(s) - i) : b[p] = s[i + p]
  <2>1. \A p \in (i+1)..Len(s) : s[p] \in S
    BY <1>1
  <2> QED
    BY <1>1, <2>1, SubSeqProperties
<1>4. RemoveAt(s, i) = a \o b
  BY DEF RemoveAt
<1> HIDE DEF a, b
<1>5. CASE c < i
  BY <1>1, <1>2, <1>3, <1>4, <1>5, ConcatProperties
<1>6. CASE i < c
  <2>1. c - 1 \in Len(a)+1 .. Len(a)+Len(b) /\ (c - 1) - Len(a) = c - i
    BY <1>1, <1>2, <1>3, <1>6
  <2>2. (a \o b)[c - 1] = b[c - i]
    BY <1>2, <1>3, <2>1, ConcatProperties
  <2>3. b[c - i] = s[c]
    BY <1>1, <1>3, <1>6
  <2> QED
    BY <1>4, <1>6, <2>2, <2>3
<1> QED
  BY <1>5, <1>6

\* remove() asks for playback when it takes the current entry.
LEMMA RemoveCarries ==
    ASSUME QueueInv, NEW index \in Nat, RemoveEntry(index)
    PROVE  update'.playbackRequested \/ Carried
<1>1. CASE Refuse("remove", "InvalidPosition")
  BY <1>1, RefuseCarries
<1>2. CASE /\ index \in 1..Len(tracks) /\ tracks' = RemoveAt(tracks, index)
           /\ currentIndex' = CurrentAfterRemoval(index, Len(tracks) - 1)
           /\ Answer("remove", index = currentIndex)
  <2>1. /\ tracks \in Seq(Track) /\ Len(tracks) \in Nat
        /\ tracks # <<>> /\ currentIndex \in 1..Len(tracks)
    BY <1>2, EmptySeq, LenProperties DEF QueueInv, QueueTypeOK, CurrentIsAnEntry
  <2>2. CASE index # currentIndex
    <3>1. currentIndex' = NoPosition
          \/ currentIndex' = IF index < currentIndex THEN currentIndex - 1 ELSE currentIndex
      BY <1>2, <2>1, <2>2 DEF CurrentAfterRemoval
    <3>2. RemoveAt(tracks, index)[IF index < currentIndex THEN currentIndex - 1 ELSE currentIndex]
            = tracks[currentIndex]
      BY <1>2, <2>1, <2>2, RemovalMoves
    <3> QED
      BY <1>2, <2>1, <3>1, <3>2 DEF Carried, NoPosition
  <2>3. CASE index = currentIndex
    BY <1>2, <2>3 DEF Answer
  <2> QED
    BY <2>2, <2>3
<1> QED
  BY <1>1, <1>2 DEF RemoveEntry

(***************************************************************************)
(* The invariant and the steps.                                            *)
(***************************************************************************)

\* That the player was given the current entry is kept by an extension only if there
\* is a current entry: a page must not be under way for a queue that has none.
FollowInv ==
    /\ QueueInv
    /\ Sound(ctl)
    /\ currentIndex # NoPosition => ctl.on = tracks[currentIndex]
    /\ ctl.coll.pump = "asking" => currentIndex # NoPosition

\* A command hands an update of the queue to the player.
LEMMA ApplyKeeps ==
    ASSUME FollowInv, QueueInv', NEW k, Follows(ctl, k), update'.playbackRequested \/ Carried,
           k.coll.pump = "none" \/ Occupied, ctl' = Apply(k)
    PROVE  FollowInv'
<1>1. Sound(k) /\ k.on = ctl.on
  BY DEF Follows
<1>2. k.coll.pump = "asking" => currentIndex' # NoPosition
  BY DEF Follows, FollowInv, Occupied
<1>3. Sound(ctl') /\ (ctl'.coll.pump = "asking" => currentIndex' # NoPosition)
  BY <1>1, <1>2, ApplyFacts
<1>4. currentIndex' # NoPosition => ctl'.on = tracks'[currentIndex']
  BY <1>1, ApplyFacts DEF FollowInv, Carried, Current
<1> QED
  BY <1>3, <1>4 DEF FollowInv, Sound

\* The controller follows a queue whose current entry is the same track.
LEMMA FollowsKeeps ==
    ASSUME FollowInv, QueueInv', Carried, Follows(ctl, ctl'),
           ctl'.coll.pump = "none" \/ Occupied
    PROVE  FollowInv'
  BY DEF FollowInv, Follows, Sound, Carried, Occupied

\* ... or which it has not touched.
LEMMA QuietKeeps ==
    ASSUME FollowInv, UNCHANGED qvars, Follows(ctl, ctl')
    PROVE  FollowInv'
<1>1. QueueInv' /\ Carried /\ Occupied
  BY DEF FollowInv, qvars, QueueInv, QueueTypeOK, CurrentIsAnEntry, CycleMatchesQueue, Carried, Occupied
<1> QED
  BY <1>1, FollowsKeeps

\* Playing the current entry makes the player follow, whatever the queue did.
LEMMA PlayKeeps ==
    ASSUME FollowInv, QueueInv', NEW k, Sound(k), ctl' = PlayTrack(k),
           k.coll.pump = "asking" => currentIndex' # NoPosition
    PROVE  FollowInv'
  BY PlayTrackFacts DEF FollowInv, Sound, Current

\* What a command does before it hands over its update.
LEMMA RoamGivenUp ==
    ASSUME FollowInv PROVE Follows(ctl, InvalidateRoam(ctl))
  BY InvalidateRoamFollows DEF FollowInv

\* Commands that change the entries leave no page under way.
LEMMA AllGivenUp ==
    ASSUME FollowInv
    PROVE  /\ Follows(ctl, InvalidateRoam(InvalidateCollection(ctl)))
           /\ InvalidateRoam(InvalidateCollection(ctl)).coll.pump = "none"
<1> DEFINE j == InvalidateCollection(ctl)
<1>1. Follows(ctl, j) /\ j.coll = NoCollection
  BY InvalidateCollectionFollows DEF FollowInv, InvalidateCollection, Sound
<1> HIDE DEF j
<1>2. Follows(j, InvalidateRoam(j))
  BY <1>1, InvalidateRoamFollows DEF Follows
<1>3. InvalidateRoam(j).coll.pump = "none"
  BY <1>1 DEF Follows, Sound, InvalidateRoam, NewEpoch, NoCollection, ForAll
<1> QED
  BY <1>1, <1>2, <1>3, FollowsIsTransitive DEF j

\* The rows of a collection are tracks.
LEMMA RowsAreTracks ==
    ASSUME NEW rows \in 1..MaxRow
    PROVE  [r \in 1..rows |-> r] \in Seq(Track) /\ [r \in 1..rows |-> r] # <<>>
<1>1. [r \in 1..rows |-> r] \in [1..rows -> Track]
  BY RowAssumption
<1>2. rows \in Nat /\ rows > 0
  BY RowAssumption
<1> QED
  BY <1>1, <1>2, IsASeq, EmptySeq, LenProperties

\* Commands that change the entries keep the invariant.
LEMMA ReplacingCommandsKeep ==
    ASSUME FollowInv,
           \/ \E batch \in Batch, index \in 0..MaxLength : ReplaceAndPlay(batch, index)
           \/ \E track \in Track : PushTrack(track)
           \/ \E index \in 1..MaxLength : RemoveTrack(index)
           \/ ClearQueue
    PROVE  FollowInv'
<1> DEFINE k == InvalidateRoam(InvalidateCollection(ctl))
<1>1. Follows(ctl, k) /\ k.coll.pump = "none"
  BY AllGivenUp
<1>2. QueueInv
  BY DEF FollowInv
<1> HIDE DEF k
<1>3. ASSUME NEW batch \in Batch, NEW index \in 0..MaxLength, ReplaceAndPlay(batch, index)
      PROVE  FollowInv'
  <2>1. /\ Replace(batch, index) /\ ctl' = Apply(k) /\ index \in Nat
        /\ Valid(batch) => batch \in Seq(Track)
    BY <1>3, BatchIsSeq, BoundsAssumption DEF ReplaceAndPlay, k
  <2>2. QueueInv'
    BY <1>2, <2>1, ReplaceKeepsInv
  <2>3. update'.playbackRequested \/ Carried
    BY <2>1, ReplaceCarries
  <2> QED
    BY <1>1, <2>1, <2>2, <2>3, ApplyKeeps
<1>4. ASSUME NEW track \in Track, PushTrack(track)
      PROVE  FollowInv'
  <2>1. Push(track) /\ ctl' = Apply(k)
    BY <1>4 DEF PushTrack, k
  <2> QED
    BY <1>1, <1>2, <2>1, PushKeepsInv, PushCarries, ApplyKeeps
<1>5. ASSUME NEW index \in 1..MaxLength, RemoveTrack(index)
      PROVE  FollowInv'
  <2>1. RemoveEntry(index) /\ ctl' = Apply(k) /\ index \in Nat
    BY <1>5, BoundsAssumption DEF RemoveTrack, k
  <2> QED
    BY <1>1, <1>2, <2>1, RemoveKeepsInv, RemoveCarries, ApplyKeeps
<1>6. CASE ClearQueue
  <2>1. Clear /\ ctl' = Apply(k)
    BY <1>6 DEF ClearQueue, k
  <2>2. Carried
    BY <2>1 DEF Clear, Carried
  <2> QED
    BY <1>1, <1>2, <2>1, <2>2, PlainSettersKeepInv, ApplyKeeps
<1> QED
  BY <1>3, <1>4, <1>5, <1>6

\* Commands that move in the queue keep the invariant.
LEMMA MovingCommandsKeep ==
    ASSUME FollowInv, (\E index \in 1..MaxLength : SelectTrack(index)) \/ NavigateTrack
    PROVE  FollowInv'
<1> DEFINE k == InvalidateRoam(ctl)
<1>1. Follows(ctl, k)
  BY RoamGivenUp
<1>2. QueueInv
  BY DEF FollowInv
<1> HIDE DEF k
<1>3. ASSUME NEW index \in 1..MaxLength, SelectTrack(index)
      PROVE  FollowInv'
  <2>1. Select(index) /\ ctl' = Apply(k) /\ index \in Nat
    BY <1>3, BoundsAssumption DEF SelectTrack, k
  <2> QED
    BY <1>1, <1>2, <2>1, SelectKeepsInv, SelectCarries, ApplyKeeps
<1>4. CASE NavigateTrack
  <2>1. (Advance \/ Rewind) /\ ctl' = Apply(k)
    BY <1>4 DEF NavigateTrack, k
  <2> QED
    BY <1>1, <1>2, <2>1, NavigationKeepsInv, NavigationCarries, ApplyKeeps
<1> QED
  BY <1>3, <1>4

\* Commands that change order or repeat mode keep the invariant.
LEMMA ModeCommandsKeep ==
    ASSUME FollowInv,
           (\E o \in Orders : ChangeOrder(o)) \/ \E mode \in RepeatModes : ChangeRepeat(mode)
    PROVE  FollowInv'
<1>1. QueueInv
  BY DEF FollowInv
<1>2. ctl' = InvalidateRoam(InvalidateCollection(ctl)) \/ ctl' = InvalidateRoam(ctl)
  BY DEF ChangeOrder, ChangeRepeat
<1>3. Follows(ctl, ctl')
  BY <1>2, AllGivenUp, RoamGivenUp
<1>4. Carried /\ Occupied
  BY DEF ChangeOrder, ChangeRepeat, SetOrder, SetRepeatMode, Carried, Occupied
<1>5. QueueInv'
  BY <1>1, SetOrderKeepsInv, PlainSettersKeepInv DEF ChangeOrder, ChangeRepeat
<1> QED
  BY <1>3, <1>4, <1>5, FollowsKeeps

\* A chosen collection keeps the invariant.
LEMMA CollectionCommandKeeps ==
    ASSUME FollowInv, NEW rows \in 1..MaxRow, NEW index \in 1..rows, NEW target,
           PlayCollection(rows, index, target)
    PROVE  FollowInv'
<1> DEFINE line == [r \in 1..rows |-> r]
           r == InvalidateRoam(ctl)
           k == [r EXCEPT
                   !.coll = [NoCollection EXCEPT
                       !.attached = TRUE, !.cursor = rows, !.hasMore = rows < MaxRow,
                       !.stage = IF rows < MaxRow THEN "ready" ELSE "exhausted",
                       !.target = target],
                   !.ends = InvalidateCollection(InvalidateRoam(ctl)).ends]
<1>1. Replace(line, index) /\ ctl' = PlayTrack(k)
  BY DEF PlayCollection
<1>2. Sound(r)
  BY RoamGivenUp DEF Follows
<1>3. Sound(k) /\ k.coll.pump = "none"
  <2> HIDE DEF r
  <2> QED BY <1>2 DEF Sound, NoCollection
<1> HIDE DEF k
<1>4. index \in Nat /\ line \in Seq(Track)
  BY RowsAreTracks
<1>5. QueueInv'
  BY <1>1, <1>4, ReplaceKeepsInv DEF FollowInv
<1> QED
  BY <1>1, <1>3, <1>5, PlayKeeps

\* Commands and notifications that leave the queue alone keep the invariant.
LEMMA QuietCommandsKeep ==
    ASSUME FollowInv,
           \/ \E enabled \in BOOLEAN : SetRoamEnabled(enabled)
           \/ ActivateCurrent \/ StopPlayback
           \/ ReloadCurrentSource \/ InvalidateCollectionSource \/ RetryContinuation
           \/ LaterDemand \/ PlayerMoves
    PROVE  FollowInv'
<1>1. Sound(ctl) /\ QueueInv
  BY DEF FollowInv
<1>2. ASSUME NEW enabled \in BOOLEAN, SetRoamEnabled(enabled)
      PROVE  FollowInv'
  <2> DEFINE k == [ctl EXCEPT !.roamEnabled = enabled]
  <2>1. Follows(ctl, k)
    BY <1>1 DEF Sound, Follows
  <2>2. UNCHANGED qvars /\ ctl' = InvalidateRoam(k)
    BY <1>2 DEF SetRoamEnabled
  <2> HIDE DEF k
  <2>3. Follows(k, ctl')
    BY <2>1, <2>2, InvalidateRoamFollows DEF Follows
  <2> QED
    BY <2>1, <2>2, <2>3, FollowsIsTransitive, QuietKeeps
<1>3. CASE ActivateCurrent
  <2> DEFINE k == InvalidateRoam(ctl)
             j == [k EXCEPT !.player = "busy"]
  <2>1. Follows(ctl, k)
    BY RoamGivenUp
  <2>2. UNCHANGED qvars /\ (ctl' = Notice(j) \/ ctl' = k)
    BY <1>3 DEF ActivateCurrent
  <2>3. Follows(k, j)
    <3> HIDE DEF k
    <3> QED BY <2>1 DEF Sound, Follows
  <2> HIDE DEF k, j
  <2>4. Follows(ctl, j) /\ Sound(j)
    BY <2>1, <2>3, FollowsIsTransitive DEF Follows
  <2>5. Follows(ctl, Notice(j))
    BY <2>4, NoticeFollows, FollowsIsTransitive
  <2> QED
    BY <2>1, <2>2, <2>5, QuietKeeps
<1>4. CASE StopPlayback
  <2>1. Follows(ctl, InvalidateRoam(ctl))
    BY RoamGivenUp
  <2>2. UNCHANGED qvars /\ ctl' = StopPlayer(InvalidateRoam(ctl))
    BY <1>4 DEF StopPlayback
  <2>3. Follows(InvalidateRoam(ctl), StopPlayer(InvalidateRoam(ctl)))
    BY <2>1, StopPlayerFollows DEF Follows
  <2> QED
    BY <2>1, <2>2, <2>3, FollowsIsTransitive, QuietKeeps
<1>5. CASE ReloadCurrentSource
  <2>1. UNCHANGED qvars /\ ctl' = PlayTrack(ctl) /\ currentIndex' # NoPosition
    BY <1>5 DEF ReloadCurrentSource, qvars
  <2>2. QueueInv'
    BY <1>1, <2>1 DEF qvars, QueueInv, QueueTypeOK, CurrentIsAnEntry, CycleMatchesQueue
  <2> QED
    BY <1>1, <2>1, <2>2, PlayKeeps
<1>6. CASE InvalidateCollectionSource
  BY <1>1, <1>6, InvalidateCollectionFollows, QuietKeeps DEF InvalidateCollectionSource
<1>7. CASE RetryContinuation
  <2> DEFINE k == [ctl EXCEPT !.coll.demandedAt = NoPosition, !.coll.stage = "ready"]
             claimed == [k EXCEPT !.coll.claim = [fresh |-> TRUE, key |-> Current,
                                                  length |-> Len(tracks)]]
  <2>1. UNCHANGED qvars /\ \E j \in {k, claimed} : ctl' = Demand(j, TRUE, FALSE)
    BY <1>7 DEF RetryContinuation
  <2>2. Follows(ctl, k)
    BY <1>1 DEF Sound, Follows
  <2>3. Follows(k, claimed)
    <3> HIDE DEF k
    <3> QED BY <2>2 DEF Sound, Follows
  <2> HIDE DEF k, claimed
  <2>4. \A j \in {k, claimed} : Follows(ctl, j) /\ Sound(j)
    BY <2>2, <2>3, FollowsIsTransitive DEF Follows
  <2>5. Follows(ctl, ctl')
    BY <2>1, <2>4, DemandFollows, FollowsIsTransitive
  <2> QED
    BY <2>1, <2>5, QuietKeeps
<1>8. CASE LaterDemand
  BY <1>1, <1>8, DemandFollows, QuietKeeps DEF LaterDemand
<1>9. CASE PlayerMoves
  <2> DEFINE j == [ctl EXCEPT !.player = "playing"]
  <2>1. Follows(ctl, j) /\ Sound(j)
    BY <1>1 DEF Sound, Follows
  <2>2. UNCHANGED qvars /\ (ctl' = Notice(j) \/ ctl' = StopPlayer(ctl))
    BY <1>9 DEF PlayerMoves
  <2> HIDE DEF j
  <2>3. Follows(ctl, Notice(j)) /\ Follows(ctl, StopPlayer(ctl))
    BY <1>1, <2>1, NoticeFollows, StopPlayerFollows, FollowsIsTransitive
  <2> QED
    BY <2>2, <2>3, QuietKeeps
<1> QED
  BY <1>2, <1>3, <1>4, <1>5, <1>6, <1>7, <1>8, <1>9

\* The end of an entry keeps the invariant.
LEMMA CompletionKeeps ==
    ASSUME FollowInv, PlayerCompletes
    PROVE  FollowInv'
<1> DEFINE n == NewEpoch(ctl)
           k == [n EXCEPT !.player = "completed", !.handled = TRUE]
           b == [k EXCEPT !.player = "busy"]
           w == [k EXCEPT !.ends = Append(@, Ended)]
<1>1. Follows(ctl, n)
  BY NewEpochFollows DEF FollowInv
<1>2. Follows(n, k)
  <2> HIDE DEF n
  <2> QED BY <1>1 DEF Sound, Follows
<1>3. /\ CompleteCurrent
      /\ ctl' = CASE update'.completionAction = "ReplayCurrent" -> Notice(b)
                  [] update'.completionAction = "PlayCurrent" -> PlayTrack(k)
                  [] OTHER -> w
  BY DEF PlayerCompletes
<1> HIDE DEF n
<1>4. Follows(ctl, k) /\ Sound(k)
  BY <1>1, <1>2, FollowsIsTransitive DEF Follows
<1>5. Follows(k, b) /\ Follows(k, w)
  <2> HIDE DEF k
  <2> QED BY <1>4 DEF Sound, Follows
<1> HIDE DEF k, b, w
<1>6. Follows(ctl, w) /\ Follows(ctl, Notice(b))
  <2>1. Follows(ctl, b) /\ Follows(b, Notice(b))
    BY <1>4, <1>5, NoticeFollows, FollowsIsTransitive DEF Follows
  <2> QED
    BY <1>4, <1>5, <2>1, FollowsIsTransitive
<1>7. QueueInv' /\ Occupied
  BY <1>3, CompleteKeepsInv, CompletionCarries DEF FollowInv
<1>8. CASE update'.completionAction = "PlayCurrent"
  <2>1. k.coll.pump = "asking" => currentIndex' # NoPosition
    BY <1>4, <1>7 DEF Follows, FollowInv, Occupied
  <2> QED
    BY <1>3, <1>4, <1>7, <1>8, <2>1, PlayKeeps
<1>9. CASE update'.completionAction # "PlayCurrent"
  <2>1. Carried
    BY <1>3, <1>9, CompletionCarries DEF FollowInv
  <2>2. ctl' = Notice(b) \/ ctl' = w
    BY <1>3, <1>9
  <2> QED
    BY <1>6, <1>7, <2>1, <2>2, FollowsKeeps
<1> QED
  BY <1>8, <1>9

\* What follows an end keeps the invariant.
LEMMA ContinuationsKeep ==
    ASSUME FollowInv, NEW i, FocusReleased(i) \/ Resume(i) \/ RoamAnswers(i)
    PROVE  FollowInv'
<1>1. Sound(ctl) /\ QueueInv
  BY DEF FollowInv
<1>2. CASE FocusReleased(i)
  <2>1. /\ UNCHANGED qvars
        /\ \/ ctl' \in BeginRoam(ctl, i)
           \/ ctl' = AwaitPage(ctl, i, 0) \/ ctl' = Without(ctl, i)
    BY <1>2 DEF FocusReleased
  <2>2. Follows(ctl, ctl')
    BY <1>1, <2>1, BeginRoamFollows, AwaitPageFollows, WithoutFollows
  <2> QED
    BY <2>1, <2>2, QuietKeeps
<1>3. CASE Resume(i)
  <2> DEFINE rearmed == [ctl EXCEPT !.coll.demandedAt = NoPosition]
             next == ctl.ends[i].tries + 1
  <2>1. /\ UNCHANGED qvars
        /\ \/ ctl' \in BeginRoam(ctl, i)
           \/ ctl' = AwaitPage(rearmed, i, next)
           \/ ctl' = Without(rearmed, i) \/ ctl' = Without(ctl, i)
    BY <1>3 DEF Resume
  <2>2. Follows(ctl, rearmed) /\ Sound(rearmed)
    BY <1>1 DEF Sound, Follows
  <2> HIDE DEF rearmed, next
  <2>3. Follows(ctl, AwaitPage(rearmed, i, next)) /\ Follows(ctl, Without(rearmed, i))
    BY <2>2, AwaitPageFollows, WithoutFollows, FollowsIsTransitive
  <2>4. Follows(ctl, ctl')
    BY <1>1, <2>1, <2>3, BeginRoamFollows, WithoutFollows
  <2> QED
    BY <2>1, <2>4, QuietKeeps
<1>4. CASE RoamAnswers(i)
  <2> DEFINE k == Without(ctl, i)
             over == [k EXCEPT !.roamStage = "over"]
             won == [k EXCEPT !.roamStage = "continued"]
  <2>1. Follows(ctl, k)
    BY <1>1, WithoutFollows
  <2>2. Follows(k, over) /\ Follows(k, won)
    <3> HIDE DEF k
    <3> QED BY <2>1 DEF Sound, Follows
  <2>3. \/ (ctl' = k \/ ctl' = over) /\ UNCHANGED qvars
        \/ /\ \E t \in Track : ExtendAndAdvanceFromTerminal(<<t>>)
           /\ ctl' = PlayTrack(won)
    BY <1>4 DEF RoamAnswers
  <2> HIDE DEF k, over, won
  <2>4. Follows(ctl, over) /\ Follows(ctl, won) /\ Sound(won)
    BY <2>1, <2>2, FollowsIsTransitive DEF Follows
  <2>5. ASSUME NEW t \in Track, ExtendAndAdvanceFromTerminal(<<t>>), ctl' = PlayTrack(won)
        PROVE  FollowInv'
    <3>1. <<t>> \in Seq(Track)
      OBVIOUS
    <3>2. QueueInv' /\ Occupied
      BY <1>1, <2>5, <3>1, ContinueKeepsInv, ContinueCarries
    <3> QED
      BY <2>4, <2>5, <3>2, PlayKeeps DEF Follows, FollowInv, Occupied
  <2> QED
    BY <2>1, <2>3, <2>4, <2>5, QuietKeeps
<1> QED
  BY <1>2, <1>3, <1>4

\* A page keeps the invariant, whatever came of it.
LEMMA PumpKeeps ==
    ASSUME FollowInv, PumpStep
    PROVE  FollowInv'
<1>1. Sound(ctl) /\ QueueInv
  BY DEF FollowInv
<1>2. CASE PageFails
  BY <1>1, <1>2, FailLoadFollows, QuietKeeps DEF PageFails
<1>3. CASE PageStarted
  BY <1>1, <1>3, FinishLoadFollows, QuietKeeps DEF PageStarted
<1>4. ASSUME NEW more \in BOOLEAN, PageArrives(more)
      PROVE  FollowInv'
  <2> DEFINE row == ctl.coll.cursor + 1
             k == [ctl EXCEPT !.coll.pump = "starting", !.coll.more = more]
  <2>1. currentIndex # NoPosition
    BY <1>4 DEF PageArrives, FollowInv
  <2>2. Valid(<<row>>) => <<row>> \in Seq(Track)
    <3> HIDE DEF row
    <3>1. Valid(<<row>>) => row \in Track
      BY DEF Valid
    <3> QED
      BY <3>1
  <2>3. Follows(ctl, FinishLoad(ctl, more)) /\ Follows(ctl, FailLoad(ctl))
    BY <1>1, FinishLoadFollows, FailLoadFollows
  <2>4. Sound(k) /\ k.coll.pump # "asking"
    BY <1>1 DEF Sound
  <2>5. \/ UNCHANGED qvars /\ ctl' = FinishLoad(ctl, more)
        \/ Extend(<<row>>) /\ ctl' = FinishLoad(ctl, more)
        \/ /\ ExtendAndAdvanceFromTerminal(<<row>>)
           /\ ctl' = IF update'.playbackRequested THEN PlayTrack(k) ELSE FailLoad(ctl)
    BY <1>4 DEF PageArrives
  <2> HIDE DEF row, k
  <2>6. CASE UNCHANGED qvars /\ ctl' = FinishLoad(ctl, more)
    BY <2>3, <2>6, QuietKeeps
  <2>7. CASE Extend(<<row>>) /\ ctl' = FinishLoad(ctl, more)
    BY <1>1, <2>1, <2>2, <2>3, <2>7, ExtendKeepsInv, ExtendCarries, FollowsKeeps
  <2>8. CASE /\ ExtendAndAdvanceFromTerminal(<<row>>)
             /\ ctl' = IF update'.playbackRequested THEN PlayTrack(k) ELSE FailLoad(ctl)
    <3>1. QueueInv' /\ Occupied /\ (update'.playbackRequested \/ Carried)
      BY <1>1, <2>2, <2>8, ContinueKeepsInv, ContinueCarries
    <3> QED
      BY <2>3, <2>4, <2>8, <3>1, PlayKeeps, FollowsKeeps
  <2> QED
    BY <2>5, <2>6, <2>7, <2>8
<1> QED
  BY <1>2, <1>3, <1>4 DEF PumpStep

\* Every step keeps the invariant.
LEMMA ControllerKeepsInv ==
    ASSUME FollowInv, [ControllerNext]_<<qvars, cvars>>
    PROVE  FollowInv'
<1>1. CASE CommandStep
  BY <1>1, ReplacingCommandsKeep, MovingCommandsKeep, ModeCommandsKeep, CollectionCommandKeeps,
     QuietCommandsKeep DEF CommandStep
<1>2. CASE LaterDemand \/ PlayerMoves
  BY <1>2, QuietCommandsKeep
<1>3. CASE PlayerCompletes
  BY <1>3, CompletionKeeps
<1>4. CASE PumpStep
  BY <1>4, PumpKeeps
<1>5. CASE ContinuationStep
  BY <1>5, ContinuationsKeep DEF ContinuationStep
<1>6. CASE UNCHANGED <<qvars, cvars>>
  BY <1>6, QuietKeeps DEF cvars, FollowInv, Follows
<1> QED
  BY <1>1, <1>2, <1>3, <1>4, <1>5, <1>6 DEF ControllerNext

\* The controller begins with an empty queue and nothing to play.
LEMMA ControllerInitInv == ControllerInit => FollowInv
<1> SUFFICES ASSUME ControllerInit PROVE FollowInv
  OBVIOUS
<1>1. QueueInv
  BY CreateEstablishesInv DEF ControllerInit
<1>2. Sound(ctl) /\ ctl.coll.pump # "asking"
  BY DEF ControllerInit, Sound, NoCollection
<1>3. currentIndex = NoPosition
  BY DEF ControllerInit, Create
<1> QED
  BY <1>1, <1>2, <1>3 DEF FollowInv

\* Whoever moves the queue - a command, an end, a page, a related track - the track
\* player has been given what the queue says is current, for any number of commands,
\* rows and entries.
THEOREM PlayerFollowsQueue == ControllerSpec => []PlaysTheCurrentEntry
<1>1. FollowInv => PlaysTheCurrentEntry
  BY DEF FollowInv, PlaysTheCurrentEntry
<1> QED
  BY <1>1, ControllerInitInv, ControllerKeepsInv, PTL DEF ControllerSpec

\* The controller drives the queue only through its operations: nothing it does
\* brings the shuffle cycle or the current entry out of step with the entries.
THEOREM ControllerKeepsQueue == ControllerSpec => [](CurrentIsAnEntry /\ CycleMatchesQueue)
<1>1. FollowInv => CurrentIsAnEntry /\ CycleMatchesQueue
  BY DEF FollowInv, QueueInv
<1> QED
  BY <1>1, ControllerInitInv, ControllerKeepsInv, PTL DEF ControllerSpec

(***************************************************************************)
(* The line of PlaybackIntent.                                             *)
(***************************************************************************)

\* What a step of the queue is to the line that it stands for.
StepKeepsIntent == [Intent!IntentNext]_(Intent!ivars)

\* Cutting a sequence at one of its elements: what lies before, what lies behind.
LEMMA CutFacts ==
    ASSUME NEW s \in Seq(Track), NEW c \in 1..Len(s)
    PROVE  /\ Len(s) \in Nat
           /\ \A p \in 1..Len(s) : s[p] \in Track
           /\ SubSeq(s, 1, c - 1) \in Seq(Track)
           /\ Len(SubSeq(s, 1, c - 1)) = c - 1
           /\ \A p \in 1..(c - 1) : SubSeq(s, 1, c - 1)[p] = s[p]
           /\ SubSeq(s, c + 1, Len(s)) \in Seq(Track)
           /\ Len(SubSeq(s, c + 1, Len(s))) = Len(s) - c
           /\ \A p \in 1..(Len(s) - c) : SubSeq(s, c + 1, Len(s))[p] = s[c + p]
<1>1. Len(s) \in Nat /\ \A p \in 1..Len(s) : s[p] \in Track
  BY LenProperties, ElementOfSeq
<1>2. /\ SubSeq(s, 1, c - 1) \in Seq(Track) /\ Len(SubSeq(s, 1, c - 1)) = c - 1
      /\ \A p \in 1..(c - 1) : SubSeq(s, 1, c - 1)[p] = s[p]
  <2>1. \A p \in 1..(c - 1) : s[p] \in Track
    BY <1>1
  <2> QED
    BY <1>1, <2>1, SubSeqProperties
<1>3. /\ SubSeq(s, c + 1, Len(s)) \in Seq(Track)
      /\ Len(SubSeq(s, c + 1, Len(s))) = Len(s) - c
      /\ \A p \in 1..(Len(s) - c) : SubSeq(s, c + 1, Len(s))[p] = s[c + p]
  <2>1. \A p \in (c + 1)..Len(s) : s[p] \in Track
    BY <1>1
  <2> QED
    BY <1>1, <2>1, SubSeqProperties
<1> QED
  BY <1>1, <1>2, <1>3

\* The three parts of a cut make up the whole again.
LEMMA CutIsWhole ==
    ASSUME NEW s \in Seq(Track), NEW c \in 1..Len(s)
    PROVE  SubSeq(s, 1, c - 1) \o <<s[c]>> \o SubSeq(s, c + 1, Len(s)) = s
<1>1. Len(s) \in Nat
  BY LenProperties
<1>2. SubSeq(s, c, Len(s)) = <<s[c]>> \o SubSeq(s, c + 1, Len(s))
  BY <1>1, SubSeqRecursiveFirst
<1>3. SubSeq(s, 1, c - 1) \o SubSeq(s, c, Len(s)) = s
  <2> DEFINE k == c - 1
  <2>1. k \in (1 - 1)..Len(s) /\ k + 1 = c /\ 1 \in 1..(Len(s) + 1) /\ Len(s) \in k..Len(s)
    BY <1>1
  <2> HIDE DEF k
  <2>2. SubSeq(s, 1, k) \o SubSeq(s, k + 1, Len(s)) = SubSeq(s, 1, Len(s))
    BY <2>1, ConcatAdjacentSubSeq
  <2>3. SubSeq(s, 1, k) \o SubSeq(s, c, Len(s)) = s
    BY <2>1, <2>2, SubSeqFull
  <2> QED
    BY <2>3 DEF k
<1> DEFINE a == SubSeq(s, 1, c - 1)
           b == SubSeq(s, c + 1, Len(s))
           d == <<s[c]>>
<1>4. a \in Seq(Track) /\ b \in Seq(Track) /\ d \in Seq(Track)
  BY CutFacts
<1>5. a \o (d \o b) = s
  BY <1>2, <1>3
<1> HIDE DEF a, b, d
<1>6. (a \o d) \o b = a \o (d \o b)
  BY <1>4, ConcatAssociative
<1> QED
  BY <1>5, <1>6 DEF a, b, d

\* One entry is a sequence, and not the empty one.
LEMMA Single ==
    ASSUME NEW x
    PROVE  Len(<<x>>) = 1 /\ <<x>> # <<>>
<1>1. Len(<<x>>) = 1 /\ Len(<<>>) = 0
  OBVIOUS
<1> QED
  BY <1>1

\* An empty queue is an empty line; any other is cut at its current entry.
CutAtCurrent ==
    /\ tracks = <<>> => Before = <<>> /\ Playing = <<>> /\ After = <<>>
    /\ tracks # <<>> => /\ currentIndex \in 1..Len(tracks)
                        /\ Playing = <<tracks[currentIndex]>>
                        /\ Playing # <<>> /\ Len(Playing) = 1
                        /\ Before \o Playing \o After = tracks

LEMMA LineOfQueue == QueueInv => CutAtCurrent
<1> SUFFICES ASSUME QueueInv PROVE CutAtCurrent
  OBVIOUS
<1> USE DEF CutAtCurrent
<1>0. QueueTypeOK /\ CurrentIsAnEntry
  BY DEF QueueInv
<1>1. CASE tracks = <<>>
  <2>1. currentIndex = 0 /\ Len(tracks) = 0
    BY <1>0, <1>1, EmptySeq DEF CurrentIsAnEntry, NoPosition
  <2>2. Before = <<>> /\ After = <<>>
    BY <2>1, SubSeqEmpty DEF Before, After
  <2> QED
    BY <1>1, <2>1, <2>2 DEF Playing, NoPosition
<1>2. CASE tracks # <<>>
  <2>1. currentIndex \in 1..Len(tracks) /\ currentIndex # NoPosition
    BY <1>0, <1>2 DEF CurrentIsAnEntry, NoPosition
  <2>2. tracks \in Seq(Track)
    BY <1>0 DEF QueueTypeOK
  <2> QED
    BY <1>2, <2>1, <2>2, CutIsWhole, Single DEF Before, Playing, After
<1> QED
  BY <1>1, <1>2

\* The line of a step that touches neither the entries nor the current one.
LEMMA StillLine ==
    ASSUME UNCHANGED <<tracks, currentIndex>>, ~update'.playbackRequested
    PROVE  StepKeepsIntent
<1>1. UNCHANGED <<Before, Playing, After>>
  BY DEF Before, Playing, After
<1>2. Intent!LeaveAlone
  BY <1>1 DEF Intent!LeaveAlone
<1> QED
  BY <1>2 DEF StepKeepsIntent, Intent!IntentNext

\* A refused operation leaves the line alone.
LEMMA RefuseIntends ==
    ASSUME NEW op, NEW failure, Refuse(op, failure)
    PROVE  StepKeepsIntent
  BY StillLine DEF Refuse, content

\* set_order() and set_repeat_mode() leave the line alone.
LEMMA SettersIntend ==
    ASSUME NEW value, SetOrder(value) \/ SetRepeatMode(value)
    PROVE  StepKeepsIntent
  BY StillLine DEF SetOrder, SetRepeatMode, Answer

\* Moving within the entries moves the cut and not the line.
LEMMA MovedCut ==
    ASSUME QueueInv, QueueInv', tracks # <<>>, tracks' = tracks, update'.playbackRequested,
           update'.op \in {"select", "advance", "rewind", "complete"}
    PROVE  StepKeepsIntent
<1>1. CutAtCurrent /\ CutAtCurrent'
  BY LineOfQueue, PTL
<1>2. Before \o Playing \o After = tracks
  BY <1>1 DEF CutAtCurrent
<1>3. Before' \o Playing' \o After' = tracks' /\ Playing' = <<tracks'[currentIndex']>>
  BY <1>1 DEF CutAtCurrent
<1>4. Intent!Navigate
  BY <1>2, <1>3 DEF Intent!Navigate, Intent!Line
<1> QED
  BY <1>4 DEF StepKeepsIntent, Intent!IntentNext

\* select() moves the cut, or refuses.
LEMMA SelectIntends ==
    ASSUME QueueInv, NEW index \in Nat, Select(index)
    PROVE  StepKeepsIntent
<1>1. CASE Refuse("select", "InvalidPosition")
  BY <1>1, RefuseIntends
<1>2. CASE /\ index \in 1..Len(tracks) /\ currentIndex' = index
           /\ UNCHANGED <<tracks, order, repeatMode>>
           /\ Answer("select", index # currentIndex)
  <2>1. tracks # <<>>
    BY <1>2, EmptySeq
  <2>2. CASE index = currentIndex
    BY <1>2, <2>2, StillLine DEF Answer
  <2>3. CASE index # currentIndex
    BY <1>2, <2>1, <2>3, SelectKeepsInv, MovedCut DEF Answer
  <2> QED
    BY <2>2, <2>3
<1> QED
  BY <1>1, <1>2 DEF Select

\* advance() and rewind() move the cut, or find nothing to do.
LEMMA NavigationIntends ==
    ASSUME QueueInv, Advance \/ Rewind
    PROVE  StepKeepsIntent
<1>1. QueueInv'
  BY NavigationKeepsInv
<1>2. ASSUME NEW moved \in BOOLEAN, AdvanceQueue(moved), Answer("advance", moved)
      PROVE  StepKeepsIntent
  <2>1. CASE moved
    <3>1. tracks # <<>> /\ tracks' = tracks
      BY <1>2, <2>1 DEF AdvanceQueue
    <3> QED
      BY <1>1, <1>2, <2>1, <3>1, MovedCut DEF Answer
  <2>2. CASE ~moved
    BY <1>2, <2>2, StillLine DEF AdvanceQueue, AdvanceSequential, AdvanceShuffle, Stay, Answer
  <2> QED
    BY <2>1, <2>2
<1>3. ASSUME NEW moved \in BOOLEAN, RewindQueue(moved), Answer("rewind", moved)
      PROVE  StepKeepsIntent
  <2>1. CASE moved
    <3>1. tracks # <<>> /\ tracks' = tracks
      BY <1>3, <2>1 DEF RewindQueue
    <3> QED
      BY <1>1, <1>3, <2>1, <3>1, MovedCut DEF Answer
  <2>2. CASE ~moved
    BY <1>3, <2>2, StillLine DEF RewindQueue, RewindSequential, RewindShuffle, Stay, Answer
  <2> QED
    BY <2>1, <2>2
<1> QED
  BY <1>2, <1>3 DEF Advance, Rewind

\* complete_current() moves the cut, plays the same entry again, or does nothing.
LEMMA CompletionIntends ==
    ASSUME QueueInv, CompleteCurrent
    PROVE  StepKeepsIntent
<1>1. QueueInv'
  BY CompleteKeepsInv
<1>2. CASE currentIndex # NoPosition /\ UNCHANGED content /\ AnswerCompletion("ReplayCurrent")
  <2>1. tracks # <<>> /\ tracks' = tracks
    BY <1>2 DEF QueueInv, CurrentIsAnEntry, content
  <2> QED
    BY <1>1, <1>2, <2>1, MovedCut DEF AnswerCompletion
<1>3. ASSUME NEW moved \in BOOLEAN, AdvanceQueue(moved),
             AnswerCompletion(IF moved THEN "PlayCurrent" ELSE "None")
      PROVE  StepKeepsIntent
  <2>1. CASE moved
    <3>1. tracks # <<>> /\ tracks' = tracks
      BY <1>3, <2>1 DEF AdvanceQueue
    <3> QED
      BY <1>1, <1>3, <2>1, <3>1, MovedCut DEF AnswerCompletion
  <2>2. CASE ~moved
    BY <1>3, <2>2, StillLine
       DEF AdvanceQueue, AdvanceSequential, AdvanceShuffle, Stay, AnswerCompletion
  <2> QED
    BY <2>1, <2>2
<1> QED
  BY <1>2, <1>3 DEF CompleteCurrent

\* A whole new line is cut at its current entry; replacing nothing by nothing does nothing.
LEMMA ReplaceIntends ==
    ASSUME QueueInv, NEW batch, Valid(batch) => batch \in Seq(Track),
           NEW index \in Nat, Replace(batch, index)
    PROVE  StepKeepsIntent
<1>1. CutAtCurrent /\ CutAtCurrent'
  BY ReplaceKeepsInv, LineOfQueue, PTL
<1>2. CASE \E f : Refuse("replace", f)
  BY <1>2, RefuseIntends
<1>3. CASE tracks' = batch /\ Answer("replace", tracks # <<>> \/ batch # <<>>)
  <2>1. CASE tracks = <<>> /\ batch = <<>>
    <3>1. UNCHANGED <<Before, Playing, After>>
      BY <1>1, <1>3, <2>1 DEF CutAtCurrent
    <3>2. Intent!LeaveAlone
      BY <1>3, <2>1, <3>1 DEF Intent!LeaveAlone, Answer
    <3> QED
      BY <3>2 DEF StepKeepsIntent, Intent!IntentNext
  <2>2. CASE ~(tracks = <<>> /\ batch = <<>>)
    <3>1. Len(Playing') <= 1 /\ (Playing' = <<>> => Before' = <<>> /\ After' = <<>>)
      <4>1. CASE tracks' = <<>>
        BY <1>1, <4>1, EmptySeq DEF CutAtCurrent
      <4>2. CASE tracks' # <<>>
        <5>1. Playing' # <<>> /\ Len(Playing') = 1
          BY <1>1, <4>2 DEF CutAtCurrent
        <5> QED
          BY <5>1
      <4> QED
        BY <4>1, <4>2
    <3>2. Intent!Load
      BY <1>3, <2>2, <3>1 DEF Intent!Load, Intent!WellFormed, Answer
    <3> QED
      BY <3>2 DEF StepKeepsIntent, Intent!IntentNext
  <2> QED
    BY <2>1, <2>2
<1> QED
  BY <1>2, <1>3 DEF Replace

\* Entries behind the last one change neither what lies before the cut nor what plays.
LEMMA AppendCut ==
    ASSUME NEW s \in Seq(Track), NEW b \in Seq(Track), b # <<>>, NEW c \in 1..Len(s)
    PROVE  /\ (s \o b)[c] = s[c]
           /\ SubSeq(s \o b, 1, c - 1) = SubSeq(s, 1, c - 1)
           /\ IsStrictPrefix(SubSeq(s, c + 1, Len(s)), SubSeq(s \o b, c + 1, Len(s \o b)))
<1> DEFINE t == s \o b
           a == SubSeq(s, c + 1, Len(s))
           d == SubSeq(t, c + 1, Len(t))
           m == Len(s) - c
<1>1. /\ t \in Seq(Track) /\ Len(t) = Len(s) + Len(b) /\ Len(b) \in Nat \ {0} /\ Len(s) \in Nat
      /\ \A p \in 1..Len(s) : t[p] = s[p]
  BY ConcatProperties, EmptySeq, LenProperties
<1>2. c \in 1..Len(t)
  BY <1>1
<1> HIDE DEF t
<1>3. SubSeq(t, 1, c - 1) = SubSeq(s, 1, c - 1)
  BY <1>1, <1>2, CutFacts, SeqEqual
<1>4. /\ a \in Seq(Track) /\ Len(a) = m /\ m \in Nat
      /\ d \in Seq(Track) /\ Len(d) = Len(t) - c /\ m < Len(d)
      /\ \A p \in 1..m : a[p] = s[c + p]
      /\ \A p \in 1..m : d[p] = t[c + p]
      /\ \A p \in 1..m : t[c + p] = s[c + p]
  <2>1. /\ a \in Seq(Track) /\ Len(a) = m /\ m \in Nat
        /\ \A p \in 1..m : a[p] = s[c + p]
    BY <1>1, CutFacts
  <2>2. /\ d \in Seq(Track) /\ Len(d) = Len(t) - c
        /\ \A p \in 1..(Len(t) - c) : d[p] = t[c + p]
    BY <1>1, <1>2, CutFacts
  <2>3. /\ m < Len(t) - c
        /\ \A p \in 1..m : p \in 1..(Len(t) - c) /\ c + p \in 1..Len(s)
    BY <1>1
  <2> QED
    BY <1>1, <2>1, <2>2, <2>3
<1> HIDE DEF a, d, m
<1>5. SubSeq(a, 1, m) = SubSeq(d, 1, m)
  <2>1. \A p \in 1..m : a[p] \in Track /\ d[p] \in Track
    <3>1. \A p \in 1..m : a[p] \in Track
      BY <1>4, ElementOfSeq
    <3> QED
      BY <1>4, <3>1
  <2>2. /\ SubSeq(a, 1, m) \in Seq(Track) /\ Len(SubSeq(a, 1, m)) = m
        /\ \A p \in 1..m : SubSeq(a, 1, m)[p] = a[p]
    BY <1>4, <2>1, SubSeqProperties
  <2>3. /\ SubSeq(d, 1, m) \in Seq(Track) /\ Len(SubSeq(d, 1, m)) = m
        /\ \A p \in 1..m : SubSeq(d, 1, m)[p] = d[p]
    BY <1>4, <2>1, SubSeqProperties
  <2>4. \A p \in 1..m : SubSeq(a, 1, m)[p] = SubSeq(d, 1, m)[p]
    BY <1>4, <2>2, <2>3
  <2> QED
    BY <2>2, <2>3, <2>4, SeqEqual
<1>6. IsStrictPrefix(a, d)
  BY <1>4, <1>5 DEF IsStrictPrefix, IsPrefix
<1> QED
  BY <1>1, <1>3, <1>6 DEF a, d, t

\* What push() and extend() share makes the line longer behind what plays.
LEMMA AppendIntends ==
    ASSUME QueueInv, NEW op \in {"push", "extend"}, NEW batch \in Seq(Track), batch # <<>>,
           AppendEntries(op, batch)
    PROVE  StepKeepsIntent
<1>1. CutAtCurrent /\ tracks \in Seq(Track)
  BY LineOfQueue DEF QueueInv, QueueTypeOK
<1>2. /\ tracks' = tracks \o batch
      /\ currentIndex' = IF currentIndex = NoPosition THEN 1 ELSE currentIndex
      /\ update'.op = op /\ update'.playbackRequested = (currentIndex = NoPosition)
  BY DEF AppendEntries, Answer
<1>3. CASE tracks = <<>>
  <2>1. currentIndex = NoPosition /\ currentIndex' = 1 /\ Playing = <<>>
    BY <1>1, <1>2, <1>3 DEF CutAtCurrent, QueueInv, CurrentIsAnEntry
  <2>2. Before' = <<>>
    BY <2>1, SubSeqEmpty DEF Before
  <2>3. Len(Playing') = 1
    BY <2>1 DEF Playing, NoPosition
  <2>4. Intent!Add
    BY <1>2, <2>1, <2>2, <2>3 DEF Intent!Add
  <2> QED
    BY <2>4 DEF StepKeepsIntent, Intent!IntentNext
<1>4. CASE tracks # <<>>
  <2>1. currentIndex \in 1..Len(tracks) /\ currentIndex # NoPosition
    BY <1>1, <1>4 DEF CutAtCurrent, NoPosition
  <2>2. currentIndex' = currentIndex
    BY <1>2, <2>1
  <2>3. UNCHANGED <<Before, Playing>> /\ IsStrictPrefix(After, After') /\ Playing # <<>>
    BY <1>1, <1>2, <2>1, <2>2, AppendCut DEF Before, Playing, After
  <2>4. Intent!Add
    BY <1>2, <2>1, <2>3
       DEF Intent!Add, Intent!IsStrictPrefix, Intent!IsPrefix, IsStrictPrefix, IsPrefix
  <2> QED
    BY <2>4 DEF StepKeepsIntent, Intent!IntentNext
<1> QED
  BY <1>3, <1>4

\* push() adds one entry, or refuses.
LEMMA PushIntends ==
    ASSUME QueueInv, NEW track, Push(track)
    PROVE  StepKeepsIntent
<1>1. CASE Refuse("push", "InvalidTrack")
  BY <1>1, RefuseIntends
<1>2. CASE track \in Track /\ AppendEntries("push", <<track>>)
  <2>1. <<track>> \in Seq(Track) /\ <<track>> # <<>>
    BY <1>2, Single
  <2> QED
    BY <1>2, <2>1, AppendIntends
<1> QED
  BY <1>1, <1>2 DEF Push

\* extend() adds entries, or refuses.
LEMMA ExtendIntends ==
    ASSUME QueueInv, NEW batch, Valid(batch) => batch \in Seq(Track), Extend(batch)
    PROVE  StepKeepsIntent
<1>1. CASE \E f : Refuse("extend", f)
  BY <1>1, RefuseIntends
<1>2. CASE Valid(batch) /\ batch # <<>> /\ AppendEntries("extend", batch)
  BY <1>2, AppendIntends
<1> QED
  BY <1>1, <1>2 DEF Extend

\* A line that had come to its end goes on behind the entry that played last.
LEMMA ContinueIntends ==
    ASSUME QueueInv, NEW batch, Valid(batch) => batch \in Seq(Track),
           ExtendAndAdvanceFromTerminal(batch)
    PROVE  StepKeepsIntent
<1>1. CASE \E f : Refuse("continue", f)
  BY <1>1, RefuseIntends
<1>2. CASE /\ Valid(batch) /\ batch # <<>> /\ AtSequentialTerminal
           /\ tracks' = tracks \o batch
           /\ currentIndex' = Len(tracks) + 1
           /\ Answer("continue", TRUE)
  <2> DEFINE n == Len(tracks)
  <2>1. tracks \in Seq(Track) /\ batch \in Seq(Track) /\ n \in Nat
    BY <1>2, LenProperties DEF QueueInv, QueueTypeOK
  <2>2. currentIndex = n /\ n \in 1..n /\ currentIndex' = n + 1
    BY <1>2, <2>1 DEF AtSequentialTerminal, NoPosition
  <2>3. After = <<>> /\ Playing = <<tracks[n]>> /\ Playing # <<>> /\ Before = SubSeq(tracks, 1, n - 1)
    BY <2>1, <2>2, SubSeqEmpty DEF After, Playing, Before, NoPosition
  <2>4. Before' = SubSeq(tracks \o batch, 1, n)
    BY <1>2, <2>1, <2>2 DEF Before
  <2>5. SubSeq(tracks \o batch, 1, n) = tracks
    BY <2>1, <2>2, SubSeqOfConcat1, SubSeqFull
  <2>6. Before \o Playing = tracks
    BY <2>1, <2>2, <2>3, SubSeqRecursiveSecond, SubSeqFull
  <2>7. Len(Playing') = 1
    BY <2>1, <2>2 DEF Playing, NoPosition
  <2>8. Intent!Continue
    BY <1>2, <2>3, <2>4, <2>5, <2>6, <2>7 DEF Intent!Continue, Answer
  <2> QED
    BY <2>8 DEF StepKeepsIntent, Intent!IntentNext
<1> QED
  BY <1>1, <1>2 DEF ExtendAndAdvanceFromTerminal

\* clear() empties the line.
LEMMA ClearIntends ==
    ASSUME QueueInv, Clear
    PROVE  StepKeepsIntent
<1>1. CutAtCurrent /\ CutAtCurrent'
  BY PlainSettersKeepInv, LineOfQueue, PTL
<1>2. tracks' = <<>> /\ update'.op = "clear" /\ update'.playbackRequested = (tracks # <<>>)
  BY DEF Clear, Answer
<1>3. Playing # <<>> <=> tracks # <<>>
  BY <1>1 DEF CutAtCurrent
<1>4. Intent!Empty
  BY <1>1, <1>2, <1>3 DEF CutAtCurrent, Intent!Empty
<1> QED
  BY <1>4 DEF StepKeepsIntent, Intent!IntentNext

\* What is left where, once the entry at position i is gone.
LEMMA RemovalElements ==
    ASSUME NEW S, NEW s \in Seq(S), NEW i \in 1..Len(s)
    PROVE  /\ RemoveAt(s, i) \in Seq(S)
           /\ Len(RemoveAt(s, i)) = Len(s) - 1
           /\ \A p \in 1..(Len(s) - 1) : RemoveAt(s, i)[p] = IF p < i THEN s[p] ELSE s[p + 1]
<1> DEFINE r == RemoveAt(s, i)
           n == Len(s)
<1>1. r \in Seq(S) /\ Len(r) = n - 1 /\ n \in Nat
  BY RemovalShortens, LenProperties
<1>2. ASSUME NEW p \in 1..(n - 1), p < i
      PROVE  r[p] = s[p]
  <2>1. p \in 1..n /\ p # i
    BY <1>1, <1>2
  <2>2. r[IF i < p THEN p - 1 ELSE p] = s[p]
    BY <2>1, RemovalMoves
  <2> QED
    BY <1>1, <1>2, <2>2
<1>3. ASSUME NEW p \in 1..(n - 1), ~(p < i)
      PROVE  r[p] = s[p + 1]
  <2>1. p + 1 \in 1..n /\ p + 1 # i /\ i < p + 1 /\ (p + 1) - 1 = p
    BY <1>1, <1>3
  <2>2. r[IF i < p + 1 THEN (p + 1) - 1 ELSE p + 1] = s[p + 1]
    BY <2>1, RemovalMoves
  <2> QED
    BY <2>1, <2>2
<1> QED
  BY <1>1, <1>2, <1>3

\* Taking out an entry ahead of the cut.
LEMMA RemovalAhead ==
    ASSUME NEW s \in Seq(Track), NEW c \in 1..Len(s), NEW i \in 1..(c - 1)
    PROVE  LET r == RemoveAt(s, i)
           IN  /\ SubSeq(r, 1, c - 2) = RemoveAt(SubSeq(s, 1, c - 1), i)
               /\ r[c - 1] = s[c]
               /\ SubSeq(r, c, Len(r)) = SubSeq(s, c + 1, Len(s))
<1> DEFINE r == RemoveAt(s, i)
           n == Len(s)
           d == c - 1
           b == SubSeq(s, 1, c - 1)
           a == SubSeq(s, c + 1, Len(s))
<1>1. n \in Nat /\ i \in 1..n /\ d \in 1..(n - 1) /\ i <= d /\ c = d + 1
  BY LenProperties
<1>2. /\ r \in Seq(Track) /\ Len(r) = n - 1
      /\ \A p \in 1..(n - 1) : r[p] = IF p < i THEN s[p] ELSE s[p + 1]
  BY <1>1, RemovalElements
<1>3. /\ b \in Seq(Track) /\ Len(b) = d /\ \A p \in 1..d : b[p] = s[p]
      /\ a \in Seq(Track) /\ Len(a) = n - c /\ \A p \in 1..(n - c) : a[p] = s[c + p]
  BY CutFacts
<1>4. d \in 1..Len(r)
  BY <1>1, <1>2
<1> HIDE DEF r
<1>5. /\ SubSeq(r, 1, d - 1) \in Seq(Track) /\ Len(SubSeq(r, 1, d - 1)) = d - 1
      /\ \A p \in 1..(d - 1) : SubSeq(r, 1, d - 1)[p] = r[p]
      /\ SubSeq(r, d + 1, Len(r)) \in Seq(Track) /\ Len(SubSeq(r, d + 1, Len(r))) = Len(r) - d
      /\ \A p \in 1..(Len(r) - d) : SubSeq(r, d + 1, Len(r))[p] = r[d + p]
  BY <1>2, <1>4, CutFacts
<1> HIDE DEF a, b, d, n
<1>6. SubSeq(r, 1, d - 1) = RemoveAt(b, i)
  <2>1. /\ RemoveAt(b, i) \in Seq(Track) /\ Len(RemoveAt(b, i)) = d - 1
        /\ \A p \in 1..(d - 1) : RemoveAt(b, i)[p] = IF p < i THEN b[p] ELSE b[p + 1]
    <3>1. i \in 1..Len(b)
      BY <1>1, <1>3
    <3> QED
      BY <1>3, <3>1, RemovalElements
  <2>2. ASSUME NEW p \in 1..(d - 1)
        PROVE  SubSeq(r, 1, d - 1)[p] = RemoveAt(b, i)[p]
    <3>1. p \in 1..d /\ p + 1 \in 1..d /\ p \in 1..(n - 1)
      BY <1>1
    <3>2. r[p] = IF p < i THEN s[p] ELSE s[p + 1]
      BY <1>2, <3>1
    <3>3. b[p] = s[p] /\ b[p + 1] = s[p + 1]
      BY <1>3, <3>1
    <3> QED
      BY <1>5, <2>1, <3>2, <3>3
  <2> QED
    BY <1>5, <2>1, <2>2, SeqEqual
<1>7. r[d] = s[c]
  BY <1>1, <1>2
<1>8. SubSeq(r, d + 1, Len(r)) = a
  <2>1. ASSUME NEW p \in 1..(n - c)
        PROVE  SubSeq(r, d + 1, Len(r))[p] = a[p]
    <3>1. p \in 1..(Len(r) - d) /\ d + p \in 1..(n - 1) /\ ~(d + p < i) /\ (d + p) + 1 = c + p
      BY <1>1, <1>2
    <3>2. r[d + p] = s[c + p]
      BY <1>2, <3>1
    <3>3. SubSeq(r, d + 1, Len(r))[p] = r[d + p]
      BY <1>5, <3>1
    <3>4. a[p] = s[c + p]
      BY <1>3
    <3> QED
      BY <3>2, <3>3, <3>4
  <2>2. Len(SubSeq(r, d + 1, Len(r))) = Len(a)
    BY <1>1, <1>2, <1>3, <1>5
  <2> QED
    BY <1>3, <1>5, <2>1, <2>2, SeqEqual
<1>9. c - 2 = d - 1 /\ c = d + 1
  BY <1>1
<1> QED
  BY <1>6, <1>7, <1>8, <1>9 DEF a, b, d, n, r

\* Taking out an entry behind the cut.
LEMMA RemovalBehind ==
    ASSUME NEW s \in Seq(Track), NEW c \in 1..Len(s), NEW i \in (c + 1)..Len(s)
    PROVE  LET r == RemoveAt(s, i)
           IN  /\ SubSeq(r, 1, c - 1) = SubSeq(s, 1, c - 1)
               /\ r[c] = s[c]
               /\ SubSeq(r, c + 1, Len(r)) = RemoveAt(SubSeq(s, c + 1, Len(s)), i - c)
<1> DEFINE r == RemoveAt(s, i)
           n == Len(s)
           b == SubSeq(s, 1, c - 1)
           a == SubSeq(s, c + 1, Len(s))
           m == n - c
           j == i - c
<1>1. n \in Nat /\ i \in 1..n /\ c \in 1..(n - 1) /\ m \in Nat /\ j \in 1..m /\ i = c + j /\ n = c + m
  BY LenProperties
<1>2. /\ r \in Seq(Track) /\ Len(r) = n - 1
      /\ \A p \in 1..(n - 1) : r[p] = IF p < i THEN s[p] ELSE s[p + 1]
  BY <1>1, RemovalElements
<1>3. /\ b \in Seq(Track) /\ Len(b) = c - 1 /\ \A p \in 1..(c - 1) : b[p] = s[p]
      /\ a \in Seq(Track) /\ Len(a) = m /\ \A p \in 1..m : a[p] = s[c + p]
  BY CutFacts
<1>4. c \in 1..Len(r)
  BY <1>1, <1>2
<1> HIDE DEF r
<1>5. /\ SubSeq(r, 1, c - 1) \in Seq(Track) /\ Len(SubSeq(r, 1, c - 1)) = c - 1
      /\ \A p \in 1..(c - 1) : SubSeq(r, 1, c - 1)[p] = r[p]
      /\ SubSeq(r, c + 1, Len(r)) \in Seq(Track) /\ Len(SubSeq(r, c + 1, Len(r))) = Len(r) - c
      /\ \A p \in 1..(Len(r) - c) : SubSeq(r, c + 1, Len(r))[p] = r[c + p]
  BY <1>2, <1>4, CutFacts
<1> HIDE DEF a, b, m, n, j
<1>6. SubSeq(r, 1, c - 1) = b
  <2>1. \A p \in 1..(c - 1) : SubSeq(r, 1, c - 1)[p] = b[p]
    BY <1>1, <1>2, <1>3, <1>5
  <2> QED
    BY <1>3, <1>5, <2>1, SeqEqual
<1>7. r[c] = s[c]
  BY <1>1, <1>2
<1>8. SubSeq(r, c + 1, Len(r)) = RemoveAt(a, j)
  <2>1. /\ RemoveAt(a, j) \in Seq(Track) /\ Len(RemoveAt(a, j)) = m - 1
        /\ \A p \in 1..(m - 1) : RemoveAt(a, j)[p] = IF p < j THEN a[p] ELSE a[p + 1]
    BY <1>1, <1>3, RemovalElements
  <2>2. Len(SubSeq(r, c + 1, Len(r))) = m - 1
    BY <1>1, <1>2, <1>5
  <2>3. ASSUME NEW p \in 1..(m - 1)
        PROVE  SubSeq(r, c + 1, Len(r))[p] = RemoveAt(a, j)[p]
    <3>1. SubSeq(r, c + 1, Len(r))[p] = r[c + p] /\ c + p \in 1..(n - 1)
      <4>1. c + p \in 1..(n - 1) /\ p \in 1..((n - 1) - c)
        BY <1>1
      <4>2. p \in 1..(Len(r) - c)
        BY <1>2, <4>1
      <4> QED
        BY <1>5, <4>1, <4>2
    <3>2. r[c + p] = IF c + p < i THEN s[c + p] ELSE s[c + p + 1]
      BY <1>2, <3>1
    <3>3. p \in 1..m /\ p + 1 \in 1..m /\ (c + p < i <=> p < j) /\ c + (p + 1) = c + p + 1
      BY <1>1
    <3> QED
      BY <1>3, <2>1, <3>1, <3>2, <3>3
  <2> QED
    BY <1>5, <2>1, <2>2, <2>3, SeqEqual
<1> QED
  BY <1>6, <1>7, <1>8 DEF a, b, m, n, j, r

\* Taking out the entry at the cut: its successor moves up.
LEMMA RemovalAtCut ==
    ASSUME NEW s \in Seq(Track), NEW c \in 1..Len(s), c < Len(s)
    PROVE  LET r == RemoveAt(s, c)
               a == SubSeq(s, c + 1, Len(s))
           IN  /\ SubSeq(r, 1, c - 1) = SubSeq(s, 1, c - 1)
               /\ a # <<>> /\ r[c] = Head(a)
               /\ SubSeq(r, c + 1, Len(r)) = Tail(a)
<1> DEFINE r == RemoveAt(s, c)
           n == Len(s)
           b == SubSeq(s, 1, c - 1)
           a == SubSeq(s, c + 1, Len(s))
           m == n - c
<1>1. n \in Nat /\ c \in 1..(n - 1) /\ m \in Nat \ {0} /\ n = c + m
  BY LenProperties
<1>2. /\ r \in Seq(Track) /\ Len(r) = n - 1
      /\ \A p \in 1..(n - 1) : r[p] = IF p < c THEN s[p] ELSE s[p + 1]
  BY RemovalElements
<1>3. /\ b \in Seq(Track) /\ Len(b) = c - 1 /\ \A p \in 1..(c - 1) : b[p] = s[p]
      /\ a \in Seq(Track) /\ Len(a) = m /\ \A p \in 1..m : a[p] = s[c + p]
  BY CutFacts
<1>4. c \in 1..Len(r)
  BY <1>1, <1>2
<1> HIDE DEF r
<1>5. /\ SubSeq(r, 1, c - 1) \in Seq(Track) /\ Len(SubSeq(r, 1, c - 1)) = c - 1
      /\ \A p \in 1..(c - 1) : SubSeq(r, 1, c - 1)[p] = r[p]
      /\ SubSeq(r, c + 1, Len(r)) \in Seq(Track) /\ Len(SubSeq(r, c + 1, Len(r))) = Len(r) - c
      /\ \A p \in 1..(Len(r) - c) : SubSeq(r, c + 1, Len(r))[p] = r[c + p]
  BY <1>2, <1>4, CutFacts
<1> HIDE DEF a, b, m, n
<1>6. SubSeq(r, 1, c - 1) = b
  <2>1. \A p \in 1..(c - 1) : SubSeq(r, 1, c - 1)[p] = b[p]
    BY <1>1, <1>2, <1>3, <1>5
  <2> QED
    BY <1>3, <1>5, <2>1, SeqEqual
<1>7. a # <<>>
  BY <1>1, <1>3, EmptySeq
<1>8. r[c] = Head(a)
  <2>1. r[c] = s[c + 1]
    BY <1>1, <1>2
  <2>2. a[1] = s[c + 1]
    BY <1>1, <1>3
  <2>3. Head(a) = a[1]
    BY <1>3, <1>7
  <2> QED
    BY <2>1, <2>2, <2>3
<1>9. SubSeq(r, c + 1, Len(r)) = Tail(a)
  <2>1. /\ Tail(a) \in Seq(Track) /\ Len(Tail(a)) = m - 1
        /\ \A p \in 1..(m - 1) : Tail(a)[p] = a[p + 1]
    BY <1>3, <1>7, HeadTailProperties
  <2>2. Len(SubSeq(r, c + 1, Len(r))) = m - 1
    BY <1>1, <1>2, <1>5
  <2>3. ASSUME NEW p \in 1..(m - 1)
        PROVE  SubSeq(r, c + 1, Len(r))[p] = Tail(a)[p]
    <3>1. /\ c + p \in 1..(n - 1) /\ p \in 1..((n - 1) - c) /\ ~(c + p < c)
          /\ p + 1 \in 1..m /\ c + (p + 1) = (c + p) + 1
      BY <1>1
    <3>2. r[c + p] = s[(c + p) + 1]
      BY <1>2, <3>1
    <3>3. a[p + 1] = s[(c + p) + 1]
      BY <1>3, <3>1
    <3>4. SubSeq(r, c + 1, Len(r))[p] = r[c + p]
      BY <1>2, <1>5, <3>1
    <3> QED
      BY <2>1, <3>2, <3>3, <3>4
  <2> QED
    BY <1>5, <2>1, <2>2, <2>3, SeqEqual
<1> QED
  BY <1>6, <1>7, <1>8, <1>9 DEF a, b, m, n, r

\* Taking out the last entry while it is the cut: its predecessor takes its place.
LEMMA RemovalAtEnd ==
    ASSUME NEW s \in Seq(Track), NEW n \in Nat, n = Len(s), n > 1
    PROVE  LET r == RemoveAt(s, n)
               b == SubSeq(s, 1, n - 1)
           IN  /\ b # <<>> /\ r[n - 1] = Last(b)
               /\ SubSeq(r, 1, n - 2) = Front(b)
               /\ SubSeq(r, n, Len(r)) = <<>>
<1> DEFINE r == RemoveAt(s, n)
           b == SubSeq(s, 1, n - 1)
           m == n - 1
<1>1. n \in 1..Len(s) /\ m \in Nat \ {0}
  OBVIOUS
<1>2. /\ r \in Seq(Track) /\ Len(r) = m
      /\ \A p \in 1..m : r[p] = IF p < n THEN s[p] ELSE s[p + 1]
  BY <1>1, RemovalElements
<1>3. b \in Seq(Track) /\ Len(b) = m /\ \A p \in 1..m : b[p] = s[p]
  BY <1>1, CutFacts
<1>4. r = b
  <2>1. \A p \in 1..m : r[p] = s[p]
    BY <1>1, <1>2
  <2> HIDE DEF r, b, m
  <2> QED
    BY <1>2, <1>3, <2>1, SeqEqual
<1>5. b # <<>>
  <2> HIDE DEF b, m
  <2> QED BY <1>1, <1>3, EmptySeq
<1>6. SubSeq(r, n, Len(r)) = <<>>
  <2> HIDE DEF r
  <2>1. Len(r) \in Int /\ Len(r) < n
    BY <1>2
  <2> QED
    BY <2>1, SubSeqEmpty
<1>7. Front(b) = SubSeq(r, 1, n - 2) /\ Last(b) = r[n - 1]
  <2>1. Front(b) = SubSeq(b, 1, m - 1) /\ Last(b) = b[m]
    BY <1>3 DEF Front, Last
  <2>2. m - 1 = n - 2
    OBVIOUS
  <2> QED
    BY <1>4, <2>1, <2>2
<1> QED
  BY <1>5, <1>6, <1>7

\* remove() takes out another entry, or hands over from the playing one.
LEMMA RemoveIntends ==
    ASSUME QueueInv, NEW index \in Nat, RemoveEntry(index)
    PROVE  StepKeepsIntent
<1> DEFINE n == Len(tracks)
           c == currentIndex
<1>1. CASE Refuse("remove", "InvalidPosition")
  BY <1>1, RefuseIntends
<1>2. CASE /\ index \in 1..n /\ tracks' = RemoveAt(tracks, index)
           /\ currentIndex' = CurrentAfterRemoval(index, n - 1)
           /\ Answer("remove", index = currentIndex)
  <2>1. tracks \in Seq(Track) /\ n \in Nat \ {0} /\ tracks # <<>> /\ c \in 1..n
    BY <1>2, EmptySeq, LenProperties DEF QueueInv, QueueTypeOK, CurrentIsAnEntry
  <2>2. update'.op = "remove" /\ update'.playbackRequested = (index = c)
    BY <1>2 DEF Answer
  <2>3. /\ Before = SubSeq(tracks, 1, c - 1) /\ Playing = <<tracks[c]>> /\ Playing # <<>>
        /\ After = SubSeq(tracks, c + 1, n)
    BY <2>1, Single DEF Before, Playing, After, NoPosition
  <2>4. Len(tracks') = n - 1
    BY <1>2, <2>1, RemovalShortens
  <2>10. /\ currentIndex' = IF n - 1 = 0 THEN 0
                            ELSE IF index < c THEN c - 1
                            ELSE IF index > c THEN c
                            ELSE IF index <= n - 1 THEN index ELSE n - 1
         /\ index \in 1..n
    BY <1>2 DEF CurrentAfterRemoval, NoPosition
  <2> HIDE DEF n, c
  <2>5. CASE index < c
    <3>1. currentIndex' = c - 1 /\ c - 1 # 0 /\ n - 1 # 0 /\ (c - 1) - 1 = c - 2 /\ (c - 1) + 1 = c
      BY <2>1, <2>5, <2>10
    <3>2. /\ Before' = SubSeq(tracks', 1, c - 2) /\ Playing' = <<tracks'[c - 1]>>
          /\ After' = SubSeq(tracks', c, Len(tracks'))
      BY <3>1 DEF Before, Playing, After, NoPosition
    <3>3. index \in 1..(c - 1) /\ c \in 1..Len(tracks)
      BY <1>2, <2>1, <2>5 DEF n
    <3>4. /\ Before' = RemoveAt(Before, index) /\ Playing' = Playing /\ After' = After
      BY <1>2, <2>1, <2>3, <3>2, <3>3, RemovalAhead DEF n
    <3>5. index \in DOMAIN Before
      BY <2>1, <2>3, <3>3, CutFacts, LenProperties
    <3>6. ~update'.playbackRequested
      <4>1. index # c
        BY <2>1, <2>5
      <4> QED
        BY <2>2, <4>1
    <3>7. Before' = Intent!RemoveAt(Before, index)
      BY <3>4 DEF Intent!RemoveAt, RemoveAt
    <3>8. Intent!TakeOutAnother
      BY <2>2, <3>4, <3>5, <3>6, <3>7 DEF Intent!TakeOutAnother
    <3> QED
      BY <3>8 DEF StepKeepsIntent, Intent!IntentNext
  <2>6. CASE index > c
    <3>1. currentIndex' = c /\ c # 0 /\ n - 1 # 0
      BY <2>1, <2>6, <2>10
    <3>2. /\ Before' = SubSeq(tracks', 1, c - 1) /\ Playing' = <<tracks'[c]>>
          /\ After' = SubSeq(tracks', c + 1, Len(tracks'))
      BY <3>1 DEF Before, Playing, After, NoPosition
    <3>3. index \in (c + 1)..Len(tracks) /\ c \in 1..Len(tracks)
      BY <1>2, <2>1, <2>6 DEF n
    <3>4. /\ Before' = Before /\ Playing' = Playing /\ After' = RemoveAt(After, index - c)
      BY <1>2, <2>1, <2>3, <3>2, <3>3, RemovalBehind DEF n
    <3>5. index - c \in DOMAIN After
      <4>1. After \in Seq(Track) /\ Len(After) = n - c
        BY <2>1, <2>3, <3>3, CutFacts DEF n
      <4>2. index - c \in 1..(n - c)
        BY <2>1, <3>3 DEF n
      <4> QED
        BY <4>1, <4>2, LenProperties
    <3>6. ~update'.playbackRequested
      <4>1. index # c
        BY <2>1, <2>6
      <4> QED
        BY <2>2, <4>1
    <3>7. After' = Intent!RemoveAt(After, index - c)
      BY <3>4 DEF Intent!RemoveAt, RemoveAt
    <3>8. Intent!TakeOutAnother
      BY <2>2, <3>4, <3>5, <3>6, <3>7 DEF Intent!TakeOutAnother
    <3> QED
      BY <3>8 DEF StepKeepsIntent, Intent!IntentNext
  <2>7. CASE index = c /\ c < n
    <3>1. currentIndex' = c /\ c # 0
      BY <2>1, <2>7, <2>10
    <3>2. /\ Before' = SubSeq(tracks', 1, c - 1) /\ Playing' = <<tracks'[c]>>
          /\ After' = SubSeq(tracks', c + 1, Len(tracks'))
      BY <3>1 DEF Before, Playing, After, NoPosition
    <3>3. /\ After # <<>> /\ Before' = Before /\ Playing' = <<Head(After)>>
          /\ After' = Tail(After)
      BY <1>2, <2>1, <2>3, <2>7, <3>2, RemovalAtCut DEF n
    <3>4. Intent!TakeOutPlaying
      BY <2>2, <2>3, <2>7, <3>3 DEF Intent!TakeOutPlaying
    <3> QED
      BY <3>4 DEF StepKeepsIntent, Intent!IntentNext
  <2>8. CASE index = c /\ c = n /\ n > 1
    <3>1. currentIndex' = n - 1 /\ n - 1 # 0 /\ (n - 1) - 1 = n - 2 /\ (n - 1) + 1 = n
      BY <2>1, <2>8, <2>10
    <3>2. /\ Before' = SubSeq(tracks', 1, n - 2) /\ Playing' = <<tracks'[n - 1]>>
          /\ After' = SubSeq(tracks', n, Len(tracks'))
      BY <3>1 DEF Before, Playing, After, NoPosition
    <3>3. After = <<>>
      BY <2>1, <2>3, <2>8, SubSeqEmpty
    <3>4. /\ Before # <<>> /\ Playing' = <<Last(Before)>> /\ Before' = Front(Before)
          /\ After' = <<>>
      BY <1>2, <2>1, <2>3, <2>8, <3>2, RemovalAtEnd DEF n
    <3>5. Intent!TakeOutPlaying
      BY <2>2, <2>3, <2>8, <3>3, <3>4
         DEF Intent!TakeOutPlaying, Intent!Last, Intent!Front, Last, Front
    <3> QED
      BY <3>5 DEF StepKeepsIntent, Intent!IntentNext
  <2>9. CASE index = c /\ n = 1
    <3>1. currentIndex' = 0 /\ c = 1 /\ Len(tracks') = 0
      BY <2>1, <2>4, <2>9, <2>10
    <3>2. Before' = <<>> /\ Playing' = <<>> /\ After' = <<>>
      BY <3>1, SubSeqEmpty DEF Before, Playing, After, NoPosition
    <3>3. Before = <<>> /\ After = <<>>
      BY <2>3, <2>9, <3>1, SubSeqEmpty
    <3>4. Intent!TakeOutPlaying
      BY <2>2, <2>3, <2>9, <3>2, <3>3 DEF Intent!TakeOutPlaying
    <3> QED
      BY <3>4 DEF StepKeepsIntent, Intent!IntentNext
  <2> QED
    BY <1>2, <2>1, <2>5, <2>6, <2>7, <2>8, <2>9
<1> QED
  BY <1>1, <1>2 DEF RemoveEntry

\* Every operation of the queue is a step of the line, or no step of it.
LEMMA OperationsIntend ==
    ASSUME QueueInv, [QueueNext]_qvars
    PROVE  StepKeepsIntent
<1>1. ASSUME NEW batch \in Batch, NEW index \in 0..(MaxLength + 1), Replace(batch, index)
      PROVE  StepKeepsIntent
  <2>1. index \in Nat
    BY BoundsAssumption
  <2> QED
    BY <1>1, <2>1, BatchIsSeq, ReplaceIntends
<1>2. ASSUME NEW value, SetOrder(value) \/ SetRepeatMode(value)
      PROVE  StepKeepsIntent
  BY <1>2, SettersIntend
<1>3. ASSUME NEW index \in 1..(MaxLength + 1), Select(index) \/ RemoveEntry(index)
      PROVE  StepKeepsIntent
  <2>1. index \in Nat
    BY BoundsAssumption
  <2> QED
    BY <1>3, <2>1, SelectIntends, RemoveIntends
<1>4. CASE Advance \/ Rewind \/ CompleteCurrent
  BY <1>4, NavigationIntends, CompletionIntends
<1>5. ASSUME NEW track, Push(track)
      PROVE  StepKeepsIntent
  BY <1>5, PushIntends
<1>6. ASSUME NEW batch \in Batch, Extend(batch) \/ ExtendAndAdvanceFromTerminal(batch)
      PROVE  StepKeepsIntent
  BY <1>6, BatchIsSeq, ExtendIntends, ContinueIntends
<1>7. CASE Clear
  BY <1>7, ClearIntends
<1>8. CASE UNCHANGED qvars
  BY <1>8 DEF qvars, StepKeepsIntent, Intent!ivars, Before, Playing, After
<1> QED
  BY <1>1, <1>2, <1>3, <1>4, <1>5, <1>6, <1>7, <1>8 DEF QueueNext

\* A new queue is an empty line.
LEMMA CreateIntends == Create => Intent!EmptyLine
<1> SUFFICES ASSUME Create PROVE Intent!EmptyLine
  OBVIOUS
<1>1. CutAtCurrent /\ tracks = <<>>
  BY CreateEstablishesInv, LineOfQueue DEF Create
<1> QED
  BY <1>1 DEF CutAtCurrent, Create, Intent!EmptyLine

\* The queue implements the line of PlaybackIntent, for queues of every length and
\* every cycle the generator may draw: no operation changes what plays, or what will
\* play after it, in a way that the abstract line does not allow.
THEOREM KeepsThePromises == QueueSpec => KeepsIntent
<1>1. QueueInv /\ [QueueNext]_qvars => [Intent!IntentNext]_(Intent!ivars)
  BY OperationsIntend DEF StepKeepsIntent
<1> QED
  BY <1>1, CreateIntends, QueueInvariant, PTL DEF QueueSpec, KeepsIntent, Intent!IntentSpec

\* Commands that hand an update over to the player are operations of the queue.
LEMMA CommandsIntend ==
    ASSUME QueueInv, CommandStep
    PROVE  StepKeepsIntent
<1>1. ASSUME NEW batch \in Batch, NEW index \in 0..MaxLength, ReplaceAndPlay(batch, index)
      PROVE  StepKeepsIntent
  <2>1. Replace(batch, index) /\ index \in Nat
    BY <1>1, BoundsAssumption DEF ReplaceAndPlay
  <2> QED
    BY <2>1, BatchIsSeq, ReplaceIntends
<1>2. ASSUME NEW track \in Track, PushTrack(track)
      PROVE  StepKeepsIntent
  BY <1>2, PushIntends DEF PushTrack
<1>3. ASSUME NEW index \in 1..MaxLength, RemoveTrack(index) \/ SelectTrack(index)
      PROVE  StepKeepsIntent
  <2>1. (RemoveEntry(index) \/ Select(index)) /\ index \in Nat
    BY <1>3, BoundsAssumption DEF RemoveTrack, SelectTrack
  <2> QED
    BY <2>1, RemoveIntends, SelectIntends
<1>4. CASE ClearQueue
  BY <1>4, ClearIntends DEF ClearQueue
<1>5. CASE NavigateTrack
  BY <1>5, NavigationIntends DEF NavigateTrack
<1>6. ASSUME NEW value, ChangeOrder(value) \/ ChangeRepeat(value)
      PROVE  StepKeepsIntent
  BY <1>6, SettersIntend DEF ChangeOrder, ChangeRepeat
<1>7. ASSUME NEW rows \in 1..MaxRow, NEW index \in 1..rows, NEW target,
             PlayCollection(rows, index, target)
      PROVE  StepKeepsIntent
  <2> DEFINE line == [row \in 1..rows |-> row]
  <2>1. Replace(line, index) /\ line \in Seq(Track) /\ index \in Nat
    BY <1>7, RowsAreTracks DEF PlayCollection
  <2> HIDE DEF line
  <2> QED
    BY <2>1, ReplaceIntends
<1>8. CASE UNCHANGED qvars
  BY <1>8, OperationsIntend
<1> QED
  BY <1>1, <1>2, <1>3, <1>4, <1>5, <1>6, <1>7, <1>8
     DEF CommandStep, SetRoamEnabled, ActivateCurrent, StopPlayback, ReloadCurrentSource,
         InvalidateCollectionSource, RetryContinuation

\* So is what a page or a related track does to it.
LEMMA RowsIntend ==
    ASSUME QueueInv, NEW t, Extend(<<t>>) \/ ExtendAndAdvanceFromTerminal(<<t>>)
    PROVE  StepKeepsIntent
<1>1. Valid(<<t>>) => <<t>> \in Seq(Track)
  <2>1. Valid(<<t>>) => t \in Track
    BY DEF Valid
  <2> QED
    BY <2>1
<1> QED
  BY <1>1, ExtendIntends, ContinueIntends

\* Every step of the controller is a step of the line, or no step of it.
LEMMA ControllerIntends ==
    ASSUME QueueInv, [ControllerNext]_<<qvars, cvars>>
    PROVE  StepKeepsIntent
<1>1. CASE UNCHANGED qvars
  BY <1>1, OperationsIntend
<1>2. CASE CommandStep
  BY <1>2, CommandsIntend
<1>3. CASE PlayerCompletes
  BY <1>3, CompletionIntends DEF PlayerCompletes
<1>4. ASSUME NEW more, PageArrives(more), ~UNCHANGED qvars
      PROVE  StepKeepsIntent
  <2> DEFINE row == ctl.coll.cursor + 1
  <2>1. Extend(<<row>>) \/ ExtendAndAdvanceFromTerminal(<<row>>)
    BY <1>4 DEF PageArrives
  <2> HIDE DEF row
  <2> QED
    BY <2>1, RowsIntend
<1>5. ASSUME NEW i, RoamAnswers(i), ~UNCHANGED qvars
      PROVE  StepKeepsIntent
  <2>1. \E t : ExtendAndAdvanceFromTerminal(<<t>>)
    BY <1>5 DEF RoamAnswers
  <2> QED
    BY <2>1, RowsIntend
<1>6. CASE UNCHANGED <<qvars, cvars>>
  BY <1>1, <1>6
<1>7. ASSUME NEW i, FocusReleased(i) \/ Resume(i)
      PROVE  UNCHANGED qvars
  BY <1>7 DEF FocusReleased, Resume
<1>8. LaterDemand \/ PlayerMoves \/ PageFails \/ PageStarted => UNCHANGED qvars
  BY DEF LaterDemand, PlayerMoves, PageFails, PageStarted
<1> QED
  BY <1>1, <1>2, <1>3, <1>4, <1>5, <1>6, <1>7, <1>8
     DEF ControllerNext, ContinuationStep, PumpStep

\* Whatever the listener, the player, the pages and the related tracks do, and in
\* whatever order, the line keeps its promises: the controller has no way around the
\* operations of the queue.
THEOREM ControllerKeepsThePromises == ControllerSpec => KeepsIntent
<1>1. QueueInv /\ [ControllerNext]_<<qvars, cvars>> => [Intent!IntentNext]_(Intent!ivars)
  BY ControllerIntends DEF StepKeepsIntent
<1>2. FollowInv => QueueInv
  BY DEF FollowInv
<1>3. ControllerInit => Intent!EmptyLine
  BY CreateIntends DEF ControllerInit
<1> QED
  BY <1>1, <1>2, <1>3, ControllerInitInv, ControllerKeepsInv, PTL
     DEF ControllerSpec, KeepsIntent, Intent!IntentSpec

-----------------------------------------------------------------------------
(***************************************************************************)
(* What follows an end yields to what the listener has decided since.      *)
(***************************************************************************)
Key == Track \cup {NoTrack}
EndStages == {"releasing", "waiting", "resumed", "orphaned", "roaming"}
Continuation == [pc : EndStages, fresh : BOOLEAN, tries : Nat, length : Nat, key : Key,
                 live : BOOLEAN, op : BOOLEAN]

\* The continuations are where Dart would have them, and a claim can be asked whether
\* it is fresh.
Formed(k) ==
    /\ {"on", "coll", "ends", "player", "handled", "roamStage", "roamEnabled"} \subseteq DOMAIN k
    /\ {"pump", "claim", "stage", "demandedAt", "hasMore", "more", "cursor", "filled",
        "attached"} \subseteq DOMAIN k.coll
    /\ "fresh" \in DOMAIN k.coll.claim
    /\ k.ends \in Seq(Continuation)

\* Nothing that was begun before the listener's last decision may still take effect.
Stale(k) == ~k.coll.claim.fresh /\ \A i \in DOMAIN k.ends : ~k.ends[i].fresh

\* From k to j nothing becomes fresh.
Yields(k, j) == Formed(j) /\ (Stale(k) => Stale(j))

\* Methods that the controller calls one after the other yield when each does.
LEMMA YieldsIsTransitive ==
    ASSUME NEW k, NEW j, NEW m, Yields(k, j), Yields(j, m)
    PROVE  Yields(k, m)
  BY DEF Yields

\* Changing every continuation leaves a sequence of continuations.
LEMMA ChangedEnds ==
    ASSUME NEW ends \in Seq(Continuation), NEW f, f = [i \in DOMAIN ends |-> f[i]],
           \A i \in DOMAIN ends : f[i] \in Continuation
    PROVE  f \in Seq(Continuation) /\ DOMAIN f = DOMAIN ends
<1>1. DOMAIN ends = 1..Len(ends) /\ Len(ends) \in Nat
  BY LenProperties
<1>2. f \in [1..Len(ends) -> Continuation]
  BY <1>1
<1> QED
  BY <1>1, <1>2, IsASeq

\* A continuation of a sequence of them.
LEMMA EndIsContinuation ==
    ASSUME NEW ends \in Seq(Continuation), NEW i \in DOMAIN ends
    PROVE  ends[i] \in Continuation
  BY LenProperties, ElementOfSeq

\* A controller of which only fields outside the continuations and the claim differ.
LEMMA SameEndsYield ==
    ASSUME NEW k, NEW j, Formed(k), DOMAIN j = DOMAIN k, DOMAIN j.coll = DOMAIN k.coll,
           j.coll.claim = k.coll.claim, j.ends = k.ends
    PROVE  Yields(k, j)
  BY DEF Yields, Formed, Stale

\* A new epoch makes every claim stale.
LEMMA NewEpochStale ==
    ASSUME NEW k, Formed(k)
    PROVE  Formed(NewEpoch(k)) /\ Stale(NewEpoch(k))
<1> DEFINE j == NewEpoch(k)
           f == [i \in DOMAIN k.ends |-> [k.ends[i] EXCEPT !.fresh = FALSE]]
<1>1. /\ DOMAIN j = DOMAIN k /\ DOMAIN j.coll = DOMAIN k.coll
      /\ DOMAIN j.coll.claim = DOMAIN k.coll.claim /\ ~j.coll.claim.fresh /\ j.ends = f
  BY DEF NewEpoch, ForAll, Formed
<1>2. ASSUME NEW i \in DOMAIN k.ends
      PROVE  f[i] \in Continuation /\ ~f[i].fresh
  <2> DEFINE e == k.ends[i]
  <2>1. e \in Continuation /\ f[i] = [e EXCEPT !.fresh = FALSE]
    BY EndIsContinuation DEF Formed
  <2> HIDE DEF e, f
  <2> QED
    BY <2>1 DEF Continuation
<1>3. f \in Seq(Continuation) /\ DOMAIN f = DOMAIN k.ends
  <2>1. f = [i \in DOMAIN k.ends |-> f[i]]
    OBVIOUS
  <2> HIDE DEF f
  <2> QED
    BY <1>2, <2>1, ChangedEnds DEF Formed
<1> HIDE DEF j, f
<1> QED
  BY <1>1, <1>2, <1>3 DEF Formed, Stale, j

\* _invalidateRoam does.
LEMMA InvalidateRoamStale ==
    ASSUME NEW k, Formed(k)
    PROVE  Formed(InvalidateRoam(k)) /\ Stale(InvalidateRoam(k))
           /\ InvalidateRoam(k).player = k.player
<1> DEFINE n == NewEpoch(k)
           f == [i \in DOMAIN n.ends |-> [n.ends[i] EXCEPT !.live = FALSE, !.op = FALSE]]
           j == InvalidateRoam(k)
<1>1. Formed(n) /\ Stale(n) /\ n.player = k.player
  BY NewEpochStale DEF NewEpoch, Formed
<1>2. j = [n EXCEPT !.roamStage = "idle", !.ends = f]
  BY DEF InvalidateRoam, ForAll
<1> HIDE DEF n, j
<1>3. ASSUME NEW i \in DOMAIN n.ends
      PROVE  f[i] \in Continuation /\ ~f[i].fresh
  <2> DEFINE e == n.ends[i]
  <2>1. e \in Continuation /\ ~e.fresh /\ f[i] = [e EXCEPT !.live = FALSE, !.op = FALSE]
    BY <1>1, EndIsContinuation DEF Formed, Stale
  <2> HIDE DEF e, f
  <2> QED
    BY <2>1 DEF Continuation
<1>4. f \in Seq(Continuation) /\ DOMAIN f = DOMAIN n.ends
  <2>1. f = [i \in DOMAIN n.ends |-> f[i]]
    OBVIOUS
  <2> HIDE DEF f
  <2> QED
    BY <1>1, <1>3, <2>1, ChangedEnds DEF Formed
<1> HIDE DEF f
<1>5. DOMAIN j = DOMAIN n /\ j.coll = n.coll /\ j.ends = f /\ j.player = n.player
  BY <1>1, <1>2 DEF Formed
<1> QED
  BY <1>1, <1>3, <1>4, <1>5 DEF Formed, Stale, j

\* _invalidateCollection forgets the claim and touches no token.
LEMMA InvalidateCollectionYields ==
    ASSUME NEW k, Formed(k)
    PROVE  Yields(k, InvalidateCollection(k))
<1> DEFINE f == [i \in DOMAIN k.ends |-> IF k.ends[i].pc = "waiting"
                                       THEN [k.ends[i] EXCEPT !.pc = "orphaned"] ELSE k.ends[i]]
           j == InvalidateCollection(k)
<1>1. j.ends = f /\ DOMAIN j = DOMAIN k /\ j.coll = NoCollection
  BY DEF InvalidateCollection, ForAll, Formed
<1>2. ASSUME NEW i \in DOMAIN k.ends
      PROVE  f[i] \in Continuation /\ f[i].fresh = k.ends[i].fresh
  <2> DEFINE e == k.ends[i]
  <2>1. /\ e \in Continuation
        /\ f[i] = IF e.pc = "waiting" THEN [e EXCEPT !.pc = "orphaned"] ELSE e
    BY EndIsContinuation DEF Formed
  <2> HIDE DEF e, f
  <2>2. f[i] \in Continuation /\ f[i].fresh = e.fresh
    BY <2>1 DEF Continuation, EndStages
  <2> QED
    BY <2>2 DEF e
<1>3. f \in Seq(Continuation) /\ DOMAIN f = DOMAIN k.ends
  <2>1. f = [i \in DOMAIN k.ends |-> f[i]]
    OBVIOUS
  <2> HIDE DEF f
  <2> QED
    BY <1>2, <2>1, ChangedEnds DEF Formed
<1> HIDE DEF f, j
<1> QED
  BY <1>1, <1>2, <1>3 DEF Yields, Formed, Stale, NoCollection, NoClaim, j

\* The end of a load wakes who waits for it, and touches no token.
LEMMA WokenYields ==
    ASSUME NEW k, Formed(k)
    PROVE  /\ Yields(k, Woken(k)) /\ Woken(k).coll = k.coll /\ Woken(k).player = k.player
           /\ DOMAIN Woken(k) = DOMAIN k
<1> DEFINE f == [i \in DOMAIN k.ends |-> IF k.ends[i].pc = "waiting"
                                       THEN [k.ends[i] EXCEPT !.pc = "resumed"] ELSE k.ends[i]]
           j == Woken(k)
<1>1. j.ends = f /\ DOMAIN j = DOMAIN k /\ j.coll = k.coll /\ j.player = k.player
  BY DEF Woken, ForAll, Formed
<1>2. ASSUME NEW i \in DOMAIN k.ends
      PROVE  f[i] \in Continuation /\ f[i].fresh = k.ends[i].fresh
  <2> DEFINE e == k.ends[i]
  <2>1. /\ e \in Continuation
        /\ f[i] = IF e.pc = "waiting" THEN [e EXCEPT !.pc = "resumed"] ELSE e
    BY EndIsContinuation DEF Formed
  <2> HIDE DEF e, f
  <2>2. f[i] \in Continuation /\ f[i].fresh = e.fresh
    BY <2>1 DEF Continuation, EndStages
  <2> QED
    BY <2>2 DEF e
<1>3. f \in Seq(Continuation) /\ DOMAIN f = DOMAIN k.ends
  <2>1. f = [i \in DOMAIN k.ends |-> f[i]]
    OBVIOUS
  <2> HIDE DEF f
  <2> QED
    BY <1>2, <2>1, ChangedEnds DEF Formed
<1> HIDE DEF f, j
<1> QED
  BY <1>1, <1>2, <1>3 DEF Yields, Formed, Stale, j

\* Asking for a page touches neither the claim nor a token.
LEMMA DemandYields ==
    ASSUME NEW k, Formed(k), NEW force, NEW viewport
    PROVE  LET j == Demand(k, force, viewport)
           IN  /\ Yields(k, j) /\ j.player = k.player /\ j.ends = k.ends
               /\ j.coll.claim = k.coll.claim
<1> DEFINE j == Demand(k, force, viewport)
<1>1. /\ DOMAIN j = DOMAIN k /\ DOMAIN j.coll = DOMAIN k.coll /\ j.player = k.player
      /\ j.coll.claim = k.coll.claim /\ j.ends = k.ends
  BY DEF Demand, Formed
<1> HIDE DEF j
<1>2. Yields(k, j)
  BY <1>1, SameEndsYield
<1> QED
  BY <1>1, <1>2 DEF j

\* A notification of the player makes nothing fresh.
LEMMA NoticeYields ==
    ASSUME NEW k, Formed(k)
    PROVE  Yields(k, Notice(k))
<1> DEFINE roaming == \E i \in DOMAIN k.ends : k.ends[i].op
           j == IF roaming THEN InvalidateRoam(k) ELSE k
           m == [j EXCEPT !.handled = FALSE]
<1>1. Yields(k, j)
  BY InvalidateRoamStale DEF Yields
<1>2. Yields(j, m) /\ Formed(m)
  <2> HIDE DEF j
  <2>1. DOMAIN m = DOMAIN j /\ m.coll = j.coll /\ m.ends = j.ends
    BY <1>1 DEF Yields, Formed
  <2> QED
    BY <1>1, <2>1, SameEndsYield DEF Yields
<1>3. Notice(k) = Demand(m, FALSE, FALSE)
  BY DEF Notice
<1> HIDE DEF j, m
<1>4. Yields(m, Demand(m, FALSE, FALSE))
  BY <1>2, DemandYields
<1> QED
  BY <1>1, <1>2, <1>3, <1>4, YieldsIsTransitive

\* Starting or stopping the player, or handing it an update, makes nothing fresh.
LEMMA PlayerYields ==
    ASSUME NEW k, Formed(k)
    PROVE  Yields(k, PlayTrack(k)) /\ Yields(k, StopPlayer(k)) /\ Yields(k, Apply(k))
<1> DEFINE p == [k EXCEPT !.player = "busy", !.on = Current]
           q == [k EXCEPT !.player = "idle"]
<1>1. /\ DOMAIN p = DOMAIN k /\ p.coll = k.coll /\ p.ends = k.ends
      /\ DOMAIN q = DOMAIN k /\ q.coll = k.coll /\ q.ends = k.ends
  BY DEF Formed
<1>2. PlayTrack(k) = Notice(p) /\ StopPlayer(k) = Notice(q)
  BY DEF PlayTrack, StopPlayer
<1> HIDE DEF p, q
<1>3. Yields(k, p) /\ Yields(k, q) /\ Formed(p) /\ Formed(q)
  BY <1>1, SameEndsYield DEF Yields
<1>4. Yields(k, PlayTrack(k)) /\ Yields(k, StopPlayer(k))
  BY <1>2, <1>3, NoticeYields, YieldsIsTransitive
<1> QED
  BY <1>4 DEF Apply, Yields

\* A load that fails, or is done, forgets the claim and leaves the player alone.
LEMMA FailLoadYields ==
    ASSUME NEW k, Formed(k)
    PROVE  Yields(k, FailLoad(k)) /\ FailLoad(k).player = k.player
<1> DEFINE w == Woken(k)
           j == [w EXCEPT !.coll.stage = "failed", !.coll.pump = "none", !.coll.claim = NoClaim]
<1>1. Yields(k, w) /\ Formed(w) /\ w.player = k.player
  BY WokenYields DEF Yields
<1>2. FailLoad(k) = j
  BY DEF FailLoad
<1> HIDE DEF w
<1>3. /\ DOMAIN j = DOMAIN w /\ DOMAIN j.coll = DOMAIN w.coll /\ j.coll.claim = NoClaim
      /\ j.ends = w.ends /\ j.player = w.player
  BY <1>1 DEF Formed
<1> HIDE DEF j
<1>4. Yields(w, j)
  BY <1>1, <1>3 DEF Yields, Formed, Stale, NoClaim
<1> QED
  BY <1>1, <1>2, <1>3, <1>4, YieldsIsTransitive

LEMMA FinishLoadYields ==
    ASSUME NEW k, Formed(k), NEW more
    PROVE  Yields(k, FinishLoad(k, more)) /\ FinishLoad(k, more).player = k.player
<1> DEFINE w == Woken(k)
           j == [w EXCEPT !.coll.cursor = @ + 1, !.coll.hasMore = more,
                 !.coll.filled = IF k.coll.target > 0 /\ @ < MaxInitialPages THEN @ + 1 ELSE @,
                 !.coll.stage = IF more THEN "ready" ELSE "exhausted",
                 !.coll.claim = NoClaim, !.coll.pump = "none"]
<1>1. Yields(k, w) /\ Formed(w) /\ w.player = k.player
  BY WokenYields DEF Yields
<1>2. FinishLoad(k, more) = IF NeedsInitialFill(j.coll) THEN Demand(j, FALSE, FALSE) ELSE j
  BY DEF FinishLoad
<1> HIDE DEF w
<1>3. /\ DOMAIN j = DOMAIN w /\ DOMAIN j.coll = DOMAIN w.coll /\ j.coll.claim = NoClaim
      /\ j.ends = w.ends /\ j.player = w.player
  BY <1>1 DEF Formed
<1> HIDE DEF j
<1>4. Yields(w, j)
  BY <1>1, <1>3 DEF Yields, Formed, Stale, NoClaim
<1>5. Yields(k, j) /\ Formed(j)
  BY <1>1, <1>4, YieldsIsTransitive DEF Yields
<1>6. Yields(k, Demand(j, FALSE, FALSE)) /\ Demand(j, FALSE, FALSE).player = j.player
  BY <1>5, DemandYields, YieldsIsTransitive
<1> QED
  BY <1>1, <1>2, <1>3, <1>5, <1>6

\* A continuation that is over leaves the others, as fresh as they were.
LEMMA WithoutYields ==
    ASSUME NEW k, Formed(k), NEW i \in DOMAIN k.ends
    PROVE  Yields(k, Without(k, i)) /\ Without(k, i).player = k.player
<1> DEFINE j == Without(k, i)
           n == Len(k.ends)
           f == RemoveAt(k.ends, i)
<1>1. /\ DOMAIN j = DOMAIN k /\ j.coll = k.coll /\ j.ends = f /\ j.player = k.player
  BY DEF Without, Formed
<1>2. DOMAIN k.ends = 1..n /\ n \in Nat /\ k.ends \in Seq(Continuation)
  BY LenProperties DEF Formed
<1>3. /\ f \in Seq(Continuation) /\ Len(f) = n - 1
      /\ \A p \in 1..(n - 1) : f[p] = IF p < i THEN k.ends[p] ELSE k.ends[p + 1]
  BY <1>2, RemovalElements
<1> HIDE DEF f, j
<1>4. DOMAIN f = 1..(n - 1)
  BY <1>3, LenProperties
<1>5. Stale(k) => \A p \in DOMAIN f : ~f[p].fresh
  <2>1. \A p \in 1..(n - 1) : p \in 1..n /\ p + 1 \in 1..n
    BY <1>2
  <2> QED
    BY <1>2, <1>3, <1>4, <2>1 DEF Stale
<1> QED
  BY <1>1, <1>3, <1>5 DEF Yields, Formed, Stale, j

\* What the controller asks the queue is a length and a track, or none.
LEMMA AskedOfQueue ==
    ASSUME QueueInv'
    PROVE  Len(tracks') \in Nat /\ Current \in Key
<1>1. tracks' \in Seq(Track) /\ Len(tracks') \in Nat
  BY LenProperties DEF QueueInv, QueueTypeOK
<1>2. currentIndex' # NoPosition => currentIndex' \in 1..Len(tracks')
  BY DEF QueueInv, CurrentIsAnEntry
<1>3. currentIndex' # NoPosition => tracks'[currentIndex'] \in Track
  BY <1>1, <1>2, ElementOfSeq
<1> QED
  BY <1>1, <1>3 DEF Current, Key

\* A request for related tracks is as fresh as the end it follows.
LEMMA BeginRoamYields ==
    ASSUME NEW k, Formed(k), QueueInv', NEW i \in DOMAIN k.ends, NEW j \in BeginRoam(k, i)
    PROVE  Yields(k, j)
<1> DEFINE w == Without(k, i)
           over == [w EXCEPT !.roamStage = "over"]
           e == [k.ends[i] EXCEPT !.pc = "roaming", !.key = Current, !.length = Len(tracks'),
                                  !.live = TRUE, !.op = TRUE]
           others == [d \in DOMAIN k.ends |-> [k.ends[d] EXCEPT !.live = FALSE, !.op = FALSE]]
           f == [others EXCEPT ![i] = e]
           asks == [k EXCEPT !.roamStage = "loading", !.ends = f]
<1>1. j = w \/ j = over \/ j = asks
  BY DEF BeginRoam, ForAll
<1>2. Yields(k, w)
  BY WithoutYields
<1>3. Yields(k, over)
  <2> HIDE DEF w
  <2>1. DOMAIN over = DOMAIN w /\ over.coll = w.coll /\ over.ends = w.ends
    BY <1>2 DEF Yields, Formed
  <2>2. Yields(w, over)
    BY <1>2, <2>1, SameEndsYield DEF Yields
  <2> QED
    BY <1>2, <2>2, YieldsIsTransitive
<1>4. e \in Continuation /\ e.fresh = k.ends[i].fresh
  <2> DEFINE c == k.ends[i]
  <2>1. c \in Continuation /\ Len(tracks') \in Nat /\ Current \in Key
    BY EndIsContinuation, AskedOfQueue DEF Formed
  <2>2. e = [c EXCEPT !.pc = "roaming", !.key = Current, !.length = Len(tracks'),
                      !.live = TRUE, !.op = TRUE]
    OBVIOUS
  <2> HIDE DEF c, e
  <2>3. e = [pc |-> "roaming", fresh |-> c.fresh, tries |-> c.tries, length |-> Len(tracks'),
             key |-> Current, live |-> TRUE, op |-> TRUE]
    BY <2>1, <2>2 DEF Continuation
  <2>4. c.fresh \in BOOLEAN /\ c.tries \in Nat
    BY <2>1 DEF Continuation
  <2>5. e \in Continuation /\ e.fresh = c.fresh
    BY <2>1, <2>3, <2>4 DEF Continuation, EndStages
  <2> QED
    BY <2>5 DEF c
<1>5. ASSUME NEW d \in DOMAIN k.ends
      PROVE  others[d] \in Continuation /\ others[d].fresh = k.ends[d].fresh
  <2> DEFINE c == k.ends[d]
  <2>1. c \in Continuation /\ others[d] = [c EXCEPT !.live = FALSE, !.op = FALSE]
    BY EndIsContinuation DEF Formed
  <2> HIDE DEF c, others
  <2>2. others[d] \in Continuation /\ others[d].fresh = c.fresh
    BY <2>1 DEF Continuation
  <2> QED
    BY <2>2 DEF c
<1>6. /\ f = [d \in DOMAIN k.ends |-> f[d]]
      /\ \A d \in DOMAIN k.ends : f[d] = IF d = i THEN e ELSE others[d]
  <2> HIDE DEF e
  <2> QED OBVIOUS
<1> HIDE DEF e, others, f, w, over
<1>7. f \in Seq(Continuation) /\ DOMAIN f = DOMAIN k.ends
  BY <1>4, <1>5, <1>6, ChangedEnds DEF Formed
<1>8. DOMAIN asks = DOMAIN k /\ asks.coll = k.coll /\ asks.ends = f
  BY DEF Formed
<1> HIDE DEF asks
<1>9. Yields(k, asks)
  BY <1>4, <1>5, <1>6, <1>7, <1>8 DEF Yields, Formed, Stale
<1> QED
  BY <1>1, <1>2, <1>3, <1>9

\* Who waits for a page claims the terminal with the token of its end.
LEMMA AwaitPageYields ==
    ASSUME NEW k, Formed(k), QueueInv', NEW i \in DOMAIN k.ends, NEW tries \in Nat
    PROVE  Yields(k, AwaitPage(k, i, tries))
<1> DEFINE c == k.ends[i]
           key == IF tries = 0 THEN Current ELSE c.key
           claim == [fresh |-> c.fresh, length |-> Len(tracks'),
                     key |-> IF MayDemand(k.coll, TRUE, FALSE) THEN Current ELSE key]
           q == [k EXCEPT !.coll.claim = claim]
           j == Demand(q, TRUE, FALSE)
           pc == IF j.coll.pump = "none" THEN "resumed" ELSE "waiting"
           e == [c EXCEPT !.pc = pc, !.tries = tries, !.length = Len(tracks'), !.key = key]
           w == Without(j, i)
           f == Append(w.ends, e)
           m == [j EXCEPT !.ends = f]
<1>1. c \in Continuation /\ Len(tracks') \in Nat /\ Current \in Key
  BY EndIsContinuation, AskedOfQueue DEF Formed
<1>2. c.fresh \in BOOLEAN /\ key \in Key
  BY <1>1 DEF Continuation
<1>3. Yields(k, q) /\ q.ends = k.ends /\ Formed(q)
  <2>1. claim.fresh = c.fresh /\ "fresh" \in DOMAIN claim
    OBVIOUS
  <2> HIDE DEF claim
  <2>2. DOMAIN q = DOMAIN k /\ DOMAIN q.coll = DOMAIN k.coll /\ q.coll.claim = claim
        /\ q.ends = k.ends
    BY DEF Formed
  <2> HIDE DEF q
  <2> QED
    BY <2>1, <2>2 DEF Yields, Formed, Stale
<1> HIDE DEF claim, q
<1>4. Yields(k, j) /\ j.ends = k.ends /\ Formed(j)
  <2>1. Yields(q, j) /\ j.ends = q.ends
    BY <1>3, DemandYields
  <2> HIDE DEF j
  <2>2. Yields(k, j)
    BY <1>3, <2>1, YieldsIsTransitive
  <2> QED
    BY <1>3, <2>1, <2>2 DEF Yields
<1>5. Yields(j, w)
  BY <1>4, WithoutYields
<1>6. w.ends = RemoveAt(j.ends, i)
  BY <1>4 DEF Without, Formed
<1>7. AwaitPage(k, i, tries) = m
  BY <1>4, <1>6 DEF AwaitPage, claim, q
<1> HIDE DEF j, w
<1>8. e \in Continuation /\ e.fresh = c.fresh
  <2>1. pc \in EndStages
    BY DEF EndStages
  <2>4. e = [c EXCEPT !.pc = pc, !.tries = tries, !.length = Len(tracks'), !.key = key]
    OBVIOUS
  <2> HIDE DEF c, pc, key, e
  <2>2. e = [pc |-> pc, fresh |-> c.fresh, tries |-> tries, length |-> Len(tracks'),
             key |-> key, live |-> c.live, op |-> c.op]
    BY <1>1, <2>4 DEF Continuation
  <2>3. c.live \in BOOLEAN /\ c.op \in BOOLEAN
    BY <1>1 DEF Continuation
  <2> QED
    BY <1>1, <1>2, <2>1, <2>2, <2>3 DEF Continuation
<1> HIDE DEF e, pc, key
<1>9. /\ w.ends \in Seq(Continuation) /\ Len(w.ends) \in Nat
      /\ DOMAIN w.ends = 1..Len(w.ends)
      /\ Stale(j) => \A p \in DOMAIN w.ends : ~w.ends[p].fresh
  BY <1>5, LenProperties DEF Yields, Formed, Stale
<1>10. /\ f \in Seq(Continuation) /\ DOMAIN f = 1..(Len(w.ends) + 1)
       /\ \A p \in 1..Len(w.ends) : f[p] = w.ends[p]
       /\ f[Len(w.ends) + 1] = e
  BY <1>8, <1>9, AppendProperties, LenProperties
<1>11. Stale(k) => \A p \in DOMAIN f : ~f[p].fresh
  <2> SUFFICES ASSUME Stale(k), NEW p \in DOMAIN f PROVE ~f[p].fresh
    OBVIOUS
  <2>1. Stale(j) /\ ~c.fresh
    BY <1>4 DEF Yields, Stale
  <2> HIDE DEF f, c
  <2>2. CASE p \in 1..Len(w.ends)
    BY <1>9, <1>10, <2>1, <2>2
  <2>3. CASE p = Len(w.ends) + 1
    BY <1>8, <1>10, <2>1, <2>3
  <2>4. p \in 1..Len(w.ends) \/ p = Len(w.ends) + 1
    BY <1>9, <1>10
  <2> QED
    BY <2>2, <2>3, <2>4
<1> HIDE DEF f, c
<1>12. DOMAIN m = DOMAIN j /\ m.coll = j.coll /\ m.ends = f
  BY <1>4 DEF Formed
<1> HIDE DEF m
<1> QED
  BY <1>4, <1>7, <1>10, <1>11, <1>12 DEF Yields, Formed, Stale

\* The claims are well formed, and none of them outlives a decision of the listener.
ClaimInv ==
    /\ Formed(ctl)
    /\ intents \in Nat
    /\ chosen => Stale(ctl)

\* A continuation moves the queue on only where the listener has decided nothing since.
StepYields ==
    (intents' = intents /\ Len(tracks') > Len(tracks) /\ ctl'.player = "busy"
     /\ ctl.player = "completed") => ~chosen

\* A decision of the listener makes every claim stale.
LEMMA DecisionsClaim ==
    ASSUME ClaimInv, NEW k, Formed(k), Stale(k), Command, Yields(k, ctl')
    PROVE  ClaimInv' /\ StepYields
  BY DEF ClaimInv, Command, Yields, StepYields

\* A step without a decision makes no claim fresh.
LEMMA QuietClaims ==
    ASSUME ClaimInv, Yields(ctl, ctl'), chosen' => chosen, intents' = intents \/ Command
    PROVE  ClaimInv'
  BY DEF ClaimInv, Yields, Command

\* Every command keeps the invariant.
LEMMA CommandsClaim ==
    ASSUME ClaimInv, CommandStep
    PROVE  ClaimInv' /\ StepYields
<1> DEFINE r == InvalidateRoam(ctl)
           c == InvalidateCollection(ctl)
           rc == InvalidateRoam(c)
<1>1. /\ Formed(ctl) /\ Formed(r) /\ Stale(r) /\ Formed(c) /\ Formed(rc) /\ Stale(rc)
      /\ Yields(ctl, c)
  BY InvalidateRoamStale, InvalidateCollectionYields DEF ClaimInv, Yields
<1>2. Yields(r, Apply(r)) /\ Yields(rc, Apply(rc)) /\ Yields(r, r) /\ Yields(rc, rc)
  BY <1>1, PlayerYields DEF Yields
<1> HIDE DEF r, c, rc
<1>3. CASE Command /\ (ctl' = Apply(rc) \/ ctl' = Apply(r) \/ ctl' = rc \/ ctl' = r)
  BY <1>1, <1>2, <1>3, DecisionsClaim
<1>4. ASSUME NEW rows \in 1..MaxRow, NEW index \in 1..rows, NEW target,
             PlayCollection(rows, index, target)
      PROVE  ClaimInv' /\ StepYields
  <2> DEFINE coll == [NoCollection EXCEPT
                       !.attached = TRUE, !.cursor = rows, !.hasMore = rows < MaxRow,
                       !.stage = IF rows < MaxRow THEN "ready" ELSE "exhausted",
                       !.target = target]
             ends == InvalidateCollection(r).ends
             k == [r EXCEPT !.coll = coll, !.ends = ends]
  <2>1. Command /\ ctl' = PlayTrack(k)
    BY <1>4 DEF PlayCollection, r
  <2>2. DOMAIN coll = DOMAIN NoCollection /\ coll.claim = NoClaim
    BY DEF NoCollection
  <2>3. Yields(r, InvalidateCollection(r))
    BY <1>1, InvalidateCollectionYields
  <2> HIDE DEF coll, ends
  <2>4. DOMAIN k = DOMAIN r /\ k.coll = coll /\ k.ends = ends
    BY <1>1 DEF Formed
  <2> HIDE DEF k
  <2>5. Formed(k) /\ Stale(k)
    BY <1>1, <2>2, <2>3, <2>4 DEF Formed, Stale, Yields, NoCollection, NoClaim, ends
  <2> QED
    BY <2>1, <2>5, PlayerYields, DecisionsClaim
<1>5. ASSUME NEW enabled \in BOOLEAN, SetRoamEnabled(enabled)
      PROVE  ClaimInv' /\ StepYields
  <2> DEFINE k == [ctl EXCEPT !.roamEnabled = enabled]
  <2>1. Command /\ ctl' = InvalidateRoam(k)
    BY <1>5 DEF SetRoamEnabled, Decides
  <2>2. DOMAIN k = DOMAIN ctl /\ k.coll = ctl.coll /\ k.ends = ctl.ends
    BY <1>1 DEF Formed
  <2> HIDE DEF k
  <2>3. Formed(k)
    BY <1>1, <2>2 DEF Formed
  <2>4. Formed(ctl') /\ Stale(ctl')
    BY <2>1, <2>3, InvalidateRoamStale
  <2> QED
    BY <2>1, <2>4, DecisionsClaim DEF Yields
<1>6. CASE ActivateCurrent
  <2> DEFINE k == [r EXCEPT !.player = "busy"]
  <2>1. Command /\ (ctl' = Notice(k) \/ ctl' = r)
    BY <1>6 DEF ActivateCurrent, Decides, r
  <2>2. DOMAIN k = DOMAIN r /\ k.coll = r.coll /\ k.ends = r.ends
    BY <1>1 DEF Formed
  <2> HIDE DEF k
  <2>3. Formed(k) /\ Stale(k)
    BY <1>1, <2>2 DEF Formed, Stale
  <2> QED
    BY <1>1, <1>2, <2>1, <2>3, NoticeYields, DecisionsClaim
<1>7. CASE StopPlayback
  <2>1. Command /\ ctl' = StopPlayer(r)
    BY <1>7 DEF StopPlayback, Decides, r
  <2> QED
    BY <1>1, <2>1, PlayerYields, DecisionsClaim
<1>8. CASE ReloadCurrentSource \/ InvalidateCollectionSource
  <2>1. /\ Command /\ chosen' = chosen
        /\ ctl' = PlayTrack(ctl) \/ ctl' = c
    BY <1>8 DEF ReloadCurrentSource, InvalidateCollectionSource, c
  <2>2. Yields(ctl, ctl')
    BY <1>1, <2>1, PlayerYields
  <2>3. StepYields
    BY <2>1 DEF ClaimInv, Command, StepYields
  <2> QED
    BY <2>1, <2>2, <2>3, QuietClaims
<1>9. CASE RetryContinuation
  <2> DEFINE k == [ctl EXCEPT !.coll.demandedAt = NoPosition, !.coll.stage = "ready"]
             claim == [fresh |-> TRUE, key |-> Current, length |-> Len(tracks)]
             claimed == [k EXCEPT !.coll.claim = claim]
             atEnd == ctl.player = "completed" /\ MayDemand(k.coll, TRUE, FALSE)
  <2>1. /\ Command /\ chosen' = (chosen /\ ~atEnd)
        /\ ctl' = Demand(IF atEnd THEN claimed ELSE k, TRUE, FALSE)
    BY <1>9 DEF RetryContinuation
  <2>8. (chosen' => chosen) /\ (atEnd => ~chosen')
    BY <2>1
  <2>2. DOMAIN k = DOMAIN ctl /\ DOMAIN k.coll = DOMAIN ctl.coll
        /\ k.coll.claim = ctl.coll.claim /\ k.ends = ctl.ends
    BY <1>1 DEF Formed
  <2> HIDE DEF k, atEnd
  <2>3. Yields(ctl, k) /\ Formed(k)
    BY <1>1, <2>2, SameEndsYield DEF Yields
  <2>4. Formed(claimed)
    <3>1. "fresh" \in DOMAIN claim
      OBVIOUS
    <3> HIDE DEF claim
    <3>2. DOMAIN claimed = DOMAIN k /\ DOMAIN claimed.coll = DOMAIN k.coll
          /\ claimed.coll.claim = claim /\ claimed.ends = k.ends
      BY <2>3 DEF Formed
    <3> HIDE DEF claimed
    <3> QED
      BY <2>3, <3>1, <3>2 DEF Formed
  <2> HIDE DEF claimed
  <2>5. StepYields
    BY <2>1 DEF ClaimInv, Command, StepYields
  <2>6. CASE atEnd
    <3>1. ctl' = Demand(claimed, TRUE, FALSE)
      BY <2>1, <2>6
    <3>2. Yields(claimed, ctl')
      BY <2>4, <3>1, DemandYields
    <3>3. intents' \in Nat
      BY <2>1 DEF ClaimInv, Command
    <3> QED
      BY <2>6, <2>8, <3>2, <3>3, <2>5 DEF ClaimInv, Yields
  <2>7. CASE ~atEnd
    <3>1. ctl' = Demand(k, TRUE, FALSE)
      BY <2>1, <2>7
    <3>2. Yields(k, ctl')
      BY <2>3, <3>1, DemandYields
    <3>3. Yields(ctl, ctl')
      BY <2>3, <3>2, YieldsIsTransitive
    <3> QED
      BY <2>1, <2>5, <2>8, <3>3, QuietClaims
  <2> QED
    BY <2>5, <2>6, <2>7
<1>10. CASE \/ \E batch \in Batch, index \in 0..MaxLength : ReplaceAndPlay(batch, index)
            \/ \E track \in Track : PushTrack(track)
            \/ \E index \in 1..MaxLength : RemoveTrack(index) \/ SelectTrack(index)
            \/ ClearQueue \/ NavigateTrack
  <2>1. Command /\ (ctl' = Apply(rc) \/ ctl' = Apply(r))
    BY <1>10 DEF ReplaceAndPlay, PushTrack, RemoveTrack, SelectTrack, ClearQueue, NavigateTrack,
                 Decides, r, rc, c
  <2> QED
    BY <1>3, <2>1
<1>11. CASE (\E o \in Orders : ChangeOrder(o)) \/ \E mode \in RepeatModes : ChangeRepeat(mode)
  <2>1. Command /\ (ctl' = rc \/ ctl' = r)
    BY <1>11 DEF ChangeOrder, ChangeRepeat, Decides, r, rc, c
  <2> QED
    BY <1>3, <2>1
<1> QED
  BY <1>4, <1>5, <1>6, <1>7, <1>8, <1>9, <1>10, <1>11 DEF CommandStep

\* The player and its notifications keep the invariant, and move no queue on.
LEMMA PlayerClaims ==
    ASSUME ClaimInv, LaterDemand \/ PlayerMoves
    PROVE  ClaimInv' /\ StepYields
<1> DEFINE k == [ctl EXCEPT !.player = "playing"]
<1>1. /\ UNCHANGED qvars /\ chosen' = chosen /\ intents' = intents
      /\ \/ \E viewport \in BOOLEAN : ctl' = Demand(ctl, FALSE, viewport)
         \/ ctl' = Notice(k) \/ ctl' = StopPlayer(ctl)
  BY DEF LaterDemand, PlayerMoves
<1>2. Formed(ctl)
  BY DEF ClaimInv
<1>3. DOMAIN k = DOMAIN ctl /\ k.coll = ctl.coll /\ k.ends = ctl.ends
  BY <1>2 DEF Formed
<1> HIDE DEF k
<1>4. Yields(ctl, k) /\ Formed(k)
  BY <1>2, <1>3, SameEndsYield DEF Yields
<1>5. Yields(ctl, Notice(k)) /\ Yields(ctl, StopPlayer(ctl))
  BY <1>2, <1>4, NoticeYields, PlayerYields, YieldsIsTransitive
<1>6. \A viewport : Yields(ctl, Demand(ctl, FALSE, viewport))
  BY <1>2, DemandYields
<1>7. Yields(ctl, ctl')
  BY <1>1, <1>5, <1>6
<1>8. tracks' = tracks
  BY <1>1 DEF qvars
<1> QED
  BY <1>1, <1>7, <1>8, QuietClaims DEF StepYields

\* The end of an entry opens what is still to be decided.
LEMMA CompletionClaims ==
    ASSUME ClaimInv, PlayerCompletes
    PROVE  ClaimInv' /\ StepYields
<1> DEFINE n == NewEpoch(ctl)
           k == [n EXCEPT !.player = "completed", !.handled = TRUE]
           b == [k EXCEPT !.player = "busy"]
           w == [k EXCEPT !.ends = Append(@, Ended)]
<1>1. /\ ctl' = Notice(b) \/ ctl' = PlayTrack(k) \/ ctl' = w
      /\ CompleteCurrent /\ chosen' = FALSE /\ intents' = intents
  BY DEF PlayerCompletes
<1>2. Formed(n)
  BY NewEpochStale DEF ClaimInv
<1> HIDE DEF n
<1>3. DOMAIN k = DOMAIN n /\ k.coll = n.coll /\ k.ends = n.ends
  BY <1>2 DEF Formed
<1> HIDE DEF k
<1>4. Formed(k)
  BY <1>2, <1>3 DEF Formed
<1>5. Formed(b)
  <2>1. DOMAIN b = DOMAIN k /\ b.coll = k.coll /\ b.ends = k.ends
    BY <1>4 DEF Formed
  <2> HIDE DEF b
  <2> QED
    BY <1>4, <2>1 DEF Formed
<1>6. Formed(w)
  <2>1. DOMAIN w = DOMAIN k /\ w.coll = k.coll /\ w.ends = Append(k.ends, Ended)
    BY <1>4 DEF Formed
  <2>2. Ended \in Continuation
    BY DEF Ended, Continuation, EndStages, Key
  <2>3. Append(k.ends, Ended) \in Seq(Continuation)
    BY <1>4, <2>2, AppendProperties DEF Formed
  <2> HIDE DEF w
  <2> QED
    BY <1>4, <2>1, <2>3 DEF Formed
<1> HIDE DEF b, w
<1>7. Formed(ctl')
  BY <1>1, <1>4, <1>5, <1>6, NoticeYields, PlayerYields DEF Yields
<1>8. tracks' = tracks
  BY <1>1 DEF CompleteCurrent, AdvanceQueue, content
<1>9. ~chosen' /\ intents' \in Nat
  BY <1>1 DEF ClaimInv
<1> QED
  BY <1>7, <1>8, <1>9 DEF ClaimInv, StepYields

\* What follows an end keeps the invariant, and takes effect only where nothing was
\* decided since.
LEMMA ContinuationsClaim ==
    ASSUME ClaimInv, QueueInv', NEW i \in DOMAIN ctl.ends,
           FocusReleased(i) \/ Resume(i) \/ RoamAnswers(i),
           UNCHANGED <<omitted, chosen, intents>>
    PROVE  ClaimInv' /\ StepYields
<1>1. Formed(ctl) /\ ctl.ends[i] \in Continuation
  BY EndIsContinuation DEF ClaimInv, Formed
<1>2. CASE FocusReleased(i)
  <2>1. /\ UNCHANGED qvars
        /\ \/ ctl' \in BeginRoam(ctl, i)
           \/ ctl' = AwaitPage(ctl, i, 0) \/ ctl' = Without(ctl, i)
    BY <1>2 DEF FocusReleased
  <2>2. Yields(ctl, ctl')
    BY <1>1, <2>1, BeginRoamYields, AwaitPageYields, WithoutYields
  <2>3. tracks' = tracks
    BY <2>1 DEF qvars
  <2> QED
    BY <2>2, <2>3, QuietClaims DEF StepYields
<1>3. CASE Resume(i)
  <2> DEFINE rearmed == [ctl EXCEPT !.coll.demandedAt = NoPosition]
             next == ctl.ends[i].tries + 1
  <2>1. /\ UNCHANGED qvars
        /\ \/ ctl' \in BeginRoam(ctl, i)
           \/ ctl' = AwaitPage(rearmed, i, next)
           \/ ctl' = Without(rearmed, i) \/ ctl' = Without(ctl, i)
    BY <1>3 DEF Resume
  <2>2. /\ DOMAIN rearmed = DOMAIN ctl /\ DOMAIN rearmed.coll = DOMAIN ctl.coll
        /\ rearmed.coll.claim = ctl.coll.claim /\ rearmed.ends = ctl.ends
    BY <1>1 DEF Formed
  <2>3. next \in Nat
    BY <1>1 DEF Continuation
  <2> HIDE DEF rearmed, next
  <2>4. Yields(ctl, rearmed) /\ Formed(rearmed) /\ i \in DOMAIN rearmed.ends
    BY <1>1, <2>2, SameEndsYield DEF Yields
  <2>5. Yields(ctl, AwaitPage(rearmed, i, next)) /\ Yields(ctl, Without(rearmed, i))
    BY <2>3, <2>4, AwaitPageYields, WithoutYields, YieldsIsTransitive
  <2>6. Yields(ctl, ctl')
    BY <1>1, <2>1, <2>5, BeginRoamYields, WithoutYields
  <2>7. tracks' = tracks
    BY <2>1 DEF qvars
  <2> QED
    BY <2>6, <2>7, QuietClaims DEF StepYields
<1>4. CASE RoamAnswers(i)
  <2> DEFINE k == Without(ctl, i)
             over == [k EXCEPT !.roamStage = "over"]
             won == [k EXCEPT !.roamStage = "continued"]
  <2>1. \/ (ctl' = k \/ ctl' = over) /\ UNCHANGED qvars
        \/ ctl' = PlayTrack(won) /\ ctl.ends[i].fresh
    BY <1>4 DEF RoamAnswers, RoamIsCurrent
  <2>2. Yields(ctl, k)
    BY <1>1, WithoutYields
  <2> HIDE DEF k
  <2>3. /\ DOMAIN over = DOMAIN k /\ over.coll = k.coll /\ over.ends = k.ends
        /\ DOMAIN won = DOMAIN k /\ won.coll = k.coll /\ won.ends = k.ends
    BY <2>2 DEF Yields, Formed
  <2> HIDE DEF over, won
  <2>4. Yields(ctl, over) /\ Yields(ctl, won) /\ Formed(won)
    BY <2>2, <2>3, SameEndsYield, YieldsIsTransitive DEF Yields
  <2>5. Yields(ctl, PlayTrack(won))
    BY <2>4, PlayerYields, YieldsIsTransitive
  <2>6. Yields(ctl, ctl')
    BY <2>1, <2>2, <2>4, <2>5
  <2>7. ctl.ends[i].fresh => ~chosen
    BY DEF ClaimInv, Stale
  <2>8. UNCHANGED qvars => tracks' = tracks
    BY DEF qvars
  <2> QED
    BY <2>1, <2>6, <2>7, <2>8, QuietClaims DEF StepYields
<1> QED
  BY <1>2, <1>3, <1>4

\* A page keeps the invariant: only a fresh claim lets its first entry play.
LEMMA PumpClaims ==
    ASSUME ClaimInv, PumpStep
    PROVE  ClaimInv' /\ StepYields
<1>1. Formed(ctl)
  BY DEF ClaimInv
<1>2. /\ Yields(ctl, FailLoad(ctl)) /\ FailLoad(ctl).player = ctl.player
      /\ \A more : /\ Yields(ctl, FinishLoad(ctl, more))
                   /\ FinishLoad(ctl, more).player = ctl.player
  BY <1>1, FailLoadYields, FinishLoadYields
<1>3. CASE PageFails \/ PageStarted
  <2>1. /\ ctl' = FailLoad(ctl) \/ ctl' = FinishLoad(ctl, ctl.coll.more)
        /\ UNCHANGED qvars /\ chosen' = chosen /\ intents' = intents
    BY <1>3 DEF PageFails, PageStarted
  <2>2. tracks' = tracks
    BY <2>1 DEF qvars
  <2>3. Yields(ctl, ctl')
    BY <1>2, <2>1
  <2> QED
    BY <2>1, <2>2, <2>3, QuietClaims DEF StepYields
<1>4. ASSUME NEW more, PageArrives(more)
      PROVE  ClaimInv' /\ StepYields
  <2> DEFINE k == [ctl EXCEPT !.coll.pump = "starting", !.coll.more = more]
  <2>1. /\ \/ ctl' = FinishLoad(ctl, more)
           \/ TerminalIsCurrent /\ (ctl' = PlayTrack(k) \/ ctl' = FailLoad(ctl))
        /\ chosen' = chosen /\ intents' = intents
    BY <1>4 DEF PageArrives
  <2>2. TerminalIsCurrent => ~chosen
    BY DEF TerminalIsCurrent, ClaimInv, Stale
  <2>3. /\ DOMAIN k = DOMAIN ctl /\ DOMAIN k.coll = DOMAIN ctl.coll
        /\ k.coll.claim = ctl.coll.claim /\ k.ends = ctl.ends
    BY <1>1 DEF Formed
  <2> HIDE DEF k
  <2>4. Yields(ctl, k) /\ Formed(k)
    BY <1>1, <2>3, SameEndsYield DEF Yields
  <2>5. Yields(ctl, PlayTrack(k))
    BY <2>4, PlayerYields, YieldsIsTransitive
  <2>6. Yields(ctl, ctl')
    BY <1>2, <2>1, <2>5
  <2> QED
    BY <1>2, <2>1, <2>2, <2>6, QuietClaims DEF StepYields
<1> QED
  BY <1>3, <1>4 DEF PumpStep

\* Every step keeps the invariant.
LEMMA ControllerClaims ==
    ASSUME ClaimInv, QueueInv', [ControllerNext]_<<qvars, cvars>>
    PROVE  ClaimInv' /\ StepYields
<1>1. CASE CommandStep
  BY <1>1, CommandsClaim
<1>2. CASE LaterDemand \/ PlayerMoves
  BY <1>2, PlayerClaims
<1>3. CASE PlayerCompletes
  BY <1>3, CompletionClaims
<1>4. CASE PumpStep
  BY <1>4, PumpClaims
<1>5. CASE ContinuationStep
  BY <1>5, ContinuationsClaim DEF ContinuationStep
<1>6. CASE UNCHANGED <<qvars, cvars>>
  <2>1. Yields(ctl, ctl') /\ tracks' = tracks
    BY <1>6 DEF qvars, cvars, Yields, ClaimInv
  <2> QED
    BY <1>6, <2>1, QuietClaims DEF cvars, StepYields
<1> QED
  BY <1>1, <1>2, <1>3, <1>4, <1>5, <1>6 DEF ControllerNext

\* The controller begins without a claim.
LEMMA ControllerInitClaims == ControllerInit => ClaimInv
<1> SUFFICES ASSUME ControllerInit PROVE ClaimInv
  OBVIOUS
<1>1. <<>> \in Seq(Continuation)
  OBVIOUS
<1> QED
  BY <1>1 DEF ControllerInit, ClaimInv, Formed, NoCollection, NoClaim

\* However many ends, pages and requests for related tracks are under way at once, none
\* of them moves the queue on once the listener has decided something else.
THEOREM ListenerWins == ControllerSpec => ChoiceWins
<1>1. FollowInv => QueueInv
  BY DEF FollowInv
<1>2. ClaimInv /\ QueueInv' /\ [ControllerNext]_<<qvars, cvars>> => ClaimInv' /\ StepYields
  BY ControllerClaims
<1> QED
  BY <1>1, <1>2, ControllerInitClaims, ControllerInitInv, ControllerKeepsInv, PTL
     DEF ControllerSpec, ChoiceWins, StepYields

-----------------------------------------------------------------------------
(***************************************************************************)
(* The queue is the collection so far.                                     *)
(***************************************************************************)
Live(ends) == \E i \in DOMAIN ends : ends[i].live

\* From k to j the collection stays as it is, but for a page that is asked for, and no
\* request for related tracks becomes the current one.
KeepsLine(k, j) ==
    /\ j.coll.attached = k.coll.attached /\ j.coll.hasMore = k.coll.hasMore
    /\ j.coll.cursor = k.coll.cursor /\ j.coll.more = k.coll.more
    /\ \/ j.coll.pump = k.coll.pump
       \/ k.coll.pump = "none" /\ j.coll.pump = "asking" /\ k.coll.hasMore
    /\ Live(j.ends) => Live(k.ends)

\* Methods that the controller calls one after the other keep it when each does.
LEMMA KeepsLineIsTransitive ==
    ASSUME NEW k, NEW j, NEW m, KeepsLine(k, j), KeepsLine(j, m)
    PROVE  KeepsLine(k, m)
  BY DEF KeepsLine

\* A controller of which only other fields differ.
LEMMA SameLine ==
    ASSUME NEW k, NEW j, j.coll = k.coll, j.ends = k.ends
    PROVE  KeepsLine(k, j)
  BY DEF KeepsLine

\* A new epoch keeps the line and every request.
LEMMA NewEpochLine ==
    ASSUME NEW k, Formed(k)
    PROVE  KeepsLine(k, NewEpoch(k))
<1> DEFINE j == NewEpoch(k)
           f == [i \in DOMAIN k.ends |-> [k.ends[i] EXCEPT !.fresh = FALSE]]
<1>1. /\ j.coll.attached = k.coll.attached /\ j.coll.hasMore = k.coll.hasMore
      /\ j.coll.cursor = k.coll.cursor /\ j.coll.more = k.coll.more
      /\ j.coll.pump = k.coll.pump /\ j.ends = f
  BY DEF NewEpoch, ForAll, Formed
<1>2. ASSUME NEW i \in DOMAIN f, f[i].live PROVE k.ends[i].live /\ i \in DOMAIN k.ends
  <2> DEFINE e == k.ends[i]
  <2>1. i \in DOMAIN k.ends /\ f[i] = [e EXCEPT !.fresh = FALSE]
    OBVIOUS
  <2>2. e \in Continuation
    BY <2>1, EndIsContinuation DEF Formed
  <2> HIDE DEF e, f
  <2>3. e.live
    BY <1>2, <2>1, <2>2 DEF Continuation
  <2> QED
    BY <2>1, <2>3 DEF e
<1> HIDE DEF j, f
<1> QED
  BY <1>1, <1>2 DEF KeepsLine, Live, j

\* _invalidateRoam keeps the line, and no request is the current one any more.
LEMMA InvalidateRoamLine ==
    ASSUME NEW k, Formed(k)
    PROVE  KeepsLine(k, InvalidateRoam(k)) /\ ~Live(InvalidateRoam(k).ends)
<1> DEFINE n == NewEpoch(k)
           f == [i \in DOMAIN n.ends |-> [n.ends[i] EXCEPT !.live = FALSE, !.op = FALSE]]
           j == InvalidateRoam(k)
<1>1. Formed(n) /\ KeepsLine(k, n)
  BY NewEpochStale, NewEpochLine
<1>2. j = [n EXCEPT !.roamStage = "idle", !.ends = f]
  BY DEF InvalidateRoam, ForAll
<1> HIDE DEF n, j
<1>3. ASSUME NEW i \in DOMAIN f PROVE ~f[i].live
  <2> DEFINE e == n.ends[i]
  <2>1. i \in DOMAIN n.ends /\ f[i] = [e EXCEPT !.live = FALSE, !.op = FALSE]
    OBVIOUS
  <2>2. e \in Continuation
    BY <1>1, <2>1, EndIsContinuation DEF Formed
  <2> HIDE DEF e, f
  <2> QED
    BY <2>1, <2>2 DEF Continuation
<1> HIDE DEF f
<1>4. j.coll = n.coll /\ j.ends = f
  BY <1>1, <1>2 DEF Formed
<1> QED
  BY <1>1, <1>3, <1>4 DEF KeepsLine, Live, j

\* _invalidateCollection leaves no collection, and no request more than there was.
LEMMA InvalidateCollectionLine ==
    ASSUME NEW k, Formed(k)
    PROVE  /\ InvalidateCollection(k).coll = NoCollection
           /\ Live(InvalidateCollection(k).ends) => Live(k.ends)
<1> DEFINE f == [i \in DOMAIN k.ends |-> IF k.ends[i].pc = "waiting"
                                       THEN [k.ends[i] EXCEPT !.pc = "orphaned"] ELSE k.ends[i]]
           j == InvalidateCollection(k)
<1>1. j.ends = f /\ j.coll = NoCollection
  BY DEF InvalidateCollection, ForAll, Formed
<1>2. ASSUME NEW i \in DOMAIN f, f[i].live PROVE k.ends[i].live /\ i \in DOMAIN k.ends
  <2> DEFINE e == k.ends[i]
  <2>1. /\ i \in DOMAIN k.ends
        /\ f[i] = IF e.pc = "waiting" THEN [e EXCEPT !.pc = "orphaned"] ELSE e
    OBVIOUS
  <2>2. e \in Continuation
    BY <2>1, EndIsContinuation DEF Formed
  <2> HIDE DEF e, f
  <2>3. e.live
    BY <1>2, <2>1, <2>2 DEF Continuation
  <2> QED
    BY <2>1, <2>3 DEF e
<1> HIDE DEF f, j
<1> QED
  BY <1>1, <1>2 DEF Live, j

\* The end of a load keeps the line and every request.
LEMMA WokenLine ==
    ASSUME NEW k, Formed(k)
    PROVE  Woken(k).coll = k.coll /\ (Live(Woken(k).ends) => Live(k.ends))
<1> DEFINE f == [i \in DOMAIN k.ends |-> IF k.ends[i].pc = "waiting"
                                       THEN [k.ends[i] EXCEPT !.pc = "resumed"] ELSE k.ends[i]]
           j == Woken(k)
<1>1. j.ends = f /\ j.coll = k.coll
  BY DEF Woken, ForAll, Formed
<1>2. ASSUME NEW i \in DOMAIN f, f[i].live PROVE k.ends[i].live /\ i \in DOMAIN k.ends
  <2> DEFINE e == k.ends[i]
  <2>1. /\ i \in DOMAIN k.ends
        /\ f[i] = IF e.pc = "waiting" THEN [e EXCEPT !.pc = "resumed"] ELSE e
    OBVIOUS
  <2>2. e \in Continuation
    BY <2>1, EndIsContinuation DEF Formed
  <2> HIDE DEF e, f
  <2>3. e.live
    BY <1>2, <2>1, <2>2 DEF Continuation
  <2> QED
    BY <2>1, <2>3 DEF e
<1> HIDE DEF f, j
<1> QED
  BY <1>1, <1>2 DEF Live, j

\* Asking for a page, which is only done while there are more.
LEMMA DemandLine ==
    ASSUME NEW k, Formed(k), NEW force, NEW viewport
    PROVE  KeepsLine(k, Demand(k, force, viewport))
<1> DEFINE j == Demand(k, force, viewport)
<1>1. /\ j.coll.attached = k.coll.attached /\ j.coll.hasMore = k.coll.hasMore
      /\ j.coll.cursor = k.coll.cursor /\ j.coll.more = k.coll.more
      /\ j.ends = k.ends
      /\ \/ j.coll.pump = k.coll.pump
         \/ k.coll.pump = "none" /\ j.coll.pump = "asking" /\ k.coll.hasMore
  BY DEF Demand, MayDemand, Formed
<1> HIDE DEF j
<1> QED
  BY <1>1 DEF KeepsLine, j

\* A notification of the player keeps the line.
LEMMA NoticeLine ==
    ASSUME NEW k, Formed(k)
    PROVE  KeepsLine(k, Notice(k))
<1> DEFINE roaming == \E i \in DOMAIN k.ends : k.ends[i].op
           j == IF roaming THEN InvalidateRoam(k) ELSE k
           m == [j EXCEPT !.handled = FALSE]
<1>1. KeepsLine(k, j) /\ Formed(j)
  BY InvalidateRoamLine, InvalidateRoamStale, SameLine
<1>2. KeepsLine(j, m) /\ Formed(m)
  <2> HIDE DEF j
  <2>1. DOMAIN m = DOMAIN j /\ m.coll = j.coll /\ m.ends = j.ends
    BY <1>1 DEF Formed
  <2> QED
    BY <1>1, <2>1, SameLine, SameEndsYield DEF Yields
<1>3. Notice(k) = Demand(m, FALSE, FALSE)
  BY DEF Notice
<1> HIDE DEF j, m
<1>4. KeepsLine(m, Demand(m, FALSE, FALSE))
  BY <1>2, DemandLine
<1> QED
  BY <1>1, <1>2, <1>3, <1>4, KeepsLineIsTransitive

\* Starting or stopping the player, or handing it an update, keeps the line.
LEMMA PlayerLine ==
    ASSUME NEW k, Formed(k)
    PROVE  KeepsLine(k, PlayTrack(k)) /\ KeepsLine(k, StopPlayer(k)) /\ KeepsLine(k, Apply(k))
<1> DEFINE p == [k EXCEPT !.player = "busy", !.on = Current]
           q == [k EXCEPT !.player = "idle"]
<1>1. /\ DOMAIN p = DOMAIN k /\ p.coll = k.coll /\ p.ends = k.ends
      /\ DOMAIN q = DOMAIN k /\ q.coll = k.coll /\ q.ends = k.ends
  BY DEF Formed
<1>2. PlayTrack(k) = Notice(p) /\ StopPlayer(k) = Notice(q)
  BY DEF PlayTrack, StopPlayer
<1> HIDE DEF p, q
<1>3. KeepsLine(k, p) /\ KeepsLine(k, q) /\ Formed(p) /\ Formed(q)
  BY <1>1, SameLine, SameEndsYield DEF Yields
<1>4. KeepsLine(k, PlayTrack(k)) /\ KeepsLine(k, StopPlayer(k))
  BY <1>2, <1>3, NoticeLine, KeepsLineIsTransitive
<1>5. KeepsLine(k, k)
  BY SameLine
<1> QED
  BY <1>4, <1>5 DEF Apply

\* A continuation that is over.
LEMMA WithoutLine ==
    ASSUME NEW k, Formed(k), NEW i \in DOMAIN k.ends
    PROVE  KeepsLine(k, Without(k, i)) /\ Without(k, i).coll = k.coll
<1> DEFINE j == Without(k, i)
           n == Len(k.ends)
           f == RemoveAt(k.ends, i)
<1>1. j.coll = k.coll /\ j.ends = f
  BY DEF Without, Formed
<1>2. DOMAIN k.ends = 1..n /\ n \in Nat /\ k.ends \in Seq(Continuation)
  BY LenProperties DEF Formed
<1>3. /\ f \in Seq(Continuation) /\ Len(f) = n - 1
      /\ \A p \in 1..(n - 1) : f[p] = IF p < i THEN k.ends[p] ELSE k.ends[p + 1]
  BY <1>2, RemovalElements
<1> HIDE DEF f, j
<1>4. DOMAIN f = 1..(n - 1)
  BY <1>3, LenProperties
<1>5. \A p \in 1..(n - 1) : p \in 1..n /\ p + 1 \in 1..n
  BY <1>2
<1>6. Live(f) => Live(k.ends)
  BY <1>2, <1>3, <1>4, <1>5 DEF Live
<1> QED
  BY <1>1, <1>6 DEF KeepsLine, j

\* A request for related tracks touches no collection.
LEMMA BeginRoamLine ==
    ASSUME NEW k, Formed(k), NEW i \in DOMAIN k.ends, NEW j \in BeginRoam(k, i)
    PROVE  j.coll = k.coll
<1> DEFINE w == Without(k, i)
           over == [w EXCEPT !.roamStage = "over"]
           e == [k.ends[i] EXCEPT !.pc = "roaming", !.key = Current, !.length = Len(tracks'),
                                  !.live = TRUE, !.op = TRUE]
           others == [d \in DOMAIN k.ends |-> [k.ends[d] EXCEPT !.live = FALSE, !.op = FALSE]]
           f == [others EXCEPT ![i] = e]
           asks == [k EXCEPT !.roamStage = "loading", !.ends = f]
<1>1. j = w \/ j = over \/ j = asks
  BY DEF BeginRoam, ForAll
<1>2. w.coll = k.coll /\ Formed(w)
  BY WithoutLine, WithoutYields DEF Yields
<1> HIDE DEF w, f
<1>3. over.coll = w.coll /\ asks.coll = k.coll
  BY <1>2 DEF Formed
<1> QED
  BY <1>1, <1>2, <1>3

\* Who waits for a page asks for it if nobody does.
LEMMA AwaitPageLine ==
    ASSUME NEW k, Formed(k), QueueInv', NEW i \in DOMAIN k.ends, NEW tries \in Nat
    PROVE  KeepsLine(k, AwaitPage(k, i, tries))
<1> DEFINE c == k.ends[i]
           key == IF tries = 0 THEN Current ELSE c.key
           claim == [fresh |-> c.fresh, length |-> Len(tracks'),
                     key |-> IF MayDemand(k.coll, TRUE, FALSE) THEN Current ELSE key]
           q == [k EXCEPT !.coll.claim = claim]
           j == Demand(q, TRUE, FALSE)
           pc == IF j.coll.pump = "none" THEN "resumed" ELSE "waiting"
           e == [c EXCEPT !.pc = pc, !.tries = tries, !.length = Len(tracks'), !.key = key]
           w == Without(j, i)
           f == Append(w.ends, e)
           m == [j EXCEPT !.ends = f]
<1>1. c \in Continuation
  BY EndIsContinuation DEF Formed
<1>3. KeepsLine(k, q) /\ q.ends = k.ends /\ Formed(q)
  <2>1. "fresh" \in DOMAIN claim
    OBVIOUS
  <2> HIDE DEF claim
  <2>2. /\ DOMAIN q = DOMAIN k /\ DOMAIN q.coll = DOMAIN k.coll /\ q.ends = k.ends
        /\ q.coll.claim = claim
        /\ q.coll.attached = k.coll.attached /\ q.coll.hasMore = k.coll.hasMore
        /\ q.coll.cursor = k.coll.cursor /\ q.coll.more = k.coll.more
        /\ q.coll.pump = k.coll.pump
    BY DEF Formed
  <2> HIDE DEF q
  <2> QED
    BY <2>1, <2>2 DEF KeepsLine, Formed
<1> HIDE DEF claim, q
<1>4. KeepsLine(k, j) /\ j.ends = k.ends /\ Formed(j)
  <2>1. KeepsLine(q, j) /\ Yields(q, j) /\ j.ends = q.ends
    BY <1>3, DemandLine, DemandYields
  <2> HIDE DEF j
  <2> QED
    BY <1>3, <2>1, KeepsLineIsTransitive DEF Yields
<1>5. KeepsLine(j, w) /\ Formed(w)
  BY <1>4, WithoutLine, WithoutYields DEF Yields
<1>6. w.ends = RemoveAt(j.ends, i)
  BY <1>4 DEF Without, Formed
<1>7. AwaitPage(k, i, tries) = m
  BY <1>4, <1>6 DEF AwaitPage, claim, q
<1> HIDE DEF j, w
<1>8. e.live = c.live
  <2>1. e = [c EXCEPT !.pc = pc, !.tries = tries, !.length = Len(tracks'), !.key = key]
    OBVIOUS
  <2> HIDE DEF c, pc, key, e
  <2> QED
    BY <1>1, <2>1 DEF Continuation
<1> HIDE DEF e
<1>9. Live(f) => Live(k.ends)
  <2>1. /\ Len(w.ends) \in Nat /\ DOMAIN w.ends = 1..Len(w.ends)
        /\ DOMAIN f = 1..(Len(w.ends) + 1)
        /\ \A p \in 1..Len(w.ends) : f[p] = w.ends[p]
        /\ f[Len(w.ends) + 1] = e
    <3>1. w.ends \in Seq(Continuation)
      BY <1>5 DEF Formed
    <3>2. /\ Len(w.ends) \in Nat /\ DOMAIN w.ends = 1..Len(w.ends)
      BY <3>1, LenProperties
    <3>3. f = [p \in 1..(Len(w.ends) + 1) |-> IF p \in 1..Len(w.ends) THEN w.ends[p] ELSE e]
      BY <3>1, <3>2
    <3> QED
      BY <3>2, <3>3
  <2>2. Live(w.ends) => Live(k.ends)
    BY <1>4, <1>5 DEF KeepsLine
  <2> HIDE DEF f
  <2>3. ASSUME NEW p \in DOMAIN f, f[p].live PROVE Live(w.ends) \/ c.live
    <3>1. CASE p \in 1..Len(w.ends)
      BY <2>1, <2>3, <3>1 DEF Live
    <3>2. CASE p = Len(w.ends) + 1
      BY <1>8, <2>1, <2>3, <3>2
    <3> QED
      BY <2>1, <3>1, <3>2
  <2>4. c.live => Live(k.ends)
    BY DEF Live
  <2> QED
    BY <2>2, <2>3, <2>4 DEF Live
<1> HIDE DEF f
<1>10. m.coll = j.coll /\ m.ends = f
  BY <1>4 DEF Formed
<1> HIDE DEF m
<1> QED
  BY <1>4, <1>7, <1>9, <1>10 DEF KeepsLine

\* A load that fails counts nothing.
LEMMA FailLoadLine ==
    ASSUME NEW k, Formed(k)
    PROVE  LET j == FailLoad(k)
           IN  /\ j.coll.attached = k.coll.attached /\ j.coll.hasMore = k.coll.hasMore
               /\ j.coll.cursor = k.coll.cursor /\ j.coll.more = k.coll.more
               /\ j.coll.pump = "none" /\ (Live(j.ends) => Live(k.ends))
<1> DEFINE w == Woken(k)
           j == [w EXCEPT !.coll.stage = "failed", !.coll.pump = "none", !.coll.claim = NoClaim]
<1>1. Formed(w) /\ w.coll = k.coll /\ (Live(w.ends) => Live(k.ends))
  BY WokenLine, WokenYields DEF Yields
<1>2. FailLoad(k) = j
  BY DEF FailLoad
<1> HIDE DEF w
<1>3. /\ j.coll.attached = w.coll.attached /\ j.coll.hasMore = w.coll.hasMore
      /\ j.coll.cursor = w.coll.cursor /\ j.coll.more = w.coll.more
      /\ j.coll.pump = "none" /\ j.ends = w.ends
  BY <1>1 DEF Formed
<1> HIDE DEF j
<1> QED
  BY <1>1, <1>2, <1>3

\* A load that is done counts its row, and may ask for the next one.
LEMMA FinishLoadLine ==
    ASSUME NEW k, Formed(k), NEW more \in BOOLEAN
    PROVE  LET j == FinishLoad(k, more)
           IN  /\ j.coll.attached = k.coll.attached /\ j.coll.hasMore = more
               /\ j.coll.cursor = k.coll.cursor + 1
               /\ j.coll.pump = "none" \/ (j.coll.pump = "asking" /\ more)
               /\ Live(j.ends) => Live(k.ends)
<1> DEFINE w == Woken(k)
           j == [w EXCEPT !.coll.cursor = @ + 1, !.coll.hasMore = more,
                 !.coll.filled = IF k.coll.target > 0 /\ @ < MaxInitialPages THEN @ + 1 ELSE @,
                 !.coll.stage = IF more THEN "ready" ELSE "exhausted",
                 !.coll.claim = NoClaim, !.coll.pump = "none"]
           m == Demand(j, FALSE, FALSE)
<1>1. Formed(w) /\ w.coll = k.coll /\ (Live(w.ends) => Live(k.ends))
  BY WokenLine, WokenYields DEF Yields
<1>2. FinishLoad(k, more) = IF NeedsInitialFill(j.coll) THEN m ELSE j
  BY DEF FinishLoad
<1> HIDE DEF w
<1>3. /\ DOMAIN j = DOMAIN w /\ DOMAIN j.coll = DOMAIN w.coll /\ j.coll.claim = NoClaim
      /\ j.coll.attached = w.coll.attached /\ j.coll.hasMore = more
      /\ j.coll.cursor = w.coll.cursor + 1
      /\ j.coll.pump = "none" /\ j.ends = w.ends
  BY <1>1 DEF Formed
<1> HIDE DEF j
<1>4. Formed(j)
  BY <1>1, <1>3 DEF Formed, NoClaim
<1>5. KeepsLine(j, m)
  BY <1>4, DemandLine
<1> HIDE DEF m
<1>6. /\ m.coll.attached = k.coll.attached /\ m.coll.hasMore = more
      /\ m.coll.cursor = k.coll.cursor + 1
      /\ m.coll.pump = "none" \/ (m.coll.pump = "asking" /\ more)
      /\ Live(m.ends) => Live(k.ends)
  BY <1>1, <1>3, <1>5 DEF KeepsLine
<1> QED
  BY <1>1, <1>2, <1>3, <1>6

(***************************************************************************)
(* The lines.                                                              *)
(***************************************************************************)

\* The next row comes behind the others.
LEMMA NextRowExtends ==
    ASSUME tracks \in Seq(Track), NEW last \in Nat, last + 1 \in Track,
           IsLine(last, Len(tracks)), omitted \subseteq 1..last, omitted' = omitted,
           tracks' = tracks \o <<last + 1>>
    PROVE  IsLine(last + 1, Len(tracks))'
<1> DEFINE n == Len(tracks)
<1>1. /\ n \in Nat /\ Len(tracks') = n + 1 /\ tracks'[n + 1] = last + 1
      /\ \A i \in 1..n : tracks'[i] = tracks[i]
  OBVIOUS
<1>0. /\ \A i, j \in 1..n : i < j => tracks[i] < tracks[j]
      /\ {tracks[i] : i \in 1..n} = (1..last) \ omitted
  BY DEF IsLine
<1> HIDE DEF n
<1>2. \A i \in 1..n : tracks[i] \in (1..last) \ omitted
  BY <1>0
<1>3. \A i \in 1..n : tracks'[i] < last + 1
  BY <1>1, <1>2
<1>4. \A i, j \in 1..(n + 1) : i < j => tracks'[i] < tracks'[j]
  <2> SUFFICES ASSUME NEW i \in 1..(n + 1), NEW j \in 1..(n + 1), i < j
               PROVE  tracks'[i] < tracks'[j]
    OBVIOUS
  <2>1. i \in 1..n /\ (j \in 1..n \/ j = n + 1)
    BY <1>1
  <2> QED
    BY <1>0, <1>1, <1>3, <2>1
<1>5. {tracks'[i] : i \in 1..(n + 1)} = {tracks[i] : i \in 1..n} \cup {last + 1}
  <2>1. \A i \in 1..(n + 1) : i \in 1..n \/ i = n + 1
    BY <1>1
  <2>2. \A i \in 1..n : i \in 1..(n + 1)
    BY <1>1
  <2>3. n + 1 \in 1..(n + 1)
    BY <1>1
  <2> QED
    BY <1>1, <2>1, <2>2, <2>3
<1>6. ((1..last) \ omitted) \cup {last + 1} = (1..(last + 1)) \ omitted
  OBVIOUS
<1> QED
  BY <1>0, <1>1, <1>4, <1>5, <1>6 DEF IsLine, n

\* A row that the provider leaves out changes nothing.
LEMMA OmittedRowKeeps ==
    ASSUME NEW last \in Nat, NEW n, IsLine(last, n), omitted' = omitted \cup {last + 1},
           tracks' = tracks
    PROVE  (IsLine(last + 1, n))'
<1>1. (1..(last + 1)) \ omitted' = (1..last) \ omitted
  OBVIOUS
<1> QED
  BY <1>1 DEF IsLine

\* What is appended behind a line leaves it.
LEMMA LongerLine ==
    ASSUME tracks \in Seq(Track), NEW batch \in Seq(Track), NEW last, NEW n \in 0..Len(tracks),
           IsLine(last, n), tracks' = tracks \o batch, omitted' = omitted
    PROVE  n \in 0..Len(tracks') /\ (IsLine(last, n))'
<1>1. /\ Len(tracks) \in Nat /\ Len(batch) \in Nat /\ Len(tracks') = Len(tracks) + Len(batch)
      /\ \A i \in 1..Len(tracks) : tracks'[i] = tracks[i]
  OBVIOUS
<1>2. \A i \in 1..n : i \in 1..Len(tracks)
  BY <1>1
<1> QED
  BY <1>1, <1>2 DEF IsLine

(***************************************************************************)
(* The invariant and the steps.                                            *)
(***************************************************************************)

\* While there are more rows the pump may ask for the next one, which the provider
\* has, and no request for related tracks is the current one.
LineInv ==
    /\ ctl.coll.pump \in {"none", "asking", "starting"}
    /\ ctl.coll.pump # "none" => ctl.coll.hasMore
    /\ ctl.coll.hasMore \in BOOLEAN /\ ctl.coll.cursor \in Nat
    /\ ctl.coll.hasMore => ctl.coll.attached /\ ctl.coll.cursor < MaxRow
    /\ ctl.coll.pump = "starting" =>
           ctl.coll.more \in BOOLEAN /\ (ctl.coll.more => ctl.coll.cursor + 1 < MaxRow)
    /\ Live(ctl.ends) => ~ctl.coll.hasMore
    /\ ctl.coll.attached => omitted \subseteq 1..ctl.coll.cursor
    /\ CollectionInOrder

\* A step that leaves the entries and the collection.
LEMMA LineStays ==
    ASSUME LineInv, KeepsLine(ctl, ctl'), tracks' = tracks, omitted' = omitted
    PROVE  LineInv'
<1>1. (ctl'.coll.pump = "starting") <=> (ctl.coll.pump = "starting")
  BY DEF KeepsLine
<1>2. CollectionInOrder'
  BY <1>1 DEF LineInv, KeepsLine, CollectionInOrder, IsLine
<1> QED
  BY <1>2 DEF LineInv, KeepsLine

\* A step that leaves no collection.
LEMMA NoLineIsInOrder ==
    ASSUME NEW k, k.coll = NoCollection, KeepsLine(k, ctl')
    PROVE  LineInv'
  BY DEF LineInv, KeepsLine, NoCollection, CollectionInOrder

\* A decision of the listener: the controller gives up its claims, and the collection
\* where it changes the entries.
LEMMA DecisionsKeepLine ==
    ASSUME ClaimInv, LineInv
    PROVE  LET r == InvalidateRoam(ctl)
               c == InvalidateCollection(ctl)
               rc == InvalidateRoam(c)
           IN  /\ Formed(r) /\ Formed(c) /\ Formed(rc)
               /\ KeepsLine(ctl, r) /\ KeepsLine(ctl, Apply(r))
               /\ c.coll = NoCollection /\ KeepsLine(c, c)
               /\ KeepsLine(c, rc) /\ KeepsLine(c, Apply(rc))
<1> DEFINE r == InvalidateRoam(ctl)
           c == InvalidateCollection(ctl)
           rc == InvalidateRoam(c)
<1>1. Formed(ctl)
  BY DEF ClaimInv
<1>2. Formed(r) /\ Formed(c) /\ KeepsLine(ctl, r) /\ c.coll = NoCollection
  BY <1>1, InvalidateRoamStale, InvalidateRoamLine, InvalidateCollectionYields,
     InvalidateCollectionLine DEF Yields
<1> HIDE DEF r, c
<1>3. Formed(rc) /\ KeepsLine(c, rc)
  BY <1>2, InvalidateRoamStale, InvalidateRoamLine
<1> HIDE DEF rc
<1>4. KeepsLine(ctl, Apply(r)) /\ KeepsLine(c, Apply(rc)) /\ KeepsLine(c, c)
  BY <1>2, <1>3, PlayerLine, KeepsLineIsTransitive, SameLine
<1> QED
  BY <1>2, <1>3, <1>4 DEF r, c, rc

\* The operations of the queue that move only its current entry or its modes.
LEMMA NavigationKeepsTracks ==
    ASSUME \/ Advance \/ Rewind \/ CompleteCurrent
           \/ \E index : Select(index)
           \/ (\E o : SetOrder(o)) \/ \E mode : SetRepeatMode(mode)
    PROVE  tracks' = tracks
  BY DEF Advance, Rewind, CompleteCurrent, AdvanceQueue, RewindQueue, Select, SetOrder,
         SetRepeatMode, Refuse, content

\* Commands keep the line, or give the collection up.
LEMMA PlainCommandsKeepLine ==
    ASSUME ClaimInv, LineInv,
           \/ \E batch \in Batch, index \in 0..MaxLength : ReplaceAndPlay(batch, index)
           \/ \E track \in Track : PushTrack(track)
           \/ \E index \in 1..MaxLength : RemoveTrack(index) \/ SelectTrack(index)
           \/ ClearQueue \/ NavigateTrack
           \/ \E o \in Orders : ChangeOrder(o)
           \/ \E mode \in RepeatModes : ChangeRepeat(mode)
           \/ InvalidateCollectionSource
    PROVE  LineInv'
<1> DEFINE r == InvalidateRoam(ctl)
           c == InvalidateCollection(ctl)
           rc == InvalidateRoam(c)
<1>1. /\ KeepsLine(ctl, r) /\ KeepsLine(ctl, Apply(r)) /\ c.coll = NoCollection
      /\ KeepsLine(c, c) /\ KeepsLine(c, rc) /\ KeepsLine(c, Apply(rc))
  BY DecisionsKeepLine
<1>2. CASE \/ \E batch \in Batch, index \in 0..MaxLength : ReplaceAndPlay(batch, index)
           \/ \E track \in Track : PushTrack(track)
           \/ \E index \in 1..MaxLength : RemoveTrack(index)
           \/ ClearQueue \/ InvalidateCollectionSource
  <2>1. ctl' = Apply(rc) \/ ctl' = c
    BY <1>2 DEF ReplaceAndPlay, PushTrack, RemoveTrack, ClearQueue, InvalidateCollectionSource
  <2> QED
    BY <1>1, <2>1, NoLineIsInOrder
<1>3. CASE (\E index \in 1..MaxLength : SelectTrack(index)) \/ NavigateTrack
  <2>1. ctl' = Apply(r) /\ tracks' = tracks /\ omitted' = omitted
    BY <1>3, NavigationKeepsTracks DEF SelectTrack, NavigateTrack, Decides
  <2> QED
    BY <1>1, <2>1, LineStays
<1>4. CASE (\E o \in Orders : ChangeOrder(o)) \/ \E mode \in RepeatModes : ChangeRepeat(mode)
  <2>1. (ctl' = rc \/ ctl' = r) /\ tracks' = tracks /\ omitted' = omitted
    BY <1>4, NavigationKeepsTracks DEF ChangeOrder, ChangeRepeat, Decides
  <2> QED
    BY <1>1, <2>1, LineStays, NoLineIsInOrder
<1> QED
  BY <1>2, <1>3, <1>4

\* Commands that leave the queue alone keep the line.
LEMMA QuietCommandsKeepLine ==
    ASSUME ClaimInv, LineInv,
           \/ \E enabled \in BOOLEAN : SetRoamEnabled(enabled)
           \/ ActivateCurrent \/ StopPlayback \/ ReloadCurrentSource \/ RetryContinuation
    PROVE  LineInv'
<1> DEFINE r == InvalidateRoam(ctl)
<1>1. Formed(ctl) /\ Formed(r) /\ KeepsLine(ctl, r)
  BY DecisionsKeepLine DEF ClaimInv
<1>2. /\ UNCHANGED qvars /\ omitted' = omitted
  BY DEF SetRoamEnabled, ActivateCurrent, StopPlayback, ReloadCurrentSource, RetryContinuation,
         Decides
<1>3. tracks' = tracks
  BY <1>2 DEF qvars
<1>4. ASSUME NEW enabled \in BOOLEAN, SetRoamEnabled(enabled) PROVE KeepsLine(ctl, ctl')
  <2> DEFINE k == [ctl EXCEPT !.roamEnabled = enabled]
  <2>1. ctl' = InvalidateRoam(k)
    BY <1>4 DEF SetRoamEnabled
  <2>2. DOMAIN k = DOMAIN ctl /\ k.coll = ctl.coll /\ k.ends = ctl.ends
    BY <1>1 DEF Formed
  <2> HIDE DEF k
  <2>3. Formed(k) /\ KeepsLine(ctl, k)
    BY <1>1, <2>2, SameLine DEF Formed
  <2> QED
    BY <2>1, <2>3, InvalidateRoamLine, KeepsLineIsTransitive
<1> HIDE DEF r
<1>5. CASE ActivateCurrent
  <2> DEFINE k == [r EXCEPT !.player = "busy"]
  <2>1. ctl' = Notice(k) \/ ctl' = r
    BY <1>5 DEF ActivateCurrent, r
  <2>2. DOMAIN k = DOMAIN r /\ k.coll = r.coll /\ k.ends = r.ends
    BY <1>1 DEF Formed
  <2> HIDE DEF k
  <2>3. Formed(k) /\ KeepsLine(r, k)
    BY <1>1, <2>2, SameLine DEF Formed
  <2>4. KeepsLine(ctl, Notice(k))
    BY <1>1, <2>3, NoticeLine, KeepsLineIsTransitive
  <2>5. KeepsLine(ctl, ctl')
    BY <1>1, <2>1, <2>4
  <2> QED
    BY <1>2, <1>3, <2>5, LineStays
<1>6. CASE StopPlayback \/ ReloadCurrentSource
  <2>1. ctl' = StopPlayer(r) \/ ctl' = PlayTrack(ctl)
    BY <1>6 DEF StopPlayback, ReloadCurrentSource, r
  <2>2. KeepsLine(ctl, ctl')
    BY <1>1, <2>1, PlayerLine, KeepsLineIsTransitive
  <2> QED
    BY <1>2, <1>3, <2>2, LineStays
<1>7. CASE RetryContinuation
  <2> DEFINE k == [ctl EXCEPT !.coll.demandedAt = NoPosition, !.coll.stage = "ready"]
             claim == [fresh |-> TRUE, key |-> Current, length |-> Len(tracks)]
             claimed == [k EXCEPT !.coll.claim = claim]
  <2>1. ctl' = Demand(k, TRUE, FALSE) \/ ctl' = Demand(claimed, TRUE, FALSE)
    BY <1>7 DEF RetryContinuation
  <2>2. /\ DOMAIN k = DOMAIN ctl /\ DOMAIN k.coll = DOMAIN ctl.coll
        /\ k.coll.claim = ctl.coll.claim /\ k.ends = ctl.ends
        /\ k.coll.attached = ctl.coll.attached /\ k.coll.hasMore = ctl.coll.hasMore
        /\ k.coll.cursor = ctl.coll.cursor /\ k.coll.more = ctl.coll.more
        /\ k.coll.pump = ctl.coll.pump
    BY <1>1 DEF Formed
  <2> HIDE DEF k
  <2>3. Formed(k) /\ KeepsLine(ctl, k)
    BY <1>1, <2>2 DEF Formed, KeepsLine
  <2>4. "fresh" \in DOMAIN claim
    OBVIOUS
  <2> HIDE DEF claim
  <2>5. /\ DOMAIN claimed = DOMAIN k /\ DOMAIN claimed.coll = DOMAIN k.coll
        /\ claimed.coll.claim = claim /\ claimed.ends = k.ends
        /\ claimed.coll.attached = k.coll.attached /\ claimed.coll.hasMore = k.coll.hasMore
        /\ claimed.coll.cursor = k.coll.cursor /\ claimed.coll.more = k.coll.more
        /\ claimed.coll.pump = k.coll.pump
    BY <2>3 DEF Formed
  <2> HIDE DEF claimed
  <2>6. Formed(claimed) /\ KeepsLine(k, claimed)
    BY <2>3, <2>4, <2>5 DEF Formed, KeepsLine
  <2>8. KeepsLine(k, Demand(k, TRUE, FALSE)) /\ KeepsLine(claimed, Demand(claimed, TRUE, FALSE))
    BY <2>3, <2>6, DemandLine
  <2>9. KeepsLine(ctl, claimed)
    BY <2>3, <2>6, KeepsLineIsTransitive
  <2>10. /\ KeepsLine(ctl, Demand(k, TRUE, FALSE))
         /\ KeepsLine(ctl, Demand(claimed, TRUE, FALSE))
    <3> DEFINE x == Demand(k, TRUE, FALSE)
               y == Demand(claimed, TRUE, FALSE)
    <3> HIDE DEF x, y
    <3>1. KeepsLine(k, x) /\ KeepsLine(claimed, y)
      BY <2>8 DEF x, y
    <3>2. KeepsLine(ctl, x) /\ KeepsLine(ctl, y)
      BY <2>3, <2>9, <3>1, KeepsLineIsTransitive
    <3> QED
      BY <3>2 DEF x, y
  <2>7. KeepsLine(ctl, ctl')
    BY <2>1, <2>10
  <2> QED
    BY <1>2, <1>3, <2>7, LineStays
<1> QED
  BY <1>2, <1>3, <1>4, <1>5, <1>6, <1>7, LineStays

\* The rows that a collection begins with are its line.
LEMMA FirstRowsAreALine ==
    ASSUME NEW rows \in 1..MaxRow, tracks' = [r \in 1..rows |-> r], omitted' = {}
    PROVE  Len(tracks') = rows /\ (IsLine(rows, rows))'
<1>1. rows \in Nat
  BY RowAssumption
<1>2. Len(tracks') = rows
  BY <1>1
<1>3. \A r \in 1..rows : tracks'[r] = r
  OBVIOUS
<1>4. \A i, j \in 1..rows : i < j => tracks'[i] < tracks'[j]
  BY <1>3
<1>5. {tracks'[i] : i \in 1..rows} = (1..rows) \ omitted'
  BY <1>3
<1> QED
  BY <1>2, <1>4, <1>5 DEF IsLine

\* A collection that replaces the queue.
LEMMA CollectionCommandKeepsLine ==
    ASSUME ClaimInv, NEW rows \in 1..MaxRow, NEW index \in 1..rows, NEW target,
           PlayCollection(rows, index, target)
    PROVE  LineInv'
<1> DEFINE line == [r \in 1..rows |-> r]
           r == InvalidateRoam(ctl)
           coll == [NoCollection EXCEPT
                       !.attached = TRUE, !.cursor = rows, !.hasMore = rows < MaxRow,
                       !.stage = IF rows < MaxRow THEN "ready" ELSE "exhausted",
                       !.target = target]
           given == InvalidateCollection(r)
           k == [r EXCEPT !.coll = coll, !.ends = given.ends]
<1>1. Replace(line, index) /\ omitted' = {} /\ ctl' = PlayTrack(k)
  BY DEF PlayCollection
<1>2. tracks' = line
  <2>1. line \in Seq(Track) /\ Valid(line)
    BY RowsAreTracks DEF Valid
  <2>2. rows \in Nat /\ rows # 0 /\ Len(line) = rows
    BY RowAssumption
  <2>3. ValidPosition(Len(line), index)
    BY <2>2 DEF ValidPosition
  <2> HIDE DEF line
  <2> QED
    BY <1>1, <2>1, <2>3 DEF Replace
<1>3. Formed(r) /\ ~Live(r.ends)
  BY InvalidateRoamStale, InvalidateRoamLine DEF ClaimInv
<1> HIDE DEF r
<1>4. given.ends \in Seq(Continuation) /\ ~Live(given.ends)
  BY <1>3, InvalidateCollectionYields, InvalidateCollectionLine DEF Yields, Formed
<1> HIDE DEF given
<1>5. /\ {"pump", "claim", "stage", "demandedAt", "hasMore", "more", "cursor", "filled",
          "attached"} \subseteq DOMAIN coll
      /\ coll.claim = NoClaim /\ coll.pump = "none" /\ coll.attached
      /\ coll.cursor = rows /\ coll.hasMore = (rows < MaxRow)
  BY DEF NoCollection
<1> HIDE DEF coll
<1>6. DOMAIN k = DOMAIN r /\ k.coll = coll /\ k.ends = given.ends
  BY <1>3 DEF Formed
<1> HIDE DEF k
<1>7. Formed(k)
  BY <1>3, <1>4, <1>5, <1>6 DEF Formed, NoClaim
<1>8. KeepsLine(k, ctl')
  BY <1>1, <1>7, PlayerLine
<1>9. /\ ctl'.coll.attached /\ ctl'.coll.cursor = rows
      /\ ctl'.coll.hasMore = (rows < MaxRow) /\ ~Live(ctl'.ends)
      /\ ctl'.coll.pump = "none" \/ (ctl'.coll.pump = "asking" /\ rows < MaxRow)
  BY <1>4, <1>5, <1>6, <1>8 DEF KeepsLine
<1>10. /\ Len(tracks') = rows /\ (IsLine(rows, rows))'
  BY <1>1, <1>2, FirstRowsAreALine
<1>11. rows \in Nat /\ rows <= MaxRow /\ rows + 0 = rows /\ rows \in 0..rows
  BY RowAssumption
<1>12. CollectionInOrder'
  BY <1>9, <1>10, <1>11 DEF CollectionInOrder, IsLine
<1>13. /\ ctl'.coll.hasMore \in BOOLEAN
       /\ ctl'.coll.hasMore => ctl'.coll.cursor < MaxRow
       /\ ctl'.coll.pump # "none" => ctl'.coll.hasMore
  <2>1. (rows < MaxRow) \in BOOLEAN
    OBVIOUS
  <2>2. ctl'.coll.hasMore \in BOOLEAN
    BY <1>9, <2>1, Zenon
  <2>3. ctl'.coll.hasMore <=> rows < MaxRow
    BY <1>9
  <2> QED
    BY <1>9, <2>2, <2>3
<1>14. ctl'.coll.pump \in {"none", "asking", "starting"} /\ ctl'.coll.pump # "starting"
  BY <1>9
<1>15. ctl'.coll.cursor \in Nat /\ omitted' \subseteq 1..ctl'.coll.cursor
  BY <1>1, <1>9, <1>11
<1> QED
  BY <1>9, <1>12, <1>13, <1>14, <1>15 DEF LineInv

\* Every command keeps the line.
LEMMA CommandsKeepLine ==
    ASSUME ClaimInv, LineInv, CommandStep
    PROVE  LineInv'
<1>1. CASE \E rows \in 1..MaxRow, target \in Targets :
               \E index \in 1..rows : PlayCollection(rows, index, target)
  BY <1>1, CollectionCommandKeepsLine
<1>2. CASE \/ \E enabled \in BOOLEAN : SetRoamEnabled(enabled)
           \/ ActivateCurrent \/ StopPlayback \/ ReloadCurrentSource \/ RetryContinuation
  BY <1>2, QuietCommandsKeepLine
<1>3. CASE \/ \E batch \in Batch, index \in 0..MaxLength : ReplaceAndPlay(batch, index)
           \/ \E track \in Track : PushTrack(track)
           \/ \E index \in 1..MaxLength : RemoveTrack(index) \/ SelectTrack(index)
           \/ ClearQueue \/ NavigateTrack
           \/ \E o \in Orders : ChangeOrder(o)
           \/ \E mode \in RepeatModes : ChangeRepeat(mode)
           \/ InvalidateCollectionSource
  BY <1>3, PlainCommandsKeepLine
<1> QED
  BY <1>1, <1>2, <1>3 DEF CommandStep

\* The player and its notifications keep the line.
LEMMA PlayerKeepsLine ==
    ASSUME ClaimInv, LineInv, LaterDemand \/ PlayerMoves
    PROVE  LineInv'
<1> DEFINE k == [ctl EXCEPT !.player = "playing"]
<1>1. /\ UNCHANGED qvars /\ omitted' = omitted
      /\ \/ \E viewport \in BOOLEAN : ctl' = Demand(ctl, FALSE, viewport)
         \/ ctl' = Notice(k) \/ ctl' = StopPlayer(ctl)
  BY DEF LaterDemand, PlayerMoves
<1>2. Formed(ctl)
  BY DEF ClaimInv
<1>3. DOMAIN k = DOMAIN ctl /\ k.coll = ctl.coll /\ k.ends = ctl.ends
  BY <1>2 DEF Formed
<1> HIDE DEF k
<1>4. KeepsLine(ctl, k) /\ Formed(k)
  BY <1>2, <1>3, SameLine DEF Formed
<1>5. KeepsLine(ctl, Notice(k)) /\ KeepsLine(ctl, StopPlayer(ctl))
  BY <1>2, <1>4, NoticeLine, PlayerLine, KeepsLineIsTransitive
<1>6. \A viewport : KeepsLine(ctl, Demand(ctl, FALSE, viewport))
  BY <1>2, DemandLine
<1>7. KeepsLine(ctl, ctl')
  BY <1>1, <1>5, <1>6
<1>8. tracks' = tracks
  BY <1>1 DEF qvars
<1> QED
  BY <1>1, <1>7, <1>8, LineStays

\* The end of an entry keeps the line.
LEMMA CompletionKeepsLine ==
    ASSUME ClaimInv, LineInv, PlayerCompletes
    PROVE  LineInv'
<1> DEFINE n == NewEpoch(ctl)
           k == [n EXCEPT !.player = "completed", !.handled = TRUE]
           b == [k EXCEPT !.player = "busy"]
           f == Append(k.ends, Ended)
           w == [k EXCEPT !.ends = f]
<1>1. /\ CompleteCurrent /\ omitted' = omitted
      /\ ctl' = Notice(b) \/ ctl' = PlayTrack(k) \/ ctl' = w
  BY DEF PlayerCompletes
<1>2. Formed(n) /\ KeepsLine(ctl, n)
  BY NewEpochStale, NewEpochLine DEF ClaimInv
<1> HIDE DEF n
<1>3. DOMAIN k = DOMAIN n /\ k.coll = n.coll /\ k.ends = n.ends
  BY <1>2 DEF Formed
<1> HIDE DEF k
<1>4. Formed(k) /\ KeepsLine(ctl, k)
  BY <1>2, <1>3, SameLine, KeepsLineIsTransitive DEF Formed
<1>5. Formed(b) /\ KeepsLine(k, b)
  <2>1. DOMAIN b = DOMAIN k /\ b.coll = k.coll /\ b.ends = k.ends
    BY <1>4 DEF Formed
  <2> HIDE DEF b
  <2> QED
    BY <1>4, <2>1, SameLine DEF Formed
<1>6. KeepsLine(k, w)
  <2>1. /\ Len(k.ends) \in Nat /\ DOMAIN k.ends = 1..Len(k.ends)
        /\ DOMAIN f = 1..(Len(k.ends) + 1)
        /\ \A p \in 1..Len(k.ends) : f[p] = k.ends[p]
        /\ f[Len(k.ends) + 1] = Ended
    <3>1. k.ends \in Seq(Continuation)
      BY <1>4 DEF Formed
    <3>2. Len(k.ends) \in Nat /\ DOMAIN k.ends = 1..Len(k.ends)
      BY <3>1, LenProperties
    <3>3. f = [p \in 1..(Len(k.ends) + 1) |-> IF p \in 1..Len(k.ends) THEN k.ends[p] ELSE Ended]
      BY <3>1, <3>2
    <3> QED
      BY <3>2, <3>3
  <2>2. w.coll = k.coll /\ w.ends = f
    BY <1>4 DEF Formed
  <2> HIDE DEF f, w
  <2>3. Live(f) => Live(k.ends)
    <3> SUFFICES ASSUME NEW p \in DOMAIN f, f[p].live PROVE Live(k.ends)
      BY DEF Live
    <3>1. ~Ended.live
      BY DEF Ended
    <3>2. p \in 1..Len(k.ends) \/ p = Len(k.ends) + 1
      BY <2>1
    <3> QED
      BY <2>1, <3>1, <3>2 DEF Live
  <2> QED
    BY <2>2, <2>3 DEF KeepsLine
<1> HIDE DEF b, w
<1>7. KeepsLine(k, Notice(b)) /\ KeepsLine(k, PlayTrack(k))
  BY <1>4, <1>5, NoticeLine, PlayerLine, KeepsLineIsTransitive
<1>8. KeepsLine(k, ctl')
  BY <1>1, <1>6, <1>7
<1>9. KeepsLine(ctl, ctl')
  BY <1>4, <1>8, KeepsLineIsTransitive
<1> QED
  BY <1>1, <1>9, LineStays, NavigationKeepsTracks

\* A collection that is exhausted stays in order whatever is asked for behind it.
LEMMA ExhaustedStays ==
    ASSUME LineInv, ~ctl.coll.hasMore, ctl'.coll = ctl.coll, tracks' = tracks,
           omitted' = omitted
    PROVE  LineInv'
  BY DEF LineInv, CollectionInOrder, IsLine

\* What follows an end keeps the line: related tracks come behind an exhausted
\* collection only.
LEMMA ContinuationsKeepLine ==
    ASSUME ClaimInv, LineInv, QueueInv, QueueInv', NEW i \in DOMAIN ctl.ends,
           FocusReleased(i) \/ Resume(i) \/ RoamAnswers(i), omitted' = omitted
    PROVE  LineInv'
<1>1. Formed(ctl) /\ ctl.ends[i] \in Continuation
  BY EndIsContinuation DEF ClaimInv, Formed
<1>2. CASE FocusReleased(i)
  <2>1. /\ UNCHANGED qvars
        /\ \/ ~ctl.coll.hasMore /\ ctl' \in BeginRoam(ctl, i)
           \/ ctl' = AwaitPage(ctl, i, 0) \/ ctl' = Without(ctl, i)
    BY <1>2 DEF FocusReleased
  <2>2. tracks' = tracks
    BY <2>1 DEF qvars
  <2>3. KeepsLine(ctl, AwaitPage(ctl, i, 0)) /\ KeepsLine(ctl, Without(ctl, i))
    BY <1>1, AwaitPageLine, WithoutLine
  <2>4. ctl' \in BeginRoam(ctl, i) => ctl'.coll = ctl.coll
    BY <1>1, BeginRoamLine
  <2> QED
    BY <2>1, <2>2, <2>3, <2>4, LineStays, ExhaustedStays
<1>3. CASE Resume(i)
  <2> DEFINE rearmed == [ctl EXCEPT !.coll.demandedAt = NoPosition]
             next == ctl.ends[i].tries + 1
  <2>1. /\ UNCHANGED qvars
        /\ \/ ~ctl.coll.hasMore /\ ctl' \in BeginRoam(ctl, i)
           \/ ctl' = AwaitPage(rearmed, i, next)
           \/ ctl' = Without(rearmed, i) \/ ctl' = Without(ctl, i)
    BY <1>3 DEF Resume
  <2>2. /\ DOMAIN rearmed = DOMAIN ctl /\ DOMAIN rearmed.coll = DOMAIN ctl.coll
        /\ rearmed.coll.claim = ctl.coll.claim /\ rearmed.ends = ctl.ends
        /\ rearmed.coll.attached = ctl.coll.attached /\ rearmed.coll.hasMore = ctl.coll.hasMore
        /\ rearmed.coll.cursor = ctl.coll.cursor /\ rearmed.coll.more = ctl.coll.more
        /\ rearmed.coll.pump = ctl.coll.pump
    BY <1>1 DEF Formed
  <2>3. next \in Nat
    BY <1>1 DEF Continuation
  <2> HIDE DEF rearmed, next
  <2>4. KeepsLine(ctl, rearmed) /\ Formed(rearmed) /\ i \in DOMAIN rearmed.ends
    BY <1>1, <2>2 DEF Formed, KeepsLine
  <2>5. KeepsLine(ctl, AwaitPage(rearmed, i, next)) /\ KeepsLine(ctl, Without(rearmed, i))
    BY <2>3, <2>4, AwaitPageLine, WithoutLine, KeepsLineIsTransitive
  <2>6. KeepsLine(ctl, Without(ctl, i))
    BY <1>1, WithoutLine
  <2>7. tracks' = tracks
    BY <2>1 DEF qvars
  <2>8. ctl' \in BeginRoam(ctl, i) => ctl'.coll = ctl.coll
    BY <1>1, BeginRoamLine
  <2> QED
    BY <2>1, <2>5, <2>6, <2>7, <2>8, LineStays, ExhaustedStays
<1>4. CASE RoamAnswers(i)
  <2> DEFINE k == Without(ctl, i)
             over == [k EXCEPT !.roamStage = "over"]
             won == [k EXCEPT !.roamStage = "continued"]
  <2>1. \/ (ctl' = k \/ ctl' = over) /\ UNCHANGED qvars
        \/ /\ ctl' = PlayTrack(won) /\ ctl.ends[i].live
           /\ \E t \in Track : ExtendAndAdvanceFromTerminal(<<t>>)
    BY <1>4 DEF RoamAnswers, RoamIsCurrent
  <2>2. Formed(k) /\ KeepsLine(ctl, k)
    BY <1>1, WithoutYields, WithoutLine DEF Yields
  <2> HIDE DEF k
  <2>3. /\ DOMAIN over = DOMAIN k /\ over.coll = k.coll /\ over.ends = k.ends
        /\ DOMAIN won = DOMAIN k /\ won.coll = k.coll /\ won.ends = k.ends
    BY <2>2 DEF Formed
  <2> HIDE DEF over, won
  <2>4. KeepsLine(ctl, over) /\ KeepsLine(ctl, won) /\ Formed(won)
    BY <2>2, <2>3, SameLine, KeepsLineIsTransitive DEF Formed
  <2>5. KeepsLine(ctl, PlayTrack(won))
    BY <2>4, PlayerLine, KeepsLineIsTransitive
  <2>6. CASE (ctl' = k \/ ctl' = over) /\ UNCHANGED qvars
    <3>1. tracks' = tracks
      BY <2>6 DEF qvars
    <3> QED
      BY <2>2, <2>4, <2>6, <3>1, LineStays
  <2>7. CASE /\ ctl' = PlayTrack(won) /\ ctl.ends[i].live
             /\ \E t \in Track : ExtendAndAdvanceFromTerminal(<<t>>)
    <3>1. Live(ctl.ends)
      BY <2>7 DEF Live
    <3>2. ~ctl.coll.hasMore /\ ctl.coll.pump = "none"
      BY <3>1 DEF LineInv
    <3>3. KeepsLine(ctl, ctl')
      BY <2>5, <2>7
    <3>4. tracks' = tracks \/ \E t \in Track : tracks' = tracks \o <<t>>
      BY <2>7 DEF ExtendAndAdvanceFromTerminal, Refuse, content
    <3>5. CASE tracks' = tracks
      BY <3>3, <3>5, LineStays
    <3>6. ASSUME NEW t \in Track, tracks' = tracks \o <<t>> PROVE LineInv'
      <4>1. /\ ~ctl'.coll.hasMore /\ ctl'.coll.pump = "none"
            /\ ctl'.coll.cursor = ctl.coll.cursor /\ ctl'.coll.attached = ctl.coll.attached
        BY <3>2, <3>3 DEF KeepsLine
      <4>2. tracks \in Seq(Track) /\ <<t>> \in Seq(Track)
        BY DEF QueueInv, QueueTypeOK
      <4>3. ASSUME ctl.coll.attached PROVE CollectionInOrder'
        <5>1. PICK n \in 0..Len(tracks) : IsLine(ctl.coll.cursor + 0, n)
          BY <3>2, <4>3 DEF LineInv, CollectionInOrder
        <5>2. PICK last : last = ctl.coll.cursor + 0
          OBVIOUS
        <5>3. IsLine(last, n)
          BY <5>1, <5>2
        <5>4. n \in 0..Len(tracks') /\ (IsLine(last, n))'
          BY <3>6, <4>2, <5>3, LongerLine
        <5>5. ctl'.coll.cursor + 0 = last
          BY <4>1, <5>2
        <5> QED
          BY <4>1, <5>4, <5>5 DEF CollectionInOrder, IsLine
      <4>4. CollectionInOrder'
        BY <4>1, <4>3 DEF CollectionInOrder
      <4>5. ctl'.coll.attached => omitted' \subseteq 1..ctl'.coll.cursor
        BY <4>1 DEF LineInv
      <4>6. ctl'.coll.cursor \in Nat /\ ctl'.coll.hasMore \in BOOLEAN
        BY <3>3, <4>1 DEF LineInv, KeepsLine
      <4>7. ctl'.coll.pump \in {"none", "asking", "starting"}
        BY <4>1
      <4>8. ctl'.coll.pump # "starting" /\ ~(ctl'.coll.pump # "none")
        BY <4>1
      <4> QED
        BY <4>1, <4>4, <4>5, <4>6, <4>7, <4>8 DEF LineInv
    <3> QED
      BY <3>4, <3>5, <3>6
  <2> QED
    BY <2>1, <2>6, <2>7
<1> QED
  BY <1>2, <1>3, <1>4

\* A page that counts: its row is in the queue, or left out, and comes behind the others.
LEMMA CountedRowIsInOrder ==
    ASSUME LineInv, Formed(ctl), ctl.coll.hasMore, NEW more \in BOOLEAN,
           more => ctl.coll.cursor + 1 < MaxRow,
           NEW last, last = ctl.coll.cursor + 1, NEW n \in Nat, n = Len(tracks'),
           (IsLine(last, n))', omitted' \subseteq 1..last, ctl' = FinishLoad(ctl, more)
    PROVE  LineInv'
<1>1. /\ ctl'.coll.attached = ctl.coll.attached /\ ctl'.coll.hasMore = more
      /\ ctl'.coll.cursor = last
      /\ ctl'.coll.pump = "none" \/ (ctl'.coll.pump = "asking" /\ more)
      /\ Live(ctl'.ends) => Live(ctl.ends)
  BY FinishLoadLine
<1>2. ctl.coll.attached /\ ~Live(ctl.ends) /\ last \in Nat /\ last + 0 = last /\ n \in 0..n
  BY DEF LineInv
<1>3. ctl'.coll.pump # "starting" /\ (ctl'.coll.pump # "none" => ctl'.coll.hasMore)
  BY <1>1
<1>4. CollectionInOrder'
  BY <1>1, <1>2, <1>3 DEF CollectionInOrder, IsLine
<1>5. ctl'.coll.hasMore => ctl'.coll.cursor < MaxRow
  BY <1>1
<1>6. ctl'.coll.pump \in {"none", "asking", "starting"} /\ ctl'.coll.hasMore \in BOOLEAN
  BY <1>1
<1> QED
  BY <1>1, <1>2, <1>3, <1>4, <1>5, <1>6 DEF LineInv

\* A page or the start of its entry keeps the line.
LEMMA PumpKeepsLine ==
    ASSUME ClaimInv, LineInv, QueueInv, PumpStep
    PROVE  LineInv'
<1>1. Formed(ctl) /\ tracks \in Seq(Track) /\ Len(tracks) \in Nat
  BY LenProperties DEF ClaimInv, QueueInv, QueueTypeOK
<1>2. \* A load that fails while its page is asked for.
      ASSUME ctl.coll.pump = "asking", ctl' = FailLoad(ctl), tracks' = tracks,
             omitted' = omitted
      PROVE  LineInv'
  <2>1. /\ ctl'.coll.attached = ctl.coll.attached /\ ctl'.coll.hasMore = ctl.coll.hasMore
        /\ ctl'.coll.cursor = ctl.coll.cursor
        /\ ctl'.coll.pump = "none" /\ (Live(ctl'.ends) => Live(ctl.ends))
    BY <1>1, <1>2, FailLoadLine
  <2>2. ctl.coll.pump # "starting" /\ ctl'.coll.pump # "starting"
    BY <1>2, <2>1
  <2>3. CollectionInOrder'
    BY <1>2, <2>1, <2>2 DEF LineInv, CollectionInOrder, IsLine
  <2> QED
    BY <1>2, <2>1, <2>3 DEF LineInv
<1>3. CASE PageFails
  <2>1. /\ ctl.coll.pump = "asking" /\ ctl' = FailLoad(ctl)
        /\ UNCHANGED qvars /\ omitted' = omitted
    BY <1>3 DEF PageFails
  <2> QED
    BY <1>2, <2>1 DEF qvars
<1>4. CASE PageStarted
  <2> DEFINE more == ctl.coll.more
  <2>1. /\ ctl.coll.pump = "starting" /\ ctl' = FinishLoad(ctl, more)
        /\ tracks' = tracks /\ omitted' = omitted
    BY <1>4 DEF PageStarted, qvars
  <2>2. /\ ctl.coll.hasMore /\ ctl.coll.attached /\ more \in BOOLEAN
        /\ more => ctl.coll.cursor + 1 < MaxRow
        /\ ctl.coll.cursor \in Nat /\ omitted \subseteq 1..ctl.coll.cursor
    BY <2>1 DEF LineInv
  <2> HIDE DEF more
  <2>3. PICK last, n : last = ctl.coll.cursor + 1 /\ n = Len(tracks)
    OBVIOUS
  <2>4. IsLine(last, n)
    BY <2>1, <2>2, <2>3 DEF LineInv, CollectionInOrder
  <2>5. (IsLine(last, n))' /\ n \in Nat /\ n = Len(tracks')
    BY <1>1, <2>1, <2>3, <2>4 DEF IsLine
  <2>6. omitted' \subseteq 1..last
    BY <2>1, <2>2, <2>3
  <2> QED
    BY <1>1, <2>1, <2>2, <2>3, <2>5, <2>6, CountedRowIsInOrder
<1>5. ASSUME NEW more \in BOOLEAN, PageArrives(more) PROVE LineInv'
  <2>1. /\ ctl.coll.pump = "asking" /\ (more => ctl.coll.cursor + 1 < MaxRow)
    BY <1>5 DEF PageArrives
  <2>2. /\ ctl.coll.hasMore /\ ctl.coll.attached /\ ctl.coll.cursor \in Nat
        /\ ctl.coll.cursor < MaxRow /\ omitted \subseteq 1..ctl.coll.cursor
        /\ ~Live(ctl.ends)
    BY <2>1 DEF LineInv
  <2>3. PICK before, last, n : /\ before = ctl.coll.cursor /\ last = ctl.coll.cursor + 1
                               /\ n = Len(tracks)
    OBVIOUS
  <2>4. /\ before \in Nat /\ last = before + 1 /\ last \in Track /\ n \in Nat
        /\ before + 0 = before
    BY <1>1, <2>2, <2>3, RowAssumption
  <2>5. IsLine(before, n)
    BY <2>1, <2>2, <2>3, <2>4 DEF LineInv, CollectionInOrder
  <2>6. Valid(<<last>>) /\ <<last>> # <<>>
    BY <2>4 DEF Valid
  <2> DEFINE k == [ctl EXCEPT !.coll.pump = "starting", !.coll.more = more]
  <2>7. \/ /\ omitted' = omitted \cup {last} /\ UNCHANGED qvars
           /\ ctl' = FinishLoad(ctl, more)
        \/ Extend(<<last>>) /\ ctl' = FinishLoad(ctl, more) /\ UNCHANGED omitted
        \/ /\ ExtendAndAdvanceFromTerminal(<<last>>)
           /\ ctl' = IF update'.playbackRequested THEN PlayTrack(k) ELSE FailLoad(ctl)
           /\ UNCHANGED omitted
    BY <1>5, <2>3 DEF PageArrives
  <2>8. CASE /\ omitted' = omitted \cup {last} /\ UNCHANGED qvars
             /\ ctl' = FinishLoad(ctl, more)
    <3>1. tracks' = tracks
      BY <2>8 DEF qvars
    <3>2. (IsLine(last, n))'
      BY <2>4, <2>5, <2>8, <3>1, OmittedRowKeeps
    <3>3. omitted' \subseteq 1..last
      <4>1. \A r \in 1..before : r \in 1..last
        BY <2>4
      <4>2. last \in 1..last
        BY <2>4
      <4> QED
        BY <2>2, <2>3, <2>8, <4>1, <4>2
    <3>4. n = Len(tracks')
      BY <2>3, <3>1
    <3> QED
      BY <1>1, <2>1, <2>2, <2>3, <2>4, <2>8, <3>2, <3>3, <3>4, CountedRowIsInOrder
  <2>9. ASSUME tracks' = tracks \o <<last>>, omitted' = omitted
        PROVE  /\ n + 1 \in Nat /\ n + 1 = Len(tracks') /\ (IsLine(last, n + 1))'
               /\ omitted' \subseteq 1..last
    <3>1. Len(tracks') = n + 1
      BY <1>1, <2>3, <2>9
    <3>2. IsLine(last, Len(tracks))'
      BY <1>1, <2>2, <2>3, <2>4, <2>5, <2>9, NextRowExtends
    <3>3. omitted' \subseteq 1..last
      BY <2>2, <2>3, <2>4, <2>9
    <3> QED
      BY <2>4, <3>1, <3>2, <3>3 DEF IsLine
  <2>10. CASE Extend(<<last>>) /\ ctl' = FinishLoad(ctl, more) /\ UNCHANGED omitted
    <3>1. tracks' = tracks \o <<last>>
      BY <2>6, <2>10 DEF Extend, AppendEntries
    <3> QED
      BY <1>1, <2>1, <2>2, <2>3, <2>9, <2>10, <3>1, CountedRowIsInOrder
  <2>11. CASE /\ ExtendAndAdvanceFromTerminal(<<last>>)
              /\ ctl' = IF update'.playbackRequested THEN PlayTrack(k) ELSE FailLoad(ctl)
              /\ UNCHANGED omitted
    <3>1. \/ update'.playbackRequested /\ tracks' = tracks \o <<last>>
          \/ ~update'.playbackRequested /\ tracks' = tracks
      BY <2>11 DEF ExtendAndAdvanceFromTerminal, Refuse, Answer, content
    <3>2. CASE ~update'.playbackRequested /\ tracks' = tracks
      BY <1>2, <2>1, <2>11, <3>2
    <3>3. CASE update'.playbackRequested /\ tracks' = tracks \o <<last>>
      <4>1. /\ DOMAIN k = DOMAIN ctl /\ DOMAIN k.coll = DOMAIN ctl.coll
            /\ k.coll.claim = ctl.coll.claim /\ k.ends = ctl.ends
            /\ k.coll.attached = ctl.coll.attached /\ k.coll.hasMore = ctl.coll.hasMore
            /\ k.coll.cursor = ctl.coll.cursor
            /\ k.coll.pump = "starting" /\ k.coll.more = more
        BY <1>1 DEF Formed
      <4>2. ctl' = PlayTrack(k)
        BY <2>11, <3>3
      <4> HIDE DEF k
      <4>3. Formed(k)
        BY <1>1, <4>1 DEF Formed
      <4>4. KeepsLine(k, ctl')
        BY <4>2, <4>3, PlayerLine
      <4>5. /\ ctl'.coll.attached /\ ctl'.coll.hasMore = ctl.coll.hasMore
            /\ ctl'.coll.cursor = before /\ ctl'.coll.pump = "starting"
            /\ ctl'.coll.more = more /\ ~Live(ctl'.ends)
        BY <2>2, <2>3, <4>1, <4>4 DEF KeepsLine
      <4>6. /\ n + 1 = Len(tracks') /\ (IsLine(last, n + 1))' /\ omitted' = omitted
        BY <2>9, <2>11, <3>3
      <4>7. CollectionInOrder'
        BY <2>2, <2>4, <4>5, <4>6 DEF CollectionInOrder, IsLine
      <4>8. ctl'.coll.hasMore /\ ctl'.coll.hasMore \in BOOLEAN
        BY <2>2, <4>5 DEF LineInv
      <4>9. omitted' \subseteq 1..ctl'.coll.cursor
        BY <2>2, <2>3, <4>5, <4>6
      <4>10. /\ ctl'.coll.more \in BOOLEAN /\ (ctl'.coll.more => ctl'.coll.cursor + 1 < MaxRow)
             /\ ctl'.coll.cursor \in Nat /\ ctl'.coll.cursor < MaxRow
             /\ ctl'.coll.pump \in {"none", "asking", "starting"}
        BY <2>1, <2>2, <2>3, <4>5
      <4> QED
        BY <4>5, <4>7, <4>8, <4>9, <4>10 DEF LineInv
    <3> QED
      BY <3>1, <3>2, <3>3
  <2> QED
    BY <2>7, <2>8, <2>10, <2>11
<1> QED
  BY <1>3, <1>4, <1>5 DEF PumpStep

\* Every step keeps the line.
LEMMA ControllerKeepsLine ==
    ASSUME ClaimInv, QueueInv, QueueInv', LineInv, [ControllerNext]_<<qvars, cvars>>
    PROVE  LineInv'
<1>1. CASE CommandStep
  BY <1>1, CommandsKeepLine
<1>2. CASE LaterDemand \/ PlayerMoves
  BY <1>2, PlayerKeepsLine
<1>3. CASE PlayerCompletes
  BY <1>3, CompletionKeepsLine
<1>4. CASE PumpStep
  BY <1>4, PumpKeepsLine
<1>5. CASE ContinuationStep
  BY <1>5, ContinuationsKeepLine DEF ContinuationStep
<1>6. CASE UNCHANGED <<qvars, cvars>>
  <2>1. ctl' = ctl /\ tracks' = tracks /\ omitted' = omitted
    BY <1>6 DEF qvars, cvars
  <2>2. KeepsLine(ctl, ctl')
    BY <2>1, SameLine
  <2> QED
    BY <2>1, <2>2, LineStays
<1> QED
  BY <1>1, <1>2, <1>3, <1>4, <1>5, <1>6 DEF ControllerNext

\* The controller begins without a collection.
LEMMA ControllerInitLine == ControllerInit => LineInv
<1> SUFFICES ASSUME ControllerInit PROVE LineInv
  OBVIOUS
<1>1. ctl.coll = NoCollection /\ ctl.ends = <<>>
  BY DEF ControllerInit
<1>2. ~Live(ctl.ends)
  BY <1>1 DEF Live
<1> QED
  BY <1>1, <1>2 DEF LineInv, NoCollection, CollectionInOrder

\* However pages, ends and related tracks come in between, the queue of a collection
\* holds each row of it once and in the provider's order, and what roaming adds comes
\* behind a collection that is exhausted.
THEOREM CollectionArrivesInOrder == ControllerSpec => []CollectionInOrder
<1>1. FollowInv => QueueInv
  BY DEF FollowInv
<1>2. LineInv => CollectionInOrder
  BY DEF LineInv
<1>3. ClaimInv /\ QueueInv' /\ [ControllerNext]_<<qvars, cvars>> => ClaimInv'
  BY ControllerClaims
<1>4. ClaimInv /\ QueueInv /\ QueueInv' /\ LineInv /\ [ControllerNext]_<<qvars, cvars>>
      => LineInv'
  BY ControllerKeepsLine
<1> QED
  BY <1>1, <1>2, <1>3, <1>4, ControllerInitClaims, ControllerInitInv, ControllerInitLine,
     ControllerKeepsInv, PTL DEF ControllerSpec
====
