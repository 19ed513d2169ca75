--------------------------- MODULE PlaybackQueue ---------------------------
(***************************************************************************)
(* The authoritative playback queue: the domain type PlaybackQueue         *)
(* (crates/music-domain/src/playback_queue.rs) behind the mutex of         *)
(* PlaybackQueueHandle (bridges/flutter/src/api/queue.rs), and the checks  *)
(* the Dart gateway makes on every answer                                  *)
(* (apps/flutter/lib/playback/playback_queue_gateway.dart).                *)
(*                                                                         *)
(* The mutex makes an operation of the handle one atomic step.  Positions  *)
(* count from 1, as sequences do in TLA+, where the code counts from 0;    *)
(* NoPosition is the code's None.  The pseudo-random generator is          *)
(* abstracted to a choice among all permutations, so what holds here holds *)
(* for every seed.                                                         *)
(***************************************************************************)
EXTENDS Naturals, Sequences, SequencesExt, Functions

CONSTANTS
    Track,        \* tracks the domain accepts
    InvalidTrack, \* a bridge value that domain_track_summary refuses
    MaxLength,    \* bound: no operation of the model makes a longer queue
    MaxBatch      \* bound: no caller hands over a longer list

ASSUME InvalidTrackAssumption == InvalidTrack \notin Track
ASSUME BoundsAssumption == MaxLength \in Nat /\ MaxBatch \in Nat

VARIABLES
    tracks,        \* the entries; the same track may occur several times
    currentIndex,  \* position of the current entry, or NoPosition
    order,         \* Sequential or Shuffle
    repeatMode,    \* Off, All or One
    shuffleOrder,  \* the running shuffle cycle: positions in playing order
    shuffleCursor, \* where in the cycle the current entry is
    update         \* the PlaybackQueueUpdate the last operation returned

content == <<tracks, currentIndex, order, repeatMode, shuffleOrder, shuffleCursor>>
qvars == <<tracks, currentIndex, order, repeatMode, shuffleOrder, shuffleCursor, update>>

NoPosition == 0
Orders == {"Sequential", "Shuffle"}
RepeatModes == {"Off", "All", "One"}
Operations == {"create", "replace", "setOrder", "setRepeatMode", "select", "advance",
               "rewind", "complete", "push", "extend", "continue", "remove", "clear"}
Failures == {"none", "InvalidTrack", "InvalidPosition"}
CompletionActions == {"absent", "None", "ReplayCurrent", "PlayCurrent"}
Updates == [op : Operations, playbackRequested : BOOLEAN,
            completionAction : CompletionActions, failure : Failures]

Batch == BoundedSeq(Track \cup {InvalidTrack}, MaxBatch)
Valid(batch) == \A i \in DOMAIN batch : batch[i] \in Track

(***************************************************************************)
(* Answers of the bridge.                                                  *)
(***************************************************************************)
Answer(op, requested) ==
    update' = [op |-> op, playbackRequested |-> requested,
               completionAction |-> "absent", failure |-> "none"]

AnswerCompletion(action) ==
    update' = [op |-> "complete", playbackRequested |-> action # "None",
               completionAction |-> action, failure |-> "none"]

\* A refused operation returns its failure and leaves the queue as it was.
Refuse(op, failure) ==
    /\ update' = [op |-> op, playbackRequested |-> FALSE,
                  completionAction |-> "absent", failure |-> failure]
    /\ UNCHANGED content

(***************************************************************************)
(* Shuffle cycles.                                                         *)
(***************************************************************************)
Permutations1(n) == Injection(1..n, 1..n)

\* A cycle that starts at the (new) current entry and plays the others in any order.
RebuildShuffleCycle ==
    \/ /\ order' = "Shuffle" /\ currentIndex' # NoPosition
       /\ shuffleOrder' \in {s \in Permutations1(Len(tracks')) : s[1] = currentIndex'}
       /\ shuffleCursor' = 1
    \/ /\ order' # "Shuffle" \/ currentIndex' = NoPosition
       /\ shuffleOrder' = <<>>
       /\ shuffleCursor' = NoPosition

SwapFirstTwo(s) == [p \in DOMAIN s |-> IF p = 1 THEN s[2] ELSE IF p = 2 THEN s[1] ELSE s[p]]

\* The guard of the swap: a cycle may not open with the entry that closed the last one.
RepeatAllowed(s) == s \* slip: the new cycle is taken as drawn
WithoutRepeat(s) == IF Len(s) > 1 /\ s[1] = currentIndex THEN SwapFirstTwo(s) ELSE s

StartNextCycleAtSecond == \* slip: the new cycle starts behind its first entry
    /\ \E s \in Permutations1(Len(tracks)) : shuffleOrder' = WithoutRepeat(s)
    /\ shuffleCursor' = IF Len(tracks) > 1 THEN 2 ELSE 1
    /\ currentIndex' = shuffleOrder'[shuffleCursor']

StartNextShuffleCycle ==
    /\ \E s \in Permutations1(Len(tracks)) : shuffleOrder' = WithoutRepeat(s)
    /\ shuffleCursor' = 1
    /\ currentIndex' = shuffleOrder'[1]

GoToCursor(cursor) ==
    /\ shuffleCursor' = cursor
    /\ currentIndex' = shuffleOrder[cursor]
    /\ UNCHANGED shuffleOrder

Stay == UNCHANGED <<currentIndex, shuffleOrder, shuffleCursor>>

(***************************************************************************)
(* What the queue says about its neighbours.                               *)
(***************************************************************************)
Wraps == repeatMode = "All" /\ tracks # <<>>

HasPrevious ==
    \/ order = "Sequential" /\ currentIndex > 1
    \/ order = "Shuffle" /\ shuffleCursor > 1
    \/ Wraps

HasNextShort == \* slip: off by one at the end of the cycle
    \/ order = "Sequential" /\ currentIndex # NoPosition /\ currentIndex < Len(tracks)
    \/ order = "Shuffle" /\ shuffleCursor # NoPosition /\ shuffleCursor + 1 < Len(shuffleOrder)
    \/ Wraps

HasNext ==
    \/ order = "Sequential" /\ currentIndex # NoPosition /\ currentIndex < Len(tracks)
    \/ order = "Shuffle" /\ shuffleCursor # NoPosition /\ shuffleCursor < Len(shuffleOrder)
    \/ Wraps

(***************************************************************************)
(* Navigation.  moved is the Boolean the domain function returns.          *)
(***************************************************************************)
AdvanceSequentialWrapsInOne(moved) == \* slip: repeat-one wraps like repeat-all
    /\ UNCHANGED <<shuffleOrder, shuffleCursor>>
    /\ \/ currentIndex < Len(tracks) /\ moved /\ currentIndex' = currentIndex + 1
       \/ currentIndex >= Len(tracks) /\ repeatMode # "Off" /\ moved /\ currentIndex' = 1
       \/ currentIndex >= Len(tracks) /\ repeatMode = "Off" /\ ~moved /\ UNCHANGED currentIndex

AdvanceSequential(moved) ==
    /\ UNCHANGED <<shuffleOrder, shuffleCursor>>
    /\ \/ currentIndex < Len(tracks) /\ moved /\ currentIndex' = currentIndex + 1
       \/ currentIndex >= Len(tracks) /\ repeatMode = "All" /\ moved /\ currentIndex' = 1
       \/ currentIndex >= Len(tracks) /\ repeatMode # "All" /\ ~moved /\ UNCHANGED currentIndex

AdvanceShuffle(moved) ==
    \/ shuffleCursor < Len(shuffleOrder) /\ moved /\ GoToCursor(shuffleCursor + 1)
    \/ shuffleCursor >= Len(shuffleOrder) /\ repeatMode = "All" /\ moved /\ StartNextShuffleCycle
    \/ shuffleCursor >= Len(shuffleOrder) /\ repeatMode # "All" /\ ~moved /\ Stay

RewindSequential(moved) ==
    /\ UNCHANGED <<shuffleOrder, shuffleCursor>>
    /\ \/ currentIndex > 1 /\ moved /\ currentIndex' = currentIndex - 1
       \/ currentIndex = 1 /\ repeatMode = "All" /\ moved /\ currentIndex' = Len(tracks)
       \/ currentIndex = 1 /\ repeatMode # "All" /\ ~moved /\ UNCHANGED currentIndex

\* Wrapping backwards stays in the running cycle: it goes to the cycle's end.
RewindShuffle(moved) ==
    \/ shuffleCursor > 1 /\ moved /\ GoToCursor(shuffleCursor - 1)
    \/ shuffleCursor = 1 /\ repeatMode = "All" /\ moved /\ GoToCursor(Len(shuffleOrder))
    \/ shuffleCursor = 1 /\ repeatMode # "All" /\ ~moved /\ Stay

AdvanceQueue(moved) ==
    /\ UNCHANGED <<tracks, order, repeatMode>>
    /\ \/ tracks = <<>> /\ ~moved /\ Stay
       \/ tracks # <<>> /\ order = "Sequential" /\ AdvanceSequential(moved)
       \/ tracks # <<>> /\ order = "Shuffle" /\ AdvanceShuffle(moved)

RewindQueue(moved) ==
    /\ UNCHANGED <<tracks, order, repeatMode>>
    /\ \/ tracks = <<>> /\ ~moved /\ Stay
       \/ tracks # <<>> /\ order = "Sequential" /\ RewindSequential(moved)
       \/ tracks # <<>> /\ order = "Shuffle" /\ RewindShuffle(moved)

(***************************************************************************)
(* Operations of PlaybackQueueHandle.                                      *)
(***************************************************************************)
Create ==
    /\ tracks = <<>>
    /\ currentIndex = NoPosition
    /\ order = "Sequential"
    /\ repeatMode = "Off"
    /\ shuffleOrder = <<>>
    /\ shuffleCursor = NoPosition
    /\ update = [op |-> "create", playbackRequested |-> FALSE,
                 completionAction |-> "absent", failure |-> "none"]

ValidPosition(len, index) ==
    IF len = 0 THEN index = NoPosition ELSE index \in 1..len

Replace(batch, index) ==
    \/ ~Valid(batch) /\ Refuse("replace", "InvalidTrack")
    \/ Valid(batch) /\ ~ValidPosition(Len(batch), index) /\ Refuse("replace", "InvalidPosition")
    \/ /\ Valid(batch) /\ ValidPosition(Len(batch), index)
       /\ Len(batch) <= MaxLength
       /\ tracks' = batch
       /\ currentIndex' = index
       /\ UNCHANGED <<order, repeatMode>>
       /\ RebuildShuffleCycle
       /\ Answer("replace", tracks # <<>> \/ batch # <<>>)

SetOrder(o) ==
    /\ order' = o
    /\ UNCHANGED <<tracks, currentIndex, repeatMode>>
    /\ IF o = order THEN UNCHANGED <<shuffleOrder, shuffleCursor>> ELSE RebuildShuffleCycle
    /\ Answer("setOrder", FALSE)

SetRepeatMode(mode) ==
    /\ repeatMode' = mode
    /\ UNCHANGED <<tracks, currentIndex, order, shuffleOrder, shuffleCursor>>
    /\ Answer("setRepeatMode", FALSE)

Select(index) ==
    \/ index \notin 1..Len(tracks) /\ Refuse("select", "InvalidPosition")
    \/ /\ index \in 1..Len(tracks)
       /\ currentIndex' = index
       /\ UNCHANGED <<tracks, order, repeatMode>>
       /\ IF index = currentIndex THEN UNCHANGED <<shuffleOrder, shuffleCursor>>
                                  ELSE RebuildShuffleCycle
       /\ Answer("select", index # currentIndex)

Advance == \E moved \in BOOLEAN : AdvanceQueue(moved) /\ Answer("advance", moved)

Rewind == \E moved \in BOOLEAN : RewindQueue(moved) /\ Answer("rewind", moved)

CompleteCurrent ==
    \/ /\ currentIndex # NoPosition /\ repeatMode = "One"
       /\ UNCHANGED content
       /\ AnswerCompletion("ReplayCurrent")
    \/ /\ currentIndex = NoPosition \/ repeatMode # "One"
       /\ \E moved \in BOOLEAN :
            AdvanceQueue(moved) /\ AnswerCompletion(IF moved THEN "PlayCurrent" ELSE "None")

\* The first entry becomes current when there was none.
AppendWithoutRebuild(op, batch) == \* slip: the cycle is not rebuilt
    /\ Len(tracks) + Len(batch) <= MaxLength
    /\ tracks' = tracks \o batch
    /\ currentIndex' = IF currentIndex = NoPosition THEN 1 ELSE currentIndex
    /\ UNCHANGED <<order, repeatMode, shuffleOrder, shuffleCursor>>
    /\ Answer(op, currentIndex = NoPosition)

AppendEntries(op, batch) ==
    /\ Len(tracks) + Len(batch) <= MaxLength
    /\ tracks' = tracks \o batch
    /\ currentIndex' = IF currentIndex = NoPosition THEN 1 ELSE currentIndex
    /\ UNCHANGED <<order, repeatMode>>
    /\ RebuildShuffleCycle
    /\ Answer(op, currentIndex = NoPosition)

Push(track) ==
    \/ track \notin Track /\ Refuse("push", "InvalidTrack")
    \/ track \in Track /\ AppendEntries("push", <<track>>)

Extend(batch) ==
    \/ ~Valid(batch) /\ Refuse("extend", "InvalidTrack")
    \/ batch = <<>> /\ Refuse("extend", "InvalidPosition")
    \/ Valid(batch) /\ batch # <<>> /\ AppendEntries("extend", batch)

AtSequentialTerminal ==
    /\ currentIndex # NoPosition /\ currentIndex = Len(tracks)
    /\ order = "Sequential" /\ repeatMode = "Off"

ExtendAndAdvanceFromTerminal(batch) ==
    \/ ~Valid(batch) /\ Refuse("continue", "InvalidTrack")
    \/ /\ Valid(batch) /\ (batch = <<>> \/ ~AtSequentialTerminal)
       /\ Refuse("continue", "InvalidPosition")
    \/ /\ Valid(batch) /\ batch # <<>> /\ AtSequentialTerminal
       /\ Len(tracks) + Len(batch) <= MaxLength
       /\ tracks' = tracks \o batch
       /\ currentIndex' = Len(tracks) + 1
       /\ UNCHANGED <<order, repeatMode>>
       /\ RebuildShuffleCycle
       /\ Answer("continue", TRUE)

RemovalForgetsShift(index, len) == \* slip: entries before the current one do not count
    IF len = 0 THEN NoPosition
    ELSE IF currentIndex <= len THEN currentIndex ELSE len

\* Where the current entry is once the entry at index is gone and len are left.
CurrentAfterRemoval(index, len) ==
    IF len = 0 THEN NoPosition
    ELSE IF index < currentIndex THEN currentIndex - 1
    ELSE IF index > currentIndex THEN currentIndex
    ELSE IF index <= len THEN index ELSE len

RemoveEntry(index) ==
    \/ index \notin 1..Len(tracks) /\ Refuse("remove", "InvalidPosition")
    \/ /\ index \in 1..Len(tracks)
       /\ tracks' = RemoveAt(tracks, index)
       /\ currentIndex' = CurrentAfterRemoval(index, Len(tracks) - 1)
       /\ UNCHANGED <<order, repeatMode>>
       /\ RebuildShuffleCycle
       /\ Answer("remove", index = currentIndex)

Clear ==
    /\ tracks' = <<>>
    /\ currentIndex' = NoPosition
    /\ shuffleOrder' = <<>>
    /\ shuffleCursor' = NoPosition
    /\ UNCHANGED <<order, repeatMode>>
    /\ Answer("clear", tracks # <<>>)

QueueNext ==
    \/ \E batch \in Batch, index \in 0..(MaxLength + 1) : Replace(batch, index)
    \/ \E o \in Orders : SetOrder(o)
    \/ \E mode \in RepeatModes : SetRepeatMode(mode)
    \/ \E index \in 1..(MaxLength + 1) : Select(index)
    \/ Advance
    \/ Rewind
    \/ CompleteCurrent
    \/ \E track \in Track \cup {InvalidTrack} : Push(track)
    \/ \E batch \in Batch : Extend(batch)
    \/ \E batch \in Batch : ExtendAndAdvanceFromTerminal(batch)
    \/ \E index \in 1..(MaxLength + 1) : RemoveEntry(index)
    \/ Clear

QueueSpec == Create /\ [][QueueNext]_qvars

(***************************************************************************)
(* The Dart gateway checks a snapshot before anyone sees it                *)
(* (mapBridgePlaybackQueueUpdate).                                         *)
(***************************************************************************)
ExpectedSequentialNavigation ==
    /\ HasPrevious <=> currentIndex > 1 \/ repeatMode = "All"
    /\ HasNext <=> currentIndex < Len(tracks) \/ repeatMode = "All"

ExpectedShuffleNavigation ==
    IF repeatMode = "All" THEN HasPrevious /\ HasNext
    ELSE IF Len(tracks) = 1 THEN ~HasPrevious /\ ~HasNext
    ELSE HasPrevious \/ HasNext

ValidEmpty == tracks = <<>> /\ currentIndex = NoPosition /\ ~HasPrevious /\ ~HasNext

ValidContent ==
    /\ tracks # <<>>
    /\ currentIndex \in 1..Len(tracks)
    /\ \/ order = "Sequential" /\ ExpectedSequentialNavigation
       \/ order = "Shuffle" /\ ExpectedShuffleNavigation

ValidCompletion ==
    update.completionAction # "absent" =>
        /\ update.playbackRequested <=> update.completionAction # "None"
        /\ update.playbackRequested => currentIndex # NoPosition

(***************************************************************************)
(* Properties.                                                             *)
(***************************************************************************)

\* Type invariant: every variable holds a value of its Rust type, the index
\* variables within the lengths the model allows.
QueueTypeOK ==
    /\ tracks \in Seq(Track)
    /\ currentIndex \in Nat
    /\ order \in Orders
    /\ repeatMode \in RepeatModes
    /\ shuffleOrder \in Seq(Nat)
    /\ shuffleCursor \in Nat
    /\ update \in Updates

\* The queue has a current entry exactly when it has entries, and it is one of
\* them (validate_position, kept by every mutator; current() indexes with it).
CurrentIsAnEntry ==
    IF tracks = <<>> THEN currentIndex = NoPosition ELSE currentIndex \in 1..Len(tracks)

\* While shuffling a queue with entries, the cycle holds every position exactly
\* once and the cursor stands on the current entry: no expect() of
\* advance_shuffle, rewind_shuffle or start_next_shuffle_cycle can panic (and
\* poison the mutex), and no index read from the cycle is out of bounds.
CycleMatchesQueue ==
    IF order = "Shuffle" /\ tracks # <<>>
    THEN /\ shuffleOrder \in Permutations1(Len(tracks))
         /\ shuffleCursor \in 1..Len(tracks)
         /\ shuffleOrder[shuffleCursor] = currentIndex
    ELSE shuffleOrder = <<>> /\ shuffleCursor = NoPosition

\* The validation the Dart gateway repeats on each snapshot never rejects an
\* answer of the Rust core: playback never stops on "invalidResponse" because the
\* two sides disagree about what has_previous and has_next must be.
GatewayAccepts == (ValidEmpty \/ ValidContent) /\ ValidCompletion

\* The buttons tell the truth: advance() moves exactly when the snapshot said
\* has_next, rewind() exactly when it said has_previous.
NavigationAsAnnounced ==
    [][/\ update'.op = "advance" => (update'.playbackRequested <=> HasNext)
       /\ update'.op = "rewind" => (update'.playbackRequested <=> HasPrevious)]_qvars

\* Moving on never replays the entry that just played while there is another one,
\* not even from the end of one shuffle cycle into the next.
NoImmediateReplay ==
    [][(/\ update'.op \in {"advance", "rewind"} \/ update'.completionAction = "PlayCurrent"
        /\ update'.playbackRequested
        /\ Len(tracks) > 1) => currentIndex' # currentIndex]_qvars

(***************************************************************************)
(* The line that the queue stands for: its entries cut at the current one. *)
(***************************************************************************)
Before == SubSeq(tracks, 1, currentIndex - 1)
Playing == IF currentIndex = NoPosition THEN <<>> ELSE <<tracks[currentIndex]>>
After == SubSeq(tracks, currentIndex + 1, Len(tracks))

Intent == INSTANCE PlaybackIntent WITH
    before <- Before, now <- Playing, after <- After,
    asked <- update.op, start <- update.playbackRequested

\* The queue keeps every promise of PlaybackIntent: what plays changes only
\* through the operations, and in the ways, that the abstract line allows.
KeepsIntent == Intent!IntentSpec

=============================================================================
