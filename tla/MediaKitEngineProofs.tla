------------------------ MODULE MediaKitEngineProofs ------------------------
(***************************************************************************)
(* Proofs about MediaKitEngine, for any number of loads and any length of  *)
(* the tail.                                                               *)
(***************************************************************************)
EXTENDS MediaKitEngine, SequenceTheorems, TLAPS

Life == {"none", "live", "retiring", "retired"}
PlayerRecord == [life : Life, gen : Nat, loaded : Nat, expected : Nat, failed : Nat,
                 asked : Load \cup {NoLoad}, file : Load \cup {NoLoad},
                 opened : Load \cup {NoLoad}]
Operation == [kind : {"open", "stop", "control"}, by : Load, player : {0, 1}]
LoadPc == {"idle", "queued", "recovering", "recovered", "opened", "session", "failed"}
LoadRecord == [pc : LoadPc, player : {0, 1}, gen : Nat]

(***************************************************************************)
(* Every variable has its type.                                            *)
(***************************************************************************)
PlayersOK == players \in [{0, 1} -> PlayerRecord]
TailOK == tail \in Seq(Operation) /\ running \in BOOLEAN /\ (running => tail # <<>>)
LoadsOK == load \in [Load -> LoadRecord]
WaitsOK ==
    /\ generation \in {0, 1} /\ stalled \in BOOLEAN
    /\ recovery \in [at : {"no", "tail", "retiring"}, ahead : Nat]
    /\ disposal \in [at : {"no", "tail", "recovery", "retiring", "done"}, ahead : Nat]
EngineTypes == PlayersOK /\ TailOK /\ LoadsOK /\ WaitsOK

(***************************************************************************)
(* Which players there are.  The second one comes when the first one is    *)
(* gone; an engine that is neither stalled nor disposed of has a live one; *)
(* a player is given up by a rebuild, which ends its generation, or by     *)
(* dispose.                                                                *)
(***************************************************************************)
Dead == {"retiring", "retired"}
PlayersInv ==
    /\ players[0].life # "none"
    /\ players[1].life = "none" => players[1] = NoPlayer
    /\ players[1].life # "none" => generation = 1 /\ players[0].life = "retired"
    /\ generation = 1 => players[0].life \in Dead
    /\ ~stalled /\ ~disposed => players[generation].life = "live"
    /\ ~disposed => players[generation].life \notin Dead
    /\ disposal.at \in {"recovery", "retiring", "done"} => \A p \in {0, 1} : players[p].life # "live"

(***************************************************************************)
(* Who waits for whom.  A rebuild under way has stalled the player; what   *)
(* is dispatched was dispatched to the current player, and dispose waits   *)
(* for it.                                                                 *)
(***************************************************************************)
WaitsInv ==
    /\ recovery.at # "no" => stalled
    /\ recovery.at = "retiring" => generation = 1 /\ players[1].life = "none"
    /\ running => /\ ~stalled /\ tail[1].player = generation
                  /\ players[generation].life = "live"
                  /\ disposed => disposal.at = "tail" /\ disposal.ahead > 0

(***************************************************************************)
(* What is in a player.  An open under way is awaited, loaded, superseded  *)
(* or lost; a source that was opened has its generation for itself, and    *)
(* its file, unless that was given up or its session told of the loss.     *)
(***************************************************************************)
Kept(l) ==
    /\ load[l].pc \in {"opened", "session"} /\ l \notin discarded /\ l \notin failed /\ ~disposed
    /\ load[l].player = generation /\ players[generation].gen = load[l].gen
Loaded(p, l) == players[p].file = l /\ players[p].loaded = players[p].gen
Opened == {"opened", "session"}
GenerationsOK == \A l \in Load : load[l].pc \in Opened =>
                     load[l].gen > 0 /\ load[l].gen <= players[load[l].player].gen
FilesOK == \A l \in Load : Kept(l) =>
               /\ players[generation].opened = l
               /\ Loaded(generation, l) \/ players[generation].expected >= players[generation].gen
RunningOK ==
    running =>
        LET p == players[tail[1].player]
        IN  /\ p.opened = tail[1].by
            /\ tail[1].kind = "open" =>
                  /\ p.gen > 0
                  /\ \/ p.asked = tail[1].by
                     \/ Loaded(tail[1].player, tail[1].by) /\ p.asked = NoLoad
                     \/ p.expected >= p.gen
                     \/ p.failed = p.gen /\ p.asked = NoLoad /\ p.file = NoLoad
SourcesInv == GenerationsOK /\ FilesOK /\ RunningOK

(***************************************************************************)
(* An open that is in the tail is of a load that has asked for it, of the  *)
(* player that the load has noted.                                         *)
(***************************************************************************)
Asked == {"queued", "opened", "session", "failed"}
AskedOK == \A i \in 1..Len(tail) : tail[i].kind = "open" =>
               load[tail[i].by].pc \in Asked /\ load[tail[i].by].player = tail[i].player

EngineInv == EngineTypes /\ PlayersInv /\ WaitsInv /\ SourcesInv /\ AskedOK

(***************************************************************************)
(* What a step does to a player: the fields it changes, and those it       *)
(* leaves as they are.                                                     *)
(***************************************************************************)
\* Every other player stays what it is, and this one stays what it is but for its file.
Others(p) == \A q \in {0, 1} : q # p => players'[q] = players[q]
SameSource(p) ==
    /\ players'[p].gen = players[p].gen /\ players'[p].opened = players[p].opened
    /\ Others(p) /\ PlayersOK'

LEMMA NoPlayerFacts ==
    /\ NoPlayer \in PlayerRecord /\ NewPlayer \in PlayerRecord
    /\ NoPlayer.life = "none" /\ NewPlayer.life = "live" /\ NoPlayer.gen = 0 /\ NewPlayer.gen = 0
BY DEF NoPlayer, NewPlayer, PlayerRecord, Life

LEMMA LoadsFacts ==
    ASSUME EngineTypes, NEW p \in {0, 1}, Loads(p)
    PROVE  /\ SameSource(p) /\ players'[p].life = players[p].life
           /\ players'[p].expected = players[p].expected
           /\ players'[p].failed = players[p].failed
           /\ players'[p].file = players[p].asked /\ players'[p].asked = NoLoad
           /\ players'[p].loaded = players[p].gen
<1> DEFINE r == [players[p] EXCEPT !.file = players[p].asked, !.asked = NoLoad,
                                   !.loaded = players[p].gen]
<1>1. players[p] \in PlayerRecord /\ players = [q \in {0, 1} |-> players[q]]
  BY DEF EngineTypes, PlayersOK
<1>2. /\ r \in PlayerRecord /\ r.life = players[p].life /\ r.gen = players[p].gen
      /\ r.opened = players[p].opened /\ r.expected = players[p].expected
      /\ r.failed = players[p].failed /\ r.file = players[p].asked /\ r.asked = NoLoad
      /\ r.loaded = players[p].gen
  BY <1>1 DEF PlayerRecord
<1>3. players' = [players EXCEPT ![p] = r]
  BY <1>1 DEF Loads, EngineTypes, PlayersOK
<1> HIDE DEF r
<1> QED
  BY <1>1, <1>2, <1>3 DEF SameSource, Others, EngineTypes, PlayersOK

LEMMA UnloadsFacts ==
    ASSUME EngineTypes, NEW p \in {0, 1}, Unloads(p)
    PROVE  /\ SameSource(p) /\ players'[p].life = players[p].life
           /\ players'[p].expected = players[p].expected
           /\ players'[p].asked = players[p].asked
           /\ players'[p].file = NoLoad /\ players'[p].loaded = 0
           /\ players'[p].failed = IF players[p].loaded > players[p].expected
                                   THEN players[p].loaded ELSE players[p].failed
<1> DEFINE lost == players[p].loaded > players[p].expected
           r == [players[p] EXCEPT !.file = NoLoad, !.loaded = 0,
                                   !.failed = IF lost THEN players[p].loaded
                                              ELSE players[p].failed]
<1>1. players[p] \in PlayerRecord /\ players = [q \in {0, 1} |-> players[q]]
  BY DEF EngineTypes, PlayersOK
<1>2. (IF lost THEN players[p].loaded ELSE players[p].failed) \in Nat
  BY <1>1 DEF PlayerRecord
<1>3. /\ r \in PlayerRecord /\ r.life = players[p].life /\ r.gen = players[p].gen
      /\ r.opened = players[p].opened /\ r.expected = players[p].expected
      /\ r.asked = players[p].asked /\ r.file = NoLoad /\ r.loaded = 0
      /\ r.failed = IF lost THEN players[p].loaded ELSE players[p].failed
  BY <1>1, <1>2 DEF PlayerRecord
<1>4. players' = [players EXCEPT ![p] = r]
  BY <1>1 DEF Unloads, EngineTypes, PlayersOK
<1> HIDE DEF r, lost
<1>5. players'[p] = r /\ Others(p) /\ PlayersOK'
  BY <1>1, <1>3, <1>4 DEF Others, EngineTypes, PlayersOK
<1> QED
  BY <1>3, <1>5 DEF SameSource, lost

LEMMA RetiredFacts ==
    ASSUME EngineTypes, NEW p \in {0, 1}, Retired(p)
    PROVE  SameSource(p) /\ players'[p].life = "retired"
<1> DEFINE r == [players[p] EXCEPT !.life = "retired", !.file = NoLoad, !.asked = NoLoad]
<1>1. players[p] \in PlayerRecord /\ players = [q \in {0, 1} |-> players[q]]
  BY DEF EngineTypes, PlayersOK
<1>2. /\ r \in PlayerRecord /\ r.life = "retired" /\ r.gen = players[p].gen
      /\ r.opened = players[p].opened
  BY <1>1 DEF PlayerRecord, Life
<1>3. players' = [players EXCEPT ![p] = r]
  BY <1>1 DEF Retired, EngineTypes, PlayersOK
<1> HIDE DEF r
<1> QED
  BY <1>1, <1>2, <1>3 DEF SameSource, Others, EngineTypes, PlayersOK

LEMMA RetireFacts ==
    ASSUME EngineTypes, NEW p \in {0, 1}, Retire(p)
    PROVE  /\ SameSource(p) /\ players'[p].life # "live"
           /\ players[p].life = "live" => players'[p].life = "retiring"
           /\ players[p].life # "live" => players'[p] = players[p]
<1> DEFINE r == [players[p] EXCEPT !.life = "retiring", !.expected = players[p].gen]
<1>1. players[p] \in PlayerRecord /\ players = [q \in {0, 1} |-> players[q]]
  BY DEF EngineTypes, PlayersOK
<1>2. /\ r \in PlayerRecord /\ r.life = "retiring" /\ r.gen = players[p].gen
      /\ r.opened = players[p].opened
  BY <1>1 DEF PlayerRecord, Life
<1>3. players' = [players EXCEPT ![p] = IF players[p].life = "live" THEN r ELSE players[p]]
  BY <1>1 DEF Retire, EngineTypes, PlayersOK
<1> HIDE DEF r
<1> QED
  BY <1>1, <1>2, <1>3 DEF SameSource, Others, EngineTypes, PlayersOK

\* The operation at the head of the tail.
LEMMA HeadFacts ==
    ASSUME EngineTypes, tail # <<>>
    PROVE  /\ tail[1] \in Operation /\ tail[1].by \in Load /\ tail[1].player \in {0, 1}
           /\ Tail(tail) \in Seq(Operation)
<1>1. tail \in Seq(Operation) /\ Len(tail) \in Nat /\ Len(tail) > 0
  BY EmptySeq DEF EngineTypes, TailOK
<1>2. tail[1] \in Operation
  BY <1>1
<1>3. Tail(tail) \in Seq(Operation)
  BY <1>1
<1> QED
  BY <1>2, <1>3 DEF Operation

LEMMA DispatchFacts ==
    ASSUME EngineTypes, Dispatch
    PROVE  LET p == tail[1].player IN
           /\ Others(p) /\ PlayersOK' /\ players'[p].life = players[p].life
           /\ players'[p].file = players[p].file /\ players'[p].loaded = players[p].loaded
           /\ players'[p].failed = players[p].failed
           /\ tail[1].kind = "open" =>
                  /\ players'[p].expected = players[p].gen
                  /\ players'[p].gen = players[p].gen + 1
                  /\ players'[p].asked = tail[1].by /\ players'[p].opened = tail[1].by
           /\ tail[1].kind # "open" =>
                  /\ players'[p].gen = players[p].gen /\ players'[p].opened = players[p].opened
                  /\ players'[p].asked = players[p].asked
                  /\ players'[p].expected \in {players[p].gen, players[p].expected}
<1> DEFINE p == tail[1].player
           open == [players[p] EXCEPT !.expected = players[p].gen, !.gen = players[p].gen + 1,
                                      !.asked = tail[1].by, !.opened = tail[1].by]
           stop == [players[p] EXCEPT !.expected = players[p].gen]
           r == Dispatched(players[p], tail[1])
<1>1. p \in {0, 1} /\ tail[1].by \in Load /\ tail[1].kind \in {"open", "stop", "control"}
  BY HeadFacts DEF Dispatch, Operation
<1>2. players[p] \in PlayerRecord /\ players = [q \in {0, 1} |-> players[q]]
  BY <1>1 DEF EngineTypes, PlayersOK
<1>0. players[p].gen \in Nat /\ players[p].gen + 1 \in Nat
  BY <1>2 DEF PlayerRecord
<1> HIDE DEF p
<1>3. /\ open \in PlayerRecord /\ open.life = players[p].life /\ open.file = players[p].file
      /\ open.loaded = players[p].loaded /\ open.failed = players[p].failed
      /\ open.expected = players[p].gen /\ open.gen = players[p].gen + 1
      /\ open.asked = tail[1].by /\ open.opened = tail[1].by
  BY <1>0, <1>1, <1>2 DEF PlayerRecord
<1>4. /\ stop \in PlayerRecord /\ stop.life = players[p].life /\ stop.file = players[p].file
      /\ stop.loaded = players[p].loaded /\ stop.failed = players[p].failed
      /\ stop.expected = players[p].gen /\ stop.gen = players[p].gen
      /\ stop.asked = players[p].asked /\ stop.opened = players[p].opened
  BY <1>2 DEF PlayerRecord
<1>5. /\ tail[1].kind = "open" => r = open
      /\ tail[1].kind = "stop" => r = stop
      /\ tail[1].kind = "control" => r = players[p]
  BY DEF Dispatched
<1>6. players' = [players EXCEPT ![p] = r]
  BY DEF Dispatch, p
<1> HIDE DEF r, open, stop, p
<1>7. players'[p] = r /\ Others(p) /\ PlayersOK'
  BY <1>1, <1>2, <1>3, <1>4, <1>5, <1>6 DEF Others, EngineTypes, PlayersOK
<1> QED
  BY <1>1, <1>3, <1>4, <1>5, <1>7 DEF p

\* The two ways in which an operation leaves the tail.
LEMMA SettlesFacts ==
    ASSUME EngineTypes, tail # <<>>, Settles
    PROVE  /\ TailOK' /\ running' = FALSE
           /\ recovery'.at = recovery.at /\ disposal'.at = disposal.at
           /\ recovery' \in [at : {"no", "tail", "retiring"}, ahead : Nat]
           /\ disposal' \in [at : {"no", "tail", "recovery", "retiring", "done"}, ahead : Nat]
<1>1. Fewer(recovery) \in [at : {"no", "tail", "retiring"}, ahead : Nat]
      /\ Fewer(recovery).at = recovery.at
  BY DEF EngineTypes, WaitsOK, Fewer
<1>2. Fewer(disposal) \in [at : {"no", "tail", "recovery", "retiring", "done"}, ahead : Nat]
      /\ Fewer(disposal).at = disposal.at
  BY DEF EngineTypes, WaitsOK, Fewer
<1> QED
  BY <1>1, <1>2, HeadFacts DEF Settles, TailOK

LEMMA EndsFacts ==
    ASSUME EngineTypes, tail # <<>>, NEW pc \in LoadPc, NEW gen \in Nat, Ends(pc, gen)
    PROVE  /\ LoadsOK'
           /\ \A l \in Load : l # tail[1].by \/ tail[1].kind # "open" => load'[l] = load[l]
           /\ tail[1].kind = "open" =>
                 /\ load'[tail[1].by].pc = pc /\ load'[tail[1].by].gen = gen
                 /\ load'[tail[1].by].player = load[tail[1].by].player
<1>1. tail[1].by \in Load /\ load[tail[1].by] \in LoadRecord /\ load = [l \in Load |-> load[l]]
  BY HeadFacts DEF EngineTypes, LoadsOK
<1> DEFINE r == [load[tail[1].by] EXCEPT !.pc = pc, !.gen = gen]
<1>2. /\ r \in LoadRecord /\ r.pc = pc /\ r.gen = gen /\ r.player = load[tail[1].by].player
  BY <1>1 DEF LoadRecord
<1>3. tail[1].kind = "open" => load' = [load EXCEPT ![tail[1].by] = r]
  BY DEF Ends
<1>4. tail[1].kind # "open" => load' = load
  BY DEF Ends
<1> HIDE DEF r
<1> QED
  BY <1>1, <1>2, <1>3, <1>4 DEF EngineTypes, LoadsOK

LEMMA OperationFacts ==
    ASSUME EngineTypes
    PROVE  \A i \in 1..Len(tail) : tail[i].by \in Load /\ tail[i].player \in {0, 1}
<1>1. tail \in Seq(Operation)
  BY DEF EngineTypes, TailOK
<1>2. ASSUME NEW i \in 1..Len(tail) PROVE tail[i] \in Operation
  BY <1>1, ElementOfSeq
<1> QED
  BY <1>2 DEF Operation

\* Another operation behind the others.
LEMMA QueueFacts ==
    ASSUME EngineTypes, NEW kind \in {"open", "stop", "control"}, NEW l \in Load, NEW p \in {0, 1},
           Queue(kind, l, p), UNCHANGED running
    PROVE  TailOK' /\ (running => tail'[1] = tail[1])
<1> DEFINE o == [kind |-> kind, by |-> l, player |-> p]
<1>1. o \in Operation /\ tail \in Seq(Operation) /\ Len(tail) \in Nat
  BY DEF Operation, EngineTypes, TailOK
<1>2. tail' = Append(tail, o)
  BY DEF Queue
<1> HIDE DEF o
<1>3. tail' \in Seq(Operation) /\ Len(tail') = Len(tail) + 1
  BY <1>1, <1>2
<1>4. tail' # <<>>
  BY <1>1, <1>3
<1>5. running => Len(tail) > 0
  BY EmptySeq, <1>1 DEF EngineTypes, TailOK
<1>6. running => tail'[1] = tail[1]
  BY <1>1, <1>2, <1>5
<1> QED
  BY <1>3, <1>4, <1>6 DEF EngineTypes, TailOK

-----------------------------------------------------------------------------
(***************************************************************************)
(* The sources under a step.                                               *)
(***************************************************************************)
\* No source is opened by the step, and none is given back.
NoneOpened ==
    /\ \A l \in Load : load'[l].pc \in Opened =>
          /\ load[l].pc \in Opened /\ load'[l].gen = load[l].gen
          /\ load'[l].player = load[l].player
    /\ failed \subseteq failed' /\ discarded \subseteq discarded' /\ (disposed => disposed')

\* A player that still has the source it had has its file, or had given it up.
SourceStays ==
    /\ \A q \in {0, 1} : players'[q].gen >= players[q].gen
    /\ players'[generation].gen = players[generation].gen =>
          /\ players'[generation].opened = players[generation].opened
          /\ players[generation].expected >= players[generation].gen =>
                players'[generation].expected >= players'[generation].gen
          /\ \A l \in Load : Kept(l) /\ Kept(l)' /\ Loaded(generation, l) =>
                \/ Loaded(generation, l)'
                \/ players'[generation].expected >= players'[generation].gen

LEMMA SourcesStay ==
    ASSUME EngineInv, EngineTypes', NoneOpened, SourceStays, generation' = generation
    PROVE  GenerationsOK' /\ FilesOK'
<1>1. /\ \A l \in Load : load[l] \in LoadRecord /\ load'[l] \in LoadRecord
      /\ \A q \in {0, 1} : players[q] \in PlayerRecord /\ players'[q] \in PlayerRecord
      /\ generation \in {0, 1}
  BY DEF EngineInv, EngineTypes, PlayersOK, LoadsOK, WaitsOK
<1>2. /\ \A l \in Load : load[l].gen \in Nat /\ load[l].player \in {0, 1}
      /\ \A q \in {0, 1} : players[q].gen \in Nat /\ players'[q].gen \in Nat
  BY <1>1 DEF LoadRecord, PlayerRecord
<1>3. GenerationsOK'
  <2> SUFFICES ASSUME NEW l \in Load, load'[l].pc \in Opened
               PROVE  load'[l].gen > 0 /\ load'[l].gen <= players'[load'[l].player].gen
    BY DEF GenerationsOK
  <2>1. /\ load[l].pc \in Opened /\ load'[l].gen = load[l].gen
        /\ load'[l].player = load[l].player
    BY DEF NoneOpened
  <2>2. load[l].gen > 0 /\ load[l].gen <= players[load[l].player].gen
    BY <2>1 DEF EngineInv, SourcesInv, GenerationsOK
  <2>3. players'[load[l].player].gen >= players[load[l].player].gen
    BY <1>2 DEF SourceStays
  <2> QED
    BY <1>2, <2>1, <2>2, <2>3
<1>4. FilesOK'
  <2> SUFFICES ASSUME NEW l \in Load, Kept(l)'
               PROVE  /\ players'[generation].opened = l
                      /\ \/ Loaded(generation, l)'
                         \/ players'[generation].expected >= players'[generation].gen
    BY DEF FilesOK
  <2>1. /\ load[l].pc \in Opened /\ load'[l].gen = load[l].gen
        /\ load'[l].player = load[l].player
    BY DEF NoneOpened, Kept, Opened
  <2>2. load[l].player = generation /\ players'[generation].gen = load[l].gen
    BY <2>1 DEF Kept
  <2>3. load[l].gen <= players[generation].gen
    BY <2>1, <2>2 DEF EngineInv, SourcesInv, GenerationsOK
  <2>4. players'[generation].gen = players[generation].gen
    BY <1>1, <1>2, <2>2, <2>3 DEF SourceStays
  <2>5. Kept(l)
    BY <2>1, <2>2, <2>4 DEF Kept, NoneOpened, Opened
  <2> QED
    BY <2>4, <2>5 DEF SourceStays, EngineInv, SourcesInv, FilesOK
<1> QED
  BY <1>3, <1>4

\* The same for a step that leaves the players alone.
SameOperation == running' => running /\ tail'[1] = tail[1]
LEMMA PlayersStay ==
    ASSUME EngineInv, EngineTypes', NoneOpened, UNCHANGED <<players, generation>>, SameOperation
    PROVE  SourcesInv'
<1>1. /\ generation \in {0, 1}
      /\ \A q \in {0, 1} : players[q].gen \in Nat
  BY DEF EngineInv, EngineTypes, PlayersOK, PlayerRecord, WaitsOK
<1>2. SourceStays
  BY <1>1 DEF SourceStays, Loaded
<1>3. RunningOK'
  BY DEF EngineInv, SourcesInv, RunningOK, Loaded, SameOperation
<1> QED
  BY <1>2, <1>3, SourcesStay DEF SourcesInv

\* The loads that have asked stay such, and keep their player.
AskedStay ==
    \A l \in Load : load[l].pc \in Asked =>
        load'[l].pc \in Asked /\ load'[l].player = load[l].player

LEMMA AskedFacts ==
    ASSUME EngineInv, AskedStay, tail' \in {tail, Tail(tail)}
    PROVE  AskedOK'
<1>1. tail \in Seq(Operation) /\ Len(tail) \in Nat /\ AskedOK
  BY DEF EngineInv, EngineTypes, TailOK
<1>2. \A i \in 1..Len(tail) : tail[i].by \in Load
  BY OperationFacts DEF EngineInv
<1>3. CASE tail' = tail
  BY <1>1, <1>2, <1>3 DEF AskedOK, AskedStay
<1>4. CASE tail' = Tail(tail) /\ tail # <<>>
  <2>1. /\ Len(tail') = Len(tail) - 1
        /\ \A i \in 1..Len(tail') : tail'[i] = tail[i + 1] /\ i + 1 \in 1..Len(tail)
    BY <1>1, <1>4, HeadTailProperties, EmptySeq
  <2>2. ASSUME NEW i \in 1..Len(tail'), tail'[i].kind = "open"
        PROVE  load'[tail'[i].by].pc \in Asked /\ load'[tail'[i].by].player = tail'[i].player
    <3>1. tail'[i] = tail[i + 1] /\ i + 1 \in 1..Len(tail) /\ tail[i + 1].by \in Load
      BY <1>2, <2>1
    <3> QED
      BY <1>1, <2>2, <3>1 DEF AskedOK, AskedStay
  <2> QED
    BY <2>2 DEF AskedOK
<1>5. CASE tail = <<>> /\ tail' = Tail(tail)
  <2>1. tail' = <<>>
    BY <1>5
  <2> QED
    BY <2>1, <1>5, <1>3
<1> QED
  BY <1>3, <1>4, <1>5

LEMMA AskedMore ==
    ASSUME EngineInv, AskedStay, NEW kind \in {"open", "stop", "control"}, NEW l \in Load,
           NEW p \in {0, 1}, Queue(kind, l, p),
           kind = "open" => load'[l].pc \in Asked /\ load'[l].player = p
    PROVE  AskedOK'
<1> DEFINE o == [kind |-> kind, by |-> l, player |-> p]
<1>1. tail \in Seq(Operation) /\ Len(tail) \in Nat /\ AskedOK /\ o \in Operation
  BY DEF EngineInv, EngineTypes, TailOK, Operation
<1>2. \A i \in 1..Len(tail) : tail[i].by \in Load
  BY OperationFacts DEF EngineInv
<1>3. tail' = Append(tail, o) /\ o.kind = kind /\ o.by = l /\ o.player = p
  BY DEF Queue
<1> HIDE DEF o
<1>4. /\ Len(tail') = Len(tail) + 1 /\ tail'[Len(tail) + 1] = o
      /\ \A i \in 1..Len(tail) : tail'[i] = tail[i]
  BY <1>1, <1>3, AppendProperties
<1>5. ASSUME NEW i \in 1..Len(tail'), tail'[i].kind = "open"
      PROVE  load'[tail'[i].by].pc \in Asked /\ load'[tail'[i].by].player = tail'[i].player
  <2>1. CASE i = Len(tail) + 1
    BY <1>3, <1>4, <1>5, <2>1
  <2>2. CASE i # Len(tail) + 1
    <3>1. i \in 1..Len(tail)
      BY <1>1, <1>4, <2>2
    <3> QED
      BY <1>1, <1>2, <1>4, <1>5, <3>1 DEF AskedOK, AskedStay
  <2> QED
    BY <2>1, <2>2
<1> QED
  BY <1>5 DEF AskedOK

-----------------------------------------------------------------------------
(***************************************************************************)
(* The operations of the tail.                                             *)
(***************************************************************************)
LEMMA DispatchKeeps == ASSUME EngineInv, Dispatch PROVE EngineInv'
<1> DEFINE p == tail[1].player
<1>1. EngineTypes /\ PlayersInv /\ WaitsInv /\ SourcesInv
  BY DEF EngineInv
<1>2. /\ tail # <<>> /\ ~disposed /\ ~stalled /\ p = generation
      /\ tail[1].kind # "open" => EnsureActive(tail[1].by)
  BY DEF Dispatch, Rejected
<1>3. /\ tail[1].by \in Load /\ p \in {0, 1} /\ players[p] \in PlayerRecord /\ players[p].gen \in Nat
      /\ tail[1].kind \in {"open", "stop", "control"}
  BY <1>1, <1>2, HeadFacts DEF Operation, EngineTypes, PlayersOK, PlayerRecord
<1>4. EngineTypes'
  BY <1>1, <1>2, DispatchFacts DEF Dispatch, EngineTypes, TailOK, LoadsOK, WaitsOK
<1>5. /\ UNCHANGED <<generation, stalled, tail, recovery, disposal, load, sessionVars>>
      /\ running' = TRUE
  BY DEF Dispatch
<1>6. /\ \A q \in {0, 1} : players'[q].life = players[q].life
      /\ \A q \in {0, 1} : q # p => players'[q] = players[q]
  BY <1>1, <1>3, DispatchFacts DEF Others
<1>7. players[p].life = "live"
  BY <1>1, <1>2 DEF PlayersInv
<1>8. PlayersInv'
  <2>1. players'[1].life = "none" => players'[1] = NoPlayer
    BY <1>1, <1>6, <1>7 DEF PlayersInv
  <2> QED
    BY <1>1, <1>2, <1>3, <1>5, <1>6, <2>1 DEF PlayersInv, disposed
<1>9. WaitsInv'
  BY <1>1, <1>2, <1>3, <1>5, <1>6, <1>7 DEF WaitsInv, disposed
<1>10. players'[p].gen \in Nat /\ players'[p].gen >= players[p].gen
  BY <1>1, <1>3, DispatchFacts
<1>11. SourceStays
  <2>1. \A q \in {0, 1} : players'[q].gen >= players[q].gen
    BY <1>1, <1>3, <1>6, <1>10 DEF EngineTypes, PlayersOK, PlayerRecord
  <2>2. ASSUME players'[generation].gen = players[generation].gen
        PROVE  /\ players'[generation].opened = players[generation].opened
               /\ Loaded(generation, tail[1].by)' = Loaded(generation, tail[1].by)
               /\ \A l \in Load : Loaded(generation, l) => Loaded(generation, l)'
               /\ players'[generation].expected \in {players[p].gen, players[p].expected}
    BY <1>1, <1>2, <1>3, <1>5, <2>2, DispatchFacts DEF Loaded
  <2> QED
    BY <1>2, <1>3, <2>1, <2>2 DEF SourceStays
<1>12. NoneOpened
  BY <1>5 DEF NoneOpened, sessionVars, disposed
<1>13. GenerationsOK' /\ FilesOK'
  BY <1>4, <1>5, <1>11, <1>12, SourcesStay
<1>14. RunningOK'
  <2>1. CASE tail[1].kind = "open"
    BY <1>1, <1>3, <1>5, <2>1, DispatchFacts DEF RunningOK
  <2>2. CASE tail[1].kind # "open"
    <3>1. Kept(tail[1].by)
      BY <1>2, <1>3, <2>2 DEF EnsureActive, Owns, IsSession, Kept
    <3>2. players[p].opened = tail[1].by
      BY <1>1, <1>2, <1>3, <3>1 DEF SourcesInv, FilesOK
    <3> QED
      BY <1>1, <1>5, <2>2, <3>2, DispatchFacts DEF RunningOK
  <2> QED
    BY <2>1, <2>2
<1>15. AskedOK'
  BY <1>5, AskedFacts DEF AskedStay
<1> QED
  BY <1>4, <1>8, <1>9, <1>13, <1>14, <1>15 DEF EngineInv, SourcesInv

\* An operation is over and leaves the players alone; the generation may be given up.
LEMMA SettlesKeeps ==
    ASSUME EngineInv, tail # <<>>, Settles, LoadsOK', NoneOpened, AskedStay,
           UNCHANGED <<players, generation, failed, discarded>>,
           stalled' \in BOOLEAN, stalled => stalled'
    PROVE  EngineInv'
<1>1. EngineTypes /\ PlayersInv /\ WaitsInv /\ SourcesInv
  BY DEF EngineInv
<1>2. /\ TailOK' /\ running' = FALSE
      /\ recovery'.at = recovery.at /\ disposal'.at = disposal.at
      /\ recovery' \in [at : {"no", "tail", "retiring"}, ahead : Nat]
      /\ disposal' \in [at : {"no", "tail", "recovery", "retiring", "done"}, ahead : Nat]
  BY <1>1, SettlesFacts
<1>3. EngineTypes'
  BY <1>1, <1>2 DEF EngineTypes, PlayersOK, WaitsOK
<1>4. PlayersInv' /\ WaitsInv'
  BY <1>1, <1>2 DEF PlayersInv, WaitsInv, disposed
<1>5. SourcesInv'
  BY <1>2, <1>3, PlayersStay DEF SameOperation
<1>6. AskedOK'
  BY AskedFacts DEF Settles
<1> QED
  BY <1>3, <1>4, <1>5, <1>6 DEF EngineInv

\* What is over in the engine is over for its load.
LEMMA EndsAsked ==
    ASSUME EngineInv, tail # <<>>, NEW pc \in {"opened", "failed"}, NEW gen \in Nat, Ends(pc, gen)
    PROVE  AskedStay
<1>1. EngineTypes /\ pc \in LoadPc /\ pc \in Asked
  BY DEF EngineInv, LoadPc, Asked
<1> QED
  BY <1>1, EndsFacts DEF AskedStay

LEMMA EndsFailed ==
    ASSUME EngineInv, tail # <<>>, Ends("failed", 0), UNCHANGED <<failed, discarded>>, Settles
    PROVE  LoadsOK' /\ NoneOpened /\ AskedStay
<1>1. EngineTypes /\ "failed" \in LoadPc /\ 0 \in Nat
  BY DEF EngineInv, LoadPc
<1>2. /\ LoadsOK'
      /\ \A l \in Load : l # tail[1].by \/ tail[1].kind # "open" => load'[l] = load[l]
      /\ tail[1].kind = "open" => load'[tail[1].by].pc = "failed"
  BY <1>1, EndsFacts
<1>3. disposal'.at = disposal.at
  BY <1>1, SettlesFacts
<1>4. AskedStay
  BY <1>1, EndsAsked
<1> QED
  BY <1>2, <1>3, <1>4 DEF NoneOpened, Opened, disposed

LEMMA RejectKeeps == ASSUME EngineInv, Reject PROVE EngineInv'
<1>1. tail # <<>> /\ Settles /\ Ends("failed", 0) /\ UNCHANGED <<players, generation, stalled, failed, discarded>>
  BY DEF Reject, sessionVars
<1> QED
  BY <1>1, EndsFailed, SettlesKeeps DEF EngineInv, EngineTypes, WaitsOK

LEMMA ExpireKeeps == ASSUME EngineInv, Expire PROVE EngineInv'
<1>1. tail # <<>> /\ Settles /\ Ends("failed", 0) /\ UNCHANGED <<players, generation, failed, discarded>>
      /\ stalled' = TRUE
  BY DEF Expire, sessionVars, EngineInv, EngineTypes, TailOK
<1> QED
  BY <1>1, EndsFailed, SettlesKeeps

LEMMA ControlReturnsKeeps == ASSUME EngineInv, ControlReturns PROVE EngineInv'
<1>1. tail # <<>> /\ Settles
      /\ UNCHANGED <<players, generation, stalled, load, failed, discarded>>
  BY DEF ControlReturns, sessionVars, EngineInv, EngineTypes, TailOK
<1>2. LoadsOK' /\ disposal'.at = disposal.at
  BY <1>1, SettlesFacts DEF EngineInv, EngineTypes, LoadsOK
<1>3. NoneOpened /\ AskedStay
  BY <1>1, <1>2 DEF NoneOpened, AskedStay, disposed
<1> QED
  BY <1>1, <1>2, <1>3, SettlesKeeps DEF EngineInv, EngineTypes, WaitsOK

LEMMA OpenReturnsKeeps == ASSUME EngineInv, OpenReturns PROVE EngineInv'
<1> DEFINE p == tail[1].player
           by == tail[1].by
<1>1. EngineTypes /\ PlayersInv /\ WaitsInv /\ SourcesInv /\ AskedOK
  BY DEF EngineInv
<1>2. /\ running /\ tail # <<>> /\ Settles /\ tail[1].kind = "open" /\ players[p].asked = NoLoad
      /\ UNCHANGED <<players, generation, stalled, failed, discarded>>
  BY <1>1 DEF OpenReturns, sessionVars, EngineTypes, TailOK
<1>3. CASE Ends("failed", 0)
  BY <1>2, <1>3, EndsFailed, SettlesKeeps DEF EngineInv, EngineTypes, WaitsOK
<1>4. CASE /\ ~disposed /\ p = generation /\ ~sourceFailed(p)
           /\ Ends("opened", players[p].gen)
  <2>1. /\ by \in Load /\ p \in {0, 1} /\ players[p] \in PlayerRecord /\ players[p].gen \in Nat
        /\ by # NoLoad
    BY <1>1, <1>2, HeadFacts, EngineAssumption DEF EngineTypes, PlayersOK, PlayerRecord
  <2>2. /\ LoadsOK' /\ \A l \in Load : l # by => load'[l] = load[l]
        /\ load'[by].pc = "opened" /\ load'[by].gen = players[p].gen
        /\ load'[by].player = load[by].player
    BY <1>1, <1>2, <1>4, <2>1, EndsFacts DEF LoadPc
  <2>3. AskedStay
    BY <1>2, <1>4, <2>1, EndsAsked
  <2>4. load[by].player = p
    <3>1. 1 \in 1..Len(tail)
      BY <1>1, <1>2, EmptySeq DEF EngineTypes, TailOK
    <3> QED
      BY <1>1, <1>2, <3>1 DEF AskedOK
  <2>5. /\ TailOK' /\ running' = FALSE
        /\ recovery'.at = recovery.at /\ disposal'.at = disposal.at
        /\ recovery' \in [at : {"no", "tail", "retiring"}, ahead : Nat]
        /\ disposal' \in [at : {"no", "tail", "recovery", "retiring", "done"}, ahead : Nat]
    BY <1>1, <1>2, SettlesFacts
  <2>6. EngineTypes'
    BY <1>1, <1>2, <2>2, <2>5 DEF EngineTypes, PlayersOK, WaitsOK
  <2>7. PlayersInv' /\ WaitsInv'
    BY <1>1, <1>2, <2>5 DEF PlayersInv, WaitsInv, disposed
  <2>8. /\ players[p].opened = by /\ players[p].gen > 0
        /\ Loaded(p, by) \/ players[p].expected >= players[p].gen
    BY <1>1, <1>2, <1>4, <2>1 DEF SourcesInv, RunningOK, sourceFailed
  <2>9. GenerationsOK'
    BY <1>1, <1>2, <2>1, <2>2, <2>4, <2>8 DEF SourcesInv, GenerationsOK
  <2>10. FilesOK'
    <3> SUFFICES ASSUME NEW l \in Load, Kept(l)'
                 PROVE  /\ players[generation].opened = l
                        /\ \/ Loaded(generation, l)
                           \/ players[generation].expected >= players[generation].gen
      BY <1>2 DEF FilesOK, Loaded
    <3>1. CASE l = by
      BY <1>4, <2>8, <3>1
    <3>2. CASE l # by
      <4>1. Kept(l)
        BY <1>2, <2>2, <2>5, <3>2 DEF Kept, disposed
      <4> QED
        BY <1>1, <4>1 DEF SourcesInv, FilesOK
    <3> QED
      BY <3>1, <3>2
  <2>11. RunningOK' /\ AskedOK'
    BY <1>2, <2>3, <2>5, AskedFacts DEF RunningOK, Settles
  <2> QED
    BY <2>6, <2>7, <2>9, <2>10, <2>11 DEF EngineInv, SourcesInv
<1> QED
  BY <1>3, <1>4 DEF OpenReturns

LEMMA NativeFailsKeeps == ASSUME EngineInv, NativeFails PROVE EngineInv'
<1> DEFINE p == tail[1].player
           r == [players[p] EXCEPT !.asked = NoLoad]
<1>1. EngineTypes /\ PlayersInv /\ WaitsInv /\ SourcesInv /\ AskedOK
  BY DEF EngineInv
<1>2. /\ running /\ tail # <<>> /\ Settles /\ Ends("failed", 0)
      /\ UNCHANGED <<generation, stalled, failed, discarded>>
      /\ players' = [players EXCEPT ![p].asked = NoLoad]
  BY <1>1 DEF NativeFails, sessionVars, EngineTypes, TailOK
<1>3. p \in {0, 1} /\ p = generation /\ players[p] \in PlayerRecord
      /\ players = [q \in {0, 1} |-> players[q]] /\ players[p].life = "live"
  BY <1>1, <1>2, HeadFacts DEF EngineTypes, PlayersOK, WaitsInv
<1>4. /\ r \in PlayerRecord /\ r.life = players[p].life /\ r.gen = players[p].gen
      /\ r.opened = players[p].opened /\ r.expected = players[p].expected
      /\ r.file = players[p].file /\ r.loaded = players[p].loaded
  BY <1>3 DEF PlayerRecord
<1>5. players' = [players EXCEPT ![p] = r]
  BY <1>2, <1>3
<1> HIDE DEF r, p
<1>6. PlayersOK' /\ players'[p] = r /\ \A q \in {0, 1} : q # p => players'[q] = players[q]
  BY <1>1, <1>3, <1>4, <1>5 DEF EngineTypes, PlayersOK
<1>7. LoadsOK' /\ NoneOpened /\ AskedStay
  BY <1>2, EndsFailed
<1>8. /\ TailOK' /\ running' = FALSE
      /\ recovery'.at = recovery.at /\ disposal'.at = disposal.at
      /\ recovery' \in [at : {"no", "tail", "retiring"}, ahead : Nat]
      /\ disposal' \in [at : {"no", "tail", "recovery", "retiring", "done"}, ahead : Nat]
  BY <1>1, <1>2, SettlesFacts
<1>9. EngineTypes'
  BY <1>1, <1>2, <1>6, <1>7, <1>8 DEF EngineTypes, WaitsOK
<1>10. PlayersInv' /\ WaitsInv'
  BY <1>1, <1>2, <1>3, <1>4, <1>6, <1>8 DEF PlayersInv, WaitsInv, disposed
<1>11. SourceStays
  <2>1. \A q \in {0, 1} : players'[q].gen = players[q].gen /\ players[q].gen \in Nat
    BY <1>1, <1>4, <1>6 DEF EngineTypes, PlayersOK, PlayerRecord
  <2>2. \A l \in Load : Loaded(generation, l) => Loaded(generation, l)'
    BY <1>2, <1>3, <1>4, <1>6 DEF Loaded
  <2> QED
    BY <1>3, <1>4, <1>6, <2>1, <2>2 DEF SourceStays
<1>12. SourcesInv'
  BY <1>2, <1>7, <1>8, <1>9, <1>11, SourcesStay DEF SourcesInv, RunningOK
<1>13. AskedOK'
  BY <1>2, <1>7, AskedFacts DEF Settles
<1> QED
  BY <1>9, <1>10, <1>12, <1>13 DEF EngineInv

-----------------------------------------------------------------------------
(***************************************************************************)
(* Loads, sessions and dispose, which leave the players alone.             *)
(***************************************************************************)
LEMMA EngineStays ==
    ASSUME EngineInv, TailOK', LoadsOK', NoneOpened, SameOperation, AskedOK', running' = running,
           UNCHANGED <<players, generation, stalled, disposal>>,
           recovery' \in [at : {"no", "tail", "retiring"}, ahead : Nat],
           recovery'.at # recovery.at => recovery'.at = "tail" /\ stalled
    PROVE  EngineInv'
<1>1. EngineTypes /\ PlayersInv /\ WaitsInv
  BY DEF EngineInv
<1>2. EngineTypes'
  BY <1>1 DEF EngineTypes, PlayersOK, WaitsOK
<1>3. PlayersInv'
  BY <1>1 DEF PlayersInv, disposed
<1>4. WaitsInv'
  BY <1>1 DEF WaitsInv, disposed, SameOperation
<1>5. SourcesInv'
  BY <1>2, PlayersStay
<1> QED
  BY <1>2, <1>3, <1>4, <1>5 DEF EngineInv

\* A load joins the tail.
LEMMA JoinsKeeps ==
    ASSUME EngineInv, NEW l \in Load, load[l].pc \in {"idle", "recovered"},
           load' = [load EXCEPT ![l].pc = "queued", ![l].player = generation],
           Queue("open", l, generation),
           UNCHANGED <<players, generation, stalled, running, recovery, disposal, failed, discarded>>
    PROVE  EngineInv'
<1> DEFINE r == [load[l] EXCEPT !.pc = "queued", !.player = generation]
<1>1. EngineTypes /\ generation \in {0, 1} /\ load[l] \in LoadRecord
      /\ load = [k \in Load |-> load[k]]
      /\ recovery \in [at : {"no", "tail", "retiring"}, ahead : Nat]
  BY DEF EngineInv, EngineTypes, LoadsOK, WaitsOK
<1>2. r \in LoadRecord /\ r.pc = "queued" /\ r.player = generation
  BY <1>1 DEF LoadRecord, LoadPc
<1>3. load' = [load EXCEPT ![l] = r]
  BY <1>1
<1> HIDE DEF r
<1>4. LoadsOK' /\ load'[l] = r /\ \A k \in Load : k # l => load'[k] = load[k]
  BY <1>1, <1>2, <1>3 DEF EngineTypes, LoadsOK
<1>5. TailOK' /\ SameOperation
  BY <1>1, QueueFacts DEF SameOperation
<1>6. NoneOpened /\ AskedStay
  BY <1>2, <1>4 DEF NoneOpened, AskedStay, Opened, Asked, disposed
<1>7. AskedOK'
  BY <1>1, <1>2, <1>4, <1>6, AskedMore DEF Asked
<1> QED
  BY <1>1, <1>4, <1>5, <1>6, <1>7, EngineStays

LEMMA LoadRemoteKeeps == ASSUME EngineInv, NEW l \in Load, LoadRemote(l) PROVE EngineInv'
<1>1. EngineTypes /\ load[l].pc = "idle" /\ load \in [Load -> LoadRecord]
      /\ UNCHANGED <<players, generation, stalled, running, disposal, failed, discarded>>
      /\ recovery \in [at : {"no", "tail", "retiring"}, ahead : Nat] /\ Len(tail) \in Nat
  BY DEF LoadRemote, sessionVars, EngineInv, EngineTypes, LoadsOK, WaitsOK, TailOK
<1>2. ASSUME NEW pc \in {"failed", "recovering"}, load' = [load EXCEPT ![l].pc = pc],
             UNCHANGED tail, recovery' = recovery \/ (stalled /\ recovery' = [at |-> "tail", ahead |-> Len(tail)])
      PROVE  EngineInv'
  <2>1. /\ LoadsOK' /\ load'[l].pc = pc
        /\ \A k \in Load : k # l => load'[k] = load[k]
    BY <1>1, <1>2 DEF LoadsOK, LoadRecord, LoadPc
  <2>2. NoneOpened /\ AskedStay
    BY <1>1, <2>1 DEF NoneOpened, AskedStay, Opened, Asked, disposed
  <2>3. TailOK' /\ SameOperation /\ AskedOK'
    BY <1>1, <1>2, <2>2, AskedFacts DEF SameOperation, EngineTypes, TailOK
  <2> QED
    BY <1>1, <1>2, <2>1, <2>2, <2>3, EngineStays
<1>3. CASE disposed
  BY <1>1, <1>2, <1>3 DEF LoadRemote
<1>4. CASE ~disposed /\ stalled
  BY <1>1, <1>2, <1>4 DEF LoadRemote
<1>5. CASE ~disposed /\ ~stalled
  BY <1>1, <1>5, JoinsKeeps DEF LoadRemote
<1> QED
  BY <1>3, <1>4, <1>5

LEMMA LoadGoesOnKeeps == ASSUME EngineInv, NEW l \in Load, LoadGoesOn(l) PROVE EngineInv'
BY JoinsKeeps DEF LoadGoesOn, sessionVars

LEMMA NewSessionKeeps == ASSUME EngineInv, NEW l \in Load, NewSession(l) PROVE EngineInv'
<1>1. EngineTypes /\ load[l].pc = "opened" /\ load \in [Load -> LoadRecord]
      /\ UNCHANGED <<players, generation, stalled, tail, running, recovery, disposal, failed, discarded>>
      /\ recovery \in [at : {"no", "tail", "retiring"}, ahead : Nat]
  BY DEF NewSession, sessionVars, EngineInv, EngineTypes, LoadsOK, WaitsOK
<1>2. PICK pc \in {"failed", "session"} : load' = [load EXCEPT ![l].pc = pc]
  BY DEF NewSession
<1>3. /\ LoadsOK' /\ load'[l].pc = pc /\ load'[l].gen = load[l].gen
      /\ load'[l].player = load[l].player
      /\ \A k \in Load : k # l => load'[k] = load[k]
  BY <1>1, <1>2 DEF LoadsOK, LoadRecord, LoadPc
<1>4. NoneOpened /\ AskedStay
  BY <1>1, <1>3 DEF NoneOpened, AskedStay, Opened, Asked, disposed
<1>5. TailOK' /\ SameOperation /\ AskedOK'
  BY <1>1, <1>4, AskedFacts DEF SameOperation, EngineTypes, TailOK
<1> QED
  BY <1>1, <1>3, <1>4, <1>5, EngineStays

\* What a session queues, and what it does without queueing.
LEMMA SessionKeeps ==
    ASSUME EngineInv,
           UNCHANGED <<players, generation, stalled, running, recovery, disposal, load, failed>>,
           discarded \subseteq discarded',
           \/ UNCHANGED tail
           \/ \E kind \in {"stop", "control"}, s \in Load : Queue(kind, s, load[s].player)
    PROVE  EngineInv'
<1>1. EngineTypes /\ load \in [Load -> LoadRecord]
      /\ recovery \in [at : {"no", "tail", "retiring"}, ahead : Nat]
  BY DEF EngineInv, EngineTypes, LoadsOK, WaitsOK
<1>2. LoadsOK' /\ NoneOpened /\ AskedStay
  BY <1>1 DEF LoadsOK, NoneOpened, AskedStay, disposed
<1>3. CASE UNCHANGED tail
  BY <1>1, <1>2, <1>3, AskedFacts, EngineStays DEF SameOperation, EngineTypes, TailOK
<1>4. ASSUME NEW kind \in {"stop", "control"}, NEW s \in Load, Queue(kind, s, load[s].player)
      PROVE  EngineInv'
  <2>1. load[s].player \in {0, 1}
    BY <1>1 DEF LoadRecord
  <2>2. TailOK' /\ SameOperation
    BY <1>1, <1>4, <2>1, QueueFacts DEF SameOperation
  <2>3. AskedOK'
    BY <1>2, <1>4, <2>1, AskedMore
  <2> QED
    BY <1>1, <1>2, <2>2, <2>3, EngineStays
<1> QED
  BY <1>3, <1>4

LEMMA CallKeeps == ASSUME EngineInv, NEW s \in Load, NEW call, Call(s, call) PROVE EngineInv'
BY SessionKeeps DEF Call

LEMMA FocusSettlesKeeps ==
    ASSUME EngineInv, NEW s \in Load, NEW granted \in BOOLEAN, FocusSettles(s, granted)
    PROVE  EngineInv'
BY SessionKeeps DEF FocusSettles

LEMMA SeekKeeps == ASSUME EngineInv, NEW s \in Load, Seek(s) PROVE EngineInv'
BY SessionKeeps DEF Seek, sessionVars

LEMMA CloseSessionKeeps == ASSUME EngineInv, NEW s \in Load, CloseSession(s) PROVE EngineInv'
BY SessionKeeps DEF CloseSession

-----------------------------------------------------------------------------
(***************************************************************************)
(* The rebuild.                                                            *)
(***************************************************************************)
\* The loads that waited for the rebuild go on, or fail.
LEMMA RecoveryEndsFacts ==
    ASSUME EngineInv, NEW pc \in {"failed", "recovered"}, RecoveryEnds(pc)
    PROVE  /\ LoadsOK' /\ recovery' = Idle
           /\ \A l \in Load : load'[l].pc \in Opened => load'[l] = load[l]
           /\ AskedStay
<1>1. load \in [Load -> LoadRecord]
  BY DEF EngineInv, EngineTypes, LoadsOK
<1>2. \A l \in Load :
          LET r == [load[l] EXCEPT !.pc = pc]
          IN  r \in LoadRecord /\ r.pc = pc
  BY <1>1 DEF LoadRecord, LoadPc
<1>3. /\ load' = [l \in Load |-> IF load[l].pc = "recovering" THEN [load[l] EXCEPT !.pc = pc]
                                 ELSE load[l]]
      /\ recovery' = Idle
  BY DEF RecoveryEnds
<1> QED
  BY <1>1, <1>2, <1>3 DEF LoadsOK, Opened, Asked, AskedStay

\* A rebuild that ends without a replacement.
LEMMA NoReplacementKeeps ==
    ASSUME EngineInv, NEW pc \in {"failed", "recovered"}, RecoveryEnds(pc),
           UNCHANGED <<players, generation, stalled, tail, running, disposal, failed, discarded>>
    PROVE  EngineInv'
<1>1. EngineTypes /\ PlayersInv /\ WaitsInv /\ SourcesInv
  BY DEF EngineInv
<1>2. LoadsOK' /\ recovery' = Idle /\ AskedStay
      /\ \A l \in Load : load'[l].pc \in Opened => load'[l] = load[l]
  BY RecoveryEndsFacts
<1>3. EngineTypes'
  BY <1>1, <1>2 DEF EngineTypes, PlayersOK, TailOK, WaitsOK, Idle
<1>4. PlayersInv' /\ WaitsInv'
  BY <1>1, <1>2 DEF PlayersInv, WaitsInv, disposed, Idle
<1>5. NoneOpened
  BY <1>2 DEF NoneOpened, disposed
<1>6. SourcesInv' /\ AskedOK'
  BY <1>2, <1>3, <1>5, PlayersStay, AskedFacts DEF SameOperation
<1> QED
  BY <1>3, <1>4, <1>6 DEF EngineInv

\* No load has a source in a second player that is not there yet, nor in a new one.
LEMMA NothingInTheSecond ==
    ASSUME EngineInv, players[1].life = "none"
    PROVE  \A l \in Load : load[l].pc \in Opened => load[l].player = 0
<1>1. players[1].gen = 0 /\ \A l \in Load : load[l].gen \in Nat /\ load[l].player \in {0, 1}
  BY NoPlayerFacts DEF EngineInv, PlayersInv, EngineTypes, LoadsOK, LoadRecord
<1> QED
  BY <1>1 DEF EngineInv, SourcesInv, GenerationsOK

LEMMA RecoveryStartsKeeps == ASSUME EngineInv, RecoveryStarts PROVE EngineInv'
<1>1. EngineTypes /\ PlayersInv /\ WaitsInv /\ SourcesInv
  BY DEF EngineInv
<1>2. /\ recovery.at = "tail" /\ stalled /\ ~running /\ generation \in {0, 1}
      /\ UNCHANGED <<stalled, tail, running, disposal, failed, discarded>>
  BY <1>1 DEF RecoveryStarts, sessionVars, WaitsInv, EngineTypes, WaitsOK
<1>3. CASE disposed \/ generation > 0
  BY <1>2, <1>3, NoReplacementKeeps DEF RecoveryStarts
<1>4. CASE ~(disposed \/ generation > 0)
  <2>1. /\ ~disposed /\ generation = 0 /\ generation' = 1 /\ Retire(0) /\ UNCHANGED load
        /\ recovery' = [recovery EXCEPT !.at = "retiring"]
    BY <1>2, <1>4 DEF RecoveryStarts
  <2>2. players[1].life = "none" /\ players[0].life = "live"
    BY <1>1, <2>1 DEF PlayersInv, EngineTypes, PlayersOK, PlayerRecord, Life, Dead
  <2>3. /\ PlayersOK' /\ players'[0].life = "retiring" /\ players'[1] = players[1]
        /\ players'[0].gen = players[0].gen
    BY <1>1, <2>1, <2>2, RetireFacts DEF SameSource, Others
  <2>4. /\ recovery' \in [at : {"no", "tail", "retiring"}, ahead : Nat]
        /\ recovery'.at = "retiring"
    BY <1>1, <2>1 DEF EngineTypes, WaitsOK
  <2>5. EngineTypes'
    BY <1>1, <1>2, <2>1, <2>3, <2>4 DEF EngineTypes, TailOK, LoadsOK, WaitsOK
  <2>6. PlayersInv'
    BY <1>1, <1>2, <2>1, <2>2, <2>3 DEF PlayersInv, disposed, Dead
  <2>7. WaitsInv'
    BY <1>2, <2>1, <2>2, <2>3, <2>4 DEF WaitsInv
  <2>8. GenerationsOK'
    BY <1>1, <2>1, <2>2, <2>3, NothingInTheSecond DEF GenerationsOK, SourcesInv
  <2>9. FilesOK' /\ RunningOK'
    BY <1>2, <2>1, <2>2, NothingInTheSecond DEF FilesOK, RunningOK, Kept, Opened
  <2>10. AskedOK'
    BY <1>2, <2>1, AskedFacts DEF AskedStay
  <2> QED
    BY <2>5, <2>6, <2>7, <2>8, <2>9, <2>10 DEF EngineInv, SourcesInv
<1> QED
  BY <1>3, <1>4

LEMMA ReplaceKeeps == ASSUME EngineInv, Replace PROVE EngineInv'
<1>1. EngineTypes /\ PlayersInv /\ WaitsInv /\ SourcesInv
  BY DEF EngineInv
<1>2. /\ recovery.at = "retiring" /\ RecoveryEnds("recovered") /\ players[0].life = "retired"
      /\ UNCHANGED <<generation, tail, running, disposal, failed, discarded>>
  BY DEF Replace, sessionVars
<1>3. stalled /\ ~running /\ generation = 1 /\ players[1].life = "none"
  BY <1>1, <1>2 DEF WaitsInv
<1>4. CASE disposed
  BY <1>2, <1>4, NoReplacementKeeps DEF Replace
<1>5. CASE ~disposed
  <2>1. players' = [players EXCEPT ![1] = NewPlayer] /\ stalled' = FALSE
    BY <1>5 DEF Replace
  <2>2. PlayersOK' /\ players'[0] = players[0] /\ players'[1] = NewPlayer
    BY <1>1, <2>1, NoPlayerFacts DEF EngineTypes, PlayersOK
  <2>3. LoadsOK' /\ recovery' = Idle /\ AskedStay
        /\ \A l \in Load : load'[l].pc \in Opened => load'[l] = load[l]
    BY <1>2, RecoveryEndsFacts
  <2>4. EngineTypes'
    BY <1>1, <1>2, <2>1, <2>2, <2>3 DEF EngineTypes, TailOK, WaitsOK, Idle
  <2>5. PlayersInv'
    BY <1>1, <1>2, <1>3, <1>5, <2>2, NoPlayerFacts DEF PlayersInv, disposed, Dead
  <2>6. WaitsInv'
    BY <1>2, <1>3, <2>3 DEF WaitsInv, Idle
  <2>7. GenerationsOK'
    BY <1>1, <1>3, <2>2, <2>3, NothingInTheSecond DEF GenerationsOK, SourcesInv
  <2>8. FilesOK' /\ RunningOK'
    BY <1>2, <1>3, <2>3, NothingInTheSecond DEF FilesOK, RunningOK, Kept, Opened
  <2>9. AskedOK'
    BY <1>2, <2>3, AskedFacts
  <2> QED
    BY <2>4, <2>5, <2>6, <2>7, <2>8, <2>9 DEF EngineInv, SourcesInv
<1> QED
  BY <1>4, <1>5

LEMMA RetirementFailsKeeps == ASSUME EngineInv, RetirementFails PROVE EngineInv'
BY NoReplacementKeeps DEF RetirementFails, sessionVars

-----------------------------------------------------------------------------
(***************************************************************************)
(* Dispose.                                                                *)
(***************************************************************************)
LEMMA DisposeKeeps == ASSUME EngineInv, Dispose PROVE EngineInv'
<1>1. EngineTypes /\ PlayersInv /\ WaitsInv
  BY DEF EngineInv
<1>2. /\ ~disposed /\ disposal' = [at |-> "tail", ahead |-> Len(tail)]
      /\ UNCHANGED <<players, generation, stalled, tail, running, recovery, load, failed, discarded>>
  BY DEF Dispose, sessionVars
<1>3. Len(tail) \in Nat /\ (running => Len(tail) > 0)
  BY <1>1, EmptySeq DEF EngineTypes, TailOK
<1>4. EngineTypes'
  BY <1>1, <1>2, <1>3 DEF EngineTypes, PlayersOK, TailOK, LoadsOK, WaitsOK
<1>5. PlayersInv' /\ WaitsInv'
  BY <1>1, <1>2, <1>3 DEF PlayersInv, WaitsInv, disposed
<1>6. SourcesInv' /\ AskedOK'
  BY <1>2, <1>4, PlayersStay, AskedFacts DEF NoneOpened, SameOperation, AskedStay
<1> QED
  BY <1>4, <1>5, <1>6 DEF EngineInv

LEMMA DisposeGoesOnKeeps == ASSUME EngineInv, DisposeGoesOn PROVE EngineInv'
<1>1. EngineTypes /\ PlayersInv /\ WaitsInv /\ SourcesInv
  BY DEF EngineInv
<1>2. /\ disposal.at = "tail" /\ disposal.ahead = 0 /\ recovery.at # "tail"
      /\ UNCHANGED <<generation, stalled, tail, running, recovery, load, failed, discarded>>
  BY DEF DisposeGoesOn, sessionVars
<1>3. ~running /\ disposed
  BY <1>1, <1>2 DEF WaitsInv, disposed
<1>4. Current \in {0, 1}
  BY DEF Current
<1>5. /\ disposal' \in [at : {"no", "tail", "recovery", "retiring", "done"}, ahead : Nat]
      /\ disposal'.at \in {"recovery", "retiring"}
  BY <1>1 DEF DisposeGoesOn, EngineTypes, WaitsOK
<1>6. /\ PlayersOK'
      /\ \A p \in {0, 1} :
            /\ players'[p].gen = players[p].gen /\ players'[p].life # "live"
            /\ players[p].life \in Dead \cup {"none"} => players'[p] = players[p]
            /\ players[p].life \notin Dead \cup {"none"} => players'[p].life = "retiring"
  <2>1. CASE recovery.at = "retiring"
    <3>1. players' = players /\ generation = 1 /\ players[1].life = "none"
      BY <1>1, <2>1 DEF DisposeGoesOn, WaitsInv
    <3> QED
      BY <1>1, <3>1 DEF PlayersInv, EngineTypes, PlayersOK, Dead
  <2>2. CASE recovery.at # "retiring"
    <3>1. Retire(Current)
      BY <2>2 DEF DisposeGoesOn
    <3>2. /\ SameSource(Current) /\ players'[Current].life # "live"
          /\ players[Current].life = "live" => players'[Current].life = "retiring"
          /\ players[Current].life # "live" => players'[Current] = players[Current]
      BY <1>1, <1>4, <3>1, RetireFacts
    <3>3. \A p \in {0, 1} : p # Current => players'[p] = players[p] /\ players[p].life # "live"
      BY <1>1, <3>2 DEF SameSource, Others, Current, PlayersInv
    <3>4. players[Current].life \in Life
      BY <1>1, <1>4 DEF EngineTypes, PlayersOK, PlayerRecord
    <3>5. \A p \in {0, 1} : players[p].life \in Life
      BY <1>1 DEF EngineTypes, PlayersOK, PlayerRecord
    <3> QED
      BY <1>4, <3>2, <3>3, <3>4, <3>5 DEF SameSource, Life, Dead
  <2> QED
    BY <2>1, <2>2
<1>7. EngineTypes'
  BY <1>1, <1>2, <1>5, <1>6 DEF EngineTypes, TailOK, LoadsOK, WaitsOK
<1> DEFINE Gone(p) == /\ players'[p].life # "live"
                      /\ players[p].life = "none" => players'[p] = players[p]
                      /\ players[p].life \in Dead => players'[p].life \in Dead
                      /\ players[p].life = "retired" => players'[p] = players[p]
                      /\ players[p].life # "none" => players'[p].life # "none"
<1>a. Gone(0) /\ Gone(1)
  <2>1. ASSUME NEW p \in {0, 1} PROVE Gone(p)
    <3>1. CASE players[p].life \in Dead \cup {"none"}
      BY <1>6, <3>1
    <3>2. CASE players[p].life \notin Dead \cup {"none"}
      BY <1>6, <3>2 DEF Dead
    <3> QED
      BY <3>1, <3>2
  <2> QED
    BY <2>1
<1>8. PlayersInv'
  <2>1. generation \in {0, 1} /\ disposal'.at # "no" /\ \A p \in {0, 1} : players'[p].life # "live"
    BY <1>1, <1>5, <1>a DEF EngineTypes, WaitsOK
  <2>2. players'[1].life = "none" => players'[1] = NoPlayer
    BY <1>1, <1>a DEF PlayersInv
  <2>3. players'[0].life # "none" /\ (generation = 1 => players'[0].life \in Dead)
    BY <1>1, <1>a DEF PlayersInv
  <2>4. players'[1].life # "none" => generation = 1 /\ players'[0].life = "retired"
    BY <1>1, <1>a DEF PlayersInv
  <2> QED
    BY <1>2, <2>1, <2>2, <2>3, <2>4 DEF PlayersInv, disposed
<1>9. WaitsInv'
  <2>1. players[1].life = "none" => players'[1].life = "none"
    BY <1>a
  <2> QED
    BY <1>1, <1>2, <1>3, <2>1 DEF WaitsInv
<1>10. GenerationsOK'
  <2>1. \A l \in Load : players'[load[l].player].gen = players[load[l].player].gen
    BY <1>1, <1>6 DEF EngineTypes, LoadsOK, LoadRecord
  <2> QED
    BY <1>1, <1>2, <2>1 DEF SourcesInv, GenerationsOK
<1>11. FilesOK' /\ RunningOK' /\ AskedOK'
  BY <1>2, <1>3, <1>5, AskedFacts DEF FilesOK, Kept, RunningOK, disposed, AskedStay
<1> QED
  BY <1>7, <1>8, <1>9, <1>10, <1>11 DEF EngineInv, SourcesInv

LEMMA DisposeEndsKeeps == ASSUME EngineInv, DisposeEnds PROVE EngineInv'
<1>1. EngineTypes /\ PlayersInv /\ WaitsInv
  BY DEF EngineInv
<1>2. /\ disposal.at \in {"retiring", "recovery"} /\ disposal' = [disposal EXCEPT !.at = "done"]
      /\ UNCHANGED <<players, generation, stalled, tail, running, recovery, load, failed, discarded>>
  BY DEF DisposeEnds, sessionVars
<1>3. /\ disposal' \in [at : {"no", "tail", "recovery", "retiring", "done"}, ahead : Nat]
      /\ disposal'.at = "done" /\ disposed /\ ~running
  BY <1>1, <1>2 DEF EngineTypes, WaitsOK, WaitsInv, disposed
<1>4. EngineTypes'
  BY <1>1, <1>2, <1>3 DEF EngineTypes, PlayersOK, TailOK, LoadsOK, WaitsOK
<1>5. PlayersInv' /\ WaitsInv'
  BY <1>1, <1>2, <1>3 DEF PlayersInv, WaitsInv, disposed
<1>6. SourcesInv' /\ AskedOK'
  BY <1>2, <1>3, <1>4, PlayersStay, AskedFacts DEF NoneOpened, SameOperation, AskedStay, disposed
<1> QED
  BY <1>4, <1>5, <1>6 DEF EngineInv

-----------------------------------------------------------------------------
(***************************************************************************)
(* mpv and its hooks.                                                      *)
(***************************************************************************)
\* A hook changes what is known of one player's source, or ends its retirement.
LEMMA HookKeeps ==
    ASSUME EngineInv, NEW p \in {0, 1}, SameSource(p), SourceStays, RunningOK',
           players[p].life \notin {"none", "retired"},
           \/ players'[p].life = players[p].life
           \/ players[p].life = "retiring" /\ players'[p].life = "retired",
           failed \subseteq failed',
           UNCHANGED <<generation, stalled, tail, running, recovery, disposal, load, discarded>>
    PROVE  EngineInv'
<1>1. EngineTypes /\ PlayersInv /\ WaitsInv /\ generation \in {0, 1}
  BY DEF EngineInv, EngineTypes, WaitsOK
<1>2. PlayersOK' /\ \A q \in {0, 1} : q # p => players'[q] = players[q]
  BY DEF SameSource, Others
<1>3. EngineTypes'
  BY <1>1, <1>2 DEF EngineTypes, TailOK, LoadsOK, WaitsOK
<1>4. NoneOpened
  BY DEF NoneOpened, disposed
<1>5. PlayersInv'
  <2>1. CASE p = 0
    BY <1>1, <1>2, <2>1 DEF PlayersInv, disposed, Dead
  <2>2. CASE p = 1
    BY <1>1, <1>2, <2>2 DEF PlayersInv, disposed, Dead
  <2> QED
    BY <2>1, <2>2
<1>6. WaitsInv'
  <2>1. players'[generation].life = "live" <=> players[generation].life = "live"
    BY <1>1, <1>2
  <2>2. players[1].life = "none" => players'[1].life = "none"
    BY <1>1, <1>2
  <2> QED
    BY <1>1, <2>1, <2>2 DEF WaitsInv, disposed
<1>7. GenerationsOK' /\ FilesOK'
  BY <1>3, <1>4, SourcesStay
<1>8. AskedOK'
  BY AskedFacts DEF AskedStay
<1> QED
  BY <1>3, <1>5, <1>6, <1>7, <1>8 DEF EngineInv, SourcesInv

LEMMA LoadsKeeps == ASSUME EngineInv, NEW p \in {0, 1}, Loads(p) PROVE EngineInv'
<1>1. EngineTypes /\ SourcesInv /\ WaitsInv /\ generation \in {0, 1}
  BY DEF EngineInv, EngineTypes, WaitsOK
<1>2. /\ Alive(p) /\ players[p].asked # NoLoad /\ players[p].file = NoLoad
      /\ UNCHANGED <<generation, stalled, tail, running, recovery, disposal, load, failed, discarded>>
  BY DEF Loads, sessionVars
<1>3. /\ SameSource(p) /\ players'[p].life = players[p].life
      /\ players'[p].expected = players[p].expected
      /\ players'[p].failed = players[p].failed
      /\ players'[p].file = players[p].asked /\ players'[p].asked = NoLoad
      /\ players'[p].loaded = players[p].gen
  BY <1>1, LoadsFacts
<1>4. SourceStays
  <2>1. \A q \in {0, 1} : players'[q].gen = players[q].gen /\ players[q].gen \in Nat
    BY <1>1, <1>3 DEF SameSource, Others, EngineTypes, PlayersOK, PlayerRecord
  <2>2. players'[generation].opened = players[generation].opened
        /\ players'[generation].expected = players[generation].expected
    BY <1>1, <1>3 DEF SameSource, Others
  <2>3. \A l \in Load : Loaded(generation, l) => Loaded(generation, l)'
    BY <1>1, <1>2, <1>3, EngineAssumption DEF SameSource, Others, Loaded
  <2> QED
    BY <2>1, <2>2, <2>3 DEF SourceStays
<1>5. RunningOK'
  <2> SUFFICES ASSUME running
               PROVE  RunningOK'
    BY <1>2 DEF RunningOK
  <2>1. tail[1].player \in {0, 1} /\ tail[1].by \in Load
    BY <1>1, HeadFacts DEF EngineTypes, TailOK
  <2>2. CASE tail[1].player # p
    BY <1>1, <1>2, <1>3, <2>1, <2>2 DEF SourcesInv, RunningOK, Loaded, SameSource, Others
  <2>3. CASE tail[1].player = p
    BY <1>1, <1>2, <1>3, <2>1, <2>3, EngineAssumption DEF SourcesInv, RunningOK, Loaded, SameSource
  <2> QED
    BY <2>2, <2>3
<1> QED
  BY <1>2, <1>3, <1>4, <1>5, HookKeeps DEF Alive

LEMMA UnloadsKeeps == ASSUME EngineInv, NEW p \in {0, 1}, Unloads(p) PROVE EngineInv'
<1> DEFINE lost == players[p].loaded > players[p].expected
<1>1. /\ EngineTypes /\ SourcesInv /\ WaitsInv /\ generation \in {0, 1}
      /\ players[p].gen \in Nat /\ players[p].expected \in Nat /\ players[p].loaded \in Nat
  BY DEF EngineInv, EngineTypes, WaitsOK, PlayersOK, PlayerRecord
<1>2. /\ Alive(p) /\ players[p].file # NoLoad /\ ~MidTurn
      /\ UNCHANGED <<generation, stalled, tail, running, recovery, disposal, load, discarded>>
      /\ failed' = failed \cup
             {s \in Load : lost /\ Owns(s) /\ load[s].player = p /\ load[s].gen = players[p].loaded}
  BY DEF Unloads
<1>3. /\ SameSource(p) /\ players'[p].life = players[p].life
      /\ players'[p].expected = players[p].expected
      /\ players'[p].asked = players[p].asked
      /\ players'[p].file = NoLoad /\ players'[p].loaded = 0
      /\ players'[p].failed = IF players[p].loaded > players[p].expected
                              THEN players[p].loaded ELSE players[p].failed
  BY <1>1, UnloadsFacts
<1>4. SourceStays
  <2>1. \A q \in {0, 1} : players'[q].gen = players[q].gen /\ players[q].gen \in Nat
    BY <1>1, <1>3 DEF SameSource, Others, EngineTypes, PlayersOK, PlayerRecord
  <2>2. players'[generation].opened = players[generation].opened
        /\ players'[generation].expected = players[generation].expected
    BY <1>1, <1>3 DEF SameSource, Others
  <2>3. ASSUME NEW l \in Load, Kept(l), Kept(l)', Loaded(generation, l)
        PROVE  \/ Loaded(generation, l)'
               \/ players'[generation].expected >= players'[generation].gen
    <3>1. CASE p # generation
      BY <1>1, <1>2, <1>3, <2>3, <3>1 DEF Loaded, SameSource, Others
    <3>2. CASE p = generation
      <4>1. load[l].pc = "session" /\ Owns(l)
        BY <1>2, <2>3 DEF Kept, MidTurn, Owns, IsSession
      <4>2. load[l].player = p /\ load[l].gen = players[p].loaded
        BY <2>3, <3>2 DEF Kept, Loaded
      <4>3. ~lost
        BY <1>2, <2>3, <4>1, <4>2 DEF Kept
      <4>4. players[p].expected >= players[p].gen
        BY <1>1, <2>3, <3>2, <4>3 DEF Loaded
      <4> QED
        BY <1>2, <2>1, <2>2, <3>2, <4>4
    <3> QED
      BY <3>1, <3>2
  <2> QED
    BY <2>1, <2>2, <2>3 DEF SourceStays
<1>5. RunningOK'
  <2> SUFFICES ASSUME running
               PROVE  RunningOK'
    BY <1>2 DEF RunningOK
  <2>1. tail[1].player \in {0, 1} /\ tail[1].by \in Load
    BY <1>1, HeadFacts DEF EngineTypes, TailOK
  <2>2. CASE tail[1].player # p
    BY <1>1, <1>2, <1>3, <2>1, <2>2 DEF SourcesInv, RunningOK, Loaded, SameSource, Others
  <2>3. CASE tail[1].player = p
    BY <1>1, <1>2, <1>3, <2>1, <2>3 DEF SourcesInv, RunningOK, Loaded, SameSource
  <2> QED
    BY <2>2, <2>3
<1>6. failed \subseteq failed'
  BY <1>2
<1> QED
  BY <1>2, <1>3, <1>4, <1>5, <1>6, HookKeeps DEF Alive

\* A player that is retired has nothing under way, and no session owns it.
LEMMA RetiredKeeps == ASSUME EngineInv, NEW p \in {0, 1}, Retired(p) PROVE EngineInv'
<1>1. EngineTypes /\ SourcesInv /\ WaitsInv /\ PlayersInv /\ generation \in {0, 1}
  BY DEF EngineInv, EngineTypes, WaitsOK
<1>2. /\ players[p].life = "retiring"
      /\ UNCHANGED <<generation, stalled, tail, running, recovery, disposal, load, failed, discarded>>
  BY DEF Retired, sessionVars
<1>3. SameSource(p) /\ players'[p].life = "retired"
  BY <1>1, RetiredFacts
<1>4. p = generation => disposed
  BY <1>1, <1>2 DEF PlayersInv, Dead
<1>5. running => tail[1].player # p
  BY <1>1, <1>2 DEF WaitsInv
<1>6. \A q \in {0, 1} : players'[q].gen = players[q].gen /\ players[q].gen \in Nat
  BY <1>1, <1>3 DEF SameSource, Others, EngineTypes, PlayersOK, PlayerRecord
<1>7. RunningOK'
  <2>1. running => tail[1].player \in {0, 1}
    BY <1>1, HeadFacts DEF EngineTypes, TailOK
  <2> QED
    BY <1>1, <1>2, <1>3, <1>5, <2>1 DEF SourcesInv, RunningOK, Loaded, SameSource, Others
<1>8. CASE p # generation
  <2>1. players'[generation] = players[generation]
    BY <1>1, <1>3, <1>8 DEF SameSource, Others
  <2>2. SourceStays
    BY <1>2, <1>6, <2>1 DEF SourceStays, Loaded
  <2> QED
    BY <1>2, <1>3, <1>7, <2>2, HookKeeps
<1>9. CASE p = generation
  <2>1. disposed
    BY <1>4, <1>9
  <2>2. EngineTypes'
    BY <1>1, <1>2, <1>3 DEF SameSource, EngineTypes, TailOK, LoadsOK, WaitsOK
  <2>3. players'[p].life = "retired" /\ \A q \in {0, 1} : q # p => players'[q] = players[q]
    BY <1>3 DEF SameSource, Others
  <2>4. PlayersInv'
    <3>1. CASE p = 0
      BY <1>1, <1>2, <2>1, <2>3, <3>1 DEF PlayersInv, disposed, Dead
    <3>2. CASE p = 1
      BY <1>1, <1>2, <2>1, <2>3, <3>2 DEF PlayersInv, disposed, Dead
    <3> QED
      BY <3>1, <3>2
  <2>5. ~running
    BY <1>1, <1>2, <1>9 DEF WaitsInv
  <2>6. WaitsInv'
    BY <1>1, <1>2, <2>3, <2>5 DEF WaitsInv
  <2>7. \A l \in Load : load[l].player \in {0, 1}
    BY <1>1 DEF EngineTypes, LoadsOK, LoadRecord
  <2>8. GenerationsOK'
    BY <1>1, <1>2, <1>6, <2>7 DEF SourcesInv, GenerationsOK
  <2>9. FilesOK' /\ AskedOK'
    BY <1>2, <2>1, AskedFacts DEF FilesOK, Kept, disposed, AskedStay
  <2> QED
    BY <1>7, <2>2, <2>4, <2>6, <2>8, <2>9 DEF EngineInv, SourcesInv
<1> QED
  BY <1>8, <1>9

-----------------------------------------------------------------------------
(***************************************************************************)
(* The invariant of the engine, for any number of loads and sessions, any  *)
(* order of their calls, and whatever mpv does or leaves undone.           *)
(***************************************************************************)
LEMMA EngineStarts == EngineInit => EngineInv
<1> SUFFICES ASSUME EngineInit PROVE EngineInv
  OBVIOUS
<1>1. PlayersOK /\ players[0] = NewPlayer /\ players[1] = NoPlayer
  BY NoPlayerFacts DEF EngineInit, PlayersOK
<1>2. TailOK /\ LoadsOK /\ WaitsOK /\ ~running
      /\ \A l \in Load : load[l].pc = "idle"
  BY EmptySeq DEF EngineInit, TailOK, LoadsOK, LoadRecord, LoadPc, WaitsOK, Idle
<1>3. PlayersInv
  BY <1>1, NoPlayerFacts DEF EngineInit, PlayersInv, disposed, Idle, Dead
<1>4. WaitsInv
  BY <1>2 DEF EngineInit, WaitsInv, Idle
<1>5. SourcesInv
  BY <1>2 DEF SourcesInv, GenerationsOK, FilesOK, RunningOK, Kept, Opened
<1>6. AskedOK
  <2>1. tail = <<>> /\ Len(tail) = 0
    BY EmptySeq DEF EngineInit
  <2> QED
    BY <2>1 DEF AskedOK
<1> QED
  BY <1>1, <1>2, <1>3, <1>4, <1>5, <1>6 DEF EngineInv, EngineTypes

LEMMA EngineStep == EngineInv /\ [EngineNext]_evars => EngineInv'
<1> SUFFICES ASSUME EngineInv, [EngineNext]_evars PROVE EngineInv'
  OBVIOUS
<1>1. CASE TailStep
  BY <1>1, DispatchKeeps, RejectKeeps, ExpireKeeps DEF TailStep
<1>2. CASE TurnStep
  BY <1>2, LoadGoesOnKeeps, NewSessionKeeps DEF TurnStep
<1>3. CASE RecoveryStep
  BY <1>3, RecoveryStartsKeeps, ReplaceKeeps, RetirementFailsKeeps DEF RecoveryStep
<1>4. CASE DisposeStep
  BY <1>4, DisposeGoesOnKeeps, DisposeEndsKeeps DEF DisposeStep
<1>5. CASE Native
  BY <1>5, OpenReturnsKeeps, NativeFailsKeeps, ControlReturnsKeeps, LoadsKeeps, UnloadsKeeps,
     RetiredKeeps DEF Native
<1>6. CASE Dispose
  BY <1>6, DisposeKeeps
<1>7. ASSUME NEW l \in Load,
             \/ LoadRemote(l) \/ Seek(l) \/ CloseSession(l)
             \/ \E call \in {"play", "pause", "stop"} : Call(l, call)
             \/ \E granted \in BOOLEAN : FocusSettles(l, granted)
      PROVE  EngineInv'
  BY <1>7, LoadRemoteKeeps, SeekKeeps, CloseSessionKeeps, CallKeeps, FocusSettlesKeeps
<1>8. CASE UNCHANGED evars
  <2>1. EngineTypes' /\ PlayersInv' /\ WaitsInv'
    BY <1>8 DEF evars, EngineInv, EngineTypes, PlayersOK, TailOK, LoadsOK, WaitsOK, PlayersInv,
                WaitsInv, disposed
  <2>2. SourcesInv' /\ AskedOK'
    BY <1>8, <2>1, PlayersStay, AskedFacts DEF evars, sessionVars, NoneOpened, SameOperation,
       AskedStay, disposed
  <2> QED
    BY <2>1, <2>2 DEF EngineInv
<1> QED
  BY <1>1, <1>2, <1>3, <1>4, <1>5, <1>6, <1>7, <1>8 DEF EngineNext

(***************************************************************************)
(* The inductive invariant of the engine.                                  *)
(***************************************************************************)
THEOREM EngineInvariant == EngineSpec => []EngineInv
BY EngineStarts, EngineStep, PTL DEF EngineSpec

(***************************************************************************)
(* Two native players never live side by side, nothing is asked of one     *)
(* that is being retired, and an engine that is disposed of has given up   *)
(* its player (OnePlayer).                                                 *)
(***************************************************************************)
THEOREM EngineHasOnePlayer == EngineSpec => []OnePlayer
<1>1. EngineInv => OnePlayer
  <2> SUFFICES ASSUME EngineInv PROVE OnePlayer
    OBVIOUS
  <2>1. PlayersInv /\ WaitsInv
    BY DEF EngineInv
  <2> QED
    BY <2>1 DEF PlayersInv, WaitsInv, OnePlayer, Alive
<1> QED
  BY <1>1, EngineInvariant, PTL

(***************************************************************************)
(* A session that the engine takes for the owner of the player has its own *)
(* file there, unless it has stopped it; and what is done to the player in *)
(* the name of a session is done to its file (OwnsItsSource).              *)
(***************************************************************************)
THEOREM SourcesAreOwned == EngineSpec => []OwnsItsSource
<1>1. EngineInv => OwnsItsSource
  <2> SUFFICES ASSUME EngineInv PROVE OwnsItsSource
    OBVIOUS
  <2>1. SourcesInv
    BY DEF EngineInv
  <2>2. ASSUME NEW s \in Load, Owns(s)
        PROVE  LET p == players[load[s].player]
               IN  p.opened = s /\ (p.file = s \/ p.expected >= p.gen)
    <3>1. Kept(s) /\ load[s].player = generation
      BY <2>2 DEF Owns, IsSession, Kept
    <3> QED
      BY <2>1, <3>1 DEF SourcesInv, FilesOK, Loaded
  <2>3. running /\ tail[1].kind # "open" => players[tail[1].player].opened = tail[1].by
    BY <2>1 DEF SourcesInv, RunningOK
  <2> QED
    BY <2>2, <2>3 DEF OwnsItsSource
<1> QED
  BY <1>1, EngineInvariant, PTL
=============================================================================
