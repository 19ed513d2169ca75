--------------------------- MODULE MediaKitEngine ---------------------------
(***************************************************************************)
(* The engine of apps/flutter/lib/playback/                                *)
(* media_kit_foreground_audio_engine.dart: one native player (mpv) that    *)
(* every source shares, its operations one behind the other and each under *)
(* a deadline, and the one rebuild of a player that missed its deadline.   *)
(*                                                                         *)
(* What mpv does, and the hooks by which it tells that a file is loaded or *)
(* unloaded, comes when it likes: also after the operation that asked for  *)
(* it ran out of time.                                                     *)
(***************************************************************************)
EXTENDS Naturals, Sequences, FiniteSets

CONSTANTS
    Load,      \* the calls of loadRemote: each has its source, and becomes its session
    NoLoad,
    MaxTail    \* bound: operations that are queued when a session queues another

ASSUME EngineAssumption == IsFiniteSet(Load) /\ NoLoad \notin Load /\ MaxTail \in Nat

VARIABLES
    players,     \* the native players by _playerGeneration
    generation,  \* _playerGeneration; one rebuild at most, so _rebuildCount as well
    stalled,     \* _stalled
    tail,        \* the operations behind _operationTail
    running,     \* whether the first of them was dispatched to the player
    recovery,    \* _recovery: what it awaits, and how many operations are ahead of it
    disposal,    \* dispose(), likewise
    load,        \* the calls of loadRemote, and the sessions they become
    failed,      \* the sessions whose _failed is set
    discarded,      \* the sessions that are disposed of
    focusing     \* the call of a session that waits for its audio focus

evars == <<players, generation, stalled, tail, running, recovery, disposal, load, failed, discarded,
           focusing>>
sessionVars == <<failed, discarded, focusing>>

\* gen: _sourceGeneration; loaded: _loadedGeneration; expected: _expectedUnloadThrough;
\* failed: _failedGeneration; asked and file: the source that mpv has yet to load, and
\* the one that it has; opened (history): the source of the latest open.
NoPlayer == [life |-> "none", gen |-> 0, loaded |-> 0, expected |-> 0, failed |-> 0,
             asked |-> NoLoad, file |-> NoLoad, opened |-> NoLoad]
NewPlayer == [NoPlayer EXCEPT !.life = "live"]
Alive(p) == players[p].life \in {"live", "retiring"}
sourceFailed(p) == players[p].failed # 0 /\ players[p].failed = players[p].gen

\* _player: the old one until its replacement is there.
Current == IF players[1].life = "none" THEN 0 ELSE 1
disposed == disposal.at # "no"
Idle == [at |-> "no", ahead |-> 0]

EngineInit ==
    /\ players = [p \in {0, 1} |-> IF p = 0 THEN NewPlayer ELSE NoPlayer]
    /\ generation = 0 /\ stalled = FALSE
    /\ tail = <<>> /\ running = FALSE
    /\ recovery = Idle /\ disposal = Idle
    /\ load = [l \in Load |-> [pc |-> "idle", player |-> 0, gen |-> 0]]
    /\ failed = {} /\ discarded = {}
    /\ focusing = [l \in Load |-> "none"]

\* Continuations that run before the event loop goes on.
MidTurn == \E l \in Load : load[l].pc \in {"opened", "recovered"}

IsSession(s) == load[s].pc = "session"
\* _ownsSource and _ensureActive
Owns(s) ==
    /\ IsSession(s) /\ s \notin discarded /\ s \notin failed
    /\ ~disposed /\ load[s].player = generation
    /\ players[generation].gen = load[s].gen
EnsureActive(s) == Owns(s) /\ ~sourceFailed(generation)

-----------------------------------------------------------------------------
(***************************************************************************)
(* _serialize: the operations, one behind the other.                       *)
(***************************************************************************)
Queue(kind, l, player) == tail' = Append(tail, [kind |-> kind, by |-> l, player |-> player])
Fewer(w) == [w EXCEPT !.ahead = IF @ > 0 THEN @ - 1 ELSE 0]
Settles ==
    /\ tail' = Tail(tail) /\ running' = FALSE
    /\ recovery' = Fewer(recovery) /\ disposal' = Fewer(disposal)

\* What becomes of the call whose operation is over: a session fails its caller only.
Ends(pc, gen) ==
    load' = IF tail[1].kind # "open" THEN load
            ELSE [load EXCEPT ![tail[1].by] = [@ EXCEPT !.pc = pc, !.gen = gen]]

Rejected == \/ disposed \/ stalled \/ tail[1].player # generation
            \/ tail[1].kind # "open" /\ ~EnsureActive(tail[1].by)

\* What is known of a player once an operation has been dispatched to it: an open declares
\* the source that it retires, a stop its own.
Dispatched(p, operation) ==
    CASE operation.kind = "open" -> [p EXCEPT !.expected = p.gen, !.gen = p.gen + 1,
                                              !.asked = operation.by, !.opened = operation.by]
      [] operation.kind = "stop" -> [p EXCEPT !.expected = p.gen]
      [] OTHER -> p

\* An operation whose turn comes.
Dispatch ==
    /\ tail # <<>> /\ ~running /\ ~Rejected
    /\ running' = TRUE
    /\ players' = [players EXCEPT ![tail[1].player] = Dispatched(@, tail[1])]
    /\ UNCHANGED <<generation, stalled, tail, recovery, disposal, load, sessionVars>>

Reject ==
    /\ tail # <<>> /\ ~running /\ Rejected
    /\ Settles /\ Ends("failed", 0)
    /\ UNCHANGED <<players, generation, stalled, sessionVars>>

\* An open is over when mpv has begun to load its file; the generation is captured here.
OpenReturns ==
    /\ running /\ tail[1].kind = "open" /\ players[tail[1].player].asked = NoLoad
    /\ Settles
    /\ IF disposed \/ tail[1].player # generation \/ sourceFailed(tail[1].player)
       THEN Ends("failed", 0)
       ELSE Ends("opened", players[tail[1].player].gen)
    /\ UNCHANGED <<players, generation, stalled, sessionVars>>

\* The native call throws; an open that throws has not reached mpv.
NativeFails ==
    /\ running
    /\ tail[1].kind = "open" => players[tail[1].player].asked = tail[1].by
    /\ Settles /\ Ends("failed", 0)
    /\ players' = [players EXCEPT ![tail[1].player].asked = NoLoad]
    /\ UNCHANGED <<generation, stalled, sessionVars>>

ControlReturns ==
    /\ running /\ tail[1].kind # "open"
    /\ Settles
    /\ UNCHANGED <<players, generation, stalled, load, sessionVars>>

\* The deadline of the operation: what it asked of mpv stays asked.
ExpireControls == \* slip: an open has no deadline
    /\ running /\ tail[1].kind # "open"
    /\ stalled' = TRUE
    /\ Settles /\ Ends("failed", 0)
    /\ UNCHANGED <<players, generation, sessionVars>>
Expire ==
    /\ running
    /\ stalled' = TRUE
    /\ Settles /\ Ends("failed", 0)
    /\ UNCHANGED <<players, generation, sessionVars>>

-----------------------------------------------------------------------------
(***************************************************************************)
(* loadRemote.                                                             *)
(***************************************************************************)
LoadRemote(l) ==
    /\ ~MidTurn /\ load[l].pc = "idle"
    /\ \/ /\ disposed
          /\ load' = [load EXCEPT ![l].pc = "failed"]
          /\ UNCHANGED <<tail, recovery>>
       \/ /\ ~disposed /\ stalled
          /\ load' = [load EXCEPT ![l].pc = "recovering"]
          /\ recovery' = IF recovery.at # "no" THEN recovery
                         ELSE [at |-> "tail", ahead |-> Len(tail)]
          /\ UNCHANGED tail
       \/ /\ ~disposed /\ ~stalled
          /\ load' = [load EXCEPT ![l].pc = "queued", ![l].player = generation]
          /\ Queue("open", l, generation)
          /\ UNCHANGED recovery
    /\ UNCHANGED <<players, generation, stalled, running, disposal, sessionVars>>

LoadGoesOn(l) ==
    /\ load[l].pc = "recovered"
    /\ load' = [load EXCEPT ![l].pc = "queued", ![l].player = generation]
    /\ Queue("open", l, generation)
    /\ UNCHANGED <<players, generation, stalled, running, recovery, disposal, sessionVars>>

\* The session of a source that was opened; another open may have started by now.
CaptureLate(l) == \* slip: the generation is captured after the operation
    /\ load[l].pc = "opened"
    /\ load' = [load EXCEPT ![l] = IF disposed \/ @.player # generation
                                   THEN [@ EXCEPT !.pc = "failed"]
                                   ELSE [@ EXCEPT !.pc = "session", !.gen = players[generation].gen]]
    /\ UNCHANGED <<players, generation, stalled, tail, running, recovery, disposal, sessionVars>>
NewSession(l) ==
    /\ load[l].pc = "opened"
    /\ load' = [load EXCEPT ![l].pc = IF disposed \/ load[l].player # generation
                                      THEN "failed" ELSE "session"]
    /\ UNCHANGED <<players, generation, stalled, tail, running, recovery, disposal, sessionVars>>

-----------------------------------------------------------------------------
(***************************************************************************)
(* The rebuild and dispose.                                                *)
(***************************************************************************)
\* _retirePlayer: what is unloaded from now on was to be expected.
Retire(p) == players' = [players EXCEPT
    ![p] = IF @.life = "live" THEN [@ EXCEPT !.life = "retiring", !.expected = players[p].gen]
           ELSE @]

RecoveryEnds(pc) ==
    /\ recovery' = Idle
    /\ load' = [l \in Load |-> IF load[l].pc = "recovering" THEN [load[l] EXCEPT !.pc = pc]
                               ELSE load[l]]

RecoveryStarts ==
    /\ recovery.at = "tail" /\ recovery.ahead = 0
    /\ IF disposed \/ generation > 0
       THEN RecoveryEnds("failed") /\ UNCHANGED <<players, generation>>
       ELSE /\ generation' = 1
            /\ Retire(0)
            /\ recovery' = [recovery EXCEPT !.at = "retiring"]
            /\ UNCHANGED load
    /\ UNCHANGED <<stalled, tail, running, disposal, sessionVars>>

ReplaceAtOnce == \* slip: the replacement does not wait for the retirement
    /\ recovery.at = "retiring"
    /\ RecoveryEnds("recovered")
    /\ IF disposed THEN UNCHANGED <<players, stalled>>
       ELSE players' = [players EXCEPT ![1] = NewPlayer] /\ stalled' = FALSE
    /\ UNCHANGED <<generation, tail, running, disposal, sessionVars>>
Replace ==
    /\ recovery.at = "retiring" /\ players[0].life = "retired"
    /\ RecoveryEnds("recovered")
    /\ IF disposed THEN UNCHANGED <<players, stalled>>
       ELSE players' = [players EXCEPT ![1] = NewPlayer] /\ stalled' = FALSE
    /\ UNCHANGED <<generation, tail, running, disposal, sessionVars>>

\* The player cannot be retired, at all or in time: there is no replacement.
RetirementFails ==
    /\ recovery.at = "retiring" /\ players[0].life = "retiring"
    /\ RecoveryEnds("failed")
    /\ UNCHANGED <<players, generation, stalled, tail, running, disposal, sessionVars>>

Dispose ==
    /\ ~MidTurn /\ ~disposed
    /\ disposal' = [at |-> "tail", ahead |-> Len(tail)]
    /\ UNCHANGED <<players, generation, stalled, tail, running, recovery, load, sessionVars>>

\* A recovery that awaits the same tail has been refused by now.  One that retires the
\* player is awaited; its deadline, which is as long, ends first.
DisposeGoesOn ==
    /\ disposal.at = "tail" /\ disposal.ahead = 0 /\ recovery.at # "tail"
    /\ IF recovery.at = "retiring"
       THEN disposal' = [disposal EXCEPT !.at = "recovery"] /\ UNCHANGED players
       ELSE Retire(Current) /\ disposal' = [disposal EXCEPT !.at = "retiring"]
    /\ UNCHANGED <<generation, stalled, tail, running, recovery, load, sessionVars>>

DisposeEnds ==
    /\ disposal.at = "retiring" \/ (disposal.at = "recovery" /\ recovery.at = "no")
    /\ disposal' = [disposal EXCEPT !.at = "done"]
    /\ UNCHANGED <<players, generation, stalled, tail, running, recovery, load, sessionVars>>

-----------------------------------------------------------------------------
(***************************************************************************)
(* Sessions.  play, pause and stop wait for the audio focus first; whether *)
(* they get it, and when, is up to it.  A pause is a call that is not a    *)
(* play and not a stop.                                                    *)
(***************************************************************************)
Call(s, call) ==
    /\ ~MidTurn /\ IsSession(s) /\ focusing[s] = "none"
    /\ IF call = "stop" THEN s \notin discarded ELSE EnsureActive(s)
    /\ focusing' = [focusing EXCEPT ![s] = call]
    /\ UNCHANGED <<players, generation, stalled, tail, running, recovery, disposal, load, failed,
                   discarded>>

FocusSettles(s, granted) ==
    /\ ~MidTurn /\ focusing[s] # "none"
    /\ focusing' = [focusing EXCEPT ![s] = "none"]
    /\ IF granted /\ (focusing[s] = "play" => EnsureActive(s))
       THEN /\ Len(tail) < MaxTail
            /\ Queue(IF focusing[s] = "stop" THEN "stop" ELSE "control", s, load[s].player)
       ELSE UNCHANGED tail
    /\ UNCHANGED <<players, generation, stalled, running, recovery, disposal, load, failed, discarded>>

\* seekToMs and setVolume
Seek(s) ==
    /\ ~MidTurn /\ EnsureActive(s) /\ Len(tail) < MaxTail
    /\ Queue("control", s, load[s].player)
    /\ UNCHANGED <<players, generation, stalled, running, recovery, disposal, load, sessionVars>>

CloseSession(s) ==
    /\ ~MidTurn /\ IsSession(s) /\ s \notin discarded
    /\ discarded' = discarded \cup {s}
    /\ UNCHANGED <<players, generation, stalled, tail, running, recovery, disposal, load, failed,
                   focusing>>

-----------------------------------------------------------------------------
(***************************************************************************)
(* mpv and its hooks.                                                      *)
(***************************************************************************)
\* _onLoad, which acknowledges the open
Loads(p) ==
    /\ ~MidTurn /\ Alive(p) /\ players[p].asked # NoLoad /\ players[p].file = NoLoad
    /\ players' = [players EXCEPT ![p].file = players[p].asked, ![p].asked = NoLoad,
                                  ![p].loaded = players[p].gen]
    /\ UNCHANGED <<generation, stalled, tail, running, recovery, disposal, load, sessionVars>>

\* _onUnload, for whatever reason: a loss that nobody declared is the failure of the
\* session that has that generation.
Unloads(p) ==
    LET lost == players[p].loaded > players[p].expected
    IN  /\ ~MidTurn /\ Alive(p) /\ players[p].file # NoLoad
        /\ players' = [players EXCEPT ![p].file = NoLoad, ![p].loaded = 0,
                                      ![p].failed = IF lost THEN players[p].loaded ELSE @]
        /\ failed' = failed \cup
               {s \in Load : lost /\ Owns(s) /\ load[s].player = p /\ load[s].gen = players[p].loaded}
        /\ UNCHANGED <<generation, stalled, tail, running, recovery, disposal, load, discarded, focusing>>

Retired(p) ==
    /\ ~MidTurn /\ players[p].life = "retiring"
    /\ players' = [players EXCEPT ![p].life = "retired", ![p].file = NoLoad, ![p].asked = NoLoad]
    /\ UNCHANGED <<generation, stalled, tail, running, recovery, disposal, load, sessionVars>>

-----------------------------------------------------------------------------
TailStep == Dispatch \/ Reject \/ Expire
TurnStep == \E l \in Load : LoadGoesOn(l) \/ NewSession(l)
RecoveryStep == RecoveryStarts \/ Replace \/ RetirementFails
DisposeStep == DisposeGoesOn \/ DisposeEnds
Native == OpenReturns \/ NativeFails \/ ControlReturns \/ \E p \in {0, 1} : Loads(p) \/ Unloads(p) \/ Retired(p)
EngineNext ==
    \/ TailStep \/ TurnStep \/ RecoveryStep \/ DisposeStep \/ Native
    \/ Dispose
    \/ \E l \in Load : \/ LoadRemote(l) \/ Seek(l) \/ CloseSession(l)
                       \/ \E call \in {"play", "pause", "stop"} : Call(l, call)
                       \/ \E granted \in BOOLEAN : FocusSettles(l, granted)

EngineSpec == EngineInit /\ [][EngineNext]_evars
\* The event loop and its timers; mpv may never answer.
EngineFairness == WF_evars(TailStep) /\ WF_evars(TurnStep) /\ WF_evars(RecoveryStep)
                  /\ WF_evars(DisposeStep)

-----------------------------------------------------------------------------
(***************************************************************************)
(* A session that the engine takes for the owner of the player has its own *)
(* file there, unless it has stopped it; and what is done to the player in *)
(* the name of a session is done to its file, never to a newer one.        *)
(***************************************************************************)
OwnsItsSource ==
    /\ \A s \in Load : Owns(s) =>
          LET p == players[load[s].player]
          IN  p.opened = s /\ (p.file = s \/ p.expected >= p.gen)
    /\ running /\ tail[1].kind # "open" => players[tail[1].player].opened = tail[1].by

(***************************************************************************)
(* Two native players never live side by side, nothing is asked of one     *)
(* that is being retired, and an engine that is disposed of has given up   *)
(* its player.                                                             *)
(***************************************************************************)
OnePlayer ==
    /\ ~(Alive(0) /\ Alive(1))
    /\ running => players[tail[1].player].life = "live"
    /\ disposal.at = "done" => \A p \in {0, 1} : players[p].life # "live"

(***************************************************************************)
(* Every load ends, well or badly, whatever mpv does or leaves undone; so  *)
(* does dispose.  Each is called once, so in the end none is under way.    *)
(***************************************************************************)
LoadsEnd == <>[](/\ \A l \in Load : load[l].pc \in {"idle", "session", "failed"}
                 /\ disposal.at \in {"no", "done"})
=============================================================================
