---------------------------- MODULE MCAudioFocus ----------------------------
(***************************************************************************)
(* Model checking of AudioFocus, and of the engine (MediaKitEngine) whose  *)
(* sessions ask it for focus.  A cast says what takes part in a behaviour: *)
(* the arbiter alone, or of the engine which loads, which calls of a       *)
(* session, whether it seeks, and whether the engine is disposed of.       *)
(***************************************************************************)
EXTENDS AudioFocus, MediaKitEngine

VARIABLE cast
mcvars == <<fvars, evars, cast>>

InOrder == SetToSeq(Load)  \* loads are alike but for the order in which they begin
One == {InOrder[1]}
Two == {InOrder[1], InOrder[2]}
Parts == [
    commands |-> [loads |-> Two, calls |-> {"play", "stop"}, seeks |-> TRUE, disposes |-> FALSE],
    rebuild |-> [loads |-> Load, calls |-> {}, seeks |-> FALSE, disposes |-> TRUE],
    pause |-> [loads |-> One, calls |-> {"play", "pause", "stop"}, seeks |-> TRUE, disposes |-> TRUE]]

TakesPart(part) ==
    /\ \A l \in Load \ part.loads : load'[l].pc = "idle"
    /\ \A i \in 2..Len(InOrder) :
          load'[InOrder[i - 1]].pc = "idle" => load'[InOrder[i]].pc = "idle"
    /\ \A l \in Load : focusing'[l] \in part.calls \cup {"none"} /\ (Seek(l) => part.seeks)
    /\ disposed' => part.disposes
    /\ part.calls = {} => discarded' = {}

Arbitrates == cast = "arbiter" /\ FocusNext /\ UNCHANGED <<evars, cast>>
Plays == cast # "arbiter" /\ EngineNext /\ TakesPart(Parts[cast]) /\ UNCHANGED <<fvars, cast>>

MCInit == FocusInit /\ EngineInit /\ cast \in DOMAIN Parts \cup {"arbiter"}
MCNext == Arbitrates \/ Plays
\* A platform and an mpv that may never answer: only the event loop is fair.
MutePlatformSpec == MCInit /\ [][MCNext]_mcvars /\ EventLoopFairness /\ EngineFairness
=============================================================================
