--------------------------- MODULE MCTrackPlayback ---------------------------
(***************************************************************************)
(* Model checking of TrackPlayback and of ForegroundPlayback underneath.   *)
(* A cast says what takes part in a behaviour: "alone" the foreground      *)
(* player and two loads of one source, with a seek or a change of the      *)
(* volume under way at a time, beside the volume that a load applies;      *)
(* "choices" the choices of two tracks without a change of the volume, and *)
(* a seek in the last one if the one before it has ended and no press      *)
(* waits; and "answering" everything there is.                             *)
(***************************************************************************)
EXTENDS TrackPlayback, TLC, FiniteSets

VARIABLE cast
mcvars == <<tvars, cast>>

Sources == {source[s] : s \in Session} \cup {load[s].from : s \in Session}
Alone ==
    /\ PlaybackNext
    /\ \A s \in Session : load'[s] # NoLoad => s <= 2
    /\ stage' = "stopped" /\ generation' # generation => generation' <= 2
    /\ Cardinality(Sources' \ {NoSource}) <= 1
    /\ \A s \in Session : Cardinality({c \in controls'[s] : c.for \in {"seek", "volume"}}) <= 1
    /\ UNCHANGED <<shown, tgeneration, resolution, plays, activations>>
Choosing ==
    /\ TrackNext
    /\ volume' = volume
    /\ \A s \in Session : \A c \in controls'[s] : c.for # "volume"
    /\ pendingSeek' > pendingSeek =>
          tgeneration = MaxIntents /\ plays[1] = NoPlay /\ activations = <<>>
    /\ \A s \in Session : Len(transport'[s]) <= 1

MCInit == TrackInit /\ cast \in {"alone", "choices"}
MCNext ==
    /\ UNCHANGED cast
    /\ \/ cast = "alone" /\ Alone
       \/ cast = "choices" /\ Choosing
MCSpec == MCInit /\ [][MCNext]_mcvars

\* An engine and a provider that answer every call.
AnsweringInit == TrackInit /\ cast = "answering"
AnsweringNext == TrackNext /\ UNCHANGED cast
AnsweringSpec ==
    /\ AnsweringInit /\ [][AnsweringNext]_mcvars
    /\ ObservedFairness /\ ResolutionFairness

TrackSymmetry == Permutations(Source)
=============================================================================
