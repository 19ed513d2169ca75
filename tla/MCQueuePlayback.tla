-------------------------- MODULE MCQueuePlayback --------------------------
(***************************************************************************)
(* Model checking of PlaybackQueue and of the controller over it: every    *)
(* operation of the queue in every order, the refinement of                *)
(* PlaybackIntent, playback left to itself, and the controller's           *)
(* continuations among the listener's commands.                            *)
(***************************************************************************)
EXTENDS QueuePlayback, TLC

(***************************************************************************)
(* The casts.  "listener": the operations of the queue as the bridge       *)
(* offers them, on two tracks; at some moment the listener goes away, and  *)
(* from then on entries only come to their end, which weak fairness says a *)
(* playing entry does.  "anything": any two commands of the controller.    *)
(* "collection": a collection is chosen, and two commands follow that do   *)
(* not replace it.                                                         *)
(***************************************************************************)
VARIABLES cast, attended
mvars == <<qvars, cvars, cast, attended>>

LeftAlone == ~attended /\ CompleteCurrent /\ UNCHANGED <<cvars, cast, attended>>

ListenerNext ==
    /\ cast = "listener"
    /\ \/ /\ attended /\ QueueNext /\ Range(tracks') \subseteq {1, 2}
          /\ UNCHANGED <<cvars, cast, attended>>
       \/ attended /\ attended' = FALSE /\ UNCHANGED <<qvars, cvars, cast>>
       \/ LeftAlone

Steered ==
    \/ \E index \in 1..MaxLength : SelectTrack(index)
    \/ NavigateTrack \/ ActivateCurrent \/ StopPlayback \/ ClearQueue
    \/ \E mode \in RepeatModes : ChangeRepeat(mode)
    \/ \E enabled \in BOOLEAN : SetRoamEnabled(enabled)
    \/ InvalidateCollectionSource \/ RetryContinuation

CollectionNext ==
    \/ ContinuationStep
    \/ /\ Due = {}
       /\ \/ IF intents = 0
             THEN \E rows \in 1..MaxRow, target \in Targets :
                     \E index \in 1..rows : PlayCollection(rows, index, target)
             ELSE Steered
          \/ LaterDemand \/ PlayerMoves \/ PlayerCompletes \/ PumpStep

CastNext ==
    /\ \/ cast = "anything" /\ ControllerNext /\ intents' <= 2
       \/ cast = "collection" /\ CollectionNext
    /\ UNCHANGED <<cast, attended>>

CastInit == ControllerInit /\ attended = TRUE /\ cast \in {"listener", "anything", "collection"}
CastSpec == CastInit /\ [][ListenerNext \/ CastNext]_mvars /\ WF_mvars(LeftAlone)

\* With repeat-all, playback left to itself plays every entry again and again, in
\* either order, whatever permutation each cycle draws.
EveryEntryPlays ==
    \A i \in 1..MaxLength :
        (~attended /\ repeatMode = "All" /\ currentIndex # NoPosition /\ i <= Len(tracks))
            ~> currentIndex = i
=============================================================================
