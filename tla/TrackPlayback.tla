--------------------------- MODULE TrackPlayback ---------------------------
(***************************************************************************)
(* The track player of apps/flutter/lib/playback/                          *)
(* track_playback_controller.dart, on top of ForegroundPlayback: it        *)
(* resolves a track to a source before it lets the foreground player load  *)
(* it, and shows one stage for both.                                       *)
(*                                                                         *)
(* _onPlaybackChanged runs inside the step of the foreground player that   *)
(* notifies its listeners, so it is a part of each of those steps.         *)
(***************************************************************************)
EXTENDS ForegroundPlayback

CONSTANTS
    MaxIntents,      \* bound: playTrack and stop calls in a behaviour
    MaxActivations   \* bound: activate() calls waiting at once

\* Every intent uses up two generations of the foreground player and one failure.
ASSUME IntentsAssumption == MaxActivations \in Nat /\ MaxIntents \in Nat
                                /\ MaxGeneration >= 3 * MaxIntents

VARIABLES
    track,        \* _track
    tstage,       \* _stage
    failure,      \* _resolutionFailure: none, signIn (requiresAuthentication) or other
    resolving,    \* _resolving
    tgeneration,  \* _generation
    resolution,   \* _resolutionOperation: the playTrack it belongs to, or 0
    plays,        \* playTrack calls under way
    activations   \* activate() calls on _activationTail, the first one running

shown == <<track, tstage, failure, resolving>>
tvars == <<pvars, shown, tgeneration, resolution, plays, activations>>

Intent == 1..MaxIntents

\* A playTrack: waiting for the old session to be gone, for the resolution, or for
\* the playRemote ref it called.
NoPlay == [at |-> "none", for |-> NoSource, old |-> NoSession, cancelled |-> FALSE, ref |-> 0]
NewPlay(t) == [at |-> "stopping", for |-> t, old |-> session, cancelled |-> FALSE, ref |-> 0]

\* An activate() call: the generation and track it was made for, and what it awaits.
Activation == [generation |-> tgeneration, for |-> track, does |-> "queued", ref |-> 0]

TrackInit ==
    /\ PlaybackInit
    /\ track = NoSource /\ tstage = "idle" /\ failure = "none" /\ resolving = FALSE
    /\ tgeneration = 0 /\ resolution = 0
    /\ plays = [g \in Intent |-> NoPlay]
    /\ activations = <<>>

StageOf(s) == IF s = "error" THEN "engineError" ELSE s

\* _onPlaybackChanged
Observe ==
    tstage' = IF ~resolving /\ (stage' # stage \/ volume' # volume) THEN StageOf(stage') ELSE tstage

canActivate ==
    track # NoSource /\ failure # "signIn" /\ tstage \notin {"resolving", "loading"}

TrackCurrent(g) == ~disposed /\ tgeneration = g

Cancelled == [g \in Intent |-> IF g = resolution THEN [plays[g] EXCEPT !.cancelled = TRUE]
                               ELSE plays[g]]

\* playTrack, up to its first await.
PlayTrack(t) ==
    /\ tgeneration < MaxIntents
    /\ tgeneration' = tgeneration + 1
    /\ track' = t /\ tstage' = "resolving" /\ failure' = "none" /\ resolving' = TRUE
    /\ resolution' = 0
    /\ plays' = [Cancelled EXCEPT ![tgeneration'] = NewPlay(t)]
    /\ Stop

\* The old session is gone: the resolution starts, unless a newer call took over.
OldSessionIsGone(g) ==
    /\ plays[g].at = "stopping"
    /\ plays[g].old # NoSession => status[plays[g].old] = "gone"
    /\ IF TrackCurrent(g)
       THEN resolution' = g /\ plays' = [plays EXCEPT ![g].at = "resolving"]
       ELSE plays' = [plays EXCEPT ![g] = NoPlay] /\ UNCHANGED resolution
    /\ UNCHANGED <<pvars, shown, tgeneration, activations>>

ResolutionIsOver(g) == resolution' = IF resolution = g THEN 0 ELSE resolution

ResolvedForAnyone(g) == \* slip: a late result is played although it was overtaken
    /\ plays[g].at = "resolving"
    /\ ResolutionIsOver(g)
    /\ resolving' = FALSE
    /\ PlayRemote(plays[g].for)
    /\ plays' = [plays EXCEPT ![g].at = "playing", ![g].ref = generation']
    /\ tstage' = StageOf(stage')
    /\ UNCHANGED <<track, failure, tgeneration, activations>>

\* The resolution has a source.
Resolved(g) ==
    /\ plays[g].at = "resolving"
    /\ ResolutionIsOver(g)
    /\ \/ /\ TrackCurrent(g)
          /\ resolving' = FALSE
          /\ PlayRemote(plays[g].for)
          /\ plays' = [plays EXCEPT ![g].at = "playing", ![g].ref = generation']
          /\ tstage' = StageOf(stage')
       \/ /\ ~TrackCurrent(g)
          /\ plays' = [plays EXCEPT ![g] = NoPlay]
          /\ UNCHANGED <<pvars, tstage, resolving>>
    /\ UNCHANGED <<track, failure, tgeneration, activations>>

UnresolvedSilently(g) == \* slip: a failure leaves the resolving flag set
    /\ plays[g].at = "resolving"
    /\ ResolutionIsOver(g)
    /\ plays' = [plays EXCEPT ![g] = NoPlay]
    /\ UNCHANGED <<pvars, shown, tgeneration, activations>>

\* The resolution fails.
Unresolved(g) ==
    /\ plays[g].at = "resolving"
    /\ ResolutionIsOver(g)
    /\ plays' = [plays EXCEPT ![g] = NoPlay]
    /\ IF TrackCurrent(g)
       THEN resolving' = FALSE /\ failure' \in {"signIn", "other"} /\ tstage' = "resolutionError"
       ELSE UNCHANGED <<resolving, failure, tstage>>
    /\ UNCHANGED <<pvars, track, tgeneration, activations>>

\* stop()
StopTrack ==
    /\ tgeneration < MaxIntents
    /\ tgeneration' = tgeneration + 1
    /\ resolution' = 0 /\ plays' = Cancelled
    /\ resolving' = FALSE /\ failure' = "none" /\ tstage' = "stopped"
    /\ Stop
    /\ UNCHANGED <<track, activations>>

\* dispose()
DisposeTrack ==
    /\ Dispose
    /\ tgeneration' = tgeneration + 1
    /\ resolution' = 0 /\ plays' = Cancelled
    /\ UNCHANGED <<shown, activations>>

(***************************************************************************)
(* activate(): one button that plays, pauses, resumes and tries again.     *)
(***************************************************************************)
CallActivate ==
    /\ ~disposed /\ canActivate
    /\ Len(activations) < MaxActivations
    /\ activations' = Append(activations, Activation)
    /\ UNCHANGED <<pvars, shown, tgeneration, resolution, plays>>

RunActivationForAnyone == \* slip: the captured generation is not compared
    /\ activations # <<>> /\ Head(activations).does = "queued" /\ ~disposed /\ canActivate
    /\ \/ /\ tstage = "playing" /\ Pause("toggle")
          /\ activations' = [activations EXCEPT ![1].does = "toggle", ![1].ref = session]
          /\ UNCHANGED <<shown, tgeneration, resolution, plays>>
       \/ /\ tstage = "paused" /\ Resume("toggle")
          /\ activations' = [activations EXCEPT ![1].does = "toggle", ![1].ref = session]
          /\ UNCHANGED <<shown, tgeneration, resolution, plays>>
       \/ /\ tstage \notin {"playing", "paused"}
          /\ PlayTrack(track)
          /\ activations' = [activations EXCEPT ![1].does = "play", ![1].ref = tgeneration']

RunActivation ==
    /\ activations # <<>> /\ Head(activations).does = "queued"
    /\ TrackCurrent(Head(activations).generation) /\ canActivate
    /\ \/ /\ tstage = "playing" /\ Pause("toggle")
          /\ activations' = [activations EXCEPT ![1].does = "toggle", ![1].ref = session]
          /\ UNCHANGED <<shown, tgeneration, resolution, plays>>
       \/ /\ tstage = "paused" /\ Resume("toggle")
          /\ activations' = [activations EXCEPT ![1].does = "toggle", ![1].ref = session]
          /\ UNCHANGED <<shown, tgeneration, resolution, plays>>
       \/ /\ tstage \notin {"playing", "paused"}
          /\ PlayTrack(track)
          /\ activations' = [activations EXCEPT ![1].does = "play", ![1].ref = tgeneration']

\* An activation that was overtaken, or that nothing can be done for, does nothing.
SkipActivation ==
    /\ activations # <<>> /\ Head(activations).does = "queued"
    /\ ~(TrackCurrent(Head(activations).generation) /\ canActivate)
    /\ activations' = Tail(activations)
    /\ UNCHANGED <<pvars, shown, tgeneration, resolution, plays>>

\* playRemote s has not returned: it loads, sets the volume or plays.
RemoteRuns(s) ==
    \/ load[s].at # "none"
    \/ \E c \in controls[s] : c.for = "load"
    \/ \E i \in 1..Len(transport[s]) : transport[s][i].for = "load"

PlayRuns(g) == plays[g].at # "none" /\ (plays[g].at = "playing" => RemoteRuns(plays[g].ref))

ToggleRuns(s) == \E i \in 1..Len(transport[s]) : transport[s][i].for = "toggle"

\* What the first activation awaits has settled: the next one may run.
ActivationEnds ==
    /\ activations # <<>>
    /\ \/ Head(activations).does = "toggle" /\ ~ToggleRuns(Head(activations).ref)
       \/ Head(activations).does = "play" /\ ~PlayRuns(Head(activations).ref)
    /\ activations' = Tail(activations)
    /\ UNCHANGED <<pvars, shown, tgeneration, resolution, plays>>

(***************************************************************************)
(* The rest goes to the foreground player.                                 *)
(***************************************************************************)
\* pause, resume, replayCurrent, seekToMs and setVolume.
Forward ==
    /\ ~disposed
    /\ \/ tstage = "playing" /\ Pause("pause")
       \/ tstage = "paused" /\ Resume("resume")
       \/ tstage = "completed" /\ ReplayCurrent
       \/ tstage \in {"playing", "paused"} /\ SeekToMs
       \/ \E v \in Level : SetVolume(v)
    /\ Observe
    /\ UNCHANGED <<track, failure, resolving, tgeneration, resolution, plays, activations>>

\* Steps of the foreground player and the engine that nobody here asked for.
Notified ==
    /\ IF disposed THEN UNCHANGED tstage ELSE Observe
    /\ UNCHANGED <<track, failure, resolving, tgeneration, resolution, plays, activations>>
PlayerStep(s) == (Settles(s) \/ Completes(s) \/ PlayerFails(s)) /\ Notified

TrackNext ==
    \/ ~disposed /\ \E t \in Source : PlayTrack(t) /\ UNCHANGED activations
    \/ ~disposed /\ StopTrack
    \/ DisposeTrack
    \/ CallActivate \/ RunActivation \/ SkipActivation \/ ActivationEnds
    \/ Forward
    \/ \E g \in Intent : OldSessionIsGone(g) \/ Resolved(g) \/ Unresolved(g)
    \/ \E s \in Session : PlayerStep(s)

TrackSpec == TrackInit /\ [][TrackNext]_tvars

(***************************************************************************)
(* Fairness: the engine answers every call, one way or the other, as the   *)
(* deadlines of the media_kit engine make sure; so does the provider; and  *)
(* the event loop runs every continuation.  Calls of one kind do not hold  *)
(* back those of another.                                                  *)
(***************************************************************************)
ObservedFairness ==
    \A s \in Session :
        /\ WF_tvars((StopSettles(s) \/ DisposeSettles(s)) /\ Notified)
        /\ WF_tvars((ReplacedIsGone(s) \/ LoadSucceeds(s) \/ LoadFails(s)) /\ Notified)
        /\ WF_tvars((TransportAnswers(s) \/ TransportFails(s)) /\ Notified)
        /\ \A for \in {"load", "volume", "replay", "seek"} :
              WF_tvars(/\ \E c \in controls[s] :
                             /\ c.for = for
                             /\ \/ SeekAnswers(s, c) \/ SeekFails(s, c)
                                \/ VolumeAnswers(s, c) \/ VolumeFails(s, c)
                       /\ Notified)

ResolutionFairness ==
    \A g \in Intent : WF_tvars(OldSessionIsGone(g)) /\ WF_tvars(Resolved(g) \/ Unresolved(g))

(***************************************************************************)
(* Properties.                                                             *)
(***************************************************************************)
\* Once a track is shown, what is attached, and what will be, was resolved for it:
\* no late resolution and no late load plays an older choice.
PlaysTheShownTrack ==
    track # NoSource =>
        /\ session # NoSession => source[session] = track /\ ~resolving
        /\ \A g \in Session : load[g].at # "none" /\ generation = g /\ ~disposed => load[g].from = track

\* A press of the button acts on the track it was pressed for, however long the
\* presses before it took.
ActivationKeepsItsTrack ==
    [][\A s \in Session : ~ToggleRuns(s) /\ ToggleRuns(s)' => source[s] = Head(activations).for]_tvars

\* The latest choice of a track leaves "resolving" some time.
ResolvingEnds == tstage = "resolving" ~> (tstage # "resolving" \/ disposed)
=============================================================================
