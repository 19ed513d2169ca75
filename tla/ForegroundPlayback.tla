------------------------- MODULE ForegroundPlayback -------------------------
(***************************************************************************)
(* The foreground player of apps/flutter/lib/playback/                     *)
(* foreground_playback_controller.dart.                                    *)
(*                                                                         *)
(* Code between two awaits is one action.  What a method awaits - the      *)
(* engine's load, a session's transport, seek, volume, stop and dispose -  *)
(* settles in actions of its own, well or badly, as late as it likes.      *)
(*                                                                         *)
(* A session is named by the _generation of the playRemote that loaded it. *)
(* Every method that changes _generation also detaches the session, so the *)
(* generation that a method or a listener captured beside its session is   *)
(* that name.                                                              *)
(*                                                                         *)
(* Sessions and their players are external here.  What is assumed of them  *)
(* is what foreground_audio_player.dart makes them do: play and pause take *)
(* effect and answer in the order of the calls, their state event may come *)
(* before the answer, and the audio focus arbiter (module AudioFocus) lets *)
(* no session start while another one is audible.                          *)
(***************************************************************************)
EXTENDS Naturals, Sequences, FiniteSets

CONSTANTS
    Source,         \* what can be played
    NoSource,       \* no source
    Level,          \* volume levels
    FullVolume,     \* the level at the start
    MaxGeneration,  \* bound: calls that bump _generation in a behaviour
    MaxControls,    \* bound: seeks, and changes of the volume, in a behaviour
    MaxTransport    \* bound: play and pause calls of a session under way at once

ASSUME SourceAssumption == NoSource \notin Source
ASSUME LevelAssumption == FullVolume \in Level
ASSUME PlaybackBoundsAssumption == {MaxGeneration, MaxControls, MaxTransport} \subseteq Nat

VARIABLES
    stage,         \* _stage
    failed,        \* whether _failure is set
    session,       \* _session, or NoSession
    generation,    \* _generation
    seekGeneration, pendingSeek,      \* _seekGeneration, _pendingSeekGeneration or 0
    volume, volumeGeneration,         \* _volume, _volumeGeneration
    disposed,      \* _disposed
    load,          \* playRemote calls that have not attached a session yet
    status,        \* of each session: none, live, stopping, disposing or gone
    source,        \* what each session was loaded from
    transport,     \* play and pause calls of each session, in order
    controls,      \* seek and volume calls of each session
    native,        \* what each session's player does; history: it is "overrun" rather than
                   \* "completed" when its source ended before the play() had answered
    level          \* the volume of each session's player

tracked == <<stage, failed, session, generation, seekGeneration, pendingSeek>>
volumes == <<volume, volumeGeneration>>
players == <<status, source, transport, controls, native, level>>
pvars == <<tracked, volumes, disposed, load, players>>

NoSession == 0
Session == 1..MaxGeneration

\* A playRemote: waiting for the session it replaces to be gone, or for the engine.
NoLoad == [at |-> "none", old |-> NoSession, from |-> NoSource]

\* A play or pause call, and the method it was made for; done: it took effect.
Transport(do, for) == [do |-> do, for |-> for, done |-> FALSE]
\* A seek or volume call, the method it was made for, and the _seekGeneration or
\* _volumeGeneration it was made with.
Seeking(for, gen) == [do |-> "seek", for |-> for, gen |-> gen, to |-> FullVolume]
Applying(for, gen, to) == [do |-> "volume", for |-> for, gen |-> gen, to |-> to]

PlaybackInit ==
    /\ stage = "idle" /\ failed = FALSE /\ session = NoSession /\ generation = 0
    /\ seekGeneration = 0 /\ pendingSeek = 0
    /\ volume = FullVolume /\ volumeGeneration = 0
    /\ disposed = FALSE
    /\ load = [s \in Session |-> NoLoad]
    /\ status = [s \in Session |-> "none"]
    /\ source = [s \in Session |-> NoSource]
    /\ transport = [s \in Session |-> <<>>]
    /\ controls = [s \in Session |-> {}]
    /\ native = [s \in Session |-> "idle"]
    /\ level = [s \in Session |-> FullVolume]

Current(s) == ~disposed /\ generation = s /\ session = s

(***************************************************************************)
(* Detaching, failing, and the clean-up of detached sessions.              *)
(***************************************************************************)
DetachKeepingSeek == \* slip: the seek that is under way stays the pending one
    /\ session' = NoSession
    /\ UNCHANGED <<seekGeneration, pendingSeek>>

\* _detachSession
Detach ==
    /\ session' = NoSession
    /\ seekGeneration' = seekGeneration + 1
    /\ pendingSeek' = 0

\* Every caller of _detachSession hands what it returns to _stopAndDispose.
StopAndDispose(s) ==
    status' = IF s = NoSession THEN status ELSE [status EXCEPT ![s] = "stopping"]

\* _failSession
FailSession(s) ==
    IF Current(s)
    THEN /\ generation' = generation + 1
         /\ Detach
         /\ StopAndDispose(s)
         /\ stage' = "error" /\ failed' = TRUE
    ELSE UNCHANGED <<tracked, status>>

StopFailureForgets(s) == \* slip: a stop that fails ends the clean-up
    /\ status[s] = "stopping" /\ transport[s] = <<>>
    /\ \/ status' = [status EXCEPT ![s] = "disposing"] /\ native' = [native EXCEPT ![s] = "idle"]
       \/ status' = [status EXCEPT ![s] = "none"] /\ UNCHANGED native
    /\ UNCHANGED <<tracked, volumes, disposed, load, source, transport, controls, level>>

\* _stopAndDispose: stop() answers once the calls before it have, or fails.
StopSettles(s) ==
    /\ status[s] = "stopping" /\ transport[s] = <<>>
    /\ status' = [status EXCEPT ![s] = "disposing"]
    /\ native' = [native EXCEPT ![s] = "idle"] \/ UNCHANGED native
    /\ UNCHANGED <<tracked, volumes, disposed, load, source, transport, controls, level>>

DisposeSettles(s) ==
    /\ status[s] = "disposing"
    /\ status' = [status EXCEPT ![s] = "gone"]
    /\ native' = [native EXCEPT ![s] = "idle"]
    /\ source' = [source EXCEPT ![s] = NoSource]
    /\ level' = [level EXCEPT ![s] = FullVolume]
    /\ UNCHANGED <<tracked, volumes, disposed, load, transport, controls>>

(***************************************************************************)
(* The controller's methods.                                               *)
(***************************************************************************)
PlayRemote(src) ==
    /\ generation < MaxGeneration
    /\ generation' = generation + 1
    /\ Detach
    /\ StopAndDispose(session)
    /\ stage' = "loading" /\ failed' = FALSE
    /\ load' = [load EXCEPT ![generation'] = [at |-> "stopping", old |-> session, from |-> src]]
    /\ UNCHANGED <<volumes, disposed, source, transport, controls, native, level>>

Stop ==
    /\ generation < MaxGeneration
    /\ generation' = generation + 1
    /\ Detach
    /\ StopAndDispose(session)
    /\ stage' = "stopped" /\ failed' = FALSE
    /\ UNCHANGED <<volumes, disposed, load, source, transport, controls, native, level>>

\* dispose(), before the engine itself is disposed of.
Dispose ==
    /\ ~disposed
    /\ disposed' = TRUE
    /\ generation' = generation + 1
    /\ Detach
    /\ StopAndDispose(session)
    /\ UNCHANGED <<stage, failed, volumes, load, source, transport, controls, native, level>>

\* pause() and resume() do nothing without a session or in another stage.
Call(do, for) ==
    /\ Len(transport[session]) < MaxTransport
    /\ transport' = [transport EXCEPT ![session] = Append(@, Transport(do, for))]
    /\ UNCHANGED <<failed, session, generation, volumes, disposed, load, status,
                   source, native, level>>

Pause(for) == /\ stage = "playing" /\ session # NoSession /\ Call("pause", for)
              /\ UNCHANGED <<stage, seekGeneration, pendingSeek, controls>>
Resume(for) == /\ stage = "paused" /\ session # NoSession /\ Call("play", for)
               /\ UNCHANGED <<stage, seekGeneration, pendingSeek, controls>>

\* replayCurrent() rewinds the completed source before it plays it.
ReplayCurrent ==
    /\ stage = "completed" /\ session # NoSession
    /\ stage' = "loading"
    /\ controls' = [controls EXCEPT ![session] = @ \cup {Seeking("replay", seekGeneration)}]
    /\ UNCHANGED <<failed, session, generation, seekGeneration, pendingSeek, volumes, disposed,
                   load, status, source, transport, native, level>>

SeekToMs ==
    /\ stage \in {"playing", "paused"} /\ session # NoSession
    /\ seekGeneration < generation + MaxControls
    /\ seekGeneration' = seekGeneration + 1
    /\ pendingSeek' = seekGeneration'
    /\ controls' = [controls EXCEPT ![session] = @ \cup {Seeking("seek", seekGeneration')}]
    /\ UNCHANGED <<stage, failed, session, generation, volumes, disposed, load, status, source,
                   transport, native, level>>

\* setVolume(): the level changes at once, the session follows.
SetVolume(v) ==
    /\ \/ /\ v # volume /\ volumeGeneration < MaxControls
          /\ volume' = v /\ volumeGeneration' = volumeGeneration + 1
       \/ v = volume /\ UNCHANGED volumes
    /\ controls' = IF session = NoSession THEN controls
                   ELSE [controls EXCEPT ![session] = @ \cup {Applying("volume", volumeGeneration', v)}]
    /\ UNCHANGED <<tracked, disposed, load, status, source, transport, native, level>>

(***************************************************************************)
(* playRemote goes on.                                                     *)
(***************************************************************************)
\* The session that was replaced is gone.  A call that was overtaken ends here.
ReplacedIsGone(g) ==
    /\ load[g].at = "stopping"
    /\ load[g].old # NoSession => status[load[g].old] = "gone"
    /\ load' = IF ~disposed /\ generation = g THEN [load EXCEPT ![g].at = "loading"]
               ELSE [load EXCEPT ![g] = NoLoad]
    /\ UNCHANGED <<tracked, volumes, disposed, players>>

LoadSucceedsForgetting(g) == \* slip: a session that comes too late is dropped
    /\ load[g].at = "loading"
    /\ load' = [load EXCEPT ![g] = NoLoad]
    /\ source' = [source EXCEPT ![g] = load[g].from]
    /\ status' = [status EXCEPT ![g] = "live"]
    /\ \/ /\ ~disposed /\ generation = g
          /\ session' = g
          /\ controls' = [controls EXCEPT ![g] = {Applying("load", volumeGeneration, volume)}]
       \/ (disposed \/ generation # g) /\ UNCHANGED <<session, controls>>
    /\ UNCHANGED <<stage, failed, generation, seekGeneration, pendingSeek, volumes, disposed,
                   transport, native, level>>

\* The engine delivers the session: it is attached, or disposed of if it is late.
LoadSucceeds(g) ==
    /\ load[g].at = "loading"
    /\ load' = [load EXCEPT ![g] = NoLoad]
    /\ source' = [source EXCEPT ![g] = load[g].from]
    /\ \/ /\ ~disposed /\ generation = g
          /\ session' = g
          /\ status' = [status EXCEPT ![g] = "live"]
          /\ controls' = [controls EXCEPT ![g] = {Applying("load", volumeGeneration, volume)}]
       \/ /\ disposed \/ generation # g
          /\ status' = [status EXCEPT ![g] = "disposing"]
          /\ UNCHANGED <<session, controls>>
    /\ UNCHANGED <<stage, failed, generation, seekGeneration, pendingSeek, volumes, disposed,
                   transport, native, level>>

LoadFails(g) ==
    /\ load[g].at = "loading"
    /\ load' = [load EXCEPT ![g] = NoLoad]
    /\ IF ~disposed /\ generation = g THEN stage' = "error" /\ failed' = TRUE
       ELSE UNCHANGED <<stage, failed>>
    /\ UNCHANGED <<session, generation, seekGeneration, pendingSeek, volumes, disposed, players>>

(***************************************************************************)
(* A session's player.                                                     *)
(***************************************************************************)
\* A state event reaches the listener of the attached session, nobody else.
Event(s, state) == stage' = IF Current(s) THEN state ELSE stage

Silent(s) == \A t \in Session \ {s} : native[t] # "playing"

HeadDone(calls) ==
    [calls EXCEPT ![1] = [do |-> Head(calls).do, for |-> Head(calls).for, done |-> TRUE]]

\* The first play or pause takes effect; its event comes before its answer.
TakesEffect(s) ==
    /\ transport[s] # <<>> /\ ~Head(transport[s]).done
    /\ transport' = [transport EXCEPT ![s] = HeadDone(@)]
    /\ \/ /\ Head(transport[s]).do = "play" /\ Silent(s)
          /\ native' = [native EXCEPT ![s] = "playing"]
          /\ Event(s, "playing")
       \/ /\ Head(transport[s]).do = "pause" /\ native[s] = "playing"
          /\ native' = [native EXCEPT ![s] = "paused"]
          /\ Event(s, "paused")
       \/ /\ Head(transport[s]).do = "pause" /\ native[s] # "playing"
          /\ UNCHANGED <<native, stage>>
    /\ UNCHANGED <<failed, session, generation, seekGeneration, pendingSeek, volumes, disposed, load,
                   status, source, controls, level>>

TransportAnswersAnyone(s) == \* slip: the continuation does not ask whether it is current
    /\ transport[s] # <<>> /\ Head(transport[s]).done
    /\ transport' = [transport EXCEPT ![s] = Tail(@)]
    /\ stage' = IF Head(transport[s]).do = "play" THEN "playing" ELSE "paused"
    /\ UNCHANGED <<failed, session, generation, seekGeneration, pendingSeek, volumes, disposed, load,
                   status, source, controls, native, level>>

\* ... and answers.  The method that called it shows the stage, if still current.
TransportAnswers(s) ==
    /\ transport[s] # <<>> /\ Head(transport[s]).done
    /\ transport' = [transport EXCEPT ![s] = Tail(@)]
    /\ Event(s, IF Head(transport[s]).do = "play" THEN "playing" ELSE "paused")
    /\ UNCHANGED <<failed, session, generation, seekGeneration, pendingSeek, volumes, disposed, load,
                   status, source, controls, native, level>>

\* ... or fails, with or without having taken effect.
TransportFails(s) ==
    /\ transport[s] # <<>>
    /\ transport' = [transport EXCEPT ![s] = Tail(@)]
    /\ FailSession(s)
    /\ UNCHANGED <<volumes, disposed, load, source, controls, native, level>>

\* A seek answers: replayCurrent goes on to play, seekToMs ends.
SeekAnswers(s, c) ==
    /\ c \in controls[s] /\ c.do = "seek"
    /\ controls' = [controls EXCEPT ![s] = @ \ {c}]
    /\ native' = [native EXCEPT ![s] = IF @ = "completed" THEN "paused" ELSE @]
    /\ \/ /\ c.for = "replay" /\ Current(s)
          /\ transport' = [transport EXCEPT ![s] = Append(@, Transport("play", "replay"))]
          /\ UNCHANGED pendingSeek
       \/ /\ c.for = "seek" /\ Current(s) /\ c.gen = seekGeneration
          /\ pendingSeek' = 0
          /\ UNCHANGED transport
       \/ /\ ~Current(s) \/ (c.for = "seek" /\ c.gen # seekGeneration)
          /\ UNCHANGED <<transport, pendingSeek>>
    /\ UNCHANGED <<stage, failed, session, generation, seekGeneration, volumes, disposed, load,
                   status, source, level>>

\* A failed seek counts only if it is the latest one.
SeekFails(s, c) ==
    /\ c \in controls[s] /\ c.do = "seek"
    /\ controls' = [controls EXCEPT ![s] = @ \ {c}]
    /\ IF c.for = "replay" \/ c.gen = seekGeneration THEN FailSession(s)
       ELSE UNCHANGED <<tracked, status>>
    /\ UNCHANGED <<volumes, disposed, load, source, transport, native, level>>

VolumeAnswersOnce(s, c) == \* slip: nobody looks whether the volume changed meanwhile
    /\ c \in controls[s] /\ c.do = "volume"
    /\ level' = [level EXCEPT ![s] = c.to]
    /\ controls' = [controls EXCEPT ![s] = @ \ {c}]
    /\ transport' = IF Current(s) /\ c.for = "load"
                    THEN [transport EXCEPT ![s] = Append(@, Transport("play", "load"))] ELSE transport
    /\ UNCHANGED <<tracked, volumes, disposed, load, status, source, native>>

\* _applyLatestVolume: again while the volume changes; then playRemote plays.
VolumeAnswers(s, c) ==
    LET again == Current(s) /\ c.gen # volumeGeneration IN
    /\ c \in controls[s] /\ c.do = "volume"
    /\ level' = [level EXCEPT ![s] = c.to]
    /\ UNCHANGED <<tracked, volumes>>
    /\ controls' = [controls EXCEPT ![s] = (@ \ {c}) \cup IF again THEN {Applying(c.for, volumeGeneration, volume)} ELSE {}]
    /\ transport' = IF Current(s) /\ ~again /\ c.for = "load"
                    THEN [transport EXCEPT ![s] = Append(@, Transport("play", "load"))] ELSE transport
    /\ UNCHANGED <<disposed, load, status, source, native>>

VolumeFails(s, c) ==
    /\ c \in controls[s] /\ c.do = "volume"
    /\ controls' = [controls EXCEPT ![s] = @ \ {c}]
    /\ FailSession(s)
    /\ UNCHANGED <<volumes, disposed, load, source, transport, native, level>>

PlayUnanswered(s) ==
    transport[s] # <<>> /\ Head(transport[s]).do = "play" /\ Head(transport[s]).done

\* The source ends, perhaps before the play that started it is answered.
Completes(s) ==
    /\ native[s] = "playing"
    /\ native' = [native EXCEPT ![s] = IF PlayUnanswered(s) THEN "overrun" ELSE "completed"]
    /\ Event(s, "completed")
    /\ UNCHANGED <<failed, session, generation, seekGeneration, pendingSeek, volumes, disposed, load,
                   status, source, transport, controls, level>>

\* The player reports a failure of its own: _onFailure.
PlayerFails(s) ==
    /\ Current(s)
    /\ FailSession(s)
    /\ UNCHANGED <<volumes, disposed, load, source, transport, controls, native, level>>

Settles(s) ==
    \/ StopSettles(s) \/ DisposeSettles(s)
    \/ TakesEffect(s) \/ TransportAnswers(s) \/ TransportFails(s)
    \/ \E c \in controls[s] : SeekAnswers(s, c) \/ SeekFails(s, c)
                              \/ VolumeAnswers(s, c) \/ VolumeFails(s, c)
    \/ ReplacedIsGone(s) \/ LoadSucceeds(s) \/ LoadFails(s)

PlaybackNext ==
    \/ ~disposed /\ \E src \in Source : PlayRemote(src)
    \/ ~disposed /\ (Stop \/ Pause("pause") \/ Resume("resume") \/ ReplayCurrent \/ SeekToMs)
    \/ ~disposed /\ \E v \in Level : SetVolume(v)
    \/ Dispose
    \/ \E s \in Session : Settles(s) \/ Completes(s) \/ PlayerFails(s)

PlaybackSpec == PlaybackInit /\ [][PlaybackNext]_pvars

(***************************************************************************)
(* Properties.                                                             *)
(***************************************************************************)
Stages == {"idle", "loading", "playing", "paused", "stopped", "completed", "error"}
PlayerStates == {"idle", "playing", "paused", "completed", "overrun"}
LoadRecord == [at : {"none", "stopping", "loading"}, old : Session \cup {NoSession},
               from : Source \cup {NoSource}]
ControlRecord ==
    {c \in [do : {"seek", "volume"}, for : {"load", "replay", "seek", "volume"}, gen : Nat, to : Level] :
        c.do = "seek" <=> c.for \in {"replay", "seek"}}
TransportRecord == [do : {"play", "pause"}, for : {"load", "resume", "replay", "pause", "toggle"}, done : BOOLEAN]

\* Type invariant of the controller, its calls under way and the players.
PlaybackTypeOK ==
    /\ stage \in Stages
    /\ failed \in BOOLEAN
    /\ session \in Session \cup {NoSession}
    /\ generation \in Nat
    /\ seekGeneration \in Nat /\ pendingSeek \in 0..seekGeneration
    /\ volume \in Level /\ volumeGeneration \in Nat
    /\ disposed \in BOOLEAN
    /\ load \in [Session -> LoadRecord]
    /\ status \in [Session -> {"none", "live", "stopping", "disposing", "gone"}]
    /\ source \in [Session -> Source \cup {NoSource}]
    /\ transport \in [Session -> Seq(TransportRecord)]
    /\ controls \in [Session -> SUBSET ControlRecord]
    /\ native \in [Session -> PlayerStates]
    /\ level \in [Session -> Level]

\* No session leaks: one that is not attached has been handed to its clean-up,
\* whichever way a load, a replacement, a failure and a disposal interleave.
LiveIsAttached == \A s \in Session : status[s] = "live" <=> session = s

\* Something will move the controller on from "loading".
LoadingGoesOn ==
    \/ \E g \in Session : g = generation /\ load[g].at # "none"
    \/ /\ session # NoSession
       /\ \/ transport[session] # <<>>
          \/ \E c \in controls[session] : c.for \in {"load", "replay"}

\* What the stage says has its ground: a failure is kept exactly while the error
\* shows, playing, paused and completed have a session, loading has a call under way.
StageFits ==
    /\ failed <=> stage = "error"
    /\ stage \in {"playing", "paused", "completed"} /\ ~disposed => session # NoSession
    /\ stage = "loading" /\ ~disposed => LoadingGoesOn

\* A pending seek, which holds back every position event, is always one that is
\* still under way on the attached session: the position never freezes.
SeekNeverSticks ==
    pendingSeek # 0 =>
        /\ session # NoSession
        /\ \E c \in controls[session] : c.for = "seek" /\ c.gen = pendingSeek

\* Once no volume call is under way the attached player has the latest volume, in
\* whatever order the calls took effect.
VolumeReached ==
    session # NoSession /\ (\A c \in controls[session] : c.do # "volume") => level[session] = volume

\* While no play or pause is under way, an attached player that plays is shown as
\* "playing", and "playing" is shown over another one only if its source ended before
\* the play() that started it was answered: that answer comes too late and is believed.
\* No other late answer or event, of an older session least of all, can make it lie.
PlayingShown ==
    session # NoSession /\ transport[session] = <<>> =>
        /\ native[session] = "playing" => stage = "playing"
        /\ stage = "playing" => native[session] \in {"playing", "overrun"}

\* Sessions that were detached are disposed of in the end: a moment comes when every
\* session that ever got a source is attached or gone.
DetachedEventuallyGone ==
    (\E s \in Session : status[s] \in {"stopping", "disposing"})
        ~> \A s \in Session : source[s] = NoSource \/ status[s] \in {"live", "gone"}
=============================================================================
