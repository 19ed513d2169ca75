---------------------- MODULE ForegroundPlaybackProofs ----------------------
(***************************************************************************)
(* Every invariant of the foreground player, for every set of sources and  *)
(* volume levels and every bound; and, at the end, what the track player   *)
(* above it promises of the track that is shown.                           *)
(***************************************************************************)
EXTENDS TrackPlayback, TLAPS

\* A session has the generation of its playRemote, and nothing of it moves before
\* the engine delivers it.
Names ==
    /\ session # NoSession => generation = session /\ ~disposed
    /\ LiveIsAttached
    /\ \A s \in Session :
          /\ status[s] # "none" \/ load[s].at # "none" => s <= generation
          /\ load[s].at # "none" => status[s] = "none"
          /\ status[s] = "none" => transport[s] = <<>> /\ controls[s] = {} /\ native[s] = "idle"

\* The stage, the failure and the load of the current generation go together.
Stage ==
    /\ StageFits
    /\ session # NoSession => ~failed
    /\ \A g \in Session :
          load[g].at # "none" /\ g = generation /\ ~disposed => stage = "loading" /\ session = NoSession

\* A pending seek is the latest one.
Seeks == SeekNeverSticks /\ pendingSeek \in {0, seekGeneration}

\* A volume call that is not out of date carries the volume, and the attached
\* player has it unless such a call is under way.
Volumes ==
    /\ session # NoSession /\ level[session] # volume => \E c \in controls[session] : c.do = "volume"
    /\ \A s \in Session : \A c \in controls[s] :
          c.do = "volume" => c.gen <= volumeGeneration /\ (c.gen = volumeGeneration => c.to = volume)

\* Only the first call may have taken effect, and then the player does what it says,
\* unless its source has ended since.
OnlyFirstDone(calls) == \A i \in 2..Len(calls) : ~calls[i].done

Shown ==
    /\ PlayingShown
    /\ \A s \in Session : OnlyFirstDone(transport[s])
    /\ session # NoSession /\ transport[session] # <<>> /\ Head(transport[session]).done =>
          IF Head(transport[session]).do = "play" THEN native[session] \in {"playing", "overrun"}
          ELSE native[session] # "playing"

PlaybackInv == PlaybackTypeOK /\ Names /\ Stage /\ Seeks /\ Volumes /\ Shown

\* What is assumed of the constants, in the form the proofs use.
LEMMA Constants == MaxGeneration \in Nat /\ MaxControls \in Nat /\ MaxTransport \in Nat
                      /\ FullVolume \in Level /\ NoSource \notin Source
BY PlaybackBoundsAssumption, LevelAssumption, SourceAssumption

(***************************************************************************)
(* Sequences of play and pause calls, and the steps that several actions share. *)
(***************************************************************************)

\* The first call takes effect; the ones behind it are as they were.
LEMMA HeadDoneFacts ==
    ASSUME NEW q \in Seq(TransportRecord), q # <<>>
    PROVE  /\ HeadDone(q) \in Seq(TransportRecord)
           /\ Len(HeadDone(q)) = Len(q) /\ HeadDone(q) # <<>>
           /\ Head(HeadDone(q)).do = Head(q).do /\ Head(HeadDone(q)).done
           /\ \A i \in 2..Len(q) : HeadDone(q)[i] = q[i]
<1> DEFINE h == [do |-> Head(q).do, for |-> Head(q).for, done |-> TRUE]
<1>1. /\ Len(q) \in Nat /\ Len(q) >= 1 /\ 1 \in DOMAIN q
      /\ q \in [1..Len(q) -> TransportRecord] /\ Head(q) = q[1]
    OBVIOUS
<1>2. h \in TransportRecord
    BY <1>1 DEF TransportRecord
<1>3. HeadDone(q) = [q EXCEPT ![1] = h]
    BY DEF HeadDone
<1> HIDE DEF h
<1>4. HeadDone(q) \in Seq(TransportRecord) /\ Len(HeadDone(q)) = Len(q)
    BY <1>1, <1>2, <1>3
<1>5. HeadDone(q)[1] = h /\ \A i \in 2..Len(q) : HeadDone(q)[i] = q[i]
    BY <1>1, <1>3
<1>6. HeadDone(q) # <<>> /\ Head(HeadDone(q)) = h
    BY <1>1, <1>4, <1>5
<1>7. QED
    BY <1>4, <1>5, <1>6 DEF h

\* A new call goes behind those under way: which one is first does not change.
LEMMA AppendFacts ==
    ASSUME NEW q \in Seq(TransportRecord), NEW x \in TransportRecord, ~x.done, OnlyFirstDone(q)
    PROVE  /\ Append(q, x) \in Seq(TransportRecord) /\ Append(q, x) # <<>>
           /\ OnlyFirstDone(Append(q, x))
           /\ Head(Append(q, x)).done => q # <<>> /\ Head(Append(q, x)) = Head(q)
<1>1. /\ Len(q) \in Nat /\ Append(q, x) \in Seq(TransportRecord) /\ Append(q, x) # <<>>
      /\ Len(Append(q, x)) = Len(q) + 1
      /\ \A i \in 1..Len(q) : Append(q, x)[i] = q[i]
      /\ Append(q, x)[Len(q) + 1] = x
    OBVIOUS
<1>2. OnlyFirstDone(Append(q, x))
    BY <1>1 DEF OnlyFirstDone
<1>3. CASE q = <<>>
    BY <1>1, <1>2, <1>3
<1>4. CASE q # <<>>
    <2>1. Head(Append(q, x)) = Append(q, x)[1] /\ Head(q) = q[1] /\ 1 \in 1..Len(q)
        BY <1>4, <1>1
    <2>2. QED BY <1>1, <1>2, <1>4, <2>1
<1>5. QED BY <1>3, <1>4

\* When the first call answers, the next one has not taken effect yet.
LEMMA TailFacts ==
    ASSUME NEW q \in Seq(TransportRecord), q # <<>>, OnlyFirstDone(q)
    PROVE  /\ Tail(q) \in Seq(TransportRecord) /\ OnlyFirstDone(Tail(q))
           /\ Tail(q) # <<>> => ~Head(Tail(q)).done
           /\ Head(q) \in TransportRecord
<1>1. /\ Len(q) \in Nat \ {0} /\ Tail(q) \in Seq(TransportRecord) /\ Len(Tail(q)) = Len(q) - 1
      /\ \A i \in 1..Len(q) - 1 : Tail(q)[i] = q[i + 1]
      /\ Head(q) \in TransportRecord
    OBVIOUS
<1>2. OnlyFirstDone(Tail(q))
    BY <1>1 DEF OnlyFirstDone
<1>3. ASSUME Tail(q) # <<>> PROVE ~Head(Tail(q)).done
    <2>1. Head(Tail(q)) = Tail(q)[1] /\ 1 \in 1..Len(q) - 1
        BY <1>1, <1>3
    <2>2. QED BY <2>1, <1>1 DEF OnlyFirstDone
<1>4. QED BY <1>1, <1>2, <1>3

\* _detachSession with its clean-up: no session is live, no seek is pending.
LEMMA DetachFacts ==
    ASSUME PlaybackTypeOK, Names, generation' = generation + 1, Detach, StopAndDispose(session)
    PROVE  /\ generation' \in Nat
           /\ session' = NoSession /\ seekGeneration' \in Nat /\ pendingSeek' = 0
           /\ status' \in [Session -> {"none", "live", "stopping", "disposing", "gone"}]
           /\ \A t \in Session : status'[t] # "live" /\ (status'[t] = "none" <=> status[t] = "none")
           /\ LiveIsAttached' /\ Seeks'
<1> USE Constants DEF Session, NoSession
<1>1. /\ generation' \in Nat
      /\ session' = NoSession /\ seekGeneration' \in Nat /\ pendingSeek' = 0
    BY DEF PlaybackTypeOK, Detach
<1>2. status' \in [Session -> {"none", "live", "stopping", "disposing", "gone"}]
    BY DEF PlaybackTypeOK, StopAndDispose
<1>3. ASSUME NEW t \in Session PROVE status'[t] # "live" /\ (status'[t] = "none" <=> status[t] = "none")
    <2>1. CASE session = NoSession
        BY <2>1 DEF StopAndDispose, Names, LiveIsAttached
    <2>2. CASE session # NoSession
        BY <2>2 DEF StopAndDispose, PlaybackTypeOK, Names, LiveIsAttached
    <2>3. QED BY <2>1, <2>2
<1>4. LiveIsAttached' /\ Seeks'
    BY <1>1, <1>3 DEF LiveIsAttached, Seeks, SeekNeverSticks
<1>5. QED BY <1>1, <1>2, <1>3, <1>4

\* _failSession of the attached session detaches it and shows the error.
LEMMA FailFacts ==
    ASSUME PlaybackTypeOK, Names, NEW s \in Session, FailSession(s), Current(s)
    PROVE  /\ stage' = "error" /\ failed' = TRUE
           /\ session = s /\ ~disposed
           /\ generation' = generation + 1 /\ Detach /\ StopAndDispose(session)
BY DEF FailSession, Current

\* _failSession of a session that is not attached any more does nothing.
LEMMA NoFailFacts ==
    ASSUME PlaybackTypeOK, Names, NEW s \in Session, FailSession(s), ~Current(s)
    PROVE  UNCHANGED <<tracked, status>> /\ session # s
<1>1. s # NoSession
    BY Constants DEF Session, NoSession
<1>2. QED BY <1>1 DEF FailSession, Current, Names

\* A load that goes on to the engine is still a load.
LEMMA LoadingAtFacts ==
    ASSUME NEW r \in LoadRecord PROVE [r EXCEPT !.at = "loading"] \in LoadRecord
BY DEF LoadRecord

\* A seek or volume call that has settled is gone, the others stay.
LEMMA ControlRemoved ==
    ASSUME PlaybackInv, NEW s \in Session, NEW c \in controls[s],
           controls' = [controls EXCEPT ![s] = @ \ {c}]
    PROVE  /\ controls' \in [Session -> SUBSET ControlRecord] /\ controls'[s] = controls[s] \ {c}
           /\ \A t \in Session \ {s} : controls'[t] = controls[t]
           /\ \A t \in Session : controls'[t] \subseteq controls[t]
           /\ status[s] # "none" /\ c \in ControlRecord
<1>1. controls \in [Session -> SUBSET ControlRecord]
    BY DEF PlaybackInv, PlaybackTypeOK
<1>2. status[s] # "none"
    BY DEF PlaybackInv, Names
<1>3. QED BY <1>1, <1>2

\* The types of the players, and which of their calls may have taken effect.
LEMMA PlayersTypes ==
    ASSUME PlaybackInv
    PROVE  /\ native \in [Session -> PlayerStates] /\ level \in [Session -> Level]
           /\ transport \in [Session -> Seq(TransportRecord)]
           /\ \A t \in Session : OnlyFirstDone(transport[t])
BY DEF PlaybackInv, PlaybackTypeOK, Shown

\* playRemote and replayCurrent go on to play behind the calls under way.
LEMMA PushFacts ==
    ASSUME PlaybackInv, NEW s \in Session, NEW for \in {"load", "replay"},
           transport' = [transport EXCEPT ![s] = Append(@, Transport("play", for))]
    PROVE  /\ transport' \in [Session -> Seq(TransportRecord)] /\ transport'[s] # <<>>
           /\ \A t \in Session : OnlyFirstDone(transport'[t])
           /\ \A t \in Session \ {s} : transport'[t] = transport[t]
           /\ Head(transport'[s]).done => transport[s] # <<>> /\ Head(transport'[s]) = Head(transport[s])
<1> DEFINE x == Transport("play", for)
<1> DEFINE q == transport[s]
<1>1. x \in TransportRecord /\ ~x.done
    BY DEF Transport, TransportRecord
<1>2. q \in Seq(TransportRecord) /\ OnlyFirstDone(q)
    BY PlayersTypes
<1> HIDE DEF x
<1>3. /\ Append(q, x) \in Seq(TransportRecord) /\ Append(q, x) # <<>> /\ OnlyFirstDone(Append(q, x))
      /\ Head(Append(q, x)).done => q # <<>> /\ Head(Append(q, x)) = Head(q)
    BY <1>1, <1>2, AppendFacts
<1>4. /\ transport' \in [Session -> Seq(TransportRecord)]
      /\ transport'[s] = Append(q, x)
      /\ \A t \in Session \ {s} : transport'[t] = transport[t]
    BY <1>3, PlayersTypes DEF x
<1>5. QED BY <1>3, <1>4, PlayersTypes

\* A call of the attached session fails.
LEMMA FailKeeps ==
    ASSUME PlaybackInv, NEW s \in Session, Current(s), FailSession(s),
           UNCHANGED <<volumes, disposed, load, source, native, level>>,
           transport' \in [Session -> Seq(TransportRecord)],
           controls' \in [Session -> SUBSET ControlRecord],
           \A t \in Session : /\ OnlyFirstDone(transport'[t]) /\ controls'[t] \subseteq controls[t]
                              /\ transport[t] = <<>> => transport'[t] = <<>>
    PROVE  PlaybackInv'
<1> USE DEF PlaybackInv
<1>1. /\ stage' = "error" /\ failed' = TRUE /\ session = s /\ ~disposed
      /\ generation' = generation + 1 /\ Detach /\ StopAndDispose(session)
    BY FailFacts
<1>2. /\ generation' \in Nat
      /\ session' = NoSession /\ seekGeneration' \in Nat /\ pendingSeek' = 0
      /\ status' \in [Session -> {"none", "live", "stopping", "disposing", "gone"}]
      /\ \A t \in Session : status'[t] # "live" /\ (status'[t] = "none" <=> status[t] = "none")
      /\ LiveIsAttached' /\ Seeks'
    BY <1>1, DetachFacts
<1>3. PlaybackTypeOK'
    <2>1. stage' \in Stages /\ failed' \in BOOLEAN /\ pendingSeek' \in 0..seekGeneration'
        BY <1>1, <1>2 DEF Stages
    <2>2. QED BY <1>2, <2>1 DEF PlaybackTypeOK, volumes
<1>4. \A t \in Session : t <= generation => t < generation'
    BY <1>1 DEF PlaybackTypeOK, Session
<1>5. \A t \in Session : load'[t] = load[t] /\ (load[t].at # "none" => t # generation')
    BY <1>4 DEF Names, Session
<1>6. Names'
    <2>1. \A t \in Session : status'[t] = "none" => transport'[t] = <<>> /\ controls'[t] = {} /\ native'[t] = "idle"
        BY <1>2 DEF Names
    <2>2. QED BY <1>2, <1>4, <2>1 DEF Names, Session
<1>7. Stage'
    BY <1>1, <1>2, <1>5 DEF Stage, StageFits
<1>8. Volumes' /\ Shown'
    BY <1>2 DEF Volumes, Shown, PlayingShown, volumes
<1>9. QED BY <1>2, <1>3, <1>6, <1>7, <1>8

\* Whatever a session does that is not attached any more disturbs nothing.
LEMMA DetachedKeeps ==
    ASSUME PlaybackInv, NEW s \in Session, session # s, status[s] # "none",
           UNCHANGED <<tracked, status, volumes, disposed, load, source>>,
           native' \in [Session -> PlayerStates],
           level' \in [Session -> Level],
           transport' \in [Session -> Seq(TransportRecord)],
           controls' \in [Session -> SUBSET ControlRecord],
           OnlyFirstDone(transport'[s]), controls'[s] \subseteq controls[s],
           \A t \in Session \ {s} : /\ native'[t] = native[t] /\ level'[t] = level[t]
                                    /\ transport'[t] = transport[t] /\ controls'[t] = controls[t]
    PROVE  PlaybackInv'
<1> USE DEF PlaybackInv
<1>1. session \in Session \cup {NoSession} /\ session' = session
    BY DEF PlaybackTypeOK, tracked
<1>2. PlaybackTypeOK'
    BY DEF PlaybackTypeOK, tracked, volumes
<1>3. Names'
    BY DEF Names, LiveIsAttached, tracked
<1>4. Stage'
    BY <1>1 DEF Stage, StageFits, LoadingGoesOn, tracked
<1>5. Seeks'
    BY <1>1 DEF Seeks, SeekNeverSticks, tracked
<1>6. Volumes' /\ Shown'
    BY <1>1 DEF Volumes, Shown, PlayingShown, tracked, volumes
<1>7. QED BY <1>2, <1>3, <1>4, <1>5, <1>6

(***************************************************************************)
(* One lemma per action: it keeps the invariant, conjunct by conjunct.     *)
(***************************************************************************)

\* PlayRemote keeps the invariant.
LEMMA PlayRemoteKeeps ==
    ASSUME PlaybackInv, NEW src \in Source, ~disposed, PlayRemote(src)
    PROVE  PlaybackInv'
<1> USE Constants DEF Session, NoSession
<1> DEFINE r == [at |-> "stopping", old |-> session, from |-> src]
<1>1. /\ generation' = generation + 1 /\ generation' \in Nat /\ generation' \in Session
      /\ session' = NoSession /\ seekGeneration' \in Nat /\ pendingSeek' = 0
      /\ status' \in [Session -> {"none", "live", "stopping", "disposing", "gone"}]
      /\ \A t \in Session : status'[t] # "live" /\ (status'[t] = "none" <=> status[t] = "none")
      /\ LiveIsAttached' /\ Seeks'
    BY DetachFacts DEF PlaybackInv, PlaybackTypeOK, PlayRemote
<1>2. r \in LoadRecord
    BY DEF LoadRecord, PlaybackInv, PlaybackTypeOK
<1>3. load' \in [Session -> LoadRecord] /\ \A t \in Session : load'[t] = IF t = generation' THEN r ELSE load[t]
    BY <1>1, <1>2 DEF PlayRemote, PlaybackInv, PlaybackTypeOK
<1>4. PlaybackTypeOK'
    <2>1. stage' \in Stages /\ failed' \in BOOLEAN
        BY DEF PlayRemote, Stages
    <2>2. pendingSeek' \in 0..seekGeneration'
        BY <1>1
    <2>3. QED BY <1>1, <1>3, <2>1, <2>2 DEF PlaybackInv, PlaybackTypeOK, PlayRemote, volumes
<1>5. Names'
    <2>1. \A t \in Session : t <= generation => t <= generation' /\ t # generation'
        BY <1>1 DEF PlaybackInv, PlaybackTypeOK
    <2>2. status'[generation'] = "none"
        BY <1>1, <2>1 DEF PlaybackInv, Names
    <2>3. \A t \in Session : load'[t].at # "none" => t = generation' \/ load[t].at # "none"
        BY <1>3
    <2>4. \A t \in Session : load'[t].at # "none" => status'[t] = "none" /\ t <= generation'
        BY <1>1, <2>1, <2>2, <2>3 DEF PlaybackInv, Names
    <2>5. QED BY <1>1, <2>1, <2>4 DEF PlaybackInv, Names, PlayRemote
<1>6. Stage'
    BY <1>1, <1>3 DEF PlayRemote, Stage, StageFits, LoadingGoesOn
<1>7. Volumes' /\ Shown'
    BY <1>1 DEF PlayRemote, PlaybackInv, Volumes, Shown, PlayingShown, volumes
<1>8. QED BY <1>1, <1>4, <1>5, <1>6, <1>7 DEF PlaybackInv

\* Stop keeps the invariant.
LEMMA StopKeeps ==
    ASSUME PlaybackInv, ~disposed, Stop
    PROVE  PlaybackInv'
<1> USE Constants DEF Session, NoSession
<1>1. /\ generation' = generation + 1 /\ generation' \in Nat
      /\ session' = NoSession /\ seekGeneration' \in Nat /\ pendingSeek' = 0
      /\ status' \in [Session -> {"none", "live", "stopping", "disposing", "gone"}]
      /\ \A t \in Session : status'[t] # "live" /\ (status'[t] = "none" <=> status[t] = "none")
      /\ LiveIsAttached' /\ Seeks'
    BY DetachFacts DEF PlaybackInv, PlaybackTypeOK, Stop
<1>2. PlaybackTypeOK'
    <2>1. stage' \in Stages /\ failed' \in BOOLEAN
        BY DEF Stop, Stages
    <2>2. pendingSeek' \in 0..seekGeneration'
        BY <1>1
    <2>3. QED BY <1>1, <2>1, <2>2 DEF PlaybackInv, PlaybackTypeOK, Stop, volumes
<1>3. Names'
    <2>1. \A t \in Session : t <= generation => t < generation'
        BY <1>1 DEF PlaybackInv, PlaybackTypeOK
    <2>2. QED BY <1>1, <2>1 DEF PlaybackInv, Names, Stop
<1>4. Stage'
    <2>1. \A t \in Session : load[t].at # "none" => t # generation'
        BY <1>1 DEF PlaybackInv, PlaybackTypeOK, Names
    <2>2. QED BY <1>1, <2>1 DEF Stop, Stage, StageFits, LoadingGoesOn
<1>5. Volumes' /\ Shown'
    BY <1>1 DEF Stop, PlaybackInv, Volumes, Shown, PlayingShown, volumes
<1>6. QED BY <1>1, <1>2, <1>3, <1>4, <1>5 DEF PlaybackInv

\* Dispose keeps the invariant.
LEMMA DisposeKeeps ==
    ASSUME PlaybackInv, Dispose
    PROVE  PlaybackInv'
<1> USE Constants DEF Session, NoSession
<1>1. /\ generation' = generation + 1 /\ generation' \in Nat
      /\ session' = NoSession /\ seekGeneration' \in Nat /\ pendingSeek' = 0
      /\ status' \in [Session -> {"none", "live", "stopping", "disposing", "gone"}]
      /\ \A t \in Session : status'[t] # "live" /\ (status'[t] = "none" <=> status[t] = "none")
      /\ LiveIsAttached' /\ Seeks'
    BY DetachFacts DEF PlaybackInv, PlaybackTypeOK, Dispose
<1>2. PlaybackTypeOK'
    <2>1. pendingSeek' \in 0..seekGeneration' /\ disposed' \in BOOLEAN
        BY <1>1 DEF Dispose
    <2>2. QED BY <1>1, <2>1 DEF PlaybackInv, PlaybackTypeOK, Dispose, volumes
<1>3. Names'
    <2>1. \A t \in Session : t <= generation => t < generation'
        BY <1>1 DEF PlaybackInv, PlaybackTypeOK
    <2>2. QED BY <1>1, <2>1 DEF PlaybackInv, Names, Dispose
<1>4. Stage'
    BY <1>1 DEF Dispose, PlaybackInv, Stage, StageFits
<1>5. Volumes' /\ Shown'
    BY <1>1 DEF Dispose, PlaybackInv, Volumes, Shown, PlayingShown, volumes
<1>6. QED BY <1>1, <1>2, <1>3, <1>4, <1>5 DEF PlaybackInv

\* A pause or resume call is put behind the others: what is shown stays true.
LEMMA CallFacts ==
    ASSUME PlaybackTypeOK, Shown, session # NoSession, NEW do \in {"play", "pause"},
           NEW for \in {"load", "resume", "replay", "pause", "toggle"},
           transport' = [transport EXCEPT ![session] = Append(@, Transport(do, for))],
           UNCHANGED <<stage, session, native>>
    PROVE  /\ transport' \in [Session -> Seq(TransportRecord)] /\ Shown'
           /\ transport'[session] # <<>>
           /\ \A t \in Session \ {session} : transport'[t] = transport[t]
<1> DEFINE x == Transport(do, for)
<1> DEFINE q == transport[session]
<1>1. x \in TransportRecord /\ ~x.done
    BY DEF Transport, TransportRecord
<1>2. session \in Session /\ q \in Seq(TransportRecord) /\ OnlyFirstDone(q)
    BY DEF PlaybackTypeOK, Shown
<1> HIDE DEF x
<1>3. /\ Append(q, x) \in Seq(TransportRecord) /\ Append(q, x) # <<>> /\ OnlyFirstDone(Append(q, x))
      /\ Head(Append(q, x)).done => q # <<>> /\ Head(Append(q, x)) = Head(q)
    BY <1>1, <1>2, AppendFacts
<1>4. /\ transport' \in [Session -> Seq(TransportRecord)]
      /\ transport'[session] = Append(q, x)
      /\ \A t \in Session \ {session} : transport'[t] = transport[t]
    BY <1>2, <1>3 DEF PlaybackTypeOK, x
<1>5. Shown'
    BY <1>2, <1>3, <1>4 DEF Shown, PlayingShown
<1>6. QED BY <1>3, <1>4, <1>5

\* Pause keeps the invariant.
LEMMA PauseKeeps ==
    ASSUME PlaybackInv, NEW for \in {"pause", "toggle"}, ~disposed, Pause(for)
    PROVE  PlaybackInv'
<1> USE DEF PlaybackInv
<1>1. /\ transport' \in [Session -> Seq(TransportRecord)] /\ Shown'
      /\ transport'[session] # <<>>
      /\ \A t \in Session \ {session} : transport'[t] = transport[t]
    BY CallFacts DEF Pause, Call
<1>2. PlaybackTypeOK'
    BY <1>1 DEF PlaybackTypeOK, Pause, Call, volumes
<1>3. Names'
    BY <1>1 DEF PlaybackTypeOK, Names, LiveIsAttached, Pause, Call
<1>4. Stage'
    BY DEF Stage, StageFits, Pause, Call
<1>5. Seeks' /\ Volumes'
    BY DEF Seeks, SeekNeverSticks, Volumes, Pause, Call, volumes
<1>6. QED BY <1>1, <1>2, <1>3, <1>4, <1>5

\* Resume keeps the invariant.
LEMMA ResumeKeeps ==
    ASSUME PlaybackInv, NEW for \in {"resume", "toggle"}, ~disposed, Resume(for)
    PROVE  PlaybackInv'
<1> USE DEF PlaybackInv
<1>1. /\ transport' \in [Session -> Seq(TransportRecord)] /\ Shown'
      /\ transport'[session] # <<>>
      /\ \A t \in Session \ {session} : transport'[t] = transport[t]
    BY CallFacts DEF Resume, Call
<1>2. PlaybackTypeOK'
    BY <1>1 DEF PlaybackTypeOK, Resume, Call, volumes
<1>3. Names'
    BY <1>1 DEF PlaybackTypeOK, Names, LiveIsAttached, Resume, Call
<1>4. Stage'
    BY DEF Stage, StageFits, Resume, Call
<1>5. Seeks' /\ Volumes'
    BY DEF Seeks, SeekNeverSticks, Volumes, Resume, Call, volumes
<1>6. QED BY <1>1, <1>2, <1>3, <1>4, <1>5

\* ReplayCurrent keeps the invariant.
LEMMA ReplayCurrentKeeps ==
    ASSUME PlaybackInv, ~disposed, ReplayCurrent
    PROVE  PlaybackInv'
<1> USE DEF PlaybackInv
<1> DEFINE c == Seeking("replay", seekGeneration)
<1>1. session \in Session /\ session # NoSession /\ session' = session /\ stage = "completed"
    BY DEF ReplayCurrent, PlaybackTypeOK
<1>2. c \in ControlRecord /\ c.for = "replay" /\ c.do = "seek"
    BY Constants DEF Seeking, ControlRecord, PlaybackTypeOK
<1> HIDE DEF c
<1>3. \A t \in Session : controls'[t] = IF t = session THEN controls[t] \cup {c} ELSE controls[t]
    BY <1>1 DEF ReplayCurrent, PlaybackTypeOK, c
<1>4. PlaybackTypeOK'
    <2>1. controls' \in [Session -> SUBSET ControlRecord]
        BY <1>1, <1>2 DEF ReplayCurrent, PlaybackTypeOK, c
    <2>2. QED BY <2>1 DEF ReplayCurrent, PlaybackTypeOK, volumes, Stages
<1>5. Names'
    BY <1>1, <1>3 DEF Names, LiveIsAttached, ReplayCurrent
<1>6. Stage'
    <2>1. c \in controls'[session']
        BY <1>1, <1>3
    <2>2. LoadingGoesOn'
        BY <1>1, <1>2, <2>1 DEF LoadingGoesOn
    <2>3. QED BY <1>1, <2>1, <2>2 DEF Stage, StageFits, ReplayCurrent
<1>7. Seeks'
    BY <1>1, <1>3 DEF Seeks, SeekNeverSticks, ReplayCurrent
<1>8. Volumes'
    <2>1. \A t \in Session : \A d \in controls'[t] : d.do = "volume" => d \in controls[t]
        BY <1>2, <1>3
    <2>2. controls[session] \subseteq controls'[session]
        BY <1>1, <1>3
    <2>3. QED BY <1>1, <2>1, <2>2 DEF Volumes, ReplayCurrent, volumes
<1>9. Shown'
    BY DEF Shown, PlayingShown, ReplayCurrent
<1>10. QED BY <1>4, <1>5, <1>6, <1>7, <1>8, <1>9

\* SeekToMs keeps the invariant.
LEMMA SeekToMsKeeps ==
    ASSUME PlaybackInv, ~disposed, SeekToMs
    PROVE  PlaybackInv'
<1> USE DEF PlaybackInv
<1> DEFINE c == Seeking("seek", seekGeneration + 1)
<1>1. session \in Session /\ session # NoSession /\ session' = session /\ stage \in {"playing", "paused"}
    BY DEF SeekToMs, PlaybackTypeOK
<1>2. /\ c \in ControlRecord /\ c.for = "seek" /\ c.do = "seek" /\ c.gen = seekGeneration'
      /\ seekGeneration' \in Nat /\ pendingSeek' = seekGeneration'
    BY Constants DEF Seeking, ControlRecord, PlaybackTypeOK, SeekToMs
<1>3. \A t \in Session : controls'[t] = IF t = session THEN controls[t] \cup {c} ELSE controls[t]
    BY <1>1 DEF SeekToMs, PlaybackTypeOK
<1>4. PlaybackTypeOK'
    <2>1. controls' \in [Session -> SUBSET ControlRecord]
        BY <1>1, <1>2 DEF SeekToMs, PlaybackTypeOK
    <2>2. QED BY <1>2, <2>1 DEF SeekToMs, PlaybackTypeOK, volumes
<1> HIDE DEF c
<1>5. Names'
    BY <1>1, <1>3 DEF Names, LiveIsAttached, SeekToMs
<1>6. Stage'
    BY <1>1 DEF Stage, StageFits, SeekToMs
<1>7. Seeks'
    <2>1. c \in controls'[session']
        BY <1>1, <1>3
    <2>2. QED BY <1>1, <1>2, <2>1 DEF Seeks, SeekNeverSticks
<1>8. Volumes'
    <2>1. \A t \in Session : \A d \in controls'[t] : d.do = "volume" => d \in controls[t]
        BY <1>2, <1>3
    <2>2. controls[session] \subseteq controls'[session]
        BY <1>1, <1>3
    <2>3. QED BY <1>1, <2>1, <2>2 DEF Volumes, SeekToMs, volumes
<1>9. Shown'
    BY DEF Shown, PlayingShown, SeekToMs
<1>10. QED BY <1>4, <1>5, <1>6, <1>7, <1>8, <1>9

\* SetVolume keeps the invariant.
LEMMA SetVolumeKeeps ==
    ASSUME PlaybackInv, NEW v \in Level, ~disposed, SetVolume(v)
    PROVE  PlaybackInv'
<1> USE DEF PlaybackInv
<1> DEFINE c == Applying("volume", volumeGeneration', v)
<1>1. /\ volume' = v /\ volumeGeneration' \in Nat
      /\ \/ volumeGeneration' = volumeGeneration /\ volume' = volume
         \/ volumeGeneration' = volumeGeneration + 1
    BY DEF SetVolume, volumes, PlaybackTypeOK
<1>2. c \in ControlRecord /\ c.do = "volume" /\ c.to = v /\ c.gen = volumeGeneration'
    BY <1>1 DEF Applying, ControlRecord
<1> HIDE DEF c
<1>3. \A t \in Session : controls'[t] = IF t = session THEN controls[t] \cup {c} ELSE controls[t]
    <2>1. \A t \in Session : t # NoSession
        BY Constants DEF Session, NoSession
    <2>2. CASE session = NoSession
        BY <2>1, <2>2 DEF SetVolume
    <2>3. CASE session # NoSession
        BY <2>3 DEF SetVolume, PlaybackTypeOK, c
    <2>4. QED BY <2>2, <2>3
<1>4. PlaybackTypeOK'
    <2>1. controls' \in [Session -> SUBSET ControlRecord]
        BY <1>2 DEF SetVolume, PlaybackTypeOK, c
    <2>2. QED BY <1>1, <2>1 DEF SetVolume, PlaybackTypeOK, tracked
<1>5. Names'
    <2>1. \A t \in Session : status[t] = "none" => t # session
        BY DEF Names, LiveIsAttached
    <2>2. QED BY <1>3, <2>1 DEF Names, LiveIsAttached, SetVolume, tracked
<1>6. Stage'
    <2>1. session # NoSession => session \in Session
        BY DEF PlaybackTypeOK
    <2>2. LoadingGoesOn => LoadingGoesOn'
        BY <1>3, <2>1 DEF LoadingGoesOn, SetVolume, tracked
    <2>3. QED BY <2>2 DEF Stage, StageFits, SetVolume, tracked
<1>7. Seeks'
    BY <1>3 DEF Seeks, SeekNeverSticks, SetVolume, tracked, PlaybackTypeOK
<1>8. Volumes'
    <2>1. session # NoSession => c \in controls'[session] /\ session' = session
        BY <1>3 DEF SetVolume, tracked, PlaybackTypeOK
    <2>2. \A t \in Session : \A d \in controls'[t] :
             d.do = "volume" => d.gen <= volumeGeneration' /\ (d.gen = volumeGeneration' => d.to = volume')
        <3> SUFFICES ASSUME NEW t \in Session, NEW d \in controls'[t], d.do = "volume"
                     PROVE  d.gen <= volumeGeneration' /\ (d.gen = volumeGeneration' => d.to = volume')
            OBVIOUS
        <3>1. CASE d \in controls[t]
            <4>1. d.gen \in Nat /\ volumeGeneration \in Nat
                BY <3>1 DEF PlaybackTypeOK, ControlRecord
            <4>2. QED BY <1>1, <3>1, <4>1 DEF Volumes
        <3>2. CASE d = c
            BY <1>1, <1>2, <3>2
        <3>3. QED BY <1>3, <3>1, <3>2
    <2>3. QED BY <1>2, <2>1, <2>2 DEF Volumes, SetVolume, tracked
<1>9. Shown'
    BY DEF Shown, PlayingShown, SetVolume, tracked
<1>10. QED BY <1>4, <1>5, <1>6, <1>7, <1>8, <1>9

\* ReplacedIsGone keeps the invariant.
LEMMA ReplacedIsGoneKeeps ==
    ASSUME PlaybackInv, NEW s \in Session, ReplacedIsGone(s)
    PROVE  PlaybackInv'
<1> USE DEF PlaybackInv
<1> DEFINE next == [load[s] EXCEPT !.at = "loading"]
<1>1. load[s] \in LoadRecord /\ next \in LoadRecord /\ NoLoad \in LoadRecord
    BY LoadingAtFacts, Constants DEF PlaybackTypeOK, LoadRecord, NoLoad, NoSession
<1>2. load[s].at = "stopping" /\ next.at = "loading"
    BY <1>1 DEF ReplacedIsGone, LoadRecord
<1>3. \/ ~disposed /\ generation = s /\ load' = [load EXCEPT ![s] = next]
      \/ ~(~disposed /\ generation = s) /\ load' = [load EXCEPT ![s] = NoLoad]
    BY DEF ReplacedIsGone
<1> HIDE DEF next
<1>4. load' \in [Session -> LoadRecord] /\ \A t \in Session \ {s} : load'[t] = load[t]
    BY <1>1, <1>3 DEF PlaybackTypeOK
<1>5. \/ ~disposed /\ generation = s /\ load'[s].at = "loading"
      \/ ~(~disposed /\ generation = s) /\ load'[s].at = "none"
    BY <1>2, <1>3 DEF PlaybackTypeOK, NoLoad
<1>6. PlaybackTypeOK'
    BY <1>4 DEF PlaybackTypeOK, ReplacedIsGone, tracked, volumes, players
<1>7. \A t \in Session : load'[t].at # "none" => load[t].at # "none"
    BY <1>2, <1>4
<1>8. Names'
    BY <1>7 DEF Names, LiveIsAttached, ReplacedIsGone, tracked, players
<1>9. Stage'
    <2>1. LoadingGoesOn /\ ~disposed => LoadingGoesOn'
        BY <1>4, <1>5 DEF LoadingGoesOn, ReplacedIsGone, tracked, players
    <2>2. QED BY <1>7, <2>1 DEF Stage, StageFits, ReplacedIsGone, tracked
<1>10. Seeks' /\ Volumes'
    BY DEF Seeks, SeekNeverSticks, Volumes, ReplacedIsGone, tracked, volumes, players
<1>11. Shown'
    BY DEF Shown, PlayingShown, ReplacedIsGone, tracked, players
<1>12. QED BY <1>6, <1>8, <1>9, <1>10, <1>11

\* LoadSucceeds keeps the invariant.
LEMMA LoadSucceedsKeeps ==
    ASSUME PlaybackInv, NEW s \in Session, LoadSucceeds(s)
    PROVE  PlaybackInv'
<1> USE DEF PlaybackInv
<1> DEFINE c == Applying("load", volumeGeneration, volume)
<1>1. /\ load[s].at = "loading" /\ status[s] = "none" /\ s <= generation
      /\ transport[s] = <<>> /\ controls[s] = {} /\ native[s] = "idle" /\ s # NoSession
    BY Constants DEF LoadSucceeds, Names, Session, NoSession
<1>2. c \in ControlRecord /\ c.for = "load" /\ c.do = "volume" /\ c.gen = volumeGeneration /\ c.to = volume
    BY DEF Applying, ControlRecord, PlaybackTypeOK
<1>3. /\ load' \in [Session -> LoadRecord] /\ load'[s].at = "none"
      /\ \A t \in Session \ {s} : load'[t] = load[t]
    <2>1. NoLoad \in LoadRecord /\ NoLoad.at = "none"
        BY DEF NoLoad, LoadRecord
    <2>2. QED BY <2>1 DEF LoadSucceeds, PlaybackTypeOK
<1>4. source' \in [Session -> Source \cup {NoSource}]
    <2>1. load[s].from \in Source \cup {NoSource}
        BY DEF PlaybackTypeOK, LoadRecord
    <2>2. QED BY <2>1 DEF LoadSucceeds, PlaybackTypeOK
<1>5. UNCHANGED <<stage, failed, generation, seekGeneration, pendingSeek, volumes, disposed, transport,
                  native, level>>
    BY DEF LoadSucceeds
<1>6. CASE ~disposed /\ generation = s
    <2>1. /\ session' = s
          /\ status' = [status EXCEPT ![s] = "live"]
          /\ controls' = [controls EXCEPT ![s] = {c}]
        BY <1>6 DEF LoadSucceeds
    <2> HIDE DEF c
    <2>2. session = NoSession /\ stage = "loading"
        BY <1>1, <1>6 DEF Stage
    <2>3. /\ controls' \in [Session -> SUBSET ControlRecord] /\ controls'[s] = {c}
          /\ \A t \in Session \ {s} : controls'[t] = controls[t]
        BY <1>2, <2>1 DEF PlaybackTypeOK
    <2>4. /\ status' \in [Session -> {"none", "live", "stopping", "disposing", "gone"}] /\ status'[s] = "live"
          /\ \A t \in Session \ {s} : status'[t] = status[t]
        BY <2>1 DEF PlaybackTypeOK
    <2>5. PlaybackTypeOK'
        BY <1>3, <1>4, <1>5, <2>1, <2>3, <2>4 DEF PlaybackTypeOK, volumes
    <2>6. Names'
        <3>1. LiveIsAttached'
            BY <2>1, <2>2, <2>4, Constants DEF Names, LiveIsAttached, Session, NoSession
        <3>2. \A t \in Session : load'[t].at # "none" => load[t].at # "none" /\ t # s
            BY <1>3
        <3>3. \A t \in Session : status'[t] # "none" => status[t] # "none" \/ t = s
            BY <2>4
        <3>4. \A t \in Session : status'[t] = "none" => t # s /\ status[t] = "none"
            BY <2>4
        <3>5. \A t \in Session : load'[t].at # "none" => status'[t] = "none"
            BY <2>4, <3>2 DEF Names
        <3>6. QED BY <1>1, <1>5, <1>6, <2>1, <2>3, <3>1, <3>2, <3>3, <3>4, <3>5 DEF Names
    <2>7. Stage'
        <3>1. LoadingGoesOn'
            BY <1>1, <1>2, <2>1, <2>3 DEF LoadingGoesOn
        <3>2. \A t \in Session : load'[t].at # "none" => t # generation'
            BY <1>3, <1>5, <1>6
        <3>3. QED BY <1>1, <1>5, <2>1, <2>2, <3>1, <3>2 DEF Stage, StageFits
    <2>8. Seeks'
        BY <1>5, <2>2 DEF Seeks, SeekNeverSticks
    <2>9. Volumes'
        <3>1. c \in controls'[session']
            BY <2>1, <2>3
        <3>2. volume' = volume /\ volumeGeneration' = volumeGeneration /\ volumeGeneration \in Nat
            BY <1>5 DEF volumes, PlaybackTypeOK
        <3>3. QED BY <1>2, <2>3, <3>1, <3>2 DEF Volumes
    <2>10. Shown'
        BY <1>1, <1>5, <2>1, <2>2 DEF Shown, PlayingShown
    <2>11. QED BY <2>5, <2>6, <2>7, <2>8, <2>9, <2>10
<1>7. CASE disposed \/ generation # s
    <2>1. session' = session /\ controls' = controls /\ status' = [status EXCEPT ![s] = "disposing"]
        BY <1>7 DEF LoadSucceeds
    <2>2. /\ status' \in [Session -> {"none", "live", "stopping", "disposing", "gone"}] /\ status'[s] = "disposing"
          /\ \A t \in Session \ {s} : status'[t] = status[t]
        BY <2>1 DEF PlaybackTypeOK
    <2>3. PlaybackTypeOK'
        BY <1>3, <1>4, <1>5, <2>1, <2>2 DEF PlaybackTypeOK, volumes
    <2>4. session # s
        BY <1>1, <1>7 DEF Names
    <2>5. Names'
        BY <1>1, <1>3, <1>5, <2>1, <2>2, <2>4 DEF Names, LiveIsAttached
    <2>6. Stage'
        <3>1. LoadingGoesOn /\ ~disposed => LoadingGoesOn'
            BY <1>3, <1>5, <1>7, <2>1 DEF LoadingGoesOn
        <3>2. QED BY <1>3, <1>5, <2>1, <3>1 DEF Stage, StageFits
    <2>7. Seeks' /\ Volumes' /\ Shown'
        BY <1>5, <2>1 DEF Seeks, SeekNeverSticks, Volumes, Shown, PlayingShown, volumes
    <2>8. QED BY <2>3, <2>5, <2>6, <2>7
<1>8. QED BY <1>6, <1>7

\* LoadFails keeps the invariant.
LEMMA LoadFailsKeeps ==
    ASSUME PlaybackInv, NEW s \in Session, LoadFails(s)
    PROVE  PlaybackInv'
<1> USE DEF PlaybackInv
<1>1. /\ load[s].at # "none" /\ load' \in [Session -> LoadRecord] /\ load'[s].at = "none"
      /\ \A t \in Session \ {s} : load'[t] = load[t]
    <2>1. NoLoad \in LoadRecord /\ NoLoad.at = "none"
        BY DEF NoLoad, LoadRecord
    <2>2. QED BY <2>1 DEF LoadFails, PlaybackTypeOK
<1>2. UNCHANGED <<session, generation, seekGeneration, pendingSeek, volumes, disposed, players>>
    BY DEF LoadFails
<1>3. PlaybackTypeOK'
    BY <1>1, <1>2 DEF LoadFails, PlaybackTypeOK, volumes, players, Stages
<1>4. Names'
    BY <1>1, <1>2 DEF Names, LiveIsAttached, players
<1>5. Stage'
    <2>1. CASE ~disposed /\ generation = s
        <3>1. session = NoSession /\ stage' = "error" /\ failed' = TRUE
            BY <1>1, <2>1 DEF LoadFails, Stage
        <3>2. QED BY <1>1, <1>2, <2>1, <3>1 DEF Stage, StageFits
    <2>2. CASE disposed \/ generation # s
        <3>1. stage' = stage /\ failed' = failed
            BY <2>2 DEF LoadFails
        <3>2. LoadingGoesOn /\ ~disposed => LoadingGoesOn'
            BY <1>1, <1>2, <2>2 DEF LoadingGoesOn, players
        <3>3. QED BY <1>1, <1>2, <3>1, <3>2 DEF Stage, StageFits
    <2>3. QED BY <2>1, <2>2
<1>6. Seeks' /\ Volumes'
    BY <1>2 DEF Seeks, SeekNeverSticks, Volumes, volumes, players
<1>7. Shown'
    <2>1. session # NoSession => stage' = stage
        BY <1>1 DEF LoadFails, Stage
    <2>2. QED BY <1>2, <2>1 DEF Shown, PlayingShown, players
<1>8. QED BY <1>3, <1>4, <1>5, <1>6, <1>7

\* StopSettles keeps the invariant.
LEMMA StopSettlesKeeps ==
    ASSUME PlaybackInv, NEW s \in Session, StopSettles(s)
    PROVE  PlaybackInv'
<1> USE DEF PlaybackInv
<1>1. /\ status[s] = "stopping" /\ session # s
      /\ UNCHANGED <<tracked, volumes, disposed, load, source, transport, controls, level>>
    BY DEF StopSettles, Names, LiveIsAttached
<1>2. /\ status' \in [Session -> {"none", "live", "stopping", "disposing", "gone"}] /\ status'[s] = "disposing"
      /\ \A t \in Session \ {s} : status'[t] = status[t]
    BY DEF StopSettles, PlaybackTypeOK
<1>3. /\ native' \in [Session -> PlayerStates]
      /\ \A t \in Session \ {s} : native'[t] = native[t]
    BY DEF StopSettles, PlaybackTypeOK, PlayerStates
<1>4. PlaybackTypeOK'
    BY <1>1, <1>2, <1>3 DEF PlaybackTypeOK, tracked, volumes
<1>5. Names'
    BY <1>1, <1>2, <1>3 DEF Names, LiveIsAttached, tracked
<1>6. Stage' /\ Seeks' /\ Volumes'
    BY <1>1 DEF Stage, StageFits, LoadingGoesOn, Seeks, SeekNeverSticks, Volumes, tracked, volumes
<1>7. Shown'
    BY <1>1, <1>3 DEF Shown, PlayingShown, tracked, PlaybackTypeOK
<1>8. QED BY <1>4, <1>5, <1>6, <1>7

\* DisposeSettles keeps the invariant.
LEMMA DisposeSettlesKeeps ==
    ASSUME PlaybackInv, NEW s \in Session, DisposeSettles(s)
    PROVE  PlaybackInv'
<1> USE DEF PlaybackInv
<1>1. /\ status[s] = "disposing" /\ session # s
      /\ UNCHANGED <<tracked, volumes, disposed, load, transport, controls>>
    BY DEF DisposeSettles, Names, LiveIsAttached
<1>2. /\ status' \in [Session -> {"none", "live", "stopping", "disposing", "gone"}] /\ status'[s] = "gone"
      /\ \A t \in Session \ {s} : status'[t] = status[t]
    BY DEF DisposeSettles, PlaybackTypeOK
<1>3. /\ native' \in [Session -> PlayerStates] /\ level' \in [Session -> Level]
      /\ source' \in [Session -> Source \cup {NoSource}]
      /\ \A t \in Session \ {s} : native'[t] = native[t] /\ level'[t] = level[t]
    BY Constants DEF DisposeSettles, PlaybackTypeOK, PlayerStates
<1>4. PlaybackTypeOK'
    BY <1>1, <1>2, <1>3 DEF PlaybackTypeOK, tracked, volumes
<1>5. Names'
    BY <1>1, <1>2, <1>3 DEF Names, LiveIsAttached, tracked
<1>6. Stage' /\ Seeks'
    BY <1>1 DEF Stage, StageFits, LoadingGoesOn, Seeks, SeekNeverSticks, tracked
<1>7. Volumes' /\ Shown'
    BY <1>1, <1>3 DEF Volumes, Shown, PlayingShown, tracked, volumes, PlaybackTypeOK
<1>8. QED BY <1>4, <1>5, <1>6, <1>7

\* TakesEffect keeps the invariant.
LEMMA TakesEffectKeeps ==
    ASSUME PlaybackInv, NEW s \in Session, TakesEffect(s)
    PROVE  PlaybackInv'
<1> USE DEF PlaybackInv
<1> DEFINE q == transport[s]
<1>1. /\ q \in Seq(TransportRecord) /\ q # <<>> /\ OnlyFirstDone(q) /\ ~Head(q).done
      /\ Head(q).do \in {"play", "pause"}
    <2>1. q \in Seq(TransportRecord) /\ q # <<>> /\ OnlyFirstDone(q) /\ ~Head(q).done
        BY DEF TakesEffect, PlaybackTypeOK, Shown
    <2>2. Head(q) \in TransportRecord
        BY <2>1, TailFacts
    <2>3. QED BY <2>1, <2>2 DEF TransportRecord
<1>2. /\ HeadDone(q) \in Seq(TransportRecord) /\ HeadDone(q) # <<>> /\ OnlyFirstDone(HeadDone(q))
      /\ Head(HeadDone(q)).do = Head(q).do
    BY <1>1, HeadDoneFacts DEF OnlyFirstDone
<1>3. /\ transport' \in [Session -> Seq(TransportRecord)] /\ transport'[s] = HeadDone(q)
      /\ \A t \in Session \ {s} : transport'[t] = transport[t]
    BY <1>2 DEF TakesEffect, PlaybackTypeOK
<1>4. UNCHANGED <<failed, session, generation, seekGeneration, pendingSeek, volumes, disposed, load,
                  status, source, controls, level>>
    BY DEF TakesEffect
<1> HIDE DEF q
<1>5. /\ native' \in [Session -> PlayerStates]
      /\ native'[s] = "playing" <=> Head(q).do = "play"
      /\ \A t \in Session \ {s} : native'[t] = native[t]
    BY <1>1 DEF TakesEffect, PlaybackTypeOK, PlayerStates, q
<1>6. stage' \in {stage, "playing", "paused"} /\ (session # s => stage' = stage)
    BY DEF TakesEffect, Event, Current
<1>7. status[s] # "none"
    BY <1>1 DEF Names, q
<1>8. PlaybackTypeOK'
    BY <1>3, <1>4, <1>5, <1>6 DEF PlaybackTypeOK, volumes, Stages
<1>9. Names'
    BY <1>3, <1>4, <1>5, <1>7 DEF Names, LiveIsAttached
<1>10. Stage'
    <2>1. CASE session = s
        <3>1. LoadingGoesOn'
            BY <1>2, <1>3, <1>4, <2>1, Constants DEF LoadingGoesOn, Session, NoSession
        <3>2. stage # "error" /\ session # NoSession
            BY <2>1, Constants DEF Stage, StageFits, Session, NoSession
        <3>3. \A g \in Session : load[g].at # "none" => ~(g = generation /\ ~disposed)
            BY <3>2 DEF Stage
        <3>4. QED BY <1>4, <1>6, <3>1, <3>2, <3>3 DEF Stage, StageFits
    <2>2. CASE session # s
        <3>1. LoadingGoesOn => LoadingGoesOn'
            BY <1>3, <1>4, <2>2 DEF LoadingGoesOn, PlaybackTypeOK
        <3>2. QED BY <1>4, <1>6, <2>2, <3>1 DEF Stage, StageFits
    <2>3. QED BY <2>1, <2>2
<1>11. Seeks' /\ Volumes'
    BY <1>4 DEF Seeks, SeekNeverSticks, Volumes, volumes
<1>12. Shown'
    <2>1. \A t \in Session : OnlyFirstDone(transport'[t])
        BY <1>2, <1>3 DEF Shown
    <2>2. CASE session = s
        BY <1>2, <1>3, <1>4, <1>5, <2>1, <2>2 DEF Shown, PlayingShown
    <2>3. CASE session # s
        BY <1>3, <1>4, <1>5, <1>6, <2>1, <2>3 DEF Shown, PlayingShown, PlaybackTypeOK
    <2>4. QED BY <2>2, <2>3
<1>13. QED BY <1>8, <1>9, <1>10, <1>11, <1>12

\* TransportAnswers keeps the invariant.
LEMMA TransportAnswersKeeps ==
    ASSUME PlaybackInv, NEW s \in Session, TransportAnswers(s)
    PROVE  PlaybackInv'
<1> USE DEF PlaybackInv
<1> DEFINE q == transport[s]
<1>1. /\ q \in Seq(TransportRecord) /\ q # <<>> /\ OnlyFirstDone(q) /\ Head(q).done
    BY DEF TransportAnswers, PlaybackTypeOK, Shown
<1>2. /\ Tail(q) \in Seq(TransportRecord) /\ OnlyFirstDone(Tail(q))
      /\ Tail(q) # <<>> => ~Head(Tail(q)).done
    BY <1>1, TailFacts
<1>3. /\ transport' \in [Session -> Seq(TransportRecord)] /\ transport'[s] = Tail(q)
      /\ \A t \in Session \ {s} : transport'[t] = transport[t]
    BY <1>2 DEF TransportAnswers, PlaybackTypeOK
<1>4. UNCHANGED <<failed, session, generation, seekGeneration, pendingSeek, volumes, disposed, load,
                  status, source, controls, native, level>>
    BY DEF TransportAnswers
<1>5. IF session = s THEN stage' = (IF Head(q).do = "play" THEN "playing" ELSE "paused")
      ELSE stage' = stage
    BY Constants DEF TransportAnswers, Event, Current, Names, Session, NoSession
<1>6. session = s => IF Head(q).do = "play" THEN native[s] \in {"playing", "overrun"}
                     ELSE native[s] # "playing"
    BY <1>1, Constants DEF Shown, Session, NoSession
<1>7. status[s] # "none"
    BY <1>1 DEF Names
<1> HIDE DEF q
<1>8. PlaybackTypeOK'
    <2>1. stage' \in Stages
        BY <1>5 DEF PlaybackTypeOK, Stages
    <2>2. QED BY <1>3, <1>4, <2>1 DEF PlaybackTypeOK, volumes
<1>9. Names'
    BY <1>3, <1>4, <1>7 DEF Names, LiveIsAttached
<1>10. Stage'
    <2>1. CASE session = s
        <3>1. stage' \in {"playing", "paused"} /\ session # NoSession
            BY <1>5, <2>1, Constants DEF Session, NoSession
        <3>2. QED BY <1>4, <3>1 DEF Stage, StageFits
    <2>2. CASE session # s
        <3>1. LoadingGoesOn => LoadingGoesOn'
            BY <1>3, <1>4, <2>2 DEF LoadingGoesOn, PlaybackTypeOK
        <3>2. QED BY <1>4, <1>5, <2>2, <3>1 DEF Stage, StageFits
    <2>3. QED BY <2>1, <2>2
<1>11. Seeks' /\ Volumes'
    BY <1>4 DEF Seeks, SeekNeverSticks, Volumes, volumes
<1>12. Shown'
    <2>1. \A t \in Session : OnlyFirstDone(transport'[t])
        BY <1>2, <1>3 DEF Shown
    <2>2. CASE session = s
        BY <1>2, <1>3, <1>4, <1>5, <1>6, <2>1, <2>2 DEF Shown, PlayingShown
    <2>3. CASE session # s
        BY <1>3, <1>4, <1>5, <2>1, <2>3 DEF Shown, PlayingShown, PlaybackTypeOK
    <2>4. QED BY <2>2, <2>3
<1>13. QED BY <1>8, <1>9, <1>10, <1>11, <1>12

\* Completes keeps the invariant.
LEMMA CompletesKeeps ==
    ASSUME PlaybackInv, NEW s \in Session, Completes(s)
    PROVE  PlaybackInv'
<1> USE DEF PlaybackInv
<1> DEFINE end == IF PlayUnanswered(s) THEN "overrun" ELSE "completed"
<1>1. /\ native[s] = "playing" /\ native' = [native EXCEPT ![s] = end]
      /\ UNCHANGED <<failed, session, generation, seekGeneration, pendingSeek, volumes, disposed, load,
                     status, source, transport, controls, level>>
    BY DEF Completes
<1>2. stage' = IF session = s THEN "completed" ELSE stage
    BY Constants DEF Completes, Event, Current, Names, Session, NoSession
<1>3. PlaybackTypeOK'
    <2>1. stage' \in Stages
        BY <1>2 DEF PlaybackTypeOK, Stages
    <2>2. native' \in [Session -> PlayerStates]
        BY <1>1 DEF PlaybackTypeOK, PlayerStates
    <2>3. QED BY <1>1, <2>1, <2>2 DEF PlaybackTypeOK, volumes
<1>4. Names'
    BY <1>1 DEF Names, LiveIsAttached, PlaybackTypeOK
<1>5. Stage'
    <2>1. CASE session = s
        BY <1>1, <1>2, <2>1, Constants DEF Stage, StageFits, Session, NoSession
    <2>2. CASE session # s
        BY <1>1, <1>2, <2>2 DEF Stage, StageFits, LoadingGoesOn
    <2>3. QED BY <2>1, <2>2
<1>6. Seeks' /\ Volumes'
    BY <1>1 DEF Seeks, SeekNeverSticks, Volumes, volumes
<1>7. Shown'
    <2>1. /\ session \in Session \cup {NoSession} /\ end \in {"completed", "overrun"}
          /\ \A t \in Session : native'[t] = IF t = s THEN end ELSE native[t]
        BY <1>1 DEF PlaybackTypeOK
    <2>2. transport[s] # <<>> /\ Head(transport[s]).done /\ Head(transport[s]).do = "play" => end = "overrun"
        BY DEF PlayUnanswered
    <2> HIDE DEF end
    <2>3. QED BY <1>1, <1>2, <2>1, <2>2 DEF Shown, PlayingShown
<1>8. QED BY <1>3, <1>4, <1>5, <1>6, <1>7

\* TransportFails keeps the invariant.
LEMMA TransportFailsKeeps ==
    ASSUME PlaybackInv, NEW s \in Session, TransportFails(s)
    PROVE  PlaybackInv'
<1> DEFINE q == transport[s]
<1>1. q \in Seq(TransportRecord) /\ q # <<>> /\ OnlyFirstDone(q)
    BY DEF TransportFails, PlaybackInv, PlaybackTypeOK, Shown
<1>2. Tail(q) \in Seq(TransportRecord) /\ OnlyFirstDone(Tail(q))
    BY <1>1, TailFacts
<1>3. /\ transport' \in [Session -> Seq(TransportRecord)] /\ transport'[s] = Tail(q)
      /\ \A t \in Session \ {s} : transport'[t] = transport[t]
    BY <1>2 DEF TransportFails, PlaybackInv, PlaybackTypeOK
<1>4. FailSession(s) /\ UNCHANGED <<volumes, disposed, load, source, controls, native, level>>
    BY DEF TransportFails
<1>5. status[s] # "none"
    BY <1>1 DEF PlaybackInv, Names
<1> HIDE DEF q
<1>6. \A t \in Session : OnlyFirstDone(transport'[t])
    BY <1>2, <1>3 DEF PlaybackInv, Shown
<1>7. native \in [Session -> PlayerStates] /\ level \in [Session -> Level]
      /\ controls \in [Session -> SUBSET ControlRecord]
    BY DEF PlaybackInv, PlaybackTypeOK
<1>8. CASE Current(s)
    <2>1. \A t \in Session : transport[t] = <<>> => transport'[t] = <<>>
        BY <1>1, <1>3 DEF q
    <2>2. QED BY <1>3, <1>4, <1>6, <1>7, <1>8, <2>1, FailKeeps
<1>9. CASE ~Current(s)
    <2>1. UNCHANGED <<tracked, status>> /\ session # s
        BY <1>4, <1>9, NoFailFacts DEF PlaybackInv
    <2>2. QED BY <1>3, <1>4, <1>5, <1>6, <1>7, <2>1, DetachedKeeps
<1>10. QED BY <1>8, <1>9

\* PlayerFails keeps the invariant.
LEMMA PlayerFailsKeeps ==
    ASSUME PlaybackInv, NEW s \in Session, PlayerFails(s)
    PROVE  PlaybackInv'
<1>1. Current(s) /\ FailSession(s)
      /\ UNCHANGED <<volumes, disposed, load, source, transport, controls, native, level>>
    BY DEF PlayerFails
<1>2. /\ transport \in [Session -> Seq(TransportRecord)] /\ controls \in [Session -> SUBSET ControlRecord]
      /\ \A t \in Session : OnlyFirstDone(transport[t])
    BY DEF PlaybackInv, PlaybackTypeOK, Shown
<1>3. QED BY <1>1, <1>2, FailKeeps

\* VolumeFails keeps the invariant.
LEMMA VolumeFailsKeeps ==
    ASSUME PlaybackInv, NEW s \in Session, NEW c \in controls[s], VolumeFails(s, c)
    PROVE  PlaybackInv'
<1>1. /\ FailSession(s) /\ controls' = [controls EXCEPT ![s] = @ \ {c}]
      /\ UNCHANGED <<volumes, disposed, load, source, transport, native, level>>
    BY DEF VolumeFails
<1>2. /\ controls' \in [Session -> SUBSET ControlRecord]
      /\ \A t \in Session \ {s} : controls'[t] = controls[t]
      /\ \A t \in Session : controls'[t] \subseteq controls[t]
      /\ status[s] # "none"
    BY <1>1, ControlRemoved
<1>3. CASE Current(s)
    BY <1>1, <1>2, <1>3, PlayersTypes, FailKeeps
<1>4. CASE ~Current(s)
    <2>1. UNCHANGED <<tracked, status>> /\ session # s
        BY <1>1, <1>4, NoFailFacts DEF PlaybackInv
    <2>2. QED BY <1>1, <1>2, <2>1, PlayersTypes, DetachedKeeps
<1>5. QED BY <1>3, <1>4

\* SeekFails keeps the invariant.
LEMMA SeekFailsKeeps ==
    ASSUME PlaybackInv, NEW s \in Session, NEW c \in controls[s], SeekFails(s, c)
    PROVE  PlaybackInv'
<1>1. /\ c.do = "seek" /\ controls' = [controls EXCEPT ![s] = @ \ {c}]
      /\ UNCHANGED <<volumes, disposed, load, source, transport, native, level>>
      /\ \/ FailSession(s)
         \/ c.for # "replay" /\ c.gen # seekGeneration /\ UNCHANGED <<tracked, status>>
    BY DEF SeekFails
<1>2. /\ controls' \in [Session -> SUBSET ControlRecord] /\ controls'[s] = controls[s] \ {c}
      /\ \A t \in Session \ {s} : controls'[t] = controls[t]
      /\ \A t \in Session : controls'[t] \subseteq controls[t]
      /\ status[s] # "none" /\ c \in ControlRecord
    BY <1>1, ControlRemoved
<1>3. s # NoSession
    BY Constants DEF Session, NoSession
<1>4. CASE FailSession(s) /\ Current(s)
    BY <1>1, <1>2, <1>4, PlayersTypes, FailKeeps
<1>5. CASE FailSession(s) /\ ~Current(s)
    <2>1. UNCHANGED <<tracked, status>> /\ session # s
        BY <1>5, NoFailFacts DEF PlaybackInv
    <2>2. QED BY <1>1, <1>2, <2>1, PlayersTypes, DetachedKeeps
<1>6. CASE session # s /\ UNCHANGED <<tracked, status>>
    BY <1>1, <1>2, <1>6, PlayersTypes, DetachedKeeps
<1>7. CASE session = s /\ c.for # "replay" /\ c.gen # seekGeneration /\ UNCHANGED <<tracked, status>>
    <2> USE DEF PlaybackInv
    <2>1. PlaybackTypeOK'
        BY <1>1, <1>2, <1>7 DEF PlaybackTypeOK, tracked, volumes
    <2>2. Names'
        BY <1>1, <1>2, <1>7 DEF Names, LiveIsAttached, tracked
    <2>3. c.for = "seek"
        BY <1>1, <1>2, <1>7 DEF ControlRecord
    <2>4. LoadingGoesOn => LoadingGoesOn'
        BY <1>1, <1>2, <1>7, <2>3 DEF LoadingGoesOn, tracked
    <2>5. Stage'
        BY <1>1, <1>7, <2>4 DEF Stage, StageFits, tracked
    <2>6. Seeks'
        BY <1>2, <1>7 DEF Seeks, SeekNeverSticks, tracked
    <2>7. Volumes'
        BY <1>1, <1>2, <1>7 DEF Volumes, tracked, volumes
    <2>8. Shown'
        BY <1>1, <1>7 DEF Shown, PlayingShown, tracked
    <2>9. QED BY <2>1, <2>2, <2>5, <2>6, <2>7, <2>8
<1>8. QED BY <1>1, <1>4, <1>5, <1>6, <1>7

\* SeekAnswers keeps the invariant.
LEMMA SeekAnswersKeeps ==
    ASSUME PlaybackInv, NEW s \in Session, NEW c \in controls[s], SeekAnswers(s, c)
    PROVE  PlaybackInv'
<1>1. /\ c.do = "seek" /\ controls' = [controls EXCEPT ![s] = @ \ {c}]
      /\ UNCHANGED <<stage, failed, session, generation, seekGeneration, volumes, disposed, load,
                     status, source, level>>
    BY DEF SeekAnswers
<1>2. /\ controls' \in [Session -> SUBSET ControlRecord] /\ controls'[s] = controls[s] \ {c}
      /\ \A t \in Session \ {s} : controls'[t] = controls[t]
      /\ \A t \in Session : controls'[t] \subseteq controls[t]
      /\ status[s] # "none" /\ c \in ControlRecord
    BY <1>1, ControlRemoved
<1>3. /\ native' \in [Session -> PlayerStates]
      /\ native'[s] = native[s] \/ (native[s] = "completed" /\ native'[s] = "paused")
      /\ \A t \in Session \ {s} : native'[t] = native[t]
    BY PlayersTypes DEF SeekAnswers, PlayerStates
<1>4. c.for \in {"replay", "seek"}
    BY <1>1, <1>2 DEF ControlRecord
<1>5. s # NoSession
    BY Constants DEF Session, NoSession
<1>6. Current(s) <=> session = s
    BY <1>5 DEF PlaybackInv, Names, Current
<1>7. \/ /\ c.for = "replay" /\ session = s
         /\ transport' = [transport EXCEPT ![s] = Append(@, Transport("play", "replay"))]
         /\ UNCHANGED pendingSeek
      \/ /\ c.for = "seek" /\ session = s /\ c.gen = seekGeneration
         /\ pendingSeek' = 0
         /\ UNCHANGED transport
      \/ /\ session # s \/ (c.for = "seek" /\ c.gen # seekGeneration)
         /\ UNCHANGED <<transport, pendingSeek>>
    BY <1>6 DEF SeekAnswers
<1>8. CASE session # s
    <2>1. UNCHANGED <<transport, pendingSeek>>
        BY <1>7, <1>8
    <2>2. UNCHANGED <<tracked, status, volumes, disposed, load, source>>
        BY <1>1, <2>1 DEF tracked
    <2>3. QED BY <1>1, <1>2, <1>3, <1>8, <2>1, <2>2, PlayersTypes, DetachedKeeps
<1>9. CASE session = s
    <2> USE DEF PlaybackInv
    <2>1. /\ transport' \in [Session -> Seq(TransportRecord)]
          /\ \A t \in Session : OnlyFirstDone(transport'[t])
          /\ \A t \in Session \ {s} : transport'[t] = transport[t]
          /\ transport[s] # <<>> => transport'[s] # <<>>
          /\ transport'[s] # <<>> /\ Head(transport'[s]).done =>
                transport[s] # <<>> /\ Head(transport'[s]) = Head(transport[s])
          /\ c.for = "replay" => transport'[s] # <<>>
        <3>1. CASE c.for = "replay"
            BY <1>7, <1>9, <3>1, PushFacts
        <3>2. CASE c.for = "seek"
            BY <1>7, <3>2, PlayersTypes
        <3>3. QED BY <1>4, <3>1, <3>2
    <2>2. /\ pendingSeek' \in {0, pendingSeek}
          /\ pendingSeek' # 0 => c.for # "seek" \/ c.gen # seekGeneration
        BY <1>7, <1>9
    <2>3. PlaybackTypeOK'
        BY <1>1, <1>2, <1>3, <2>1, <2>2 DEF PlaybackTypeOK, volumes
    <2>4. Names'
        BY <1>1, <1>2, <1>3, <2>1 DEF Names, LiveIsAttached
    <2>5. LoadingGoesOn => LoadingGoesOn'
        BY <1>1, <1>2, <1>4, <1>9, <2>1 DEF LoadingGoesOn
    <2>6. Stage'
        BY <1>1, <2>5 DEF Stage, StageFits
    <2>7. Seeks'
        BY <1>1, <1>2, <1>9, <2>2 DEF Seeks, SeekNeverSticks
    <2>8. Volumes'
        BY <1>1, <1>2, <1>9 DEF Volumes, volumes
    <2>9. Shown'
        <3>1. transport'[s] = <<>> => transport[s] = <<>>
            BY <2>1
        <3>2. QED BY <1>1, <1>3, <1>9, <2>1, <3>1 DEF Shown, PlayingShown
    <2>10. QED BY <2>3, <2>4, <2>6, <2>7, <2>8, <2>9
<1>10. QED BY <1>8, <1>9

\* VolumeAnswers keeps the invariant.
LEMMA VolumeAnswersKeeps ==
    ASSUME PlaybackInv, NEW s \in Session, NEW c \in controls[s], VolumeAnswers(s, c)
    PROVE  PlaybackInv'
<1> DEFINE again == Current(s) /\ c.gen # volumeGeneration
<1> DEFINE d == Applying(c.for, volumeGeneration, volume)
<1>1. /\ c.do = "volume" /\ level' = [level EXCEPT ![s] = c.to]
      /\ controls' = [controls EXCEPT ![s] = (@ \ {c}) \cup IF again THEN {d} ELSE {}]
      /\ UNCHANGED <<tracked, volumes, disposed, load, status, source, native>>
    BY DEF VolumeAnswers
<1>2. /\ controls \in [Session -> SUBSET ControlRecord] /\ c \in ControlRecord
      /\ status[s] # "none" /\ s # NoSession /\ volumeGeneration \in Nat /\ volume \in Level
    BY Constants DEF PlaybackInv, PlaybackTypeOK, Names, Session, NoSession
<1>3. c.for \in {"load", "volume"} /\ c.to \in Level
    BY <1>1, <1>2 DEF ControlRecord
<1>4. /\ d \in ControlRecord /\ d.do = "volume" /\ d.for = c.for /\ d.gen = volumeGeneration
      /\ d.to = volume
    BY <1>2, <1>3 DEF Applying, ControlRecord
<1> HIDE DEF d
<1>5. /\ level' \in [Session -> Level] /\ level'[s] = c.to
      /\ \A t \in Session \ {s} : level'[t] = level[t]
    BY <1>1, <1>3, PlayersTypes
<1>6. Current(s) <=> session = s
    BY <1>2 DEF PlaybackInv, Names, Current
<1>7. /\ controls' \in [Session -> SUBSET ControlRecord]
      /\ controls'[s] = (controls[s] \ {c}) \cup IF again THEN {d} ELSE {}
      /\ \A t \in Session \ {s} : controls'[t] = controls[t]
    BY <1>1, <1>2, <1>4
<1>8. transport' = IF Current(s) /\ ~again /\ c.for = "load"
                   THEN [transport EXCEPT ![s] = Append(@, Transport("play", "load"))] ELSE transport
    BY DEF VolumeAnswers
<1>9. CASE session # s
    <2>1. ~again /\ transport' = transport
        BY <1>6, <1>8, <1>9
    <2>2. QED BY <1>1, <1>2, <1>5, <1>7, <1>9, <2>1, PlayersTypes, DetachedKeeps
<1>10. CASE session = s
    <2> USE DEF PlaybackInv
    <2>1. again <=> c.gen # volumeGeneration
        BY <1>6, <1>10
    <2> HIDE DEF again
    <2>2. /\ transport' \in [Session -> Seq(TransportRecord)]
          /\ \A t \in Session : OnlyFirstDone(transport'[t])
          /\ \A t \in Session \ {s} : transport'[t] = transport[t]
          /\ transport[s] # <<>> => transport'[s] # <<>>
          /\ transport'[s] # <<>> /\ Head(transport'[s]).done =>
                transport[s] # <<>> /\ Head(transport'[s]) = Head(transport[s])
          /\ c.for = "load" /\ ~again => transport'[s] # <<>>
        <3>1. CASE c.for = "load" /\ ~again
            BY <1>6, <1>8, <1>10, <3>1, PushFacts
        <3>2. CASE c.for # "load" \/ again
            BY <1>8, <3>2, PlayersTypes
        <3>3. QED BY <3>1, <3>2
    <2>3. PlaybackTypeOK'
        BY <1>1, <1>5, <1>7, <2>2 DEF PlaybackTypeOK, tracked, volumes
    <2>4. Names'
        BY <1>1, <1>2, <1>7, <2>2 DEF Names, LiveIsAttached, tracked
    <2>5. LoadingGoesOn => LoadingGoesOn'
        <3>1. CASE c.for = "load"
            <4>1. CASE again
                BY <1>1, <1>2, <1>4, <1>7, <1>10, <3>1, <4>1 DEF LoadingGoesOn, tracked
            <4>2. CASE ~again
                BY <1>1, <1>2, <1>10, <2>2, <3>1, <4>2 DEF LoadingGoesOn, tracked
            <4>3. QED BY <4>1, <4>2
        <3>2. CASE c.for = "volume"
            BY <1>1, <1>7, <1>10, <2>2, <3>2 DEF LoadingGoesOn, tracked
        <3>3. QED BY <1>3, <3>1, <3>2
    <2>6. Stage'
        BY <1>1, <2>5 DEF Stage, StageFits, tracked
    <2>7. Seeks'
        <3>1. \A e \in controls[s] : e.for = "seek" => e \in controls'[s]
            BY <1>3, <1>7
        <3>2. QED BY <1>1, <1>10, <3>1 DEF Seeks, SeekNeverSticks, tracked
    <2>8. Volumes'
        <3>1. CASE again
            BY <1>1, <1>4, <1>7, <1>10, <1>2, <3>1 DEF Volumes, tracked, volumes
        <3>2. CASE ~again
            <4>1. level'[s] = volume
                BY <1>1, <1>5, <2>1, <3>2 DEF Volumes
            <4>2. QED BY <1>1, <1>7, <1>10, <3>2, <4>1 DEF Volumes, tracked, volumes
        <3>3. QED BY <3>1, <3>2
    <2>9. Shown'
        <3>1. transport'[s] = <<>> => transport[s] = <<>>
            BY <2>2
        <3>2. QED BY <1>1, <1>10, <2>2, <3>1 DEF Shown, PlayingShown, tracked
    <2>10. QED BY <2>3, <2>4, <2>6, <2>7, <2>8, <2>9
<1>11. QED BY <1>9, <1>10

(***************************************************************************)
(* The invariant, and the properties it implies.                           *)
(***************************************************************************)

\* The controller starts in the invariant.
LEMMA InitHolds == PlaybackInit => PlaybackInv
<1> SUFFICES ASSUME PlaybackInit PROVE PlaybackInv
    OBVIOUS
<1> USE Constants DEF PlaybackInit, Session, NoSession
<1>1. PlaybackTypeOK
    <2>1. NoLoad \in LoadRecord
        BY DEF NoLoad, LoadRecord
    <2>2. transport \in [Session -> Seq(TransportRecord)] /\ controls \in [Session -> SUBSET ControlRecord]
        OBVIOUS
    <2>3. /\ load \in [Session -> LoadRecord] /\ source \in [Session -> Source \cup {NoSource}]
          /\ level \in [Session -> Level]
        BY <2>1
    <2>4. /\ status \in [Session -> {"none", "live", "stopping", "disposing", "gone"}]
          /\ native \in [Session -> PlayerStates]
        BY DEF PlayerStates
    <2>5. stage \in Stages /\ pendingSeek \in 0..seekGeneration /\ session \in Session \cup {NoSession}
        BY DEF Stages
    <2>6. failed \in BOOLEAN /\ disposed \in BOOLEAN /\ generation \in Nat /\ seekGeneration \in Nat
        OBVIOUS
    <2>7. volume \in Level /\ volumeGeneration \in Nat
        OBVIOUS
    <2> HIDE DEF PlaybackInit, Session, NoSession
    <2>8. QED BY <2>2, <2>3, <2>4, <2>5, <2>6, <2>7 DEF PlaybackTypeOK
<1>2. Names
    BY DEF Names, LiveIsAttached, NoLoad
<1>3. Stage /\ Seeks /\ Volumes
    BY DEF Stage, StageFits, Seeks, SeekNeverSticks, Volumes, NoLoad
<1>4. Shown
    BY DEF Shown, PlayingShown, OnlyFirstDone
<1>5. QED BY <1>1, <1>2, <1>3, <1>4 DEF PlaybackInv

\* Every step keeps the invariant: one case per action of the controller.
LEMMA StepKeeps == PlaybackInv /\ [PlaybackNext]_pvars => PlaybackInv'
<1> SUFFICES ASSUME PlaybackInv, [PlaybackNext]_pvars PROVE PlaybackInv'
    OBVIOUS
<1>1. ASSUME ~disposed, NEW src \in Source, PlayRemote(src) PROVE PlaybackInv'
    BY <1>1, PlayRemoteKeeps
<1>2. ASSUME ~disposed, Stop \/ Pause("pause") \/ Resume("resume") \/ ReplayCurrent \/ SeekToMs
      PROVE  PlaybackInv'
    BY <1>2, StopKeeps, PauseKeeps, ResumeKeeps, ReplayCurrentKeeps, SeekToMsKeeps
<1>3. ASSUME ~disposed, NEW v \in Level, SetVolume(v) PROVE PlaybackInv'
    BY <1>3, SetVolumeKeeps
<1>4. ASSUME Dispose PROVE PlaybackInv'
    BY <1>4, DisposeKeeps
<1>5. ASSUME NEW s \in Session, Settles(s) PROVE PlaybackInv'
    <2>1. CASE StopSettles(s) \/ DisposeSettles(s)
        BY <2>1, StopSettlesKeeps, DisposeSettlesKeeps
    <2>2. CASE TakesEffect(s) \/ TransportAnswers(s) \/ TransportFails(s)
        BY <2>2, TakesEffectKeeps, TransportAnswersKeeps, TransportFailsKeeps
    <2>3. ASSUME NEW c \in controls[s],
                 SeekAnswers(s, c) \/ SeekFails(s, c) \/ VolumeAnswers(s, c) \/ VolumeFails(s, c)
          PROVE  PlaybackInv'
        BY <2>3, SeekAnswersKeeps, SeekFailsKeeps, VolumeAnswersKeeps, VolumeFailsKeeps
    <2>4. CASE ReplacedIsGone(s) \/ LoadSucceeds(s) \/ LoadFails(s)
        BY <2>4, ReplacedIsGoneKeeps, LoadSucceedsKeeps, LoadFailsKeeps
    <2>5. QED BY <1>5, <2>1, <2>2, <2>3, <2>4 DEF Settles
<1>6. ASSUME NEW s \in Session, Completes(s) \/ PlayerFails(s) PROVE PlaybackInv'
    BY <1>6, CompletesKeeps, PlayerFailsKeeps
<1>7. CASE UNCHANGED pvars
    <2> USE <1>7 DEF PlaybackInv, pvars, tracked, volumes, players
    <2>1. PlaybackTypeOK'
        BY DEF PlaybackTypeOK
    <2>2. Names' /\ Stage'
        BY DEF Names, LiveIsAttached, Stage, StageFits, LoadingGoesOn
    <2>3. Seeks' /\ Volumes' /\ Shown'
        BY DEF Seeks, SeekNeverSticks, Volumes, Shown, PlayingShown
    <2>4. QED BY <2>1, <2>2, <2>3
<1>8. QED BY <1>1, <1>2, <1>3, <1>4, <1>5, <1>6, <1>7 DEF PlaybackNext

\* The inductive invariant holds in every reachable state, for every number of sources,
\* levels, playRemote calls, controls and transport calls under way.
THEOREM ForegroundInvariant == PlaybackSpec => []PlaybackInv
BY InitHolds, StepKeeps, PTL DEF PlaybackSpec

\* Every variable of the foreground player keeps its type.
THEOREM PlaybackTypes == PlaybackSpec => []PlaybackTypeOK
<1>1. PlaybackInv => PlaybackTypeOK
    BY DEF PlaybackInv
<1>2. QED BY <1>1, ForegroundInvariant, PTL

\* Whatever a load, a replacement, a failure, a stop and a disposal do to each other,
\* a session is live exactly while it is the attached one.
THEOREM NoSessionLeaks == PlaybackSpec => []LiveIsAttached
<1>1. PlaybackInv => LiveIsAttached
    BY DEF PlaybackInv, Names
<1>2. QED BY <1>1, ForegroundInvariant, PTL

\* The stage the listeners see always has its ground: an error has its failure, playing,
\* paused and completed have a session, loading has a call that will move it on.
THEOREM StageHasGround == PlaybackSpec => []StageFits
<1>1. PlaybackInv => StageFits
    BY DEF PlaybackInv, Stage
<1>2. QED BY <1>1, ForegroundInvariant, PTL

\* A pending seek is one that is still under way on the attached session, so position
\* events are not held back for ever.
THEOREM PositionsKeepComing == PlaybackSpec => []SeekNeverSticks
<1>1. PlaybackInv => SeekNeverSticks
    BY DEF PlaybackInv, Seeks
<1>2. QED BY <1>1, ForegroundInvariant, PTL

\* Without a volume call under way the attached player has the latest volume.
THEOREM LatestVolumeWins == PlaybackSpec => []VolumeReached
<1>1. PlaybackInv => VolumeReached
    BY DEF PlaybackInv, Volumes, VolumeReached
<1>2. QED BY <1>1, ForegroundInvariant, PTL

\* Without a transport call under way "playing" is shown exactly if the player plays.
THEOREM StageNeverLies == PlaybackSpec => []PlayingShown
<1>1. PlaybackInv => PlayingShown
    BY DEF PlaybackInv, Shown
<1>2. QED BY <1>1, ForegroundInvariant, PTL

(***************************************************************************)
(* The track player.  Its steps are steps of the foreground player, apart  *)
(* from the play and pause calls of its one button.                        *)
(***************************************************************************)
PlayRecord == [at : {"none", "stopping", "resolving", "playing"}, for : Source \cup {NoSource},
               old : Session \cup {NoSession}, cancelled : BOOLEAN, ref : Nat]
ActivationRecord == [generation : Nat, for : Source \cup {NoSource},
                     does : {"queued", "toggle", "play"}, ref : Nat]

\* What is attached, and the load that will be, is of the track that is shown; while
\* that is being resolved there is neither.
Followed ==
    /\ session # NoSession => source[session] = track /\ ~resolving
    /\ \A g \in Session :
          load[g].at # "none" /\ generation = g /\ ~disposed => load[g].from = track /\ ~resolving

Choice ==
    /\ track \in Source \cup {NoSource} /\ resolving \in BOOLEAN /\ tgeneration \in Nat
    /\ Followed

\* A playTrack that was not overtaken is of the track that is shown ...
PlaysOK ==
    /\ plays \in [Intent -> PlayRecord]
    /\ \A g \in Intent : plays[g].at # "none" =>
          /\ g <= tgeneration /\ plays[g].for \in Source
          /\ TrackCurrent(g) => plays[g].for = track

\* ... and so is a press of the button.
PressesOK ==
    /\ activations \in Seq(ActivationRecord)
    /\ \A i \in 1..Len(activations) :
          /\ activations[i].generation <= tgeneration
          /\ TrackCurrent(activations[i].generation) => activations[i].for = track

TrackInv == PlaybackInv /\ Choice /\ PlaysOK /\ PressesOK

(***************************************************************************)
(* What the steps of the foreground player mean for the track player.      *)
(***************************************************************************)

\* A step after which nothing is attached and nothing loads that did not before.
Attaches ==
    /\ session' # NoSession => session' = session /\ source'[session] = source[session]
    /\ \A g \in Session : load'[g].at # "none" /\ generation' = g /\ ~disposed' =>
          load[g].at # "none" /\ generation = g /\ ~disposed /\ load'[g].from = load[g].from

\* _failSession attaches nothing and starts no load.
LEMMA FailAttaches ==
    ASSUME PlaybackInv, NEW s \in Session, FailSession(s), UNCHANGED <<disposed, load, source>>
    PROVE  Attaches
<1>1. CASE Current(s)
    <2>1. generation' = generation + 1 /\ session' = NoSession
        BY <1>1, FailFacts DEF PlaybackInv, Detach
    <2>2. \A g \in Session : load[g].at # "none" => g <= generation
        BY DEF PlaybackInv, Names
    <2>3. QED BY <2>1, <2>2 DEF Attaches, PlaybackInv, PlaybackTypeOK, Session
<1>2. CASE ~Current(s)
    BY <1>2, NoFailFacts DEF Attaches, PlaybackInv, tracked
<1>3. QED BY <1>1, <1>2

\* Nothing a session's player or clean-up does attaches anything, and neither do the
\* calls for it.
LEMMA SettlingAttaches ==
    ASSUME PlaybackInv, NEW s \in Session,
           Settles(s) \/ Completes(s) \/ PlayerFails(s), ~LoadSucceeds(s)
    PROVE  Attaches
<1> USE DEF PlaybackInv
<1>1. CASE StopSettles(s) \/ TakesEffect(s) \/ TransportAnswers(s) \/ Completes(s)
    BY <1>1 DEF Attaches, StopSettles, TakesEffect, TransportAnswers, Completes, tracked
<1>2. CASE DisposeSettles(s)
    <2>1. session # s
        BY <1>2 DEF DisposeSettles, Names, LiveIsAttached
    <2>2. QED BY <1>2, <2>1 DEF Attaches, DisposeSettles, tracked, PlaybackTypeOK
<1>3. CASE TransportFails(s) \/ PlayerFails(s)
    BY <1>3, FailAttaches DEF TransportFails, PlayerFails
<1>4. ASSUME NEW c \in controls[s], SeekAnswers(s, c) \/ VolumeAnswers(s, c)
      PROVE  Attaches
    BY <1>4 DEF Attaches, SeekAnswers, VolumeAnswers, tracked
<1>5. ASSUME NEW c \in controls[s], VolumeFails(s, c)
      PROVE  Attaches
    BY <1>5, FailAttaches DEF VolumeFails
<1>6. ASSUME NEW c \in controls[s], SeekFails(s, c)
      PROVE  Attaches
    <2>1. CASE c.for = "replay" \/ c.gen = seekGeneration
        BY <1>6, <2>1, FailAttaches DEF SeekFails
    <2>2. CASE ~(c.for = "replay" \/ c.gen = seekGeneration)
        BY <1>6, <2>2 DEF SeekFails, Attaches, tracked
    <2>3. QED BY <2>1, <2>2
<1>7. CASE ReplacedIsGone(s) \/ LoadFails(s)
    <2>1. load \in [Session -> LoadRecord]
        BY DEF PlaybackTypeOK
    <2>2. \A g \in Session : load'[g].at # "none" => load[g].at # "none" /\ load'[g].from = load[g].from
        BY <1>7, <2>1 DEF ReplacedIsGone, LoadFails, NoLoad, LoadRecord
    <2>3. UNCHANGED <<session, generation, disposed, source>>
        BY <1>7 DEF ReplacedIsGone, LoadFails, tracked, players
    <2>4. QED BY <2>2, <2>3 DEF Attaches
<1>8. QED BY <1>1, <1>2, <1>3, <1>4, <1>5, <1>6, <1>7 DEF Settles

\* Whatever attaches nothing keeps what is attached of the track that is shown.
LEMMA AttachesKeeps ==
    ASSUME Followed, Attaches, track' = track, resolving' = resolving
    PROVE  Followed'
BY DEF Followed, Attaches

\* The engine delivers a session: it is attached only if its load is the current one.
LEMMA DeliveryFollows ==
    ASSUME PlaybackInv, Followed, NEW s \in Session, LoadSucceeds(s),
           track' = track, resolving' = resolving
    PROVE  Followed'
<1> USE DEF PlaybackInv
<1>1. /\ load \in [Session -> LoadRecord] /\ source \in [Session -> Source \cup {NoSource}]
      /\ session \in Session \cup {NoSession} /\ s # NoSession
    BY DEF PlaybackTypeOK, Session, NoSession
<1>2. /\ load[s].at = "loading" /\ load'[s].at = "none" /\ source'[s] = load[s].from
      /\ \A t \in Session \ {s} : load'[t] = load[t] /\ source'[t] = source[t]
      /\ generation' = generation /\ disposed' = disposed
    BY <1>1 DEF LoadSucceeds, NoLoad
<1>3. session # s
    BY <1>1, <1>2 DEF Names, LiveIsAttached
<1>4. CASE ~disposed /\ generation = s
    BY <1>1, <1>2, <1>4 DEF Followed, LoadSucceeds
<1>5. CASE disposed \/ generation # s
    BY <1>1, <1>2, <1>3, <1>5 DEF Followed, LoadSucceeds
<1>6. QED BY <1>4, <1>5

\* The calls of the listener attach nothing either.
LEMMA CallsAttach ==
    ASSUME PlaybackInv,
           \/ Stop \/ Dispose \/ ReplayCurrent \/ SeekToMs
           \/ \E for \in {"pause", "toggle"} : Pause(for)
           \/ \E for \in {"resume", "toggle"} : Resume(for)
           \/ \E v \in Level : SetVolume(v)
    PROVE  Attaches
<1> USE DEF PlaybackInv
<1>1. CASE Stop \/ Dispose
    <2>1. generation' = generation + 1 /\ session' = NoSession /\ load' = load
        BY <1>1 DEF Stop, Dispose, Detach
    <2>2. \A g \in Session : load[g].at # "none" => g <= generation
        BY DEF Names
    <2>3. QED BY <2>1, <2>2 DEF Attaches, PlaybackTypeOK, Session
<1>2. CASE ReplayCurrent \/ SeekToMs
    BY <1>2 DEF Attaches, ReplayCurrent, SeekToMs
<1>3. ASSUME NEW for, Pause(for) \/ Resume(for) PROVE Attaches
    BY <1>3 DEF Attaches, Pause, Resume, Call
<1>4. ASSUME NEW v \in Level, SetVolume(v) PROVE Attaches
    BY <1>4 DEF Attaches, SetVolume, tracked
<1>5. QED BY <1>1, <1>2, <1>3, <1>4

\* The calls of a session's player that were made for the button.
Toggling(calls) == \E i \in 1..Len(calls) : calls[i].for = "toggle"

\* A call that takes effect or answers is for what it was for.
LEMMA TogglingKept ==
    ASSUME NEW q \in Seq(TransportRecord), q # <<>>
    PROVE  /\ Toggling(HeadDone(q)) => Toggling(q)
           /\ Toggling(Tail(q)) => Toggling(q)
<1>1. /\ Len(q) \in Nat \ {0} /\ Len(Tail(q)) = Len(q) - 1
      /\ \A i \in 1..Len(q) - 1 : Tail(q)[i] = q[i + 1]
      /\ Head(q) = q[1] /\ q[1] \in TransportRecord
    OBVIOUS
<1>2. Toggling(Tail(q)) => Toggling(q)
    BY <1>1 DEF Toggling
<1> DEFINE h == [do |-> Head(q).do, for |-> Head(q).for, done |-> TRUE]
<1>3. h.for = q[1].for /\ h \in TransportRecord
    BY <1>1 DEF TransportRecord
<1>4. HeadDone(q) = [q EXCEPT ![1] = h]
    BY DEF HeadDone
<1> HIDE DEF h
<1>5. Len(HeadDone(q)) = Len(q) /\ \A i \in 1..Len(q) : HeadDone(q)[i].for = q[i].for
    BY <1>1, <1>3, <1>4
<1>6. QED BY <1>2, <1>5 DEF Toggling

\* A call that is not made for the button does not become one of its calls.
LEMMA TogglingAppend ==
    ASSUME NEW q \in Seq(TransportRecord), NEW x \in TransportRecord, x.for # "toggle",
           Toggling(Append(q, x))
    PROVE  Toggling(q)
<1>1. /\ Len(q) \in Nat /\ Len(Append(q, x)) = Len(q) + 1
      /\ \A i \in 1..Len(q) : Append(q, x)[i] = q[i]
      /\ Append(q, x)[Len(q) + 1] = x
    OBVIOUS
<1>2. QED BY <1>1 DEF Toggling

\* A play or pause call that is made for something else than the button.
LEMMA OtherCallsToggleNothing ==
    ASSUME transport \in [Session -> Seq(TransportRecord)], NEW s \in Session,
           NEW do \in {"play", "pause"}, NEW for \in {"load", "resume", "replay", "pause"},
           transport' = [transport EXCEPT ![s] = Append(@, Transport(do, for))]
    PROVE  \A t \in Session : ToggleRuns(t)' => ToggleRuns(t)
<1> DEFINE x == Transport(do, for)
<1>1. x \in TransportRecord /\ x.for # "toggle"
    BY DEF Transport, TransportRecord
<1> HIDE DEF x
<1>2. /\ transport'[s] = Append(transport[s], x)
      /\ \A t \in Session \ {s} : transport'[t] = transport[t]
    BY DEF x
<1>3. Toggling(transport'[s]) => Toggling(transport[s])
    BY <1>1, <1>2, TogglingAppend
<1>4. QED BY <1>2, <1>3 DEF ToggleRuns, Toggling

\* A settled call, of whatever session.
LEMMA FewerCallsToggleNothing ==
    ASSUME transport \in [Session -> Seq(TransportRecord)], NEW s \in Session, transport[s] # <<>>,
           \/ transport' = [transport EXCEPT ![s] = HeadDone(@)]
           \/ transport' = [transport EXCEPT ![s] = Tail(@)]
    PROVE  \A t \in Session : ToggleRuns(t)' => ToggleRuns(t)
<1>1. /\ \A t \in Session \ {s} : transport'[t] = transport[t]
      /\ transport'[s] = HeadDone(transport[s]) \/ transport'[s] = Tail(transport[s])
    OBVIOUS
<1>2. Toggling(transport'[s]) => Toggling(transport[s])
    BY <1>1, TogglingKept
<1>3. QED BY <1>1, <1>2 DEF ToggleRuns, Toggling

\* No step of the foreground player makes a call for the button.
LEMMA PlayerTogglesNothing ==
    ASSUME PlaybackInv, PlaybackNext
    PROVE  \A t \in Session : ToggleRuns(t)' => ToggleRuns(t)
<1> DEFINE Goal == \A t \in Session : ToggleRuns(t)' => ToggleRuns(t)
<1> USE DEF PlaybackInv, PlaybackTypeOK
<1>1. ASSUME transport' = transport PROVE Goal
    BY <1>1 DEF ToggleRuns
<1>2. CASE \/ Stop \/ ReplayCurrent \/ SeekToMs \/ Dispose
           \/ \E src \in Source : PlayRemote(src)
           \/ \E v \in Level : SetVolume(v)
    BY <1>1, <1>2 DEF Stop, ReplayCurrent, SeekToMs, Dispose, PlayRemote, SetVolume
<1>3. CASE Pause("pause") \/ Resume("resume")
    <2>1. session \in Session
        BY <1>3 DEF Pause, Resume
    <2>2. \/ transport' = [transport EXCEPT ![session] = Append(@, Transport("pause", "pause"))]
          \/ transport' = [transport EXCEPT ![session] = Append(@, Transport("play", "resume"))]
        BY <1>3 DEF Pause, Resume, Call
    <2>3. QED BY <2>1, <2>2, OtherCallsToggleNothing
<1>4. ASSUME NEW s \in Session, Settles(s) \/ Completes(s) \/ PlayerFails(s) PROVE Goal
    <2>1. CASE StopSettles(s) \/ DisposeSettles(s) \/ Completes(s) \/ PlayerFails(s)
        BY <1>1, <2>1 DEF StopSettles, DisposeSettles, Completes, PlayerFails
    <2>2. CASE TakesEffect(s) \/ TransportAnswers(s) \/ TransportFails(s)
        BY <2>2, FewerCallsToggleNothing DEF TakesEffect, TransportAnswers, TransportFails
    <2>3. CASE ReplacedIsGone(s) \/ LoadSucceeds(s) \/ LoadFails(s)
        BY <1>1, <2>3 DEF ReplacedIsGone, LoadSucceeds, LoadFails, players
    <2>4. ASSUME NEW c \in controls[s], SeekFails(s, c) \/ VolumeFails(s, c) PROVE Goal
        BY <1>1, <2>4 DEF SeekFails, VolumeFails
    <2>5. ASSUME NEW c \in controls[s], SeekAnswers(s, c) \/ VolumeAnswers(s, c) PROVE Goal
        <3>1. \/ transport' = transport
              \/ transport' = [transport EXCEPT ![s] = Append(@, Transport("play", "replay"))]
              \/ transport' = [transport EXCEPT ![s] = Append(@, Transport("play", "load"))]
            BY <2>5 DEF SeekAnswers, VolumeAnswers
        <3>2. QED BY <1>1, <3>1, OtherCallsToggleNothing
    <2>6. QED BY <1>4, <2>1, <2>2, <2>3, <2>4, <2>5 DEF Settles
<1>5. QED BY <1>2, <1>3, <1>4 DEF PlaybackNext

(***************************************************************************)
(* The steps of the track player.                                          *)
(***************************************************************************)

\* Cancelling the resolution under way changes no call.
LEMMA CancelledFacts ==
    ASSUME plays \in [Intent -> PlayRecord]
    PROVE  /\ Cancelled \in [Intent -> PlayRecord]
           /\ \A g \in Intent : Cancelled[g].at = plays[g].at /\ Cancelled[g].for = plays[g].for
<1>1. ASSUME NEW r \in PlayRecord
      PROVE  /\ [r EXCEPT !.cancelled = TRUE] \in PlayRecord
             /\ [r EXCEPT !.cancelled = TRUE].at = r.at /\ [r EXCEPT !.cancelled = TRUE].for = r.for
    BY DEF PlayRecord
<1>2. QED BY <1>1 DEF Cancelled

\* A new call, and none.
LEMMA NewPlayFacts ==
    ASSUME NEW t \in Source, session \in Session \cup {NoSession}
    PROVE  /\ NewPlay(t) \in PlayRecord /\ NewPlay(t).at = "stopping" /\ NewPlay(t).for = t
           /\ NoPlay \in PlayRecord /\ NoPlay.at = "none"
<1>1. NoPlay \in PlayRecord /\ NoPlay.at = "none"
    BY DEF NoPlay, PlayRecord, Session, NoSession
<1>2. QED BY <1>1 DEF NewPlay, PlayRecord

\* After a stop or a disposal nothing is attached and nothing that loads is current.
LEMMA StoppedFollows ==
    ASSUME PlaybackInv, Stop \/ Dispose
    PROVE  /\ session' = NoSession
           /\ \A g \in Session : ~(load'[g].at # "none" /\ generation' = g)
<1>1. generation' = generation + 1 /\ session' = NoSession /\ load' = load
    BY DEF Stop, Dispose, Detach
<1>2. \A g \in Session : load[g].at # "none" => g <= generation
    BY DEF PlaybackInv, Names
<1>3. QED BY <1>1, <1>2 DEF PlaybackInv, PlaybackTypeOK, Session

\* A newer choice: every press and every call before it is overtaken.
LEMMA OvertakenPresses ==
    ASSUME TrackInv, tgeneration' = tgeneration + 1,
           activations' \in Seq(ActivationRecord), Len(activations') = Len(activations),
           \A i \in 1..Len(activations) : activations'[i].generation = activations[i].generation
    PROVE  PressesOK'
<1>1. ASSUME NEW i \in 1..Len(activations) PROVE activations[i].generation \in Nat
    <2>1. activations[i] \in ActivationRecord
        BY DEF TrackInv, PressesOK
    <2>2. QED BY <2>1 DEF ActivationRecord
<1>2. QED BY <1>1 DEF TrackInv, Choice, PressesOK, TrackCurrent

\* The press in front goes on to what it awaits.
LEMMA PressRuns ==
    ASSUME activations \in Seq(ActivationRecord), activations # <<>>,
           NEW d \in {"toggle", "play"}, NEW r \in Nat,
           activations' = [activations EXCEPT ![1].does = d, ![1].ref = r]
    PROVE  /\ activations' \in Seq(ActivationRecord) /\ Len(activations') = Len(activations)
           /\ \A i \in 1..Len(activations) : /\ activations'[i].generation = activations[i].generation
                                             /\ activations'[i].for = activations[i].for
<1> DEFINE a == activations[1]
<1>1. Len(activations) \in Nat \ {0} /\ a \in ActivationRecord
    OBVIOUS
<1>2. activations' = [activations EXCEPT ![1] = [a EXCEPT !.does = d, !.ref = r]]
    BY DEF ActivationRecord
<1>3. PICK b \in ActivationRecord :
         activations' = [activations EXCEPT ![1] = b] /\ b.generation = a.generation /\ b.for = a.for
    <2>1. [a EXCEPT !.does = d, !.ref = r] \in ActivationRecord
        BY <1>1 DEF ActivationRecord
    <2>2. [a EXCEPT !.does = d, !.ref = r].generation = a.generation
        BY <1>1 DEF ActivationRecord
    <2>3. [a EXCEPT !.does = d, !.ref = r].for = a.for
        BY <1>1 DEF ActivationRecord
    <2>4. QED BY <1>2, <2>1, <2>2, <2>3
<1>4. QED BY <1>1, <1>3

\* playTrack: a new choice, of which nothing plays yet.
LEMMA PlayTrackKeeps ==
    ASSUME TrackInv, ~disposed, NEW t \in Source, PlayTrack(t)
    PROVE  PlaybackInv' /\ Choice' /\ PlaysOK' /\ tgeneration' = tgeneration + 1
<1>1. /\ tgeneration \in Nat /\ tgeneration < MaxIntents
      /\ tgeneration' = tgeneration + 1 /\ track' = t /\ resolving' = TRUE /\ Stop
      /\ plays' = [Cancelled EXCEPT ![tgeneration'] = NewPlay(t)]
    BY DEF PlayTrack, TrackInv, Choice
<1>2. PlaybackInv'
    BY <1>1, StopKeeps DEF TrackInv
<1>3. Choice'
    BY <1>1, StoppedFollows DEF TrackInv, Choice, Followed
<1>4. /\ Cancelled \in [Intent -> PlayRecord]
      /\ \A g \in Intent : Cancelled[g].at = plays[g].at /\ Cancelled[g].for = plays[g].for
    BY CancelledFacts DEF TrackInv, PlaysOK
<1>5. NewPlay(t) \in PlayRecord /\ NewPlay(t).at = "stopping" /\ NewPlay(t).for = t
    BY NewPlayFacts DEF TrackInv, PlaybackInv, PlaybackTypeOK
<1>6. /\ plays' \in [Intent -> PlayRecord]
      /\ \A g \in Intent : plays'[g] = IF g = tgeneration' THEN NewPlay(t) ELSE Cancelled[g]
    BY <1>1, <1>4, <1>5
<1>7. PlaysOK'
    <2>1. ASSUME NEW g \in Intent, plays'[g].at # "none"
          PROVE  /\ g <= tgeneration' /\ plays'[g].for \in Source
                 /\ TrackCurrent(g)' => plays'[g].for = track'
        <3>1. CASE g = tgeneration'
            BY <1>1, <1>5, <1>6, <3>1
        <3>2. CASE g # tgeneration'
            BY <1>1, <1>4, <1>6, <2>1, <3>2 DEF TrackInv, PlaysOK, TrackCurrent, Intent
        <3>3. QED BY <3>1, <3>2
    <2>2. QED BY <1>6, <2>1 DEF PlaysOK
<1>8. QED BY <1>1, <1>2, <1>3, <1>7

\* stop() and dispose(): no call is current any more.
LEMMA StopTrackKeeps ==
    ASSUME TrackInv, (~disposed /\ StopTrack) \/ DisposeTrack
    PROVE  TrackInv'
<1>1. /\ tgeneration \in Nat /\ tgeneration' = tgeneration + 1 /\ track' = track
      /\ resolving' \in BOOLEAN /\ plays' = Cancelled /\ activations' = activations
    BY DEF StopTrack, DisposeTrack, TrackInv, Choice, shown
<1>2. (~disposed /\ Stop) \/ Dispose
    BY DEF StopTrack, DisposeTrack
<1>3. PlaybackInv'
    BY <1>2, StopKeeps, DisposeKeeps DEF TrackInv
<1>4. Choice'
    BY <1>1, <1>2, StoppedFollows DEF TrackInv, Choice, Followed
<1>5. PlaysOK'
    BY <1>1, CancelledFacts DEF TrackInv, PlaysOK, TrackCurrent, Intent
<1>6. PressesOK'
    <2>1. activations \in Seq(ActivationRecord)
        BY DEF TrackInv, PressesOK
    <2>2. QED BY <1>1, <2>1, OvertakenPresses
<1>7. QED BY <1>3, <1>4, <1>5, <1>6 DEF TrackInv

\* A call that goes on, or ends, is of the track it was of.
LEMMA PlayGoesOn ==
    ASSUME TrackInv, NEW g \in Intent, plays[g].at # "none",
           plays' \in [Intent -> PlayRecord], \A h \in Intent \ {g} : plays'[h] = plays[h],
           plays'[g].at # "none" => plays'[g].for = plays[g].for,
           UNCHANGED <<track, tgeneration, disposed>>
    PROVE  PlaysOK'
BY DEF TrackInv, PlaysOK, TrackCurrent

\* The presses that wait do not depend on what the foreground player does.
LEMMA PressesStay ==
    ASSUME TrackInv, UNCHANGED <<track, tgeneration, disposed, activations>>
    PROVE  PressesOK'
BY DEF TrackInv, PressesOK, TrackCurrent

\* The old session is gone, or the resolution fails.
LEMMA UnresolvedKeeps ==
    ASSUME TrackInv, NEW g \in Intent, OldSessionIsGone(g) \/ Unresolved(g)
    PROVE  TrackInv'
<1>1. /\ plays[g].at # "none" /\ UNCHANGED <<pvars, track, tgeneration, activations>>
      /\ resolving' \in BOOLEAN /\ (resolving' => resolving)
      /\ \/ plays' = [plays EXCEPT ![g].at = "resolving"]
         \/ plays' = [plays EXCEPT ![g] = NoPlay]
    BY DEF OldSessionIsGone, Unresolved, shown, TrackInv, Choice
<1>2. PlaybackInv'
    BY <1>1, StepKeeps DEF TrackInv
<1>3. Choice'
    BY <1>1 DEF TrackInv, Choice, Followed, pvars, tracked, players
<1>4. /\ plays' \in [Intent -> PlayRecord] /\ \A h \in Intent \ {g} : plays'[h] = plays[h]
      /\ plays'[g].at # "none" => plays'[g].for = plays[g].for
    <2>1. plays \in [Intent -> PlayRecord] /\ NoPlay \in PlayRecord /\ NoPlay.at = "none"
        BY DEF TrackInv, PlaysOK, NoPlay, PlayRecord, Session, NoSession
    <2>2. CASE plays' = [plays EXCEPT ![g] = NoPlay]
        BY <2>1, <2>2
    <2>3. CASE plays' = [plays EXCEPT ![g].at = "resolving"]
        <3>1. ASSUME NEW r \in PlayRecord
              PROVE  [r EXCEPT !.at = "resolving"] \in PlayRecord /\ [r EXCEPT !.at = "resolving"].for = r.for
            BY DEF PlayRecord
        <3>2. QED BY <2>1, <2>3, <3>1
    <2>4. QED BY <1>1, <2>2, <2>3
<1>5. PlaysOK' /\ PressesOK'
    BY <1>1, <1>4, PlayGoesOn, PressesStay DEF pvars
<1>6. QED BY <1>2, <1>3, <1>5 DEF TrackInv

\* The resolution has a source: it is loaded if it is the one that was asked for last.
LEMMA ResolvedKeeps ==
    ASSUME TrackInv, NEW g \in Intent, Resolved(g)
    PROVE  TrackInv'
<1>1. /\ plays[g].at = "resolving" /\ UNCHANGED <<track, tgeneration, activations>>
      /\ plays \in [Intent -> PlayRecord] /\ NoPlay \in PlayRecord /\ NoPlay.at = "none"
      /\ generation \in Nat
    BY DEF Resolved, TrackInv, PlaysOK, NoPlay, PlayRecord, Session, NoSession,
           PlaybackInv, PlaybackTypeOK
<1>2. CASE /\ TrackCurrent(g) /\ resolving' = FALSE /\ PlayRemote(plays[g].for)
           /\ plays' = [plays EXCEPT ![g].at = "playing", ![g].ref = generation']
    <2>1. ~disposed /\ plays[g].for = track /\ track \in Source
        BY <1>1, <1>2 DEF TrackInv, PlaysOK, TrackCurrent
    <2>2. PlaybackInv'
        BY <1>2, <2>1, PlayRemoteKeeps DEF TrackInv
    <2>3. /\ generation' = generation + 1 /\ session' = NoSession /\ disposed' = disposed
          /\ load' = [load EXCEPT ![generation'] = [at |-> "stopping", old |-> session, from |-> track]]
        BY <1>2, <2>1 DEF PlayRemote, Detach
    <2>4. \A h \in Session : h = generation' => load'[h].from = track
        BY <2>3 DEF TrackInv, PlaybackInv, PlaybackTypeOK
    <2>5. Choice'
        BY <1>1, <1>2, <2>3, <2>4 DEF TrackInv, Choice, Followed
    <2>6. /\ plays' \in [Intent -> PlayRecord] /\ \A h \in Intent \ {g} : plays'[h] = plays[h]
          /\ plays'[g].for = plays[g].for
        <3>1. generation' \in Nat
            BY <1>1, <2>3
        <3>2. plays[g] \in PlayRecord
            BY <1>1
        <3> DEFINE r == [plays[g] EXCEPT !.at = "playing", !.ref = generation']
        <3>3. r \in PlayRecord
            BY <3>1, <3>2 DEF PlayRecord
        <3>4. r.for = plays[g].for
            BY <3>2 DEF PlayRecord
        <3>5. plays' = [plays EXCEPT ![g] = r]
            BY <1>1, <1>2 DEF PlayRecord
        <3> HIDE DEF r
        <3>6. QED BY <1>1, <3>3, <3>4, <3>5
    <2>7. PlaysOK' /\ PressesOK'
        BY <1>1, <2>3, <2>6, PlayGoesOn, PressesStay
    <2>8. QED BY <2>2, <2>5, <2>7 DEF TrackInv
<1>3. CASE plays' = [plays EXCEPT ![g] = NoPlay] /\ UNCHANGED <<pvars, tstage, resolving>>
    <2>1. PlaybackInv'
        BY <1>3, StepKeeps DEF TrackInv
    <2>2. Choice'
        BY <1>1, <1>3 DEF TrackInv, Choice, Followed, pvars, tracked, players
    <2>3. plays' \in [Intent -> PlayRecord] /\ plays'[g] = NoPlay /\ \A h \in Intent \ {g} : plays'[h] = plays[h]
        BY <1>1, <1>3
    <2>4. PlaysOK' /\ PressesOK'
        BY <1>1, <1>3, <2>3, PlayGoesOn, PressesStay DEF pvars
    <2>5. QED BY <2>1, <2>2, <2>4 DEF TrackInv
<1>4. QED BY <1>2, <1>3 DEF Resolved

\* A step of the foreground player that is not a new choice.
LEMMA PlayerStepKeeps ==
    ASSUME TrackInv, PlaybackInv', Attaches \/ \E s \in Session : LoadSucceeds(s),
           UNCHANGED <<track, resolving, tgeneration, plays, disposed>>
    PROVE  Choice' /\ PlaysOK'
<1>1. Followed'
    BY AttachesKeeps, DeliveryFollows DEF TrackInv, Choice
<1>2. QED BY <1>1 DEF TrackInv, Choice, PlaysOK, TrackCurrent

\* A press that runs: a play or pause call of what is attached, or a new choice.
LEMMA RunActivationKeeps ==
    ASSUME TrackInv, RunActivation
    PROVE  TrackInv' /\ \A t \in Session : ToggleRuns(t)' => ToggleRuns(t) \/ source[t] = Head(activations).for
<1> USE DEF TrackInv
<1> DEFINE Goal == \A t \in Session : ToggleRuns(t)' => ToggleRuns(t) \/ source[t] = Head(activations).for
<1>1. /\ activations \in Seq(ActivationRecord) /\ activations # <<>> /\ ~disposed /\ track \in Source
      /\ Head(activations).for = track
    <2>1. /\ activations \in Seq(ActivationRecord) /\ activations # <<>> /\ track \in Source
          /\ TrackCurrent(Head(activations).generation)
        BY DEF RunActivation, PressesOK, canActivate, Choice
    <2>2. Head(activations) = activations[1] /\ 1 \in 1..Len(activations)
        BY <2>1
    <2>3. QED BY <2>1, <2>2 DEF PressesOK, TrackCurrent
<1>2. CASE /\ Pause("toggle") \/ Resume("toggle")
           /\ activations' = [activations EXCEPT ![1].does = "toggle", ![1].ref = session]
           /\ UNCHANGED <<shown, tgeneration, resolution, plays>>
    <2>1. /\ session \in Session /\ disposed' = disposed
          /\ \A t \in Session \ {session} : transport'[t] = transport[t]
        BY <1>2 DEF Pause, Resume, Call, PlaybackInv, PlaybackTypeOK
    <2>2. PlaybackInv'
        BY <1>1, <1>2, PauseKeeps, ResumeKeeps
    <2>3. Choice' /\ PlaysOK'
        BY <1>2, <2>1, <2>2, CallsAttach, PlayerStepKeeps DEF shown
    <2>4. session \in Nat
        BY <2>1 DEF Session
    <2>5. /\ activations' \in Seq(ActivationRecord) /\ Len(activations') = Len(activations)
          /\ \A i \in 1..Len(activations) : /\ activations'[i].generation = activations[i].generation
                                            /\ activations'[i].for = activations[i].for
        BY <1>1, <1>2, <2>4, PressRuns
    <2>6. PressesOK'
        BY <1>2, <2>1, <2>5 DEF PressesOK, TrackCurrent, shown
    <2>7. source[session] = track
        BY <2>1 DEF Choice, Followed, Session, NoSession
    <2>8. Goal
        BY <1>1, <2>1, <2>7 DEF ToggleRuns
    <2>9. QED BY <2>2, <2>3, <2>6, <2>8
<1>3. CASE /\ PlayTrack(track)
           /\ activations' = [activations EXCEPT ![1].does = "play", ![1].ref = tgeneration']
    <2>1. PlaybackInv' /\ Choice' /\ PlaysOK' /\ tgeneration' = tgeneration + 1
        BY <1>1, <1>3, PlayTrackKeeps
    <2>2. tgeneration' \in Nat
        BY <2>1 DEF Choice
    <2>3. /\ activations' \in Seq(ActivationRecord) /\ Len(activations') = Len(activations)
          /\ \A i \in 1..Len(activations) : /\ activations'[i].generation = activations[i].generation
                                            /\ activations'[i].for = activations[i].for
        BY <1>1, <1>3, <2>2, PressRuns
    <2>4. PressesOK'
        BY <2>1, <2>3, OvertakenPresses
    <2>5. Goal
        BY <1>3 DEF PlayTrack, Stop, ToggleRuns
    <2>6. QED BY <2>1, <2>4, <2>5
<1>4. QED BY <1>2, <1>3 DEF RunActivation

\* A press waits behind the others, or the one in front is done with.
LEMMA PressesKeep ==
    ASSUME TrackInv, CallActivate \/ SkipActivation \/ ActivationEnds
    PROVE  TrackInv'
<1> USE DEF TrackInv
<1>1. UNCHANGED <<pvars, shown, tgeneration, resolution, plays>>
    BY DEF CallActivate, SkipActivation, ActivationEnds
<1>2. PlaybackInv' /\ Choice' /\ PlaysOK'
    BY <1>1, StepKeeps DEF Choice, Followed, PlaysOK, TrackCurrent, pvars, tracked, players, shown
<1>3. activations \in Seq(ActivationRecord) /\ Len(activations) \in Nat
    BY DEF PressesOK
<1>4. CASE CallActivate
    <2>1. /\ Activation \in ActivationRecord
          /\ Activation.generation = tgeneration /\ Activation.for = track /\ tgeneration \in Nat
        BY DEF Activation, ActivationRecord, Choice
    <2>2. activations' = Append(activations, Activation)
        BY <1>4 DEF CallActivate
    <2> HIDE DEF Activation
    <2>3. /\ activations' \in Seq(ActivationRecord) /\ Len(activations') = Len(activations) + 1
          /\ \A i \in 1..Len(activations) : activations'[i] = activations[i]
          /\ activations'[Len(activations) + 1] = Activation
        BY <1>3, <2>1, <2>2
    <2>4. QED BY <1>1, <1>2, <1>3, <2>1, <2>3 DEF PressesOK, TrackCurrent, pvars, shown
<1>5. CASE SkipActivation \/ ActivationEnds
    <2>1. activations # <<>> /\ activations' = Tail(activations)
        BY <1>5 DEF SkipActivation, ActivationEnds
    <2>2. /\ activations' \in Seq(ActivationRecord) /\ Len(activations') = Len(activations) - 1
          /\ \A i \in 1..Len(activations) - 1 : activations'[i] = activations[i + 1]
        BY <1>3, <2>1
    <2>3. QED BY <1>1, <1>2, <1>3, <2>2 DEF PressesOK, TrackCurrent, pvars, shown
<1>6. QED BY <1>4, <1>5

\* The steps of the track player that are steps of the foreground player, of its calls
\* and of the continuations behind them.
LEMMA ForwardKeeps ==
    ASSUME TrackInv, Forward \/ \E s \in Session : PlayerStep(s)
    PROVE  TrackInv' /\ \A t \in Session : ToggleRuns(t)' => ToggleRuns(t)
<1>1. UNCHANGED <<track, failure, resolving, tgeneration, resolution, plays, activations>>
    BY DEF Forward, PlayerStep, Notified
<1>2. PlaybackNext /\ disposed' = disposed /\ (Attaches \/ \E s \in Session : LoadSucceeds(s))
    <2>1. CASE Forward
        <3>1. ~disposed /\ \/ Pause("pause") \/ Resume("resume") \/ ReplayCurrent \/ SeekToMs
                           \/ \E v \in Level : SetVolume(v)
            BY <2>1 DEF Forward
        <3>2. Attaches
            BY <3>1, CallsAttach DEF TrackInv
        <3>3. disposed' = disposed
            BY <3>1 DEF Pause, Resume, Call, ReplayCurrent, SeekToMs, SetVolume
        <3>4. QED BY <3>1, <3>2, <3>3 DEF PlaybackNext
    <2>2. ASSUME NEW s \in Session, PlayerStep(s)
          PROVE  PlaybackNext /\ disposed' = disposed /\ (Attaches \/ LoadSucceeds(s))
        <3>1. Settles(s) \/ Completes(s) \/ PlayerFails(s)
            BY <2>2 DEF PlayerStep
        <3>2. disposed' = disposed
            BY <3>1 DEF Settles, StopSettles, DisposeSettles, TakesEffect, TransportAnswers, TransportFails,
                        SeekAnswers, SeekFails, VolumeAnswers, VolumeFails, ReplacedIsGone, LoadSucceeds,
                        LoadFails, Completes, PlayerFails
        <3>3. QED BY <3>1, <3>2, SettlingAttaches DEF PlaybackNext, TrackInv
    <2>3. QED BY <2>1, <2>2
<1>3. PlaybackInv'
    BY <1>2, StepKeeps DEF TrackInv
<1>4. Choice' /\ PlaysOK'
    BY <1>1, <1>2, <1>3, PlayerStepKeeps
<1>5. PressesOK'
    BY <1>1, <1>2, PressesStay
<1>6. QED BY <1>2, <1>3, <1>4, <1>5, PlayerTogglesNothing DEF TrackInv

\* What a step may do to the calls of the button.
Keeps ==
    TrackInv' /\ \A t \in Session : ToggleRuns(t)' => ToggleRuns(t) \/ source[t] = Head(activations).for

\* Every step of the track player keeps the invariant, and lets no press act on
\* another track than its own.
LEMMA TrackStepKeeps == TrackInv /\ [TrackNext]_tvars => Keeps
<1> SUFFICES ASSUME TrackInv, [TrackNext]_tvars PROVE Keeps
    OBVIOUS
<1>1. ASSUME UNCHANGED transport PROVE \A t \in Session : ToggleRuns(t)' => ToggleRuns(t)
    BY <1>1 DEF ToggleRuns
<1>2. ASSUME ~disposed, NEW t \in Source, PlayTrack(t), UNCHANGED activations PROVE Keeps
    <2>1. PlaybackInv' /\ Choice' /\ PlaysOK' /\ tgeneration' = tgeneration + 1
        BY <1>2, PlayTrackKeeps
    <2>2. activations \in Seq(ActivationRecord)
        BY DEF TrackInv, PressesOK
    <2>3. PressesOK'
        BY <1>2, <2>1, <2>2, OvertakenPresses
    <2>4. transport' = transport
        BY <1>2 DEF PlayTrack, Stop
    <2>5. QED BY <1>1, <2>1, <2>3, <2>4 DEF Keeps, TrackInv
<1>3. CASE (~disposed /\ StopTrack) \/ DisposeTrack
    <2>1. transport' = transport
        BY <1>3 DEF StopTrack, DisposeTrack, Stop, Dispose
    <2>2. QED BY <1>1, <1>3, <2>1, StopTrackKeeps DEF Keeps
<1>4. CASE CallActivate \/ SkipActivation \/ ActivationEnds
    <2>1. transport' = transport
        BY <1>4 DEF CallActivate, SkipActivation, ActivationEnds, pvars, players
    <2>2. QED BY <1>1, <1>4, <2>1, PressesKeep DEF Keeps
<1>5. CASE RunActivation
    BY <1>5, RunActivationKeeps DEF Keeps
<1>6. CASE Forward \/ \E s \in Session : PlayerStep(s)
    BY <1>6, ForwardKeeps DEF Keeps
<1>7. ASSUME NEW g \in Intent, OldSessionIsGone(g) \/ Unresolved(g) PROVE Keeps
    <2>1. transport' = transport
        BY <1>7 DEF OldSessionIsGone, Unresolved, pvars, players
    <2>2. QED BY <1>1, <1>7, <2>1, UnresolvedKeeps DEF Keeps
<1>8. ASSUME NEW g \in Intent, Resolved(g) PROVE Keeps
    <2>1. transport' = transport
        BY <1>8 DEF Resolved, PlayRemote, pvars, players
    <2>2. QED BY <1>1, <1>8, <2>1, ResolvedKeeps DEF Keeps
<1>9. CASE UNCHANGED tvars
    <2>1. UNCHANGED <<pvars, shown, tgeneration, plays, activations>>
        BY <1>9 DEF tvars
    <2>2. PlaybackInv' /\ transport' = transport
        BY <2>1, StepKeeps DEF TrackInv, pvars, players
    <2>3. Choice' /\ PlaysOK' /\ PressesOK'
        BY <2>1 DEF TrackInv, Choice, Followed, PlaysOK, PressesOK, TrackCurrent, pvars, tracked, players, shown
    <2>4. QED BY <1>1, <2>2, <2>3 DEF Keeps, TrackInv
<1>10. QED BY <1>2, <1>3, <1>4, <1>5, <1>6, <1>7, <1>8, <1>9 DEF TrackNext

\* The track player starts in the invariant.
LEMMA TrackInitHolds == TrackInit => TrackInv
<1> SUFFICES ASSUME TrackInit PROVE TrackInv
    OBVIOUS
<1>1. PlaybackInv
    BY InitHolds DEF TrackInit
<1>2. session = NoSession /\ \A g \in Session : load[g].at = "none"
    BY DEF TrackInit, PlaybackInit, NoLoad
<1>3. NoPlay \in PlayRecord /\ NoPlay.at = "none"
    BY DEF NoPlay, PlayRecord, Session, NoSession
<1>4. Choice /\ PlaysOK
    BY <1>2, <1>3 DEF TrackInit, Choice, Followed, PlaysOK
<1>5. PressesOK
    BY DEF TrackInit, PressesOK
<1>6. QED BY <1>1, <1>4, <1>5 DEF TrackInv

\* The inductive invariant of the track player over the foreground player: whatever
\* resolves, loads, plays and waits for its turn is of the choice it was made for.
THEOREM TrackInvariant == TrackSpec => []TrackInv
<1>1. TrackInv /\ [TrackNext]_tvars => TrackInv'
    BY TrackStepKeeps DEF Keeps
<1>2. QED BY <1>1, TrackInitHolds, PTL DEF TrackSpec

\* However late a resolution or a load is, what plays is the track that is shown.
THEOREM ShownTrackPlays == TrackSpec => []PlaysTheShownTrack
<1>1. TrackInv => PlaysTheShownTrack
    BY DEF TrackInv, Choice, Followed, PlaysTheShownTrack
<1>2. QED BY <1>1, TrackInvariant, PTL

\* However long the presses before it took, a press of the button acts on the track it
\* was made for.
THEOREM PressesActOnTheirTrack == TrackSpec => ActivationKeepsItsTrack
<1>1. TrackInv /\ [TrackNext]_tvars =>
          [\A s \in Session : ~ToggleRuns(s) /\ ToggleRuns(s)' => source[s] = Head(activations).for]_tvars
    BY TrackStepKeeps DEF Keeps
<1>2. QED BY <1>1, TrackInvariant, PTL DEF TrackSpec, ActivationKeepsItsTrack

\* The promises of the foreground player hold under the track player, which calls it in
\* its own way.
THEOREM TrackKeepsThePlayer ==
    TrackSpec => [](LiveIsAttached /\ StageFits /\ SeekNeverSticks /\ VolumeReached /\ PlayingShown)
<1>1. TrackInv => LiveIsAttached /\ StageFits /\ SeekNeverSticks /\ VolumeReached /\ PlayingShown
    BY DEF TrackInv, PlaybackInv, Names, Stage, Seeks, Volumes, VolumeReached, Shown
<1>2. QED BY <1>1, TrackInvariant, PTL
=============================================================================
