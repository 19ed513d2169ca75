# A verification model of fura-music

fura-music is a music player: a Flutter application (`src/apps/flutter`) over a Rust core
(`src/crates`, reached through `src/bridges/flutter`), which plays tracks of several providers.
This directory holds TLA+ models of it, the TLC configurations that check them, and theorems
that the TLA+ proof system (tlapm) checks. Paths below are relative to `src/`.

Two questions run through the project. **What does the user hear**: which entry is next, which
track is resolved, which session plays it, who has the audio focus. And **what does the
application believe of an account**: who is signed in, which credential survives a crash, which
tracks are liked, whether a write was carried out. Almost all of that code awaits something (the
platform, a native player, a provider, a store) and goes on in a world that has moved; that is
where unit tests reach least and a model reaches most.

Contents: [inventory](#inventory), [modules](#modules-and-how-they-correspond-to-the-code),
[runs](#runs), [fairness](#fairness), [proofs](#proofs), [findings](#findings),
[observations](#observations), [what is not modelled](#what-is-not-modelled), [plan](#plan).

## Inventory

### Execution model

The Flutter side is one Dart isolate. Code between two `await`s is atomic; every `await`, timer
and stream callback is a point where anything else may run. The Rust side is called through
asynchronous handles on a runtime with several threads; each guards its state with a mutex or
with atomics. So an action of a model is one synchronous stretch of Dart code, or one critical
section, or one access of an atomic.

### Components

| Component | State it keeps | Operations | Interacts with | Hard behaviour |
| --- | --- | --- | --- | --- |
| Playback queue: `music-domain/src/playback_queue.rs`, `api/queue.rs`, `playback_queue_gateway.dart` | entries, current index, order, repeat mode, shuffle cycle and its cursor | replace, push, extend, continue, select, advance, rewind, complete, remove, clear, set order and repeat mode | the gateway re-checks every answer in Dart | index and cycle shift together on removal; a broken cycle panics and poisons the mutex; two implementations of one navigation rule |
| `QueuePlaybackController` | queue snapshot, collection cursor and generation, terminal claim, roaming | play, next, previous, completion, page demand, roaming, quality change | queue, track controller, collection pages, related tracks | completion inside a notification; pages against replacement; tokens compared after an await |
| `TrackPlaybackController` | track, stage, resolution failure, generation, cancellable resolution, tail of activations | playTrack, activate, stop, pause, resume, ... | resolution gateway; foreground controller (calls and its notifications) | two stages for one player; late resolutions; queued presses |
| `ForegroundPlaybackController` | stage, failure, attached session, generation, seek and volume generations, position | playRemote, pause, resume, replayCurrent, seekToMs, setVolume, stop, dispose | engine and its sessions; notifies its listeners | newer calls overtake older ones at every await; clean-up in the background |
| Audio focus arbiter: `foreground_audio_player.dart` (`ForegroundAudioFocusOwner`, `ForegroundAudioFocusLease`) | owner, reserved operation, uncertain flag; per lease: closed, revision, chain of releases | activate, release, releaseAfter, close | the platform's `setActive`; native pause and stop of sessions | late, refused, failed and missing answers; deadlines; hand-over between sources; fail closed |
| Engine and sessions (audioplayers): same file | player, completion and failure streams | load, play, pause, seek, volume, stop, dispose | a focus lease per session | events before answers, answers after detachment |
| Engine and sessions (media_kit): `media_kit_foreground_audio_engine.dart` | one shared player, operation queue, stalled flag, unload generations | as above, plus one rebuild | a focus lease per session | operations that outlive their deadline and take effect later |
| QQ Music session: `provider-qqmusic/src/lib.rs` | credential owner and its generation, refresh flight and its reservation, verification attempts, login sessions | restore, verify, refresh, stage, commit, sign in, sign out, signed reads | server; continuation coordinator | late answers for another session, joined flights, cancelled verifications |
| Bridge handles: `bridges/flutter/src/api`, `remote_mutation.rs` | active, running, a wake-up permit | run, cancel | providers | a cancellation between any two accesses; a write whose answer is lost |
| Credential vault, continuation, login gateway and controller: `authentication/*.dart` | stored and staged credential, epoch, operation queue, pending recovery | stage, publish, replace, delete, recover, checkpoint, sign out | secure storage, the session, the server | a crash between any two steps; rotation against sign-out; failing storage |
| Library mutations and track likes: `library_mutation_coordinator.dart`, `track_like_presentation_controller.dart` | one write per key, snapshot, overrides, scan, shared pages, refresh | mutate, reconcile, scan, refresh, preload | provider pages, other devices | unknown outcomes; pages of a list that moves; refresh against a confirmed override |
| System playback service and its edges (media session, MPRIS) | last published state, interruption flag | commands, interruptions, publication | queue controller; operating system | interruptions while loading; publication order |
| Paged collections and the search, album, artist, home and discover controllers | pages, offset, generation, demand | load more, prefetch, search, reload | provider pages | one pump for three kinds of demand |
| Media source cache: `provider-api/src/media_cache.rs` | entries with expiry and generation | get, insert, invalidate | resolution gateway | expiry at zero seconds, capacity, generations |
| Lyrics: `lyric_controller.dart`, `lyric_alignment.rs` | generation, lines | load, align | provider | pure alignment of translated lines |
| Recent listening: `recent_listening.rs` | bounded history | record, remove | persistence | bound and duplicates |
| Settings: controller and store | shown and stored settings | update | storage | optimistic update, failing writes |
| Other providers and protocol clients | sessions, cookies | requests | remote services | requests and parsing |

What makes each correct. The queue: index, cycle and announced navigation agree, and the gateway
accepts every honest answer. Its controller: the player has the current entry, a collection is
queued completely and in order, a choice of the listener wins. The track controller: only the
chosen track is played. The foreground controller: no session leaks, and it shows what the
attached player does. The arbiter: focus is neither leaked nor shared. The engine: a session
that owns the player has its own file there, and every load ends. The QQ session: who is
authenticated was accepted by the server, and a late answer touches no other session. The vault:
the next start finds the session that is signed in, and nothing after a sign-out. The handles: a
write that was carried out is never denied. The likes: a heart that says yes or no says what the
service has. `PROJECT.json` has the full list of components and, under `hazards`, the places of
the code where these could go wrong.

### How the modelled parts fit together

```
 PlaybackIntent  <=implements=  PlaybackQueue  <=EXTENDS=  QueuePlayback     (MCQueuePlayback)
 FocusContract   <=implements=  AudioFocus                 MediaKitEngine    (MCAudioFocus)
 ForegroundPlayback                            <=EXTENDS=  TrackPlayback     (MCTrackPlayback)
 QqSession                                                                   (MCQqSession)
 CredentialVault                                                             (MCCredentialVault)
 TrackLikes                                                BridgeHandle      (MCTrackLikes)
```

`TrackPlayback` and `QueuePlayback` are compositions: each step of `TrackPlayback` is a step of
the foreground player together with what `_onPlaybackChanged` does inside it, or a step of its
own; the controller of `QueuePlayback` changes the queue by the operations of `PlaybackQueue`
only. `ForegroundPlayback` assumes of its engine that no session starts while another one is
audible (the operator `Silent`). `MediaKitEngine` waits for the focus of a session, which
`AudioFocus` grants or refuses; `CredentialVault` sees of the session of the Rust core, which
`QqSession` has, its state, its key and the flight of its generation. Modules that stand side by
side above share a checking module, not a behaviour.

## Modules and how they correspond to the code

`PROJECT.json`, `map`, names the source lines of every definition. Slips (definitions marked
`slip:`) are plausible mistakes; each property is shown to be violated when one of them takes
the place of the real definition. They are no part of any specification.

### PlaybackQueue, PlaybackIntent

`PlaybackQueue` is the domain type behind the handle's mutex, one action per operation of the
handle. `tracks`, `currentIndex`, `order`, `repeatMode`, `shuffleOrder`, `shuffleCursor` are the
fields of the struct (positions count from 1, `NoPosition` is `None`); `update` is the
`PlaybackQueueUpdate` last returned. The pseudo-random generator becomes a choice among all
permutations, so every seed is covered. `InvalidTrack` stands for a bridge value that
`domain_track_summary` refuses. `GatewayAccepts` is the gateway's own validation, translated
from the Dart code and applied to the Rust model's state: a cross-check of two languages.
`PlaybackIntent` is the promise without indices and cycles: a line of entries cut at the one
that plays; the mapping is at the end of `PlaybackQueue`.

### QueuePlayback

The controller above the queue. `ctl` is a record of the controller's fields and of what it sees
of the track player, which is its environment here. An action is what the controller does in one
turn of the event loop: a command, a notification, or the answer of an await, to the next await.
Methods are operators from one record to the next, so that a command reads like its Dart method.
A generation or token that is captured to be compared later is a Boolean that says whether it
still equals the controller's; it turns FALSE when the controller moves on. `omitted`, `chosen`
and `intents` are history and a bound.

### ForegroundPlayback, TrackPlayback

`playRemote` is split at its awaits: `PlayRemote` (up to the stop of the replaced session),
`ReplacedIsGone`, `LoadSucceeds`/`LoadFails`, `VolumeAnswers`/`VolumeFails` (for `"load"`), then
a `play` call that is settled by `TakesEffect`, `TransportAnswers` and `TransportFails`. The
same three settle `pause`, `resume` and the end of `replayCurrent`; `SeekAnswers`/`SeekFails`
settle `seekToMs` and the rewinding of `replayCurrent`. `Detach`, `FailSession` and
`StopAndDispose` are `_detachSession`, `_failSession` and `_stopAndDispose`. A session is named
by the generation of the `playRemote` that loaded it, which is what the listeners capture.
`native` and `level` are the players' own state, which the code only hears of through events:
the properties compare it with what the controller shows. A source may end at any time, before
the `play()` that started it is answered too; `native` keeps that as "overrun" instead of
"completed" (until the player plays again), and no guard reads the difference.

In `TrackPlayback`, `playTrack` is `PlayTrack` (which runs the foreground `stop()` up to its
first await), `OldSessionIsGone`, `Resolved`/`Unresolved` and the foreground `PlayRemote`.
`Observe` is `_onPlaybackChanged`. The activation tail is the sequence `activations`:
`CallActivate` captures generation and track, `RunActivation` or `SkipActivation` runs when the
ones before it have settled (`ActivationEnds`).

### AudioFocus, FocusContract

`owner`, `operation`, `op`, `uncertain` are the owner's fields, `closed`, `revision`,
`quiescence` those of the leases, `calls` the suspended `activate()` futures. `held` is the
operating system's view, which the code cannot read. Each platform call may answer TRUE, FALSE,
throw, or never come back; each timer (`ActivationExpires`, `ReleaseExpires`,
`QuiescenceExpires`) may fire before or after the answer. `FocusContract` is the promise: a
token that one lease asks for, holds and gives back, or that is lost for good.

### MediaKitEngine

`players` are the two native players there can ever be, with the generations of
`PlatformMediaKitAudioPlayer`; `asked` and `file` are what mpv has yet to load and what it has,
which the code cannot read. `tail` is the chain of `_serialize`: an operation is dispatched
(`Dispatch`), refused at its turn (`Reject`), and settled by mpv (`OpenReturns`,
`ControlReturns`, `NativeFails`) or by its deadline (`Expire`), which leaves with mpv what was
asked of it. An open that throws is taken not to have reached mpv. `RecoveryStarts`, `Replace` and
`RetirementFails` are `_rebuildPlayer`; `Loads` and
`Unloads` are the hooks, at any time. A call of `loadRemote` and the session it becomes have one
name. Where two awaits wait for the same tail, `ahead` counts the operations before them.

### QqSession

The provider's session behind its mutexes: `owner` is `QqCredentialOwner`, `refresh` the refresh
coordinator's flight, `call` the concurrent calls of `prepare_credential_refresh` and what
follows them (stage, verify, commit, or give up), `read` signed reads, `attempt` verifications
of a restored credential, `login` the login sessions. An action is one critical section; a call
of the server always ends one. Whether a credential is due, whether the gate lets its login type
refresh, and every answer are free. `issued`, `obtained`, `accepted` and `ended` record what the
server did and what was cancelled.

### BridgeHandle

The 34 cancellable handles of the bridge, as one table (`Handles`) of what each serves, and one
state machine: every load, store and swap of the two atomics is an action, and so is each of
`notify_one` and the select that waits for it. `sent` and `applied` are the server's side:
dropping a request takes nothing back.

### CredentialVault

The serialized vault over two slots of secure storage, and everybody who writes it: `proc` has
one program counter per user of the vault (the login controller, the continuation coordinator, a
login that is persisted, a sign-out), and `queue` is the vault's `_tail`. A crash (`Restart`)
leaves the two slots and nothing else. An operation of the
kinds in `Unreliable` may fail at each of its writes, a transaction between the two. `Delivered` is an assumption on scheduling: what the Rust core has
done reaches Dart before the next rejected read does. `Prepare` is that of the provider the
application builds, in which one login type may refresh and the other may not (`activated` says
which one the session has).

### TrackLikes

The service keeps the liked tracks in a list and hands it out by position, one row per page
here; a write moves the list. `continuation`, `scanning` and `sharedPages` are the scan that
fills the hearts, `refresh` the replacement under way, `write` the one mutation per track. The
loops of the controller (`ScanResumes`, `RefreshResumes`) go on in the turn in which the page
they await arrives. `doubt` is the set of tracks whose truth the controller cannot know (another
device, a lost answer, a list that moved while it was read). Another device may write a track at
any time, while a write of this one waits for its answer too: that write is then "overtaken" in
`write`, history as well, and its track is in doubt when the late answer overrides what is shown.

## Runs

| Run | Shows | Instance | Distinct states |
| --- | --- | --- | --- |
| `queue` | index, cycle, navigation and gateway agree after every operation in every order; the queue implements `PlaybackIntent`; left alone, playback goes round; under the controller, the player has the current entry, a collection arrives completely and in order, a choice wins over an end | queues up to 3; casts below | 194,000, liveness |
| `audio_focus` | no leaked or foreign focus with a platform that may never answer; the arbiter implements `FocusContract`; `activate()` is answered; the engine's sessions own their source, one player lives, every load ends | 2 leases, 1 call, 2 operation objects, 2 revocations; 3 loads | 210,000, liveness |
| `track` | only the shown track plays, presses keep their track; alone, the foreground player leaks no session and shows what its player does, but for one late answer | 2 tracks, 2 choices, 1 press at a time | 956,000 |
| `track_settles` | "resolving" ends, detached sessions are disposed of | 1 track, 2 choices | 81,000, liveness |
| `qq_session` | what is authenticated was accepted; a refresh replaces its own session only; late answers touch nothing else; one request per session; joined calls are told | casts below | 618,000, liveness |
| `qq_expired` | finding: the refresh of an expired credential is always reported as replaced | 1 account, 1 call | violation |
| `vault` | the next start finds the session that is signed in, and nothing after a sign-out | casts below, 3 keys | 2,100,000 |
| `vault_converges` | every unfinished rotation ends, one with a crash in the middle too | 2 keys, resumed for ever | 41,000, liveness |
| `vault_outage` | finding: both slots are deleted though nothing was refused | no failing storage | violation |
| `queue_roam` | finding: "loading" related tracks with no request under way | 2 tracks | violation |
| `likes` | hearts are truthful, a refresh shows nothing before it is complete, and ends; the handle underneath denies no write that was carried out | 2 tracks; every handle, 2 runs at once | 410,000, liveness |
| `likes_negative` | finding: a song is shown as not liked that is liked | 2 tracks, 1 written | violation |

**Casts.** Everybody at once is too much to explore in several of the runs. A variable `cast`
says who takes part in a behaviour, and the casts of one run bring together those that interfere:

* `queue`: *listener*, the operations of the queue as the bridge offers them, on two tracks with
  duplicates; *anything*, any two commands of the controller; *collection*, a collection and two
  commands that do not replace it. `Lookahead` is 0 instead of 3 and `EmptyPageBudget` 2 instead
  of 3, in proportion to collections of 3 rows. (All of `ControllerSpec` with three commands has
  2.67 million states and keeps the same invariants.)
* `audio_focus`: *arbiter* alone; of the engine *commands* (two loads, play, stop, seek),
  *rebuild* (three loads and dispose, no commands) and *pause* (one load, every command,
  dispose). Loads are alike, so they begin in one order.
* `track`: *alone*, the foreground player with two loads of one source, and a seek or a change
  of the volume under way beside the volume that a load applies; *choices* of two tracks
  without a change of the volume, and a seek in the last one if the one before it has ended and no
  press waits. `track_settles` is *answering*.
* `qq_session`: *reads* (a signed read among restores, verification and refresh; 4
  replacements), *restore* (restores, verification, logins, refresh; 3 replacements, 3 keys),
  *gate* (an account that may be refreshed and one that may not) and *continued* (three calls at
  once for one session). One verification attempt takes part: that a superseded one does nothing is
  shown by the theorem (`EndedStayEnded`) alone.
* `vault`: *user* (a login, a sign-out, three resumes, a crash), *reads* (two rejected reads,
  two resumes and a crash), *both* (a login, a sign-out, a rejected read and a crash),
  *checkpoints* (resumed for ever, a crash).
* `likes`: *pair* (both tracks written; each write asks for a change), *device* (one written here
  and elsewhere, a write of it that waits for its answer included), *rows* (rows without an
  identity), *handle* (the bridge handle).

Why these bounds are enough to be interesting. A queue of three with two tracks has duplicates,
a first, a middle and a last entry, and a removal on either side of the cursor. Two leases and
two operations let a late clean-up of one source meet the activation of the other. Two
generations of sessions are the overtaken call and the one that overtook it. Three loads of the
engine are one that stalls, one that asks for the rebuild and one behind it. Three replacements
of a session are a login, a refresh and what overtakes it. Two slots with three keys hold a
rotation on top of a rotation. A list of two tracks is enough for one to move into the page of
the other. The theorems below hold without any of these bounds.

Deadlock is not checked where bounds use up every command: the program waits for its user there.
Symmetry is used for tracks in `track`, which has no liveness property.

## Fairness

* `queue`: once the listener is gone a playing entry comes to its end (`WF` of `LeftAlone`). The
  order of a listener's operations is not assumed to be fair at all.
* `audio_focus`: the event loop runs timers and continuations (`EventLoopFairness`,
  `EngineFairness`). The platform and mpv may never answer; `ClosedEventuallyFree` alone is
  conditional on `PlatformFairness`, in its own statement.
* `track_settles`: one weak fairness condition per kind of call of a session
  (`ObservedFairness`): the media_kit engine has deadlines for each of its operations, and
  audioplayers answers its method channel. A resolution ends (`ResolutionFairness`): the
  providers' media requests have a timeout (`crates/qqmusic-client/src/media_resolution.rs:642`).
  No fairness is assumed of failures, of user calls, or of playback reaching its end.
* `qq_session`: a call goes on when it is told something or its request is answered
  (`CallsProceed`); requests have timeouts.
* `vault_converges`: the application takes its steps and is resumed from time to time; storage
  does not fail for ever, and the server gives a definite answer in the end (`SF`).
* `likes`: the loops go on and the pages they await are answered, well or badly
  (`LikesFairness`); the local steps of a handle run (`LocalStep`), its provider may never answer.

## Proofs

All proofs are checked by tlapm from nothing; no step is left without proof. The
assumptions are the named `ASSUME`s of the modules: bounds are naturals, a null value is not one
of the real ones, the starting volume is a level, sets of tracks and of loads are finite.

**QueuePlaybackProofs.** First the queue. `QueueInv` is type correctness, a valid index and a valid
cycle. The index alone is not inductive: advancing reads the index from the cycle, so the cycle must
be a permutation whose cursor stands on the current entry. One lemma per operation keeps it;
`RemovalShortens` and `RebuildRestoresCycle` are the substance. From it follow `QueueTypes`,
`CurrentAlwaysValid`, `ShuffleNeverPanics`, `GatewayAlwaysAccepts`, and, as action properties,
`AnnouncedNavigation` and `NeverReplaysAtOnce`.

Then the controller. `ControllerKeepsQueue` carries `QueueInv` over to it: each of
its steps is a step of the queue or leaves it alone. `PlayerFollowsQueue` needs `FollowInv`: that
the player has the current entry (the third conjunct) is not inductive, because a page that is
being asked for is appended behind an entry that must still be there; `FollowInv` therefore adds
that a controller is sound, and that its pump asks only while the queue has a current entry.

The refinement (`KeepsThePromises`, `ControllerKeepsThePromises`): `PlaybackQueue` says at its end how
a queue shows as a line (`Before`, `Playing`, `After`: the entries cut at the current one, in queue
order). One lemma per operation (`...Intends`) says which step of `PlaybackIntent` it is; they rest on
lemmas about cutting a sequence: where the cut moves (`MovedCut`), what is appended behind it
(`AppendCut`), and what is removed ahead of it, behind it, at it and at the end (`Removal...`). The
index alone says where the line is cut, so `QueueInv` is needed for its bounds and no more.

`ListenerWins` needs `ClaimInv`: a stored continuation and the claim of an end carry the revision the
listener's decisions had when the end was claimed, so once the listener has decided they are stale.
`ChoiceWins` compares two moments, before and after an await; the invariant says that nothing in
between makes a stale claim fresh again.

`CollectionArrivesInOrder` needs `LineInv`. That the queue is the collection so far is kept by a page
only if the row it counts is the one it appended, so the invariant says what the pump may be doing:
it works only while there are more rows, the row after the cursor is one the provider has, and a row
whose entry is being started is in the queue and not counted yet. It is kept by related tracks only
if none can be appended while rows are still to come: a live request exists only behind an exhausted
collection, and each command that attaches another collection has made the requests stale before.
The `...Line` lemmas say of every method of the controller that it moves neither the cursor nor the
collection and revives no request (`KeepsLine`); `NextRowExtends`, `OmittedRowKeeps` and `LongerLine`
are the three ways in which a line may change.

**AudioFocusProofs.** `FocusInv` says that an operation is reserved exactly while its platform
call is outstanding, that it is about the owner if there is one, that an activation is only
outstanding while nobody holds focus, and that the two views of `held` agree at rest. Callers
and chains act on the arbiter only through `Activate`, `Release` and cancellation, which have a
lemma each. From it follow `FocusTypes`, `NeverTwoPlatformCalls`, `FocusNeverLeaks`,
`ClosedLeasesLetGo`, `CleanupsStayHome`, `StepsAreSafe`, and the refinement `ImplementsToken`:
every step of the arbiter is a step of the token or a stutter.

**ForegroundPlaybackProofs.** None of the properties is inductive alone. `PlaybackInv` adds:
the attached session has the current generation and no session that was not delivered yet has
anything under way (`Names`); a load of the current generation means "loading" and no session
(`Stage`); a pending seek is the latest (`Seeks`); a volume call that is not out of date carries
the volume (`Volumes`); only the first transport call may have taken effect, and then the player
does what it says, unless its source has ended since (`Shown`). One lemma per action; the four ways
a call can fail share
`FailKeeps`, and everything that happens to a session nobody is attached to any more shares
`DetachedKeeps`. From it follow `PlaybackTypes`, `NoSessionLeaks`, `StageHasGround`,
`PositionsKeepComing`, `LatestVolumeWins` and `StageNeverLies`, for any number of calls. The exception of the last is
what the code does (see the observations): `PlayingShown` names the one late answer that is believed.

The same module goes on with the track player. `TrackInv` adds to `PlaybackInv` that what is attached
and the load of the current generation are of the track that is shown, and nothing is while it is
being resolved (`Followed`), and that a `playTrack` and a press of the button that were not overtaken
are of that track too (`PlaysOK`, `PressesOK`): what plays next was decided when the track was
chosen, two awaits earlier. Each step of the foreground player that attaches nothing new (`Attaches`)
keeps it; the delivery of a session, a choice and a press have lemmas of their own. From it follow
`ShownTrackPlays`, the action property `PressesActOnTheirTrack`, and `TrackKeepsThePlayer`: the
foreground player's own promises hold under this caller, the play and pause calls of the button
included. They are stated of `TrackSpec`; the cast *alone* of the run, in which nobody says what is
shown, belongs to the theorems of the foreground player.

**MediaKitEngineProofs.** `EngineInv` adds to the types: which of the two players is there and
why (`PlayersInv`); that an engine under rebuild is stalled and that what was dispatched keeps
dispose waiting (`WaitsInv`); that a source has its generation for itself and its file, unless that
was given up or its session told of the loss (`GenerationsOK`, `FilesOK`, `RunningOK`); and that
an open in the tail is of the player its load has noted (`AskedOK`). Ownership alone is not
inductive: what a session will own is decided while its open is under way, when mpv may load
the file, lose it, or be retired. From it follow `EngineHasOnePlayer` and `SourcesAreOwned`, for
any number of loads and any length of the tail.

**QqSessionProofs.** `SessionInv` has one part per subsystem. The one that carries the rest is
`FlightOK`: a captured snapshot of a generation is the credential that generation had, and from
the moment its answer is staged the candidate of an active flight was obtained with the source
of that flight in its session (`LineageOK`). From it follow `SessionTypes`, `RefreshesContinue`
and `EndedStayEnded`. `SuccessionInv` (`SuccessionInvariant`) relates whoever holds a session or
reads with it to the session of today: the same one or one of its successors; `RejectionsBelong`
follows, for any number of callers.

That a flight is the only one of its session, and that what is installed was accepted by the
server, are not true of the Rust code for callers that overlap across a replacement of the session:
the late answer of a call for the old session (`lib.rs:1126`) ends the flight of the new one, which
the call then reserves again. `SoleFlights`, `NoFlightTwice` and `AuthenticatedAreAccepted` state
the two properties under `OneSession`: calls that arm or ask at the same time hold the same
snapshot. The application satisfies it, as it chains its refreshes behind one another
(`qq_session_continuation.dart:84`); `OneCallerIsSafe` says the same of a single caller without
the hypothesis. In the runs calls
overlap while the session stays the same (*continued*), or follow one another.

**CredentialVaultProofs.** `VaultInv` (`VaultInvariant`) has three parts. `VaultTypes`: with the
types, no epoch that anybody remembers is of the future. `UsersInv`: which operation of the queue
belongs to which wait (`Fits`), only the first one has begun, the deletion of a sign-out stands behind
operations of older epochs only (`LeaverOK`), and nothing of a user that was superseded is shown
(`TurnsOK`). `LeftOK`: while a sign-out is under way or done (`Leaving`), the session is signed out,
what anybody captured before is of an older epoch or reads empty (`Harmless`), and an
operation that could write is out of date; once it is done (`Wiped`), both slots are empty. That a
sign-out leaves nothing is not inductive alone: what could undo it is in the queue, in the variables
of a user between two awaits, or in the session of the Rust core. Every step of the controller and of
the coordinator is shown to be a `Turn`, which keeps the invariant (`TurnKeeps`); the storage, the
login and the sign-out have lemmas of their own. `VaultTyped` and `SignOutsAreFinal` follow, for
any number of keys, any set of unreliable operations and a crash between any two steps.

On top of it, `LineInv` (`RotationsAreExchanges`) follows a key from the server to the current slot.
What is staged or waits to be staged was exchanged for the source it is filed under
(`StagesInLine`); from the answer of the refresh to the last write the coordinator carries the source
and the key of one exchange, and an active flight is the coordinator's own, for the key of this very
session (`FlightInLine`). None of it is inductive without the rest: the stage is written from a
document in the queue, the document from the coordinator's variables, those from the answer to a
flight that a login, a sign-out or a recovery may meanwhile have ended, and the verification is
accepted only under an active one. It needs `VaultInv` to know that whoever waits for an operation
of the queue is where it left off (`Fits`). Two things follow. `SuccessorsAreInstalled`, an action
property: a session gives way to a candidate only while its own flight is active, and only to a key
exchanged for the session's. `CrashesKeepTheLine`: wherever the process dies, the next start uses
the current credential or a key exchanged for it, which is half of what `StoredIsTheSession` promises;
the other half, that the current credential is still the one of the session, is not proved. `LineInv`
and both consequences were model-checked on the bounds of `vault` before they were proved (they are
no properties of a run).

**BridgeHandleProofs.** `HandleTypes`, `AppliedWritesAreNotDenied` and `CancellationHolds`, for any
number of runs.

**TrackLikesProofs.** `LikesInv` is type correctness (the list holds no track twice; a write that
is carried out and not yet answered is what the list says unless another device has overtaken it),
`QuietRefresh` and `QuietScan` (what
has been collected without a write in between is a prefix of the list, up to the offset it is
read on from) and `Known` (what a heart shows is the list, a write, or in doubt). Truthfulness
alone is not inductive: what a refresh will show is decided page by page, long before it is
shown. From it follow `LikesTyped`, `ReadingIsSound`, `HeartsAreTruthful` and `SnapshotIsKept`.

**Only model-checked.** All liveness: the prover does not handle `ENABLED`, which fairness is
made of. Of the vault `StoredIsTheSession`,
which speaks of what rotations, recoveries and crashes do to a session that is stored, not of a
decision to delete it (`givenUp`): such a decision can be wrong, see the findings and the observations.
It relates the order of the queue, what each user captured between two awaits and the server's
chain of keys, and needs an invariant over all three; proved of it is the chain
(`RotationsAreExchanges`, `CrashesKeepTheLine`), not that the slots and the session stay on it together. Outside the listed runs it was also checked
with four keys, more rejected reads, resumes and crashes, and every kind of operation failing.

## Findings

`PROJECT.json`, `findings`, has each with the lines it quotes and the run that shows it.

* `qq_expired`: `prepare_credential_refresh` accepts a locally expired credential, and the check of
  its answer (`matches_snapshot`) knows only authenticated and continued ones: that refresh is
  always reported as replaced (`crates/provider-qqmusic/src/lib.rs:1123`).
* `vault_outage`: the continuation of a rejected read that waited behind a checkpoint deletes both
  slots, a candidate the server never refused among them
  (`qq_session_continuation.dart:207`).
* `queue_roam`: a continuation made stale by a command still asks for related tracks, refuses the
  answer, and leaves "loading" (`queue_playback_controller.dart:650`).
* `likes_negative`: pages are read by position; a song that moves between two reads is shown as not
  liked (`track_like_presentation_controller.dart:434`; the documents promise otherwise).

## Observations

Behaviours of the code met while modelling that are neither properties nor findings: no document
speaks about most of them, and where one does, the entry names it.

Playback:

* `releaseAfter` chains its futures: when one entry of the chain fails, the entries behind it
  fail without running their native operation (`foreground_audio_player.dart:253`).
* After a failed resolution a change of the volume makes the foreground player notify, and its
  "stopped" replaces the error on show (`track_playback_controller.dart:211`).
* When a source ends while `pause()` waits for its answer, the answer shows "paused" over a
  player that has completed (`foreground_playback_controller.dart:108`). When it ends before
  `play()` has answered, the completion is forwarded and taken
  (`foreground_audio_player.dart:431`), and the answer then shows "playing" over it
  (`foreground_playback_controller.dart:92`, `:123`, `:153`); `PlayingShown` allows that case alone.
* An interruption that begins while a track resolves or loads finds `canPause` false and is
  dropped (`system_playback_service.dart:403`).
* A stalled media_kit engine refuses every operation, the stop of the audible source among them,
  until the next load (`media_kit_foreground_audio_engine.dart:262`); the session whose operation
  ran out of time gives up its focus while mpv may go on playing. A test treats this as intended.
* After `clear()` the track player keeps its track, so play starts a track the queue no longer has.
* A continuation orphaned from a replaced collection, or of an older end, can overwrite a newer
  end's terminal claim: the page is appended and playback does not go on. A retry that meets an
  empty page leaves playback completed with more to load. `invalidateCollectionSource` lets
  roaming go on with a seed of the old provider.

Accounts:

* Two refresh calls that overlap across a login make two requests for one generation, although
  `lib.rs:948` speaks of "the one QQ-specific refresh decision", and let `commit_staged` install a
  candidate that was not verified (`lib.rs:1126`); joined calls that are forgotten wait for ever.
  The application serialises its calls, so neither is reached.
* The second run of a bridge handle can wait in vain for a permit the first has taken.
* A checkpoint whose unstage, re-read or deletion fails keeps its pending recovery until the
  application is started again. A skipped persist reports "stored". The fallback of a rejected
  candidate may import the current slot over a login that is not persisted yet.
* In a provider built without any refresh type (the application builds none: `any()` is true,
  `authentication.rs:34`), a rejected read that waited across a sign-out and a login is told
  `ProductionGateDisabled` and deletes the new login.
* A recovery is taken for superseded when another attempt at the same recovery replaces its
  verification (`login_gateway.dart:1360`): `_pendingRecovery` is dropped, the next attempt accepts
  the candidate without publishing it, and the rotation after that overwrites the stage, which held
  the only copy. A crash then finds the key that was exchanged two rotations before.
* `deleteTransactionIfCurrent` compares the epoch, which a recovery does not move: a refusal for a
  session that the recovery has replaced meanwhile, or a "no credential" told between its import
  and its verification, deletes the credential that is then accepted. The session stays signed in
  until the next start (`qq_session_continuation.dart:236`).
* A write confirmed while a refresh runs whose page was read before it is undone when the refresh
  is committed, which clears the overrides (`track_like_presentation_controller.dart:462`).
  `docs/development/built-in-provider-ui-integration.md:95-99` promises that "Confirmed writes apply
  only the target delta" and that the old snapshot stays "until the exact replacement succeeds"; of a
  replacement that was read before the write it does not say which of the two gives way.
* A confirmation sets the override whatever was read meanwhile (`:163`): when another device has
  reversed the write and a refresh has read that, the late answer overrides it until the next refresh.
* An unknown like shows its old "not liked" when the
  refresh then fails. A page that is cancelled too late can be taken for a page of a later
  refresh. `_loading` stays true when `refreshSnapshot` detaches a scan and then fails.

## What is not modelled

Within the modelled components: playback positions and their events (only the pending seek that
holds them back is), `releaseCompletionFocus` below the track player, the resolved quality and
the seek and pause behind a reload for one, the wording of failures, the engine's streams of
states; of the queue controller `dispose`, lyrics and the checks of provider identities, and the
stages "unsupported", "failed" and "empty" of roaming are one; of the vault, documents that
cannot be decoded and the login methods apart from each other; of the likes, the membership page
of NetEase, `dispose`, album favourites and a change of the account within one controller. The
session's own calls of its focus lease are represented by `Silent`, and in `MediaKitEngine` by an
answer at any time, rather than composed with `AudioFocus`.

Whole components: those `PROJECT.json` lists as `not_modelled`. Widgets, localisation, platform
runners and generated bridge code have no protocol of their own, and they and the protocol
clients (requests and parsing against remote services that are not in the repository) are most
of its lines: the models cover the code that has states and orders, which is the smaller part.
The browser login is process and file handling; domain values are validated once and immutable;
the media cache, recent listening and the lyric alignment are sequential and tested directly.

## Plan

1. Compose `MediaKitEngine` with `AudioFocus`, so that `Silent` becomes a checked promise of the
   engine instead of an assumption.
2. `PagedTracks` (one pump for manual, prefetch and search demand), QR login under
   `LoginController`, `Settings` and `SystemPlayback`.
3. `MediaCache`, `RecentListening` and `LyricAlignment` against reference definitions.
4. Proofs: what "Only model-checked" lists.
