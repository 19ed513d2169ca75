--------------------------- MODULE QueuePlayback ---------------------------
(***************************************************************************)
(* QueuePlaybackController (playback/queue_playback_controller.dart) over  *)
(* the playback queue: what starts an entry, what happens when one comes   *)
(* to its end, the pages of a collection that are loaded behind the queue, *)
(* and the related tracks of roaming.                                      *)
(*                                                                         *)
(* An action is what the controller does in one turn of the event loop:    *)
(* a command, a notification of the track player, or the answer of an      *)
(* await.  The track player is its environment here; TrackPlayback has its *)
(* inside.  Generations and tokens are captured to be compared later: the  *)
(* captured one is a Boolean that says whether it still equals the         *)
(* controller's.                                                           *)
(***************************************************************************)
EXTENDS PlaybackQueue

CONSTANTS
    MaxRow,          \* bound: rows of a provider's collection; row r is track r
    Targets,         \* initial queue targets of the policies (0: no initial fill)
    MaxInitialPages, \* pages the initial fill may load
    Lookahead,       \* _collectionLookaheadTracks
    EmptyPageBudget, \* _collectionTerminalEmptyPageBudget
    MaxIntents       \* bound: commands in a behaviour

ASSUME RowAssumption == MaxRow \in Nat /\ 1..MaxRow \subseteq Track /\ 0 \notin Track
ASSUME PolicyAssumption ==
    /\ Targets \subseteq Nat /\ MaxInitialPages \in Nat /\ Lookahead \in Nat
    /\ EmptyPageBudget \in Nat \ {0} /\ MaxIntents \in Nat

VARIABLES
    ctl,     \* the fields of the controller and what it sees of the track player
    omitted, \* history: rows of the attached collection that the provider left out
    chosen,  \* history: the listener has decided something since the last end or retry
    intents  \* commands so far

cvars == <<ctl, omitted, chosen, intents>>

NoTrack == 0
NoClaim == [fresh |-> FALSE, key |-> NoTrack, length |-> 0]

\* pump is _collectionLoadFuture: "asking" while the page is under way, "starting"
\* while the first entry of a page is being started.
NoCollection == [attached |-> FALSE, cursor |-> 0, hasMore |-> FALSE, stage |-> "idle",
                 demandedAt |-> NoPosition, target |-> 0, filled |-> 0, claim |-> NoClaim,
                 pump |-> "none", more |-> FALSE]

\* The continuation of an end that the queue had no answer to.  fresh compares its
\* terminal token, live the generation of its roam request, op says that
\* _roamOperation is its request.
Ended == [pc |-> "releasing", fresh |-> TRUE, tries |-> 0, length |-> 0, key |-> NoTrack,
          live |-> FALSE, op |-> FALSE]

(***************************************************************************)
(* The methods of the controller, from one state k of it to the next.  A   *)
(* primed variable is the snapshot the controller has just accepted.       *)
(***************************************************************************)
Current == IF currentIndex' = NoPosition THEN NoTrack ELSE tracks'[currentIndex']
PlaysThrough == order' = "Sequential" /\ repeatMode' = "Off"

ForAll(ends, change(_)) == [i \in DOMAIN ends |-> change(ends[i])]

NewEpoch(k) == \* ++_terminalIntentEpoch
    [k EXCEPT !.ends = ForAll(@, LAMBDA e : [e EXCEPT !.fresh = FALSE]),
              !.coll.claim.fresh = FALSE]

InvalidateRoam(k) ==
    [NewEpoch(k) EXCEPT
        !.roamStage = "idle",
        !.ends = ForAll(@, LAMBDA e : [e EXCEPT !.live = FALSE, !.op = FALSE])]

\* The load that is under way becomes nobody's; who waits for it still does.
InvalidateCollection(k) ==
    [k EXCEPT !.coll = NoCollection,
              !.ends = ForAll(@, LAMBDA e : IF e.pc = "waiting"
                                            THEN [e EXCEPT !.pc = "orphaned"] ELSE e)]

NeedsInitialFill(c) == Len(tracks') < c.target /\ c.filled < MaxInitialPages

MayDemand(c, force, viewport) ==
    /\ c.hasMore /\ c.pump = "none" /\ PlaysThrough /\ currentIndex' # NoPosition
    /\ \/ force \/ viewport \/ NeedsInitialFill(c)
       \/ Len(tracks') - currentIndex' <= Lookahead /\ c.demandedAt # currentIndex'
    /\ force \/ c.stage # "failed"

\* _maybeDemandCollection and the microtask it schedules, which runs before the
\* next event does.
Demand(k, force, viewport) ==
    IF MayDemand(k.coll, force, viewport)
    THEN [k EXCEPT !.coll.demandedAt = currentIndex', !.coll.pump = "asking",
                   !.coll.stage = "loading"]
    ELSE k

\* _onPlaybackChanged for a player that has not come to an end.
Notice(k) ==
    LET roaming == \E i \in DOMAIN k.ends : k.ends[i].op
    IN  Demand([(IF roaming THEN InvalidateRoam(k) ELSE k) EXCEPT !.handled = FALSE],
               FALSE, FALSE)

PlayTrack(k) == Notice([k EXCEPT !.player = "busy", !.on = Current])
StopPlayer(k) == Notice([k EXCEPT !.player = "idle"])

Apply(k) ==
    IF ~update'.playbackRequested THEN k
    ELSE IF currentIndex' = NoPosition THEN StopPlayer(k) ELSE PlayTrack(k)

(***************************************************************************)
(* Commands.                                                               *)
(***************************************************************************)
Command == intents < MaxIntents /\ intents' = intents + 1
Decides == Command /\ chosen' = TRUE /\ UNCHANGED omitted

ReplaceAndPlay(batch, index) ==
    /\ Decides /\ Replace(batch, index)
    /\ ctl' = Apply(InvalidateRoam(InvalidateCollection(ctl)))
PushTrack(track) ==
    /\ Decides /\ Push(track)
    /\ ctl' = Apply(InvalidateRoam(InvalidateCollection(ctl)))
RemoveTrack(index) ==
    /\ Decides /\ RemoveEntry(index)
    /\ ctl' = Apply(InvalidateRoam(InvalidateCollection(ctl)))
ClearQueue ==
    /\ Decides /\ Clear
    /\ ctl' = Apply(InvalidateRoam(InvalidateCollection(ctl)))

SelectUnplayed(index) == \* slip: the entry is selected and not played
    Decides /\ Select(index) /\ ctl' = InvalidateRoam(ctl)
SelectTrack(index) == Decides /\ Select(index) /\ ctl' = Apply(InvalidateRoam(ctl))
NavigateTrack == Decides /\ (Advance \/ Rewind) /\ ctl' = Apply(InvalidateRoam(ctl))

ChangeOrder(o) ==
    /\ Decides /\ SetOrder(o)
    /\ ctl' = InvalidateRoam(IF o # order THEN InvalidateCollection(ctl) ELSE ctl)
ChangeRepeatKeepsRoam(mode) == \* slip: what was to follow the end is not given up
    /\ Decides /\ SetRepeatMode(mode)
    /\ ctl' = IF mode # repeatMode THEN InvalidateCollection(ctl) ELSE ctl
ChangeRepeat(mode) ==
    /\ Decides /\ SetRepeatMode(mode)
    /\ ctl' = InvalidateRoam(IF mode # repeatMode THEN InvalidateCollection(ctl) ELSE ctl)

\* A collection of which the first rows are known already.
PlayCollection(rows, index, target) ==
    /\ Command /\ chosen' = TRUE /\ omitted' = {}
    /\ Replace([r \in 1..rows |-> r], index)
    /\ ctl' = PlayTrack([InvalidateRoam(ctl) EXCEPT
           !.coll = [NoCollection EXCEPT
               !.attached = TRUE, !.cursor = rows, !.hasMore = rows < MaxRow,
               !.stage = IF rows < MaxRow THEN "ready" ELSE "exhausted", !.target = target],
           !.ends = InvalidateCollection(InvalidateRoam(ctl)).ends])

SetRoamEnabled(enabled) ==
    /\ Decides /\ enabled # ctl.roamEnabled /\ UNCHANGED qvars
    /\ ctl' = InvalidateRoam([ctl EXCEPT !.roamEnabled = enabled])

\* activateCurrent, playCurrent: an entry that is not playing is started again.
ActivateCurrent ==
    /\ Decides /\ UNCHANGED qvars
    /\ LET k == InvalidateRoam(ctl)
       IN  ctl' = IF ctl.player \in {"idle", "completed"} /\ ctl.on # NoTrack
                  THEN Notice([k EXCEPT !.player = "busy"]) ELSE k

StopPlayback == Decides /\ UNCHANGED qvars /\ ctl' = StopPlayer(InvalidateRoam(ctl))

\* Commands that leave what plays next as it was; a retry at an end asks for it again.
ReloadCurrentSource ==
    /\ Command /\ ctl.player = "playing" /\ currentIndex # NoPosition
    /\ UNCHANGED <<qvars, omitted, chosen>>
    /\ ctl' = PlayTrack(ctl)
InvalidateCollectionSource ==
    /\ Command /\ UNCHANGED <<qvars, omitted, chosen>>
    /\ ctl' = InvalidateCollection(ctl)
RetryContinuation ==
    /\ Command /\ ctl.coll.hasMore /\ ctl.coll.pump # "asking"
    /\ UNCHANGED <<qvars, omitted>>
    /\ LET k == [ctl EXCEPT !.coll.demandedAt = NoPosition, !.coll.stage = "ready"]
           claimed == [k EXCEPT !.coll.claim = [fresh |-> TRUE, key |-> Current,
                                                length |-> Len(tracks)]]
           atEnd == ctl.player = "completed" /\ MayDemand(k.coll, TRUE, FALSE)
       IN  /\ ctl' = Demand(IF atEnd THEN claimed ELSE k, TRUE, FALSE)
           /\ chosen' = (chosen /\ ~atEnd)

\* The queue panel comes near its end, or a command has started its entry.
LaterDemand ==
    /\ UNCHANGED <<qvars, omitted, chosen, intents>>
    /\ \/ ctl' = Demand(ctl, FALSE, FALSE)
       \/ ctl.coll.stage # "failed" /\ ctl' = Demand(ctl, FALSE, TRUE)

(***************************************************************************)
(* The track player.                                                       *)
(***************************************************************************)
PlayerMoves ==
    /\ UNCHANGED <<qvars, omitted, chosen, intents>>
    /\ \/ ctl.player = "busy" /\ ctl' = Notice([ctl EXCEPT !.player = "playing"])
       \/ ctl.player # "idle" /\ ctl' = StopPlayer(ctl)

\* An end is handled once, however often the player then notifies.
PlayerCompletes ==
    /\ ctl.player # "idle" /\ ~ctl.handled
    /\ CompleteCurrent
    /\ LET k == [NewEpoch(ctl) EXCEPT !.player = "completed", !.handled = TRUE]
       IN  ctl' = CASE update'.completionAction = "ReplayCurrent" ->
                           Notice([k EXCEPT !.player = "busy"])
                    [] update'.completionAction = "PlayCurrent" -> PlayTrack(k)
                    [] OTHER -> [k EXCEPT !.ends = Append(@, Ended)]
    /\ chosen' = FALSE
    /\ UNCHANGED <<omitted, intents>>

(***************************************************************************)
(* What follows an end: pages of the collection, then related tracks.      *)
(***************************************************************************)
Without(k, i) == [k EXCEPT !.ends = RemoveAt(@, i)]

\* One round of _continueCollectionFromTerminal: it waits for the load under way.
AwaitPage(k, i, tries) ==
    LET key == IF tries = 0 THEN Current ELSE k.ends[i].key
        claim == [fresh |-> k.ends[i].fresh, length |-> Len(tracks'),
                  key |-> IF MayDemand(k.coll, TRUE, FALSE) THEN Current ELSE key]
        j == Demand([k EXCEPT !.coll.claim = claim], TRUE, FALSE)
        e == [k.ends[i] EXCEPT !.pc = IF j.coll.pump = "none" THEN "resumed" ELSE "waiting",
                               !.tries = tries, !.length = Len(tracks'), !.key = key]
    IN  [j EXCEPT !.ends = Append(RemoveAt(@, i), e)]

\* _continueRoamFromTerminal, up to its request.
BeginRoam(k, i) ==
    LET e == [k.ends[i] EXCEPT !.pc = "roaming", !.key = Current, !.length = Len(tracks'),
                               !.live = TRUE, !.op = TRUE]
        others == ForAll(k.ends, LAMBDA d : [d EXCEPT !.live = FALSE, !.op = FALSE])
    IN  IF ~k.roamEnabled \/ currentIndex' = NoPosition \/ HasNext' \/ ~PlaysThrough
        THEN {Without(k, i)}
        ELSE {[Without(k, i) EXCEPT !.roamStage = "over"],
              [k EXCEPT !.roamStage = "loading", !.ends = [others EXCEPT ![i] = e]]}

FocusReleased(i) ==
    /\ ctl.ends[i].pc = "releasing" /\ UNCHANGED qvars
    /\ ctl' \in IF ~ctl.coll.hasMore THEN BeginRoam(ctl, i)
                ELSE {IF PlaysThrough /\ currentIndex # NoPosition
                      THEN AwaitPage(ctl, i, 0) ELSE Without(ctl, i)}

\* The load that was waited for has ended, whatever came of it.
Resume(i) ==
    /\ ctl.ends[i].pc \in {"resumed", "orphaned"} /\ UNCHANGED qvars
    /\ LET e == ctl.ends[i]
           rearmed == [ctl EXCEPT !.coll.demandedAt = NoPosition]
       IN  ctl' \in IF \/ ctl.player # "completed" \/ Len(tracks) # e.length
                       \/ ctl.coll.stage = "failed"
                    THEN {Without(ctl, i)}
                    ELSE IF ~ctl.coll.hasMore THEN BeginRoam(ctl, i)
                    ELSE {IF e.tries + 1 < EmptyPageBudget
                          THEN AwaitPage(rearmed, i, e.tries + 1) ELSE Without(rearmed, i)}

RoamIsCurrent(e) ==
    /\ e.live /\ e.fresh /\ ctl.roamEnabled /\ ctl.player = "completed"
    /\ order = "Sequential" /\ repeatMode = "Off" /\ ~HasNext
    /\ Len(tracks) = e.length /\ currentIndex # NoPosition /\ tracks[currentIndex] = e.key

\* The related tracks: none of use, or one that the queue does not hold yet.
RoamAnswers(i) ==
    /\ ctl.ends[i].pc = "roaming"
    /\ \/ /\ ~RoamIsCurrent(ctl.ends[i])
          /\ ctl' = Without(ctl, i) /\ UNCHANGED qvars
       \/ /\ RoamIsCurrent(ctl.ends[i])
          /\ ctl' = [Without(ctl, i) EXCEPT !.roamStage = "over"] /\ UNCHANGED qvars
       \/ /\ RoamIsCurrent(ctl.ends[i])
          /\ \E t \in Track \ Range(tracks) : ExtendAndAdvanceFromTerminal(<<t>>)
          /\ ctl' = PlayTrack([Without(ctl, i) EXCEPT !.roamStage = "continued"])

(***************************************************************************)
(* The page pump.                                                          *)
(***************************************************************************)
Woken(k) == [k EXCEPT !.ends = ForAll(@, LAMBDA e : IF e.pc = "waiting"
                                                   THEN [e EXCEPT !.pc = "resumed"] ELSE e)]

FailLoad(k) == [Woken(k) EXCEPT !.coll.stage = "failed", !.coll.pump = "none",
                                !.coll.claim = NoClaim]

\* The page counts only now: the cursor moves and the next load may begin.
FinishLoadKeepsCursor(k, more) == \* slip: the same page is asked for again
    LET j == [Woken(k) EXCEPT !.coll.hasMore = more,
                 !.coll.stage = IF more THEN "ready" ELSE "exhausted",
                 !.coll.claim = NoClaim, !.coll.pump = "none"]
    IN  IF NeedsInitialFill(j.coll) THEN Demand(j, FALSE, FALSE) ELSE j
FinishLoad(k, more) ==
    LET j == [Woken(k) EXCEPT !.coll.cursor = @ + 1, !.coll.hasMore = more,
                 !.coll.filled = IF k.coll.target > 0 /\ @ < MaxInitialPages THEN @ + 1 ELSE @,
                 !.coll.stage = IF more THEN "ready" ELSE "exhausted",
                 !.coll.claim = NoClaim, !.coll.pump = "none"]
    IN  IF NeedsInitialFill(j.coll) THEN Demand(j, FALSE, FALSE) ELSE j

TerminalIsCurrent ==
    LET claim == ctl.coll.claim
    IN  /\ claim.fresh /\ ctl.player = "completed" /\ order = "Sequential" /\ repeatMode = "Off"
        /\ Len(tracks) = claim.length
        /\ currentIndex # NoPosition /\ tracks[currentIndex] = claim.key

PageFails ==
    /\ ctl.coll.pump = "asking" /\ UNCHANGED <<qvars, omitted, chosen, intents>>
    /\ ctl' = FailLoad(ctl)

\* A page is the next row, or nothing when the provider leaves that row out.
PageArrives(more) ==
    /\ ctl.coll.pump = "asking"
    /\ more => ctl.coll.cursor + 1 < MaxRow
    /\ LET row == ctl.coll.cursor + 1
       IN  \/ /\ omitted' = omitted \cup {row} /\ UNCHANGED qvars
              /\ ctl' = FinishLoad(ctl, more)
           \/ /\ ~TerminalIsCurrent /\ Extend(<<row>>)
              /\ ctl' = FinishLoad(ctl, more) /\ UNCHANGED omitted
           \/ /\ TerminalIsCurrent /\ ExtendAndAdvanceFromTerminal(<<row>>)
              /\ ctl' = IF update'.playbackRequested
                        THEN PlayTrack([ctl EXCEPT !.coll.pump = "starting",
                                                   !.coll.more = more])
                        ELSE FailLoad(ctl)
              /\ UNCHANGED omitted
    /\ UNCHANGED <<chosen, intents>>

\* playTrack of the page's first entry has come back.
PageStarted ==
    /\ ctl.coll.pump = "starting" /\ UNCHANGED <<qvars, omitted, chosen, intents>>
    /\ ctl' = FinishLoad(ctl, ctl.coll.more)

-----------------------------------------------------------------------------
ControllerInit ==
    /\ Create
    /\ ctl = [player |-> "idle", on |-> NoTrack, handled |-> FALSE, roamEnabled |-> FALSE,
              roamStage |-> "idle", coll |-> NoCollection, ends |-> <<>>]
    /\ omitted = {} /\ chosen = FALSE /\ intents = 0

CommandStep ==
    \/ \E batch \in Batch, index \in 0..MaxLength : ReplaceAndPlay(batch, index)
    \/ \E track \in Track : PushTrack(track)
    \/ \E index \in 1..MaxLength : RemoveTrack(index) \/ SelectTrack(index)
    \/ ClearQueue \/ NavigateTrack
    \/ \E o \in Orders : ChangeOrder(o)
    \/ \E mode \in RepeatModes : ChangeRepeat(mode)
    \/ \E rows \in 1..MaxRow, target \in Targets :
           \E index \in 1..rows : PlayCollection(rows, index, target)
    \/ \E enabled \in BOOLEAN : SetRoamEnabled(enabled)
    \/ ActivateCurrent \/ StopPlayback
    \/ ReloadCurrentSource \/ InvalidateCollectionSource \/ RetryContinuation

\* Who waited for a load goes on as soon as it has ended, in the order of waiting.
Due == {i \in DOMAIN ctl.ends : ctl.ends[i].pc = "resumed"}

ContinuationStep ==
    /\ \E i \in DOMAIN ctl.ends :
          /\ Due # {} => i \in Due /\ \A j \in Due : i <= j
          /\ FocusReleased(i) \/ Resume(i) \/ RoamAnswers(i)
    /\ UNCHANGED <<omitted, chosen, intents>>

PumpStep == PageFails \/ (\E more \in BOOLEAN : PageArrives(more)) \/ PageStarted

ControllerNext ==
    \/ ContinuationStep
    \/ Due = {} /\ (CommandStep \/ LaterDemand \/ PlayerMoves \/ PlayerCompletes \/ PumpStep)

ControllerSpec == ControllerInit /\ [][ControllerNext]_<<qvars, cvars>>

(***************************************************************************)
(* Properties.                                                             *)
(***************************************************************************)

\* While the queue has a current entry, that is what the player was given, whoever
\* moved the queue: a command, an end, a page or a related track.  (Of a queue that
\* has become empty the player keeps the last track, and plays it when asked to.)
PlaysTheCurrentEntry ==
    ctl.player # "idle" /\ currentIndex # NoPosition => ctl.on = tracks[currentIndex]

\* The first n entries of the queue are the rows up to last that the provider did not
\* leave out, each of them once and in order.
IsLine(last, n) ==
    /\ \A i, j \in 1..n : i < j => tracks[i] < tracks[j]
    /\ {tracks[i] : i \in 1..n} = (1..last) \ omitted

\* While a collection is attached the queue is the collection so far, and behind it
\* there is only what roaming added to an exhausted one.  (A row whose entry is being
\* started is in the queue and not counted yet.)
CollectionInOrder ==
    ctl.coll.attached =>
        LET last == ctl.coll.cursor + (IF ctl.coll.pump = "starting" THEN 1 ELSE 0)
        IN  IF ctl.coll.hasMore THEN IsLine(last, Len(tracks))
            ELSE \E n \in 0..Len(tracks) : IsLine(last, n)

\* What follows an end by itself yields to whatever the listener has decided since.
ChoiceWins ==
    [][(intents' = intents /\ Len(tracks') > Len(tracks) /\ ctl'.player = "busy"
        /\ ctl.player = "completed") => ~chosen]_<<qvars, cvars>>

\* "loading" is shown while one request for related tracks is active.
RoamLoadingIsActive ==
    ctl.roamStage = "loading" => \E i \in DOMAIN ctl.ends : ctl.ends[i].op
=============================================================================
