----------------------------- MODULE TrackLikes -----------------------------
(***************************************************************************)
(* Which tracks the account likes, as the hearts show it: the controller   *)
(* of apps/flutter/lib/library/track_like_presentation_controller.dart     *)
(* over the pages of the Liked Songs of QQ Music, and the one write per    *)
(* track of library_mutation_coordinator.dart.                             *)
(*                                                                         *)
(* The service keeps the liked tracks in a list and hands it out by        *)
(* position.  A page holds one track here: what matters is that a list     *)
(* takes several reads and moves between them.                             *)
(***************************************************************************)
EXTENDS Naturals, FiniteSets, SequencesExt

CONSTANTS
    Track,
    Writable,    \* the tracks that are written, here or by another device
    Elsewhere    \* whether another device writes too

ASSUME WritableAssumption == IsFiniteSet(Track) /\ Writable \subseteq Track /\ Elsewhere \in BOOLEAN

VARIABLES
    list,                 \* the service: the liked tracks, the newest first
    bound,                \* _likedPlaylist is there
    likedTrackIds,        \* _likedTrackIds
    confirmedOverrides,   \* _confirmedOverrides: liked, notLiked or none
    needsReconciliation,  \* _needsReconciliation
    continuation,         \* _nextOffset, _complete and _scanReliable
    refresh,              \* _refreshing, _refreshIds, _refreshNextOffset, _refreshReliable
    scanning,             \* the offset of the page that _scan awaits, or Nowhere
    sharedPages,          \* _sharedPages: each page until it is cancelled
    late,                 \* pages that were cancelled after they had been answered
    write,                \* _operations: the write of each track, and how far it is; history:
                          \* an applied one is "overtaken" when another device writes the track
    doubt                 \* history: tracks whose truth the controller cannot know

pageVars == <<scanning, sharedPages, late>>
shownVars == <<bound, likedTrackIds, confirmedOverrides, needsReconciliation, continuation>>
lvars == <<list, shownVars, refresh, pageVars, write, doubt>>

Offset == 0..Cardinality(Track)
Nowhere == Cardinality(Track) + 1

\* A page: asked for, read by the service, done (its answer is there).
NoPage == [at |-> "none", ids |-> {}, next |-> 0, more |-> FALSE, exact |-> TRUE]
NoPages == [o \in Offset |-> NoPage]
Ask(pages, o) == IF pages[o] = NoPage THEN [pages EXCEPT ![o].at = "asked"] ELSE pages

\* offset: where it reads on; awaits: the page its loop waits for; quiet (history):
\* nothing that it reads was written meanwhile.
NoRefresh == [on |-> FALSE, ids |-> {}, offset |-> 0, reliable |-> TRUE,
              awaits |-> Nowhere, quiet |-> TRUE]
NewRefresh(quiet) == [NoRefresh EXCEPT !.on = TRUE, !.awaits = 0, !.quiet = quiet]

FromTheTop == [offset |-> 0, complete |-> FALSE, reliable |-> TRUE]

Liked == ToSet(list)
NoWrite == [at |-> "none", liked |-> FALSE]

\* stateFor; "loading" is an "unknown" with a reason and is not told apart.
StateFor(t) ==
    IF ~bound THEN "unavailable"
    ELSE IF t \in needsReconciliation THEN "unknown"
    ELSE IF confirmedOverrides[t] # "none" THEN confirmedOverrides[t]
    ELSE IF t \in likedTrackIds THEN "liked"
    ELSE IF continuation.complete /\ continuation.reliable THEN "notLiked"
    ELSE "unknown"

-----------------------------------------------------------------------------
(***************************************************************************)
(* Pages.                                                                  *)
(***************************************************************************)
\* The page at o as the service reads it; a row may come without its identity.
PageAt(o, exact) ==
    [at |-> "read", exact |-> exact, more |-> o + 1 < Len(list),
     next |-> IF o < Len(list) THEN o + 1 ELSE o,
     ids |-> IF o < Len(list) /\ exact THEN {list[o + 1]} ELSE {}]

\* _acceptCurrentPage
AcceptCurrentPage(page, o) ==
    IF o # continuation.offset
    THEN UNCHANGED <<likedTrackIds, continuation>>
    ELSE /\ likedTrackIds' = likedTrackIds \cup page.ids
         /\ continuation' = [offset |-> page.next,
                             complete |-> continuation.complete \/ ~page.more,
                             reliable |-> continuation.reliable /\ page.exact]

\* _acceptRefreshPage
Refreshed(page, o) ==
    IF o # refresh.offset THEN refresh
    ELSE [refresh EXCEPT !.ids = @ \cup page.ids, !.offset = page.next,
                         !.reliable = @ /\ page.exact]
StillNeeded(page, o) == IF o # refresh.offset THEN needsReconciliation
                        ELSE needsReconciliation \ Refreshed(page, o).ids
AcceptRefreshPage(page, o) ==
    refresh' = Refreshed(page, o) /\ needsReconciliation' = StillNeeded(page, o)

\* The callback of a shared page.
AcceptIntoBoth(page, o) == \* slip: the callback does not ask whether a refresh runs
    /\ AcceptCurrentPage(page, o)
    /\ IF refresh.on THEN AcceptRefreshPage(page, o)
       ELSE UNCHANGED <<refresh, needsReconciliation>>
Accept(page, o) ==
    IF refresh.on
    THEN AcceptRefreshPage(page, o) /\ UNCHANGED <<likedTrackIds, continuation>>
    ELSE AcceptCurrentPage(page, o) /\ UNCHANGED <<refresh, needsReconciliation>>

\* A loop whose page is there goes on in the same turn of the event loop: nothing else
\* happens before.
Done(o) == o # Nowhere /\ sharedPages[o].at = "done"
Resumable == Done(scanning) \/ Done(refresh.awaits)

\* _cancelSharedPages: a page that was answered before it was cancelled still arrives.
CancelSharedPages ==
    \E O \in SUBSET {o \in Offset : sharedPages[o].at = "read"} :
        late' = late \cup {[offset |-> o, page |-> sharedPages[o]] : o \in O}

\* _invalidate
Invalidate(playlist) ==
    /\ bound' = playlist
    /\ likedTrackIds' = {} /\ needsReconciliation' = {}
    /\ confirmedOverrides' = [t \in Track |-> "none"]
    /\ continuation' = FromTheTop
    /\ refresh' = NoRefresh
    /\ late' = {}

(***************************************************************************)
(* The account and its scans.                                              *)
(***************************************************************************)
LikesInit ==
    /\ list \in {l \in SeqOf(Track, Cardinality(Track)) : IsInjective(l)}
    /\ bound = FALSE
    /\ likedTrackIds = {} /\ needsReconciliation = {}
    /\ confirmedOverrides = [t \in Track |-> "none"]
    /\ continuation = FromTheTop
    /\ refresh = NoRefresh
    /\ scanning = Nowhere /\ sharedPages = NoPages /\ late = {}
    /\ write = [t \in Track |-> NoWrite]
    /\ doubt = {}

\* bindLikedPlaylist: the account has Liked Songs, and the scan starts.
BindKeepsOverrides == \* slip: the account is bound again without being invalidated
    /\ ~Resumable /\ ~bound
    /\ bound' = TRUE /\ likedTrackIds' = {} /\ needsReconciliation' = {}
    /\ continuation' = FromTheTop /\ refresh' = NoRefresh /\ late' = {}
    /\ scanning' = 0 /\ sharedPages' = Ask(NoPages, 0)
    /\ doubt' = {}
    /\ UNCHANGED <<list, write, confirmedOverrides>>
Bind ==
    /\ ~Resumable /\ ~bound
    /\ Invalidate(TRUE)
    /\ scanning' = 0 /\ sharedPages' = Ask(NoPages, 0)
    /\ doubt' = {}
    /\ UNCHANGED <<list, write>>

\* The library has no Liked Songs for the moment, or a page says that the session is over.
Unbind ==
    /\ ~Resumable /\ bound
    /\ Invalidate(FALSE)
    /\ scanning' = Nowhere /\ sharedPages' = NoPages
    /\ UNCHANGED <<list, write, doubt>>

\* preload, by a heart that is shown: the scan goes on from where it stopped.
Preload ==
    /\ ~Resumable
    /\ bound /\ ~continuation.complete /\ scanning = Nowhere /\ ~refresh.on
    /\ scanning' = continuation.offset
    /\ sharedPages' = Ask(sharedPages, continuation.offset)
    /\ UNCHANGED <<list, shownVars, refresh, late, write, doubt>>

\* A page of the application shows the liked songs; it shares the pages.
LoadPage(o) ==
    /\ ~Resumable
    /\ bound /\ sharedPages[o] = NoPage
    /\ sharedPages' = Ask(sharedPages, o)
    /\ UNCHANGED <<list, shownVars, refresh, scanning, late, write, doubt>>

\* _scanContinuation, from one page to the next.
ScanResumes ==
    /\ Done(scanning)
    /\ AcceptCurrentPage(sharedPages[scanning], scanning)
    /\ IF continuation'.complete
       THEN scanning' = Nowhere /\ UNCHANGED sharedPages
       ELSE /\ scanning' = continuation'.offset
            /\ sharedPages' = Ask(sharedPages, continuation'.offset)
    /\ UNCHANGED <<list, bound, confirmedOverrides, needsReconciliation, refresh, late,
                   write, doubt>>

-----------------------------------------------------------------------------
(***************************************************************************)
(* The refresh.                                                            *)
(***************************************************************************)
BeginRefresh ==
    /\ CancelSharedPages
    /\ scanning' = Nowhere
    /\ sharedPages' = Ask(NoPages, 0)
    /\ refresh' = NewRefresh(late' = {})

RefreshSnapshot ==
    /\ ~Resumable
    /\ bound /\ ~refresh.on
    /\ BeginRefresh
    /\ UNCHANGED <<list, shownVars, write, doubt>>

\* _commitRefresh
CommitKeepsOverrides(r) == \* slip: the overrides outlive the snapshot they corrected
    /\ likedTrackIds' = r.ids
    /\ continuation' = [offset |-> r.offset, complete |-> TRUE, reliable |-> TRUE]
    /\ needsReconciliation' = {}
    /\ doubt' = IF r.quiet THEN {} ELSE Track
    /\ UNCHANGED confirmedOverrides
CommitRefresh(r) ==
    /\ likedTrackIds' = r.ids
    /\ continuation' = [offset |-> r.offset, complete |-> TRUE, reliable |-> TRUE]
    /\ confirmedOverrides' = [t \in Track |-> "none"] /\ needsReconciliation' = {}
    /\ doubt' = IF r.quiet THEN {} ELSE Track

\* _scanRefresh, from one page to the next.
RefreshResumes ==
    LET o == refresh.awaits
        page == sharedPages[o]
        r == Refreshed(page, o)
    IN  /\ Done(o)
        /\ IF page.more
           THEN /\ refresh' = [r EXCEPT !.awaits = r.offset]
                /\ needsReconciliation' = StillNeeded(page, o)
                /\ sharedPages' = Ask(sharedPages, r.offset)
                /\ UNCHANGED <<likedTrackIds, continuation, confirmedOverrides, doubt>>
           ELSE /\ refresh' = NoRefresh
                /\ IF r.reliable THEN CommitRefresh(r)
                   ELSE /\ needsReconciliation' = StillNeeded(page, o)
                        /\ UNCHANGED <<likedTrackIds, continuation, confirmedOverrides, doubt>>
                /\ UNCHANGED sharedPages
        /\ UNCHANGED <<list, bound, scanning, late, write>>

-----------------------------------------------------------------------------
(***************************************************************************)
(* The service and its answers.                                            *)
(***************************************************************************)
ReadPage(o) ==
    /\ ~Resumable
    /\ sharedPages[o].at = "asked" /\ o <= Len(list)
    /\ \E exact \in (IF o < Len(list) THEN BOOLEAN ELSE {TRUE}) :
          sharedPages' = [sharedPages EXCEPT ![o] = PageAt(o, exact)]
    /\ UNCHANGED <<list, shownVars, refresh, scanning, late, write, doubt>>

AnswerPage(o) ==
    /\ ~Resumable
    /\ sharedPages[o].at = "read"
    /\ sharedPages' = [sharedPages EXCEPT ![o].at = "done"]
    /\ Accept(sharedPages[o], o)
    /\ UNCHANGED <<list, bound, confirmedOverrides, scanning, late, write, doubt>>

\* A page fails, among others one behind the end of a list that got shorter: the loop
\* that awaits it ends.
FailForgetsRefresh(o) == \* slip: a failed page leaves the refresh on
    /\ ~Resumable
    /\ sharedPages[o].at \in {"asked", "read"}
    /\ sharedPages' = [sharedPages EXCEPT ![o] = NoPage]
    /\ scanning' = IF scanning = o THEN Nowhere ELSE scanning
    /\ refresh' = IF refresh.awaits = o THEN [refresh EXCEPT !.awaits = Nowhere] ELSE refresh
    /\ UNCHANGED <<list, shownVars, late, write, doubt>>
FailPage(o) ==
    /\ ~Resumable
    /\ sharedPages[o].at \in {"asked", "read"}
    /\ sharedPages' = [sharedPages EXCEPT ![o] = NoPage]
    /\ scanning' = IF scanning = o THEN Nowhere ELSE scanning
    /\ refresh' = IF refresh.awaits = o THEN NoRefresh ELSE refresh
    /\ UNCHANGED <<list, shownVars, late, write, doubt>>

\* A page that was answered before it was cancelled: only its callback is still there.
AnswerLate(l) ==
    /\ ~Resumable
    /\ late' = late \ {l}
    /\ Accept(l.page, l.offset)
    /\ UNCHANGED <<list, bound, confirmedOverrides, scanning, sharedPages, write, doubt>>

-----------------------------------------------------------------------------
(***************************************************************************)
(* Writes.                                                                 *)
(***************************************************************************)
\* What is collected page by page no longer fits together when the list changes.
SomethingRead == \E o \in Offset : sharedPages[o].at \in {"read", "done"}
Collecting ==
    \/ late # {}
    \/ refresh.on /\ (refresh.offset > 0 \/ SomethingRead)
    \/ ~continuation.complete /\ (continuation.offset > 0 \/ SomethingRead)

Without(t) == RemoveAt(list, CHOOSE i \in DOMAIN list : list[i] = t)
ChangeList(t, liked, unseen) ==
    /\ list' = IF liked = (t \in Liked) THEN list
               ELSE IF liked THEN <<t>> \o list ELSE Without(t)
    /\ IF list' # list /\ Collecting
       THEN doubt' = Track /\ refresh' = [refresh EXCEPT !.quiet = FALSE]
       ELSE doubt' = doubt \cup unseen /\ UNCHANGED refresh

\* Another device writes, whatever is under way here: the answer to a write that was
\* carried out before may still be to come.
ChangeElsewhere(t) ==
    /\ ~Resumable
    /\ Elsewhere
    /\ ChangeList(t, t \notin Liked, {t})
    /\ write' = IF write[t].at = "applied" THEN [write EXCEPT ![t].at = "overtaken"] ELSE write
    /\ UNCHANGED <<shownVars, pageVars>>

\* setLiked, up to the request.  A second one for the track is refused as already running.
SetLiked(t, liked) ==
    /\ ~Resumable
    /\ bound /\ write[t] = NoWrite
    /\ write' = [write EXCEPT ![t] = [at |-> "sent", liked |-> liked]]
    /\ UNCHANGED <<list, shownVars, refresh, pageVars, doubt>>

ApplyWrite(t) ==
    /\ ~Resumable
    /\ write[t].at = "sent"
    /\ write' = [write EXCEPT ![t].at = "applied"]
    /\ ChangeList(t, write[t].liked, {})
    /\ UNCHANGED <<shownVars, pageVars>>

\* _refreshAdditionalState: the page that asked for the write loads its rows again.
DropPages ==
    IF refresh.on
    THEN sharedPages' = Ask(sharedPages, 0) /\ UNCHANGED <<scanning, late>>
    ELSE CancelSharedPages /\ scanning' = Nowhere /\ sharedPages' = Ask(NoPages, 0)

Override(t) == confirmedOverrides' = [confirmedOverrides EXCEPT
                   ![t] = IF write[t].liked THEN "liked" ELSE "notLiked"]

\* The answer is believed, however old it is and whatever a refresh has shown since.
Confirm(t) ==
    /\ ~Resumable
    /\ write[t].at \in {"applied", "overtaken"}
    /\ write' = [write EXCEPT ![t] = NoWrite]
    /\ Override(t)
    /\ needsReconciliation' = needsReconciliation \ {t}
    /\ \/ bound /\ DropPages
       \/ UNCHANGED pageVars
    /\ doubt' = IF write[t].at = "overtaken" THEN doubt \cup {t} ELSE doubt
    /\ UNCHANGED <<list, bound, likedTrackIds, continuation, refresh>>

\* The outcome is unknown; a write that was not carried out by now never will be.
LoseAnswer(t) ==
    /\ ~Resumable
    /\ write[t] # NoWrite
    /\ write' = [write EXCEPT ![t] = NoWrite]
    /\ confirmedOverrides' = [confirmedOverrides EXCEPT ![t] = "none"]
    /\ needsReconciliation' = needsReconciliation \cup {t}
    /\ doubt' = doubt \cup {t}
    /\ IF bound /\ ~refresh.on THEN BeginRefresh
       ELSE /\ UNCHANGED <<refresh, scanning, late>>
            /\ \/ UNCHANGED sharedPages
               \/ refresh.on /\ sharedPages' = Ask(sharedPages, 0)
    /\ UNCHANGED <<list, bound, likedTrackIds, continuation>>

RefuseOverrides(t) == \* slip: a refused write is shown all the same
    /\ ~Resumable
    /\ write[t].at = "sent"
    /\ write' = [write EXCEPT ![t] = NoWrite]
    /\ Override(t)
    /\ UNCHANGED <<list, bound, likedTrackIds, needsReconciliation, continuation, refresh,
                   pageVars, doubt>>
\* definitiveFailure
Refuse(t) ==
    /\ ~Resumable
    /\ write[t].at = "sent"
    /\ write' = [write EXCEPT ![t] = NoWrite]
    /\ UNCHANGED <<list, shownVars, refresh, pageVars, doubt>>

-----------------------------------------------------------------------------
LoopResumes == ScanResumes \/ RefreshResumes
PageStep(o) == ReadPage(o) \/ AnswerPage(o) \/ FailPage(o)
LikesNext ==
    \/ Bind \/ Unbind \/ Preload \/ RefreshSnapshot
    \/ LoopResumes
    \/ \E o \in Offset : LoadPage(o) \/ PageStep(o)
    \/ \E l \in late : AnswerLate(l)
    \/ \E t \in Writable : \/ ChangeElsewhere(t) \/ ApplyWrite(t)
                           \/ Confirm(t) \/ LoseAnswer(t) \/ Refuse(t)
                           \/ \E liked \in BOOLEAN : SetLiked(t, liked)

LikesSpec == LikesInit /\ [][LikesNext]_lvars

\* Every request is answered, well or badly (the client gives up by itself), and the
\* event loop goes on with a loop whose page is there.
AwaitedPage == \E o \in Offset : o \in {scanning, refresh.awaits} /\ PageStep(o)
LikesFairness == WF_lvars(LoopResumes) /\ WF_lvars(AwaitedPage)

-----------------------------------------------------------------------------
(***************************************************************************)
(* A heart that says yes or no says what the service has, but for a track  *)
(* whose write was carried out and is not answered yet, and for a track in *)
(* doubt.  In doubt is a track whose write was lost, that another device   *)
(* wrote, or whose write was confirmed after another device had overtaken  *)
(* it (the late answer overrides even a snapshot read since); and every    *)
(* track when the list was written while it was being read.  A refresh     *)
(* that has read the list undisturbed ends all doubt.                      *)
(***************************************************************************)
Truthful ==
    \A t \in Track \ doubt :
        write[t].at # "applied" =>
            /\ StateFor(t) = "liked" => t \in Liked
            /\ StateFor(t) = "notLiked" => t \notin Liked

(***************************************************************************)
(* A refresh keeps the old snapshot until the exact replacement succeeds:  *)
(* meanwhile, and when it fails, only its own write changes what a heart   *)
(* says, or the end of its uncertainty.                                    *)
(***************************************************************************)
RefreshKeepsSnapshot ==
    [][refresh.on /\ bound' =>
          \/ \A t \in Track \ needsReconciliation :
                StateFor(t)' = StateFor(t) \/ write'[t] # write[t]
          \/ ~refresh'.on /\ refresh.reliable /\ Done(refresh.awaits)]_lvars

\* A refresh ends, however the list and the pages change under it.
RefreshEnds == refresh.on ~> ~refresh.on

(***************************************************************************)
(* A write is about its own track: one that the service has and that       *)
(* nobody writes is not shown as "not liked" for what was confirmed of     *)
(* another.                                                                *)
(***************************************************************************)
NeverFabricatesNegative ==
    (\A t \in Track : write[t] = NoWrite) =>
        \A t \in Track \ Writable : t \in Liked => StateFor(t) # "notLiked"
=============================================================================
