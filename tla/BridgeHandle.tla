---------------------------- MODULE BridgeHandle ----------------------------
(***************************************************************************)
(* A cancellable handle of bridges/flutter/src/api: one read or one remote *)
(* write, which the application runs and may cancel.                       *)
(*                                                                         *)
(* cancel() is called on the thread of the user interface; every call of   *)
(* run() is a task of the multi-threaded runtime.  The two flags are       *)
(* atomics of their own, so each load, store and swap is one action.  The  *)
(* provider may answer late or never, and dropping the request does not    *)
(* take back what the server has received.                                 *)
(***************************************************************************)
EXTENDS Naturals, FiniteSets

CONSTANTS Run    \* calls of run() on the handle

VARIABLES
    handle,    \* what the handle runs: one of Handles
    target,    \* its provider, and whether the identity it names is well formed
    active,    \* AtomicBool
    running,   \* AtomicBool
    permit,    \* the permit that notify_one leaves in the Notify
    run,       \* each call of run(): where it is and what it returns
    sent,      \* the calls of run() whose request has left
    applied,   \* the server has carried out a write
    silenced   \* history: cancel() returned TRUE before any provider answered

bvars == <<handle, target, active, running, permit, run, sent, applied, silenced>>

QQ == "qq"
NetEase == "netease"
Both == {QQ, NetEase}

(***************************************************************************)
(* The handles: which providers serve each, whether an identity has to be  *)
(* decoded first, whether it changes anything remotely, and what it says   *)
(* of itself when it was cancelled.                                        *)
(***************************************************************************)
Read(providers, named) == [write |-> FALSE, providers |-> providers, named |-> named,
                           cancelled |-> "cancelled"]
Write(providers, named) == [write |-> TRUE, providers |-> providers, named |-> named,
                            cancelled |-> "unknown"]

TrackSearchPage == Read(Both, FALSE)
ArtistSearchPage == Read(Both, FALSE)
AlbumSearchPage == Read(Both, FALSE)
PlaylistSearchPage == Read(Both, FALSE)
AlbumDetails == Read(Both, TRUE)
AlbumTrackPage == Read(Both, TRUE)
ArtistTrackPage == Read(Both, TRUE)
ArtistAlbumPage == Read(Both, TRUE)
AccountSummary == Read(Both, FALSE)
TrackCommentPage == Read(Both, TRUE)
FavoriteAlbumPage == Read(Both, FALSE)
FavoriteArtistPage == Read(Both, FALSE)
UserPlaylists == Read(Both, FALSE)
PlaylistTrackPage == Read(Both, TRUE)
RecentTrackPage == Read(Both, FALSE)
Lyric == Read(Both, TRUE)
MediaResolution == Read(Both, TRUE)
TrackMusicVideo == Read(Both, TRUE)
NewAlbumPage == Read(Both, FALSE)
NewSongs == Read(Both, FALSE)
RankingGroups == Read(Both, FALSE)
RankingTrackPage == Read(Both, TRUE)
OfficialPlaylistPage == Read({QQ}, FALSE)
RecommendedPlaylistPage == Read(Both, FALSE)
DailyRecommendation == Read(Both, FALSE)
PersonalizedPlaylists == Read(Both, FALSE)
PersonalizedTracks == Read(Both, FALSE)
RelatedTracks == Read(Both, TRUE)
RadarTrackPage == Read(Both, FALSE) \* names no provider: always the QQ Music one
AlbumFavorite == Write({QQ}, TRUE)
TrackLike == Write(Both, TRUE)
PlaylistTrackMembership == Write(Both, TRUE)
PlaylistCreation == Write(Both, FALSE)
PlaylistDeletion == Write({QQ}, TRUE)

Handles == {TrackSearchPage, ArtistSearchPage, AlbumSearchPage, PlaylistSearchPage,
    AlbumDetails, AlbumTrackPage, ArtistTrackPage, ArtistAlbumPage, AccountSummary,
    TrackCommentPage, FavoriteAlbumPage, FavoriteArtistPage, UserPlaylists,
    PlaylistTrackPage, RecentTrackPage, Lyric, MediaResolution, TrackMusicVideo,
    NewAlbumPage, NewSongs, RankingGroups, RankingTrackPage, OfficialPlaylistPage,
    RecommendedPlaylistPage, DailyRecommendation, PersonalizedPlaylists,
    PersonalizedTracks, RelatedTracks, RadarTrackPage, AlbumFavorite, TrackLike,
    PlaylistTrackMembership, PlaylistCreation, PlaylistDeletion}

-----------------------------------------------------------------------------
Moves(r, pc) == run' = [run EXCEPT ![r].pc = pc]
Reports(r, outcome) == run' = [run EXCEPT ![r] = [pc |-> "storing", outcome |-> outcome]]
Returns(r, outcome) == run' = [run EXCEPT ![r] = [pc |-> "done", outcome |-> outcome]]

LoadActive(r) ==
    /\ run[r].pc = "idle"
    /\ IF active THEN Moves(r, "claiming") ELSE Returns(r, handle.cancelled)
    /\ UNCHANGED <<handle, target, active, running, permit, sent, applied, silenced>>

Claim(r) ==
    /\ run[r].pc = "claiming"
    /\ running' = TRUE
    /\ IF running THEN Returns(r, "alreadyRunning") ELSE Moves(r, "claimed")
    /\ UNCHANGED <<handle, target, active, permit, sent, applied, silenced>>

Dispatch(r) ==
    /\ run[r].pc = "claimed"
    /\ IF ~target.valid
       THEN Reports(r, "invalid") /\ UNCHANGED sent
       ELSE IF target.provider \notin handle.providers
       THEN Reports(r, "unavailable") /\ UNCHANGED sent
       ELSE Moves(r, "waiting") /\ sent' = sent \cup {r}
    /\ UNCHANGED <<handle, target, active, running, permit, applied, silenced>>

\* The server carries out a write it has received.
Apply ==
    /\ handle.write /\ sent # {} /\ ~applied
    /\ \A r \in sent : run[r].outcome # "refused"
    /\ applied' = TRUE
    /\ UNCHANGED <<handle, target, active, running, permit, run, sent, silenced>>

\* select!: the cancelled branch, ready as soon as there is a permit.
InterruptedDefinitely(r) == \* slip: a cancelled write is reported as not done
    /\ run[r].pc = "waiting" /\ permit
    /\ permit' = FALSE /\ Reports(r, "refused")
    /\ UNCHANGED <<handle, target, active, running, sent, applied, silenced>>
Interrupted(r) ==
    /\ run[r].pc = "waiting" /\ permit
    /\ permit' = FALSE /\ Reports(r, handle.cancelled)
    /\ UNCHANGED <<handle, target, active, running, sent, applied, silenced>>

\* select!: the provider's result.  A refused write was not carried out; a lost or
\* unreadable answer leaves it unknown.
Result == IF handle.write
          THEN {"unknown"} \cup (IF applied THEN {"ok"} ELSE {"refused"})
          ELSE {"ok", "failed"}
AnsweredUnchecked(r) == \* slip: the result is mapped without looking at active
    /\ run[r].pc = "waiting"
    /\ \E result \in Result : Reports(r, result)
    /\ UNCHANGED <<handle, target, active, running, permit, sent, applied, silenced>>
Answered(r) ==
    /\ run[r].pc = "waiting"
    /\ \E result \in Result : Reports(r, IF active THEN result ELSE handle.cancelled)
    /\ UNCHANGED <<handle, target, active, running, permit, sent, applied, silenced>>

StoreNotRunning(r) ==
    /\ run[r].pc = "storing"
    /\ running' = FALSE
    /\ Moves(r, "closing")
    /\ UNCHANGED <<handle, target, active, permit, sent, applied, silenced>>
StoreInactive(r) ==
    /\ run[r].pc = "closing"
    /\ active' = FALSE
    /\ Moves(r, "done")
    /\ UNCHANGED <<handle, target, running, permit, sent, applied, silenced>>

CancelWakesNobodyYet == \* slip: notify_waiters, which leaves no permit
    /\ active
    /\ active' = FALSE /\ permit' = \E r \in Run : run[r].pc = "waiting"
    /\ silenced' = \A r \in Run : run[r].pc \in {"idle", "claiming", "claimed", "waiting"}
    /\ UNCHANGED <<handle, target, running, run, sent, applied>>
Cancel ==
    /\ active
    /\ active' = FALSE /\ permit' = TRUE
    /\ silenced' = \A r \in Run : run[r].pc \in {"idle", "claiming", "claimed", "waiting"}
    /\ UNCHANGED <<handle, target, running, run, sent, applied>>

-----------------------------------------------------------------------------
Init ==
    /\ handle \in Handles
    /\ target \in [provider : Both, valid : IF handle.named THEN BOOLEAN ELSE {TRUE}]
    /\ active = TRUE /\ running = FALSE /\ permit = FALSE
    /\ run = [r \in Run |-> [pc |-> "idle", outcome |-> "none"]]
    /\ sent = {} /\ applied = FALSE /\ silenced = FALSE

LocalStep(r) == LoadActive(r) \/ Claim(r) \/ Dispatch(r) \/ Interrupted(r)
                \/ StoreNotRunning(r) \/ StoreInactive(r)
Next == Cancel \/ Apply \/ \E r \in Run : LocalStep(r) \/ Answered(r)

Spec == Init /\ [][Next]_bvars

\* The runtime goes on with a task that can go on.  Nobody has to answer.
FairSpec == Spec /\ \A r \in Run : WF_bvars(LocalStep(r))

-----------------------------------------------------------------------------
Outcome == {"none", "ok", "failed", "refused", "unknown", "cancelled", "alreadyRunning",
            "invalid", "unavailable"}

(***************************************************************************)
(* Types; and a permit is only ever there for a handle that was cancelled. *)
(***************************************************************************)
TypeOK ==
    /\ handle \in Handles /\ target \in [provider : Both, valid : BOOLEAN]
    /\ {active, running, permit, applied, silenced} \subseteq BOOLEAN
    /\ run \in [Run -> [pc : {"idle", "claiming", "claimed", "waiting", "storing", "closing",
                              "done"}, outcome : Outcome]]
    /\ sent \subseteq Run
    /\ permit => ~active

(***************************************************************************)
(* A write the server has carried out is never reported as refused: not to *)
(* a cancelled run, and not to one whose answer was lost.                  *)
(***************************************************************************)
AppliedIsNeverDenied ==
    applied => \A r \in sent : run[r].outcome \notin {"refused", "invalid", "unavailable"}

(***************************************************************************)
(* Whoever is told that the cancellation came in time is not handed a      *)
(* result afterwards, whichever branch of the select was ready first.      *)
(***************************************************************************)
CancelledInTimeStaysCancelled == silenced => \A r \in Run : run[r].outcome # "ok"

(***************************************************************************)
(* A cancelled handle lets go of the only run that is made of it, even if  *)
(* the provider never answers and even if the run begins to wait after the *)
(* cancellation.  (notify_one leaves one permit: a second run that slipped *)
(* past the two flags can wait for another one in vain.)                   *)
(***************************************************************************)
CancelLetsGo ==
    \A r \in Run :
        (/\ ~active /\ run[r].pc \in {"claiming", "claimed", "waiting"}
         /\ \A s \in Run \ {r} : run[s].pc = "idle") ~> run[r].pc = "done"

=============================================================================
