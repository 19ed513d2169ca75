------------------------- MODULE BridgeHandleProofs -------------------------
(***************************************************************************)
(* Proofs about BridgeHandle, for any number of calls of run().            *)
(***************************************************************************)
EXTENDS BridgeHandle, TLAPS

Early == {"idle", "claiming", "claimed", "waiting"}
Steps == Early \cup {"storing", "closing", "done"}
RunRecord == [pc : Steps, outcome : Outcome]

(***************************************************************************)
(* The inductive invariant.  A run has nothing to report before it leaves  *)
(* the select; a run whose request has left has passed the dispatch; and a *)
(* handle that was silenced is no longer active.                           *)
(***************************************************************************)
NothingYet == \A r \in Run : run[r].pc \in Early => run[r].outcome = "none"
SentIsDispatched ==
    \A r \in sent : /\ run[r].pc \notin {"idle", "claiming", "claimed"}
                    /\ run[r].outcome \notin {"invalid", "unavailable"}
SilencedIsInactive == silenced => ~active

HandleInv ==
    /\ TypeOK /\ NothingYet /\ SentIsDispatched /\ SilencedIsInactive
    /\ AppliedIsNeverDenied /\ CancelledInTimeStaysCancelled

\* What a handle says of itself when it was cancelled.
HandleFits(h) == /\ h.write \in BOOLEAN
                 /\ h.cancelled = IF h.write THEN "unknown" ELSE "cancelled"

LEMMA ReadFits == ASSUME NEW p, NEW n PROVE HandleFits(Read(p, n))
BY DEF HandleFits, Read

LEMMA WriteFits == ASSUME NEW p, NEW n PROVE HandleFits(Write(p, n))
BY DEF HandleFits, Write

\* Every handle of the table fits.
LEMMA HandlesFit == \A h \in Handles : HandleFits(h)
<1>1. /\ HandleFits(TrackSearchPage) /\ HandleFits(ArtistSearchPage)
      /\ HandleFits(AlbumSearchPage) /\ HandleFits(PlaylistSearchPage)
      /\ HandleFits(AlbumDetails) /\ HandleFits(AlbumTrackPage)
      /\ HandleFits(ArtistTrackPage) /\ HandleFits(ArtistAlbumPage)
      /\ HandleFits(AccountSummary) /\ HandleFits(TrackCommentPage)
  BY ReadFits DEF TrackSearchPage, ArtistSearchPage, AlbumSearchPage, PlaylistSearchPage,
     AlbumDetails, AlbumTrackPage, ArtistTrackPage, ArtistAlbumPage, AccountSummary,
     TrackCommentPage
<1>2. /\ HandleFits(FavoriteAlbumPage) /\ HandleFits(FavoriteArtistPage)
      /\ HandleFits(UserPlaylists) /\ HandleFits(PlaylistTrackPage)
      /\ HandleFits(RecentTrackPage) /\ HandleFits(Lyric) /\ HandleFits(MediaResolution)
      /\ HandleFits(TrackMusicVideo) /\ HandleFits(NewAlbumPage) /\ HandleFits(NewSongs)
  BY ReadFits DEF FavoriteAlbumPage, FavoriteArtistPage, UserPlaylists, PlaylistTrackPage,
     RecentTrackPage, Lyric, MediaResolution, TrackMusicVideo, NewAlbumPage, NewSongs
<1>3. /\ HandleFits(RankingGroups) /\ HandleFits(RankingTrackPage)
      /\ HandleFits(OfficialPlaylistPage) /\ HandleFits(RecommendedPlaylistPage)
      /\ HandleFits(DailyRecommendation) /\ HandleFits(PersonalizedPlaylists)
      /\ HandleFits(PersonalizedTracks) /\ HandleFits(RelatedTracks)
      /\ HandleFits(RadarTrackPage)
  BY ReadFits DEF RankingGroups, RankingTrackPage, OfficialPlaylistPage,
     RecommendedPlaylistPage, DailyRecommendation, PersonalizedPlaylists,
     PersonalizedTracks, RelatedTracks, RadarTrackPage
<1>4. /\ HandleFits(AlbumFavorite) /\ HandleFits(TrackLike)
      /\ HandleFits(PlaylistTrackMembership) /\ HandleFits(PlaylistCreation)
      /\ HandleFits(PlaylistDeletion)
  BY WriteFits DEF AlbumFavorite, TrackLike, PlaylistTrackMembership, PlaylistCreation,
     PlaylistDeletion
<1> QED
  BY <1>1, <1>2, <1>3, <1>4, Zenon DEF Handles

\* What a handle reports of a cancelled run is neither a result nor a refusal.
LEMMA CancelledFits ==
    ASSUME TypeOK
    PROVE  handle.cancelled \in {"unknown", "cancelled"}
<1>1. HandleFits(handle)
  BY HandlesFit DEF TypeOK
<1> QED
  BY <1>1 DEF HandleFits

(***************************************************************************)
(* One step of one run.                                                    *)
(***************************************************************************)
\* The fields of a run that moves on, and of the others.
LEMMA MovesFacts ==
    ASSUME run \in [Run -> RunRecord], NEW r \in Run, NEW pc \in Steps, Moves(r, pc)
    PROVE  /\ run' \in [Run -> RunRecord]
           /\ run'[r].pc = pc /\ run'[r].outcome = run[r].outcome
           /\ \A s \in Run : s # r => run'[s] = run[s]
<1> DEFINE x == [run[r] EXCEPT !.pc = pc]
<1>1. x \in RunRecord /\ x.pc = pc /\ x.outcome = run[r].outcome
  BY DEF RunRecord
<1>2. run' = [run EXCEPT ![r] = x]
  BY DEF Moves
<1> HIDE DEF x
<1> QED
  BY <1>1, <1>2

\* The same of a run that reports an outcome or returns one.
LEMMA EndsFacts ==
    ASSUME run \in [Run -> RunRecord], NEW r \in Run, NEW outcome \in Outcome,
           Reports(r, outcome) \/ Returns(r, outcome)
    PROVE  /\ run' \in [Run -> RunRecord]
           /\ run'[r].pc \in {"storing", "done"} /\ run'[r].outcome = outcome
           /\ \A s \in Run : s # r => run'[s] = run[s]
<1>1. PICK x \in RunRecord : /\ x.pc \in {"storing", "done"} /\ x.outcome = outcome
                             /\ run' = [run EXCEPT ![r] = x]
  <2>1. CASE Reports(r, outcome)
    BY <2>1 DEF Reports, RunRecord, Steps, Early
  <2>2. CASE Returns(r, outcome)
    BY <2>2 DEF Returns, RunRecord, Steps, Early
  <2> QED
    BY <2>1, <2>2
<1> QED
  BY <1>1

\* A run that goes on without an outcome breaks nothing, whether its request leaves
\* now or had left before.
LEMMA MovingOn ==
    ASSUME HandleInv, NEW r \in Run, NEW pc \in Steps, Moves(r, pc),
           pc \in {"idle", "claiming", "claimed"} => r \notin sent',
           pc \in Early => run[r].pc \in Early,
           sent' \in {sent, sent \cup {r}},
           r \in sent' => r \in sent \/ run[r].pc \in Early,
           running' \in BOOLEAN, active' \in {active, FALSE},
           UNCHANGED <<handle, target, permit, applied, silenced>>
    PROVE  HandleInv'
<1>1. run \in [Run -> RunRecord] /\ sent \subseteq Run
  BY DEF HandleInv, TypeOK, RunRecord, Steps, Early
<1>2. /\ run' \in [Run -> RunRecord]
      /\ run'[r].pc = pc /\ run'[r].outcome = run[r].outcome
      /\ \A s \in Run : s # r => run'[s] = run[s]
  BY <1>1, MovesFacts
<1>3. TypeOK'
  <2>0. /\ active \in BOOLEAN /\ permit \in BOOLEAN /\ applied \in BOOLEAN
        /\ silenced \in BOOLEAN /\ (permit => ~active)
    BY DEF HandleInv, TypeOK
  <2>1. {active, running, permit, applied, silenced}' \subseteq BOOLEAN /\ (permit => ~active)'
    <3>1. CASE active' = active
      BY <2>0, <3>1
    <3>2. CASE active' = FALSE
      BY <2>0, <3>2
    <3> QED
      BY <3>1, <3>2
  <2>2. /\ handle' \in Handles /\ target' \in [provider : Both, valid : BOOLEAN]
        /\ sent' \subseteq Run
    BY <1>1 DEF HandleInv, TypeOK
  <2> QED
    BY <1>2, <2>1, <2>2 DEF TypeOK, RunRecord, Steps, Early
<1>4. NothingYet'
  BY <1>2 DEF HandleInv, NothingYet
<1>5. r \in sent' => run[r].outcome \notin {"invalid", "unavailable"}
  BY DEF HandleInv, NothingYet, SentIsDispatched
<1>6. SentIsDispatched'
  BY <1>1, <1>2, <1>5 DEF HandleInv, SentIsDispatched
<1>7. SilencedIsInactive'
  BY DEF HandleInv, SilencedIsInactive
<1>8. AppliedIsNeverDenied'
  BY <1>1, <1>2, <1>5 DEF HandleInv, AppliedIsNeverDenied, NothingYet
<1>9. CancelledInTimeStaysCancelled'
  BY <1>2 DEF HandleInv, CancelledInTimeStaysCancelled
<1> QED
  BY <1>3, <1>4, <1>6, <1>7, <1>8, <1>9 DEF HandleInv

\* Nor does a run that ends with an outcome it is entitled to.
LEMMA Ending ==
    ASSUME HandleInv, NEW r \in Run, NEW outcome \in Outcome,
           Reports(r, outcome) \/ Returns(r, outcome),
           outcome \in {"invalid", "unavailable"} => r \notin sent,
           applied /\ r \in sent => outcome # "refused",
           silenced => outcome # "ok",
           r \in sent => run[r].pc = "waiting",
           running' \in BOOLEAN, permit' \in {permit, FALSE},
           UNCHANGED <<handle, target, active, sent, applied, silenced>>
    PROVE  HandleInv'
<1>1. run \in [Run -> RunRecord] /\ sent \subseteq Run
  BY DEF HandleInv, TypeOK, RunRecord, Steps, Early
<1>2. /\ run' \in [Run -> RunRecord]
      /\ run'[r].pc \in {"storing", "done"} /\ run'[r].outcome = outcome
      /\ \A s \in Run : s # r => run'[s] = run[s]
  BY <1>1, EndsFacts
<1>3. TypeOK'
  <2>0. /\ active \in BOOLEAN /\ permit \in BOOLEAN /\ applied \in BOOLEAN
        /\ silenced \in BOOLEAN /\ (permit => ~active)
    BY DEF HandleInv, TypeOK
  <2>1. {active, running, permit, applied, silenced}' \subseteq BOOLEAN /\ (permit => ~active)'
    <3>1. CASE permit' = permit
      BY <2>0, <3>1
    <3>2. CASE permit' = FALSE
      BY <2>0, <3>2
    <3> QED
      BY <3>1, <3>2
  <2>2. /\ handle' \in Handles /\ target' \in [provider : Both, valid : BOOLEAN]
        /\ sent' \subseteq Run
    BY <1>1 DEF HandleInv, TypeOK
  <2> QED
    BY <1>2, <2>1, <2>2 DEF TypeOK, RunRecord, Steps, Early
<1>4. NothingYet' /\ SentIsDispatched' /\ SilencedIsInactive'
  BY <1>1, <1>2 DEF HandleInv, NothingYet, SentIsDispatched, SilencedIsInactive, Early
<1>5. AppliedIsNeverDenied' /\ CancelledInTimeStaysCancelled'
  BY <1>1, <1>2 DEF HandleInv, AppliedIsNeverDenied, CancelledInTimeStaysCancelled
<1> QED
  BY <1>3, <1>4, <1>5 DEF HandleInv

(***************************************************************************)
(* Every action keeps the invariant.                                       *)
(***************************************************************************)
\* Every step of a task of the runtime keeps the invariant.
LEMMA LocalStepIsSafe ==
    ASSUME HandleInv, NEW r \in Run, LocalStep(r)
    PROVE  HandleInv'
<1>0. /\ handle.cancelled \in {"unknown", "cancelled"}
      /\ Outcome \cap {"unknown", "cancelled"} = {"unknown", "cancelled"}
      /\ running \in BOOLEAN /\ active \in BOOLEAN
  BY CancelledFits DEF HandleInv, TypeOK, Outcome
<1>1. CASE LoadActive(r)
  <2>1. r \notin sent
    BY <1>1 DEF LoadActive, HandleInv, SentIsDispatched
  <2>2. CASE active
    BY <1>0, <1>1, <2>1, <2>2, MovingOn DEF LoadActive, Steps, Early
  <2>3. CASE ~active
    BY <1>0, <1>1, <2>1, <2>3, Ending DEF LoadActive, Outcome
  <2> QED
    BY <2>2, <2>3
<1>2. CASE Claim(r)
  <2>1. r \notin sent
    BY <1>2 DEF Claim, HandleInv, SentIsDispatched
  <2>2. CASE ~running
    BY <1>0, <1>2, <2>1, <2>2, MovingOn DEF Claim, Steps, Early
  <2>3. CASE running
    BY <1>0, <1>2, <2>1, <2>3, Ending DEF Claim, Outcome
  <2> QED
    BY <2>2, <2>3
<1>3. CASE Dispatch(r)
  <2>1. r \notin sent
    BY <1>3 DEF Dispatch, HandleInv, SentIsDispatched
  <2>2. CASE Moves(r, "waiting") /\ sent' = sent \cup {r}
    BY <1>0, <1>3, <2>1, <2>2, MovingOn DEF Dispatch, Steps, Early
  <2>3. CASE (Reports(r, "invalid") \/ Reports(r, "unavailable")) /\ UNCHANGED sent
    BY <1>0, <1>3, <2>1, <2>3, Ending DEF Dispatch, Outcome
  <2> QED
    BY <1>3, <2>2, <2>3 DEF Dispatch
<1>4. CASE Interrupted(r)
  BY <1>0, <1>4, Ending DEF Interrupted, Outcome
<1>5. CASE StoreNotRunning(r)
  <2>1. r \in sent' => r \in sent
    BY <1>5 DEF StoreNotRunning
  <2> QED
    BY <1>0, <1>5, <2>1, MovingOn DEF StoreNotRunning, Steps, Early
<1>6. CASE StoreInactive(r)
  <2>1. r \in sent' => r \in sent
    BY <1>6 DEF StoreInactive
  <2> QED
    BY <1>0, <1>6, <2>1, MovingOn DEF StoreInactive, Steps, Early
<1> QED
  BY <1>1, <1>2, <1>3, <1>4, <1>5, <1>6 DEF LocalStep

\* So does the answer of the provider, on time or late.
LEMMA AnswerIsSafe ==
    ASSUME HandleInv, NEW r \in Run, Answered(r)
    PROVE  HandleInv'
<1>1. PICK result \in Result : Reports(r, IF active THEN result ELSE handle.cancelled)
  BY DEF Answered
<1>2. result \in {"unknown", "ok", "refused", "failed"} /\ (applied => result # "refused")
  BY <1>1 DEF Result
<1> DEFINE outcome == IF active THEN result ELSE handle.cancelled
<1>3. handle.cancelled \in {"unknown", "cancelled"}
  BY CancelledFits DEF HandleInv
<1>4. /\ outcome \in Outcome /\ outcome \notin {"invalid", "unavailable"}
      /\ applied => outcome # "refused"
  BY <1>2, <1>3 DEF Outcome
<1>5. silenced => outcome # "ok"
  BY <1>3 DEF HandleInv, SilencedIsInactive
<1>6. Reports(r, outcome)
  BY <1>1
<1>7. running \in BOOLEAN
  BY DEF HandleInv, TypeOK
<1> HIDE DEF outcome
<1> QED
  BY <1>4, <1>5, <1>6, <1>7, Ending DEF Answered

\* So does a cancellation at any time.
LEMMA CancelIsSafe ==
    ASSUME HandleInv, Cancel
    PROVE  HandleInv'
<1>1. TypeOK'
  BY DEF HandleInv, TypeOK, Cancel
<1>2. NothingYet' /\ SentIsDispatched' /\ AppliedIsNeverDenied'
  BY DEF HandleInv, Cancel, NothingYet, SentIsDispatched, AppliedIsNeverDenied
<1>3. SilencedIsInactive' /\ CancelledInTimeStaysCancelled'
  BY DEF HandleInv, Cancel, SilencedIsInactive, CancelledInTimeStaysCancelled, NothingYet, Early
<1> QED
  BY <1>1, <1>2, <1>3 DEF HandleInv

\* So does the server when it carries out what it has received.
LEMMA ApplyIsSafe ==
    ASSUME HandleInv, Apply
    PROVE  HandleInv'
<1>1. TypeOK' /\ AppliedIsNeverDenied'
  BY DEF HandleInv, TypeOK, AppliedIsNeverDenied, SentIsDispatched, Apply
<1> QED
  BY <1>1 DEF HandleInv, Apply, NothingYet, SentIsDispatched, SilencedIsInactive,
             CancelledInTimeStaysCancelled

\* The inductive invariant of a handle with its calls and its server.
THEOREM HandleInvariant == Spec => []HandleInv
<1>1. Init => HandleInv
  <2> SUFFICES ASSUME Init PROVE HandleInv
    OBVIOUS
  <2>1. target \in [provider : Both, valid : BOOLEAN]
    BY DEF Init
  <2> QED
    BY <2>1 DEF Init, HandleInv, TypeOK, NothingYet, SentIsDispatched, SilencedIsInactive,
           AppliedIsNeverDenied, CancelledInTimeStaysCancelled, Outcome, Early
<1>2. HandleInv /\ [Next]_bvars => HandleInv'
  <2> SUFFICES ASSUME HandleInv, [Next]_bvars PROVE HandleInv'
    OBVIOUS
  <2>1. CASE UNCHANGED bvars
    BY <2>1 DEF bvars, HandleInv, TypeOK, NothingYet, SentIsDispatched, SilencedIsInactive,
           AppliedIsNeverDenied, CancelledInTimeStaysCancelled
  <2> QED
    BY <2>1, LocalStepIsSafe, AnswerIsSafe, CancelIsSafe, ApplyIsSafe DEF Next
<1> QED
  BY <1>1, <1>2, PTL DEF Spec

\* The flags, the permit and every run keep their types, and a permit is only ever
\* there for a handle that was cancelled.
THEOREM HandleTypes == Spec => []TypeOK
<1>1. HandleInv => TypeOK
  BY DEF HandleInv
<1> QED
  BY <1>1, HandleInvariant, PTL

\* A write the server has carried out is never reported as refused, however
\* many calls of run() race with the cancellation and with the server.
THEOREM AppliedWritesAreNotDenied == Spec => []AppliedIsNeverDenied
<1>1. HandleInv => AppliedIsNeverDenied
  BY DEF HandleInv
<1> QED
  BY <1>1, HandleInvariant, PTL

\* After a cancellation that came before every answer no run hands out a result.
THEOREM CancellationHolds == Spec => []CancelledInTimeStaysCancelled
<1>1. HandleInv => CancelledInTimeStaysCancelled
  BY DEF HandleInv
<1> QED
  BY <1>1, HandleInvariant, PTL

=============================================================================
