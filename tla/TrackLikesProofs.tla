-------------------------- MODULE TrackLikesProofs --------------------------
(***************************************************************************)
(* Proofs about TrackLikes, for any finite set of tracks.                  *)
(***************************************************************************)
EXTENDS TrackLikes, FiniteSetTheorems, SequenceTheorems, TLAPS

(***************************************************************************)
(* Types.  The service has no track twice in the list.                     *)
(***************************************************************************)
Page == [at : {"none", "asked", "read", "done"}, ids : SUBSET Track, next : Offset,
         more : BOOLEAN, exact : BOOLEAN]
RefreshRecord == [on : BOOLEAN, ids : SUBSET Track, offset : Offset, reliable : BOOLEAN,
                  awaits : Offset \cup {Nowhere}, quiet : BOOLEAN]
Shown == {"liked", "notLiked", "none"}

ListOK == list \in Seq(Track) /\ IsInjective(list) /\ Len(list) \in Offset
ShownOK ==
    /\ bound \in BOOLEAN /\ likedTrackIds \subseteq Track /\ needsReconciliation \subseteq Track
    /\ confirmedOverrides \in [Track -> Shown]
    /\ continuation \in [offset : Offset, complete : BOOLEAN, reliable : BOOLEAN]
RefreshOK ==
    /\ refresh \in RefreshRecord
    /\ refresh.on => bound /\ scanning = Nowhere /\ refresh.awaits \in Offset
    /\ ~refresh.on => refresh.awaits = Nowhere
PagesOK ==
    /\ scanning \in Offset \cup {Nowhere}
    /\ sharedPages \in [Offset -> Page]
    /\ late \subseteq [offset : Offset, page : Page]
WritesOK ==
    /\ write \in [Track -> [at : {"none", "sent", "applied", "overtaken"}, liked : BOOLEAN]]
    /\ \A t \in Track : write[t].at = "applied" => write[t].liked = (t \in Liked)
    /\ doubt \subseteq Track
LikesTypes == ListOK /\ ShownOK /\ RefreshOK /\ PagesOK /\ WritesOK

(***************************************************************************)
(* What was read from the list as it is: a page, and what the pages up to  *)
(* an offset amount to.                                                    *)
(***************************************************************************)
Accurate(page, o) ==
    /\ o <= Len(list) /\ (page.more <=> o + 1 < Len(list))
    /\ page.next = IF o < Len(list) THEN o + 1 ELSE o
    /\ page.ids = IF o < Len(list) /\ page.exact THEN {list[o + 1]} ELSE {}
Answered(o) == sharedPages[o].at \in {"read", "done"}
PagesAccurate == \A o \in Offset : Answered(o) => Accurate(sharedPages[o], o)

Prefix(n) == {list[i] : i \in 1..n}
Collected(ids, offset, reliable) ==
    /\ offset <= Len(list) /\ ids \subseteq Prefix(offset)
    /\ reliable => Prefix(offset) \subseteq ids

\* A refresh during which nothing was written: its loop has accepted every page before
\* the one it awaits, and that one when it is there.
QuietRefresh ==
    refresh.on /\ refresh.quiet =>
        /\ late = {} /\ PagesAccurate
        /\ Collected(refresh.ids, refresh.offset, refresh.reliable)
        /\ \/ refresh.awaits = refresh.offset
           \/ /\ sharedPages[refresh.awaits].at = "done"
              /\ refresh.offset = sharedPages[refresh.awaits].next

\* A scan that is not disturbed either.
QuietScan ==
    ~continuation.complete /\ doubt # Track =>
        /\ PagesAccurate /\ \A l \in late : Accurate(l.page, l.offset)
        /\ Collected(likedTrackIds, continuation.offset, continuation.reliable)

(***************************************************************************)
(* What is known of a track that is not in doubt: an override is right;    *)
(* without one the collected pages are, and so are those that may still    *)
(* be accepted.                                                            *)
(***************************************************************************)
Corrected(t) == confirmedOverrides[t] = IF t \in Liked THEN "liked" ELSE "notLiked"
Pending(t) == \/ \E o \in Offset : Answered(o) /\ t \in sharedPages[o].ids
              \/ \E l \in late : t \in l.page.ids
Read(t) ==
    /\ t \in likedTrackIds \/ Pending(t) => t \in Liked
    /\ continuation.complete /\ continuation.reliable /\ t \notin likedTrackIds => t \notin Liked
\* A write that another device overtook is in doubt again when it is confirmed.
Known ==
    \A t \in Track \ doubt :
        write[t].at # "applied" => Corrected(t) \/ (confirmedOverrides[t] = "none" /\ Read(t))

LikesInv == LikesTypes /\ QuietRefresh /\ QuietScan /\ Known

-----------------------------------------------------------------------------
(***************************************************************************)
(* The operators.                                                          *)
(***************************************************************************)
LEMMA OffsetFacts ==
    /\ Cardinality(Track) \in Nat /\ 0 \in Offset /\ Nowhere \notin Offset
    /\ \A o \in Offset : o \in Nat /\ o <= Cardinality(Track)
    /\ \A n \in Nat : n <= Cardinality(Track) => n \in Offset
  BY WritableAssumption, FS_CardinalityType DEF Offset, Nowhere

LEMMA NoPageFacts ==
    NoPage \in Page /\ NoPages \in [Offset -> Page] /\ NoPage.at = "none" /\ NoPage.ids = {}
  BY OffsetFacts DEF NoPage, NoPages, Page

LEMMA NoRefreshFacts ==
    NoRefresh \in RefreshRecord /\ ~NoRefresh.on /\ NoRefresh.awaits = Nowhere
  BY OffsetFacts DEF NoRefresh, RefreshRecord

\* Asking for a page leaves the ones that were answered alone.
LEMMA AskFacts ==
    ASSUME NEW pages \in [Offset -> Page], NEW o \in Offset
    PROVE  /\ Ask(pages, o) \in [Offset -> Page]
           /\ \A p \in Offset : \/ Ask(pages, o)[p] = pages[p]
                                \/ pages[p] = NoPage /\ Ask(pages, o)[p].at = "asked"
  BY NoPageFacts DEF Ask, Page

LEMMA PrefixFacts ==
    ASSUME ListOK
    PROVE  /\ Prefix(0) = {} /\ Prefix(Len(list)) = Liked
           /\ \A n \in 0..Len(list) : Prefix(n) \subseteq Liked
           /\ \A n \in 0..Len(list) : n < Len(list) =>
                  list[n + 1] \in Track /\ Prefix(n + 1) = Prefix(n) \cup {list[n + 1]}
<1> Len(list) \in Nat /\ DOMAIN list = 1..Len(list) /\ \A i \in 1..Len(list) : list[i] \in Track
  BY DEF ListOK
<1>1. Prefix(Len(list)) = Liked /\ Prefix(0) = {} /\ \A n \in 0..Len(list) : Prefix(n) \subseteq Liked
  BY DEF Prefix, Liked, ToSet
<1>2. ASSUME NEW n \in 0..Len(list), n < Len(list)
      PROVE  list[n + 1] \in Track /\ Prefix(n + 1) = Prefix(n) \cup {list[n + 1]}
  BY <1>2 DEF Prefix
<1> QED
  BY <1>1, <1>2

\* An accurate page that is accepted at the offset it was asked for extends the prefix.
LEMMA PageExtends ==
    ASSUME ListOK, NEW page \in Page, NEW o \in Offset, NEW ids \in SUBSET Track,
           NEW reliable \in BOOLEAN, Accurate(page, o), Collected(ids, o, reliable)
    PROVE  /\ Collected(ids \cup page.ids, page.next, reliable /\ page.exact)
           /\ ~page.more => page.next = Len(list)
<1> Len(list) \in Nat /\ o \in Nat /\ page.exact \in BOOLEAN /\ page.more \in BOOLEAN
  BY OffsetFacts DEF ListOK, Page
<1>1. CASE o < Len(list)
  <2>1. page.next = o + 1 /\ o + 1 <= Len(list) /\ (~page.more => o + 1 = Len(list))
    BY <1>1 DEF Accurate
  <2>2. Prefix(o + 1) = Prefix(o) \cup {list[o + 1]}
    BY <1>1, PrefixFacts
  <2>3. page.ids = IF page.exact THEN {list[o + 1]} ELSE {}
    BY <1>1 DEF Accurate
  <2> QED
    BY <2>1, <2>2, <2>3 DEF Collected
<1>2. CASE ~(o < Len(list))
  BY <1>2, PrefixFacts DEF Accurate, Collected
<1> QED
  BY <1>1, <1>2

\* What the service reads is a page, and accurate.
LEMMA PageAtFacts ==
    ASSUME ListOK, NEW o \in Offset, o <= Len(list), NEW exact \in BOOLEAN
    PROVE  PageAt(o, exact) \in Page /\ Accurate(PageAt(o, exact), o)
           /\ PageAt(o, exact).ids \subseteq Liked
<1> Len(list) \in Nat /\ o \in Nat /\ Len(list) <= Cardinality(Track)
  BY OffsetFacts DEF ListOK
<1>1. o < Len(list) => o + 1 \in Offset /\ list[o + 1] \in Track /\ list[o + 1] \in Liked
  BY OffsetFacts, PrefixFacts
<1>2. /\ PageAt(o, exact).at = "read" /\ PageAt(o, exact).exact = exact
      /\ PageAt(o, exact).more = (o + 1 < Len(list))
      /\ PageAt(o, exact).next = IF o < Len(list) THEN o + 1 ELSE o
      /\ PageAt(o, exact).ids = IF o < Len(list) /\ exact THEN {list[o + 1]} ELSE {}
  BY DEF PageAt
<1>3. (o + 1 < Len(list)) \in BOOLEAN /\ PageAt(o, exact).ids \in SUBSET Track
  BY <1>1, <1>2
<1>4. PageAt(o, exact) \in Page
  BY <1>1, <1>3 DEF PageAt, Page
<1> QED
  BY <1>1, <1>2, <1>4 DEF Accurate

-----------------------------------------------------------------------------
(***************************************************************************)
(* Steps that leave the list and the writes alone.                         *)
(***************************************************************************)
Unwritten == UNCHANGED <<list, write, doubt>>

LEMMA UnwrittenFacts ==
    ASSUME LikesInv, Unwritten
    PROVE  ListOK' /\ WritesOK'
  BY DEF Unwritten, LikesInv, LikesTypes, ListOK, WritesOK, Liked, Offset

\* The pages of a step: an answered one was there before, or was read just now.
Kept(o) == /\ Answered(o) /\ sharedPages'[o].ids = sharedPages[o].ids
           /\ sharedPages'[o].next = sharedPages[o].next
           /\ sharedPages'[o].more = sharedPages[o].more
           /\ sharedPages'[o].exact = sharedPages[o].exact
JustRead(o) == Accurate(sharedPages'[o], o) /\ sharedPages'[o].ids \subseteq Liked
PagesMove ==
    /\ late' \subseteq late
    /\ \A o \in Offset : Answered(o)' => Kept(o) \/ JustRead(o)

LEMMA PagesMoveFacts ==
    ASSUME list' = list, PagesMove
    PROVE  /\ PagesAccurate => PagesAccurate'
           /\ (\A l \in late : Accurate(l.page, l.offset))
                  => (\A l \in late : Accurate(l.page, l.offset))'
           /\ \A t \in Track : Pending(t)' => Pending(t) \/ t \in Liked
<1>1. ASSUME PagesAccurate, NEW o \in Offset, Answered(o)'
      PROVE  Accurate(sharedPages[o], o)'
  <2>1. CASE Kept(o)
    BY <1>1, <2>1 DEF Kept, PagesAccurate, Accurate
  <2>2. CASE JustRead(o)
    BY <2>2 DEF JustRead, Accurate
  <2> QED
    BY <1>1, <2>1, <2>2 DEF PagesMove
<1>2. ASSUME \A l \in late : Accurate(l.page, l.offset), NEW l \in late'
      PROVE  Accurate(l.page, l.offset)'
  BY <1>2 DEF PagesMove, Accurate
<1>3. ASSUME NEW t \in Track, Pending(t)'
      PROVE  Pending(t) \/ t \in Liked
  <2>1. CASE \E l \in late' : t \in l.page.ids
    BY <2>1 DEF PagesMove, Pending
  <2>2. ASSUME NEW o \in Offset, Answered(o)', t \in sharedPages'[o].ids
        PROVE  Pending(t) \/ t \in Liked
    BY <2>2 DEF PagesMove, Kept, JustRead, Pending
  <2> QED
    BY <1>3, <2>1, <2>2 DEF Pending
<1> QED
  BY <1>1, <1>2, <1>3 DEF PagesAccurate

\* What is known stays known.
LEMMA KnownKept ==
    ASSUME Known, Unwritten, confirmedOverrides' = confirmedOverrides,
           \A t \in Track \ doubt : Read(t) =>
               /\ t \in likedTrackIds' => t \in Liked
               /\ continuation'.complete /\ continuation'.reliable /\ t \notin likedTrackIds'
                      => t \notin Liked,
           \A t \in Track : Pending(t)' => Pending(t) \/ t \in Liked
    PROVE  Known'
<1> SUFFICES ASSUME NEW t \in Track \ doubt, write[t].at # "applied"
             PROVE  (Corrected(t) \/ (confirmedOverrides[t] = "none" /\ Read(t)))'
  BY DEF Known, Unwritten
<1>1. Liked' = Liked
  BY DEF Liked, Unwritten
<1>2. CASE Corrected(t)
  BY <1>1, <1>2 DEF Corrected
<1>3. CASE confirmedOverrides[t] = "none" /\ Read(t)
  BY <1>1, <1>3 DEF Read
<1> QED
  BY <1>2, <1>3 DEF Known

\* A step of the pages, after which the refresh goes on or is over.
LEMMA PagesStep ==
    ASSUME LikesInv, Unwritten, UNCHANGED shownVars, PagesOK', PagesMove,
           refresh' = refresh \/ refresh' = NoRefresh,
           refresh.on => scanning' = Nowhere,
           \A o \in Offset : sharedPages[o].at = "done" => sharedPages'[o] = sharedPages[o]
    PROVE  LikesInv'
<1>1. ListOK' /\ WritesOK'
  BY UnwrittenFacts
<1>2. ShownOK'
  BY DEF shownVars, LikesInv, LikesTypes, ShownOK
<1>3. RefreshOK'
  <2>1. CASE refresh' = NoRefresh
    BY <2>1, NoRefreshFacts DEF RefreshOK
  <2>2. CASE refresh' = refresh
    BY <2>2 DEF shownVars, LikesInv, LikesTypes, RefreshOK, RefreshRecord, Offset, Nowhere
  <2> QED
    BY <2>1, <2>2
<1>4. list' = list /\ PagesMove
  BY DEF Unwritten
<1>5. QuietRefresh'
  <2>1. CASE refresh' = NoRefresh
    BY <2>1 DEF QuietRefresh, NoRefresh
  <2>2. CASE refresh' = refresh
    <3> SUFFICES ASSUME refresh.on, refresh.quiet
                 PROVE  /\ late' = {} /\ PagesAccurate'
                        /\ Collected(refresh.ids, refresh.offset, refresh.reliable)'
                        /\ \/ refresh.awaits = refresh.offset
                           \/ /\ sharedPages'[refresh.awaits].at = "done"
                              /\ refresh.offset = sharedPages'[refresh.awaits].next
      BY <2>2 DEF QuietRefresh
    <3>1. /\ late = {} /\ PagesAccurate /\ refresh.awaits \in Offset
          /\ Collected(refresh.ids, refresh.offset, refresh.reliable)
          /\ \/ refresh.awaits = refresh.offset
             \/ /\ sharedPages[refresh.awaits].at = "done"
                /\ refresh.offset = sharedPages[refresh.awaits].next
      BY DEF LikesInv, QuietRefresh, LikesTypes, RefreshOK
    <3>2. Collected(refresh.ids, refresh.offset, refresh.reliable)'
      BY <1>4, <2>2, <3>1 DEF Collected, Prefix
    <3>3. late' = {} /\ PagesAccurate'
      BY <1>4, <3>1, PagesMoveFacts DEF PagesMove
    <3> QED
      BY <3>1, <3>2, <3>3
  <2> QED
    BY <2>1, <2>2
<1>6. QuietScan'
  BY <1>4, PagesMoveFacts DEF LikesInv, QuietScan, Collected, Prefix, shownVars, Unwritten
<1>7. Known'
  <2>1. \A t \in Track : Pending(t)' => Pending(t) \/ t \in Liked
    BY <1>4, PagesMoveFacts
  <2> QED
    BY <2>1, KnownKept DEF LikesInv, shownVars, Read
<1> QED
  BY <1>1, <1>2, <1>3, <1>5, <1>6, <1>7 DEF LikesInv, LikesTypes

-----------------------------------------------------------------------------
(***************************************************************************)
(* The pages, one lemma per action.                                        *)
(***************************************************************************)
\* Asking for a page moves none that was answered.
LEMMA AskMoves ==
    ASSUME PagesOK, NEW o \in Offset, sharedPages' = Ask(sharedPages, o), late' = late
    PROVE  /\ sharedPages' \in [Offset -> Page] /\ PagesMove
           /\ \A p \in Offset : sharedPages[p].at = "done" => sharedPages'[p] = sharedPages[p]
<1>1. sharedPages' \in [Offset -> Page]
  BY AskFacts DEF PagesOK
<1>2. \A p \in Offset : \/ sharedPages'[p] = sharedPages[p]
                        \/ sharedPages[p] = NoPage /\ sharedPages'[p].at = "asked"
  BY AskFacts DEF PagesOK
<1> QED
  BY <1>1, <1>2, NoPageFacts DEF PagesMove, Kept, Answered

LEMMA PreloadKeeps == ASSUME LikesInv, Preload PROVE LikesInv'
<1>1. continuation.offset \in Offset /\ PagesOK
  BY DEF LikesInv, LikesTypes, ShownOK
<1>2. late' = late /\ sharedPages' = Ask(sharedPages, continuation.offset)
  BY DEF Preload
<1>3. PagesMove /\ \A p \in Offset : sharedPages[p].at = "done" => sharedPages'[p] = sharedPages[p]
  BY <1>1, <1>2, AskMoves
<1>4. PagesOK'
  BY <1>1, <1>2, AskMoves DEF Preload, PagesOK, Offset, Page
<1> QED
  BY <1>3, <1>4, PagesStep DEF Preload, Unwritten

LEMMA LoadPageKeeps == ASSUME LikesInv, NEW o \in Offset, LoadPage(o) PROVE LikesInv'
<1>1. PagesOK /\ RefreshOK
  BY DEF LikesInv, LikesTypes
<1>2. late' = late /\ scanning' = scanning /\ sharedPages' = Ask(sharedPages, o)
  BY DEF LoadPage
<1>3. PagesMove /\ \A p \in Offset : sharedPages[p].at = "done" => sharedPages'[p] = sharedPages[p]
  BY <1>1, <1>2, AskMoves
<1>4. PagesOK'
  BY <1>1, <1>2, AskMoves DEF PagesOK, Offset, Page
<1> QED
  BY <1>1, <1>2, <1>3, <1>4, PagesStep DEF LoadPage, Unwritten, RefreshOK

LEMMA ReadPageKeeps == ASSUME LikesInv, NEW o \in Offset, ReadPage(o) PROVE LikesInv'
<1>1. PagesOK /\ RefreshOK /\ ListOK
  BY DEF LikesInv, LikesTypes
<1>2. PICK exact \in BOOLEAN : sharedPages' = [sharedPages EXCEPT ![o] = PageAt(o, exact)]
  BY DEF ReadPage
<1>3. /\ PageAt(o, exact) \in Page /\ Accurate(PageAt(o, exact), o)
      /\ PageAt(o, exact).ids \subseteq Liked
  BY <1>1, PageAtFacts DEF ReadPage
<1>4. PagesOK'
  BY <1>1, <1>2, <1>3 DEF ReadPage, PagesOK, Offset, Page
<1>5. PagesMove /\ \A p \in Offset : sharedPages[p].at = "done" => sharedPages'[p] = sharedPages[p]
  BY <1>1, <1>2, <1>3 DEF ReadPage, PagesOK, PagesMove, Kept, JustRead, Answered
<1> QED
  BY <1>1, <1>4, <1>5, PagesStep DEF ReadPage, Unwritten, RefreshOK

LEMMA FailPageKeeps == ASSUME LikesInv, NEW o \in Offset, FailPage(o) PROVE LikesInv'
<1>1. PagesOK /\ RefreshOK
  BY DEF LikesInv, LikesTypes
<1>2. sharedPages' = [sharedPages EXCEPT ![o] = NoPage] /\ sharedPages[o].at # "done"
  BY DEF FailPage
<1>3. PagesOK'
  BY <1>1, <1>2, NoPageFacts DEF FailPage, PagesOK, Offset, Page, Nowhere
<1>4. PagesMove /\ \A p \in Offset : sharedPages[p].at = "done" => sharedPages'[p] = sharedPages[p]
  BY <1>1, <1>2, NoPageFacts DEF FailPage, PagesOK, PagesMove, Kept, Answered
<1>5. refresh.on => scanning' = Nowhere
  BY <1>1 DEF FailPage, RefreshOK
<1> QED
  BY <1>3, <1>4, <1>5, PagesStep DEF FailPage, Unwritten

(***************************************************************************)
(* A page that is accepted.                                                *)
(***************************************************************************)
LEMMA AcceptCurrentFacts ==
    ASSUME LikesInv, NEW page \in Page, NEW o \in Offset, AcceptCurrentPage(page, o), Unwritten,
           \A t \in page.ids : Pending(t),
           ~continuation.complete /\ doubt # Track => Accurate(page, o)
    PROVE  /\ likedTrackIds' \subseteq Track
           /\ continuation' \in [offset : Offset, complete : BOOLEAN, reliable : BOOLEAN]
           /\ ~continuation'.complete /\ doubt # Track =>
                 Collected(likedTrackIds, continuation.offset, continuation.reliable)'
           /\ \A t \in Track \ doubt : Read(t) =>
                 /\ t \in likedTrackIds' => t \in Liked
                 /\ continuation'.complete /\ continuation'.reliable /\ t \notin likedTrackIds'
                        => t \notin Liked
<1> /\ page.ids \in SUBSET Track /\ page.next \in Offset
    /\ page.exact \in BOOLEAN /\ page.more \in BOOLEAN
  BY DEF Page
<1> /\ likedTrackIds \in SUBSET Track
    /\ continuation \in [offset : Offset, complete : BOOLEAN, reliable : BOOLEAN] /\ ListOK
  BY DEF LikesInv, LikesTypes, ShownOK
<1>1. CASE o # continuation.offset
  <2>1. likedTrackIds' = likedTrackIds /\ continuation' = continuation /\ list' = list
    BY <1>1 DEF AcceptCurrentPage, Unwritten
  <2>2. ~continuation.complete /\ doubt # Track =>
          Collected(likedTrackIds, continuation.offset, continuation.reliable)
    BY DEF LikesInv, QuietScan
  <2> QED
    BY <2>1, <2>2 DEF Read, Collected, Prefix
<1>2. CASE o = continuation.offset
  <2>1. /\ likedTrackIds' = likedTrackIds \cup page.ids
        /\ continuation' = [offset |-> page.next,
                            complete |-> continuation.complete \/ ~page.more,
                            reliable |-> continuation.reliable /\ page.exact]
    BY <1>2 DEF AcceptCurrentPage
  <2>2. ~continuation.complete /\ doubt # Track =>
            /\ Collected(likedTrackIds', page.next, continuation.reliable /\ page.exact)
            /\ ~page.more => page.next = Len(list)
    BY <1>2, <2>1, PageExtends DEF LikesInv, QuietScan
  <2>3. list' = list
    BY DEF Unwritten
  <2>4. ~continuation'.complete /\ doubt # Track =>
            Collected(likedTrackIds, continuation.offset, continuation.reliable)'
    <3> SUFFICES ASSUME ~continuation'.complete, doubt # Track
                 PROVE  Collected(likedTrackIds, continuation.offset, continuation.reliable)'
      OBVIOUS
    <3>1. Collected(likedTrackIds', page.next, continuation.reliable /\ page.exact)
      BY <2>1, <2>2
    <3>2. /\ continuation'.offset = page.next
          /\ continuation'.reliable = (continuation.reliable /\ page.exact)
      BY <2>1
    <3> QED
      BY <2>3, <3>1, <3>2 DEF Collected, Prefix
  <2>5. ASSUME NEW t \in Track \ doubt, Read(t)
        PROVE  /\ t \in likedTrackIds' => t \in Liked
               /\ continuation'.complete /\ continuation'.reliable /\ t \notin likedTrackIds'
                      => t \notin Liked
    <3>1. t \in likedTrackIds' => t \in Liked
      BY <2>1, <2>5 DEF Read
    <3>2. ASSUME continuation'.complete, continuation'.reliable, t \notin likedTrackIds'
          PROVE  t \notin Liked
      <4>1. continuation.reliable /\ page.exact /\ t \notin likedTrackIds
        BY <2>1, <3>2
      <4>2. CASE continuation.complete
        BY <2>5, <4>1, <4>2 DEF Read
      <4>3. CASE ~continuation.complete
        <5>1. ~page.more
          BY <2>1, <3>2, <4>3
        <5>2. Prefix(Len(list)) \subseteq likedTrackIds'
          BY <2>2, <4>1, <4>3, <5>1 DEF Collected
        <5> QED
          BY <3>2, <5>2, PrefixFacts
      <4> QED
        BY <4>2, <4>3
    <3> QED
      BY <3>1, <3>2
  <2> QED
    BY <2>1, <2>4, <2>5
<1> QED
  BY <1>1, <1>2

LEMMA RefreshedFacts ==
    ASSUME RefreshOK, needsReconciliation \subseteq Track, NEW page \in Page, NEW o \in Offset
    PROVE  /\ Refreshed(page, o) \in RefreshRecord
           /\ Refreshed(page, o).on = refresh.on /\ Refreshed(page, o).awaits = refresh.awaits
           /\ Refreshed(page, o).quiet = refresh.quiet
           /\ StillNeeded(page, o) \subseteq needsReconciliation
           /\ o # refresh.offset => Refreshed(page, o) = refresh
           /\ o = refresh.offset =>
                 /\ Refreshed(page, o).ids = refresh.ids \cup page.ids
                 /\ Refreshed(page, o).offset = page.next
                 /\ Refreshed(page, o).reliable = (refresh.reliable /\ page.exact)
  BY DEF RefreshOK, RefreshRecord, Refreshed, StillNeeded, Page

LEMMA RefreshedCollects ==
    ASSUME RefreshOK, ListOK, needsReconciliation \subseteq Track, NEW page \in Page,
           NEW o \in Offset, Accurate(page, o),
           Collected(refresh.ids, refresh.offset, refresh.reliable)
    PROVE  LET r == Refreshed(page, o)
           IN  /\ Collected(r.ids, r.offset, r.reliable)
               /\ o = refresh.offset /\ ~page.more => r.offset = Len(list)
<1> refresh.ids \in SUBSET Track /\ refresh.reliable \in BOOLEAN
  BY DEF RefreshOK, RefreshRecord
<1>1. CASE o # refresh.offset
  BY <1>1, RefreshedFacts
<1>2. CASE o = refresh.offset
  BY <1>2, RefreshedFacts, PageExtends
<1> QED
  BY <1>1, <1>2

\* The step of an accepted page that leaves no refresh quiet or none on.
LEMMA AcceptedStep ==
    ASSUME LikesInv, Unwritten, UNCHANGED <<bound, confirmedOverrides>>,
           NEW page \in Page, NEW o \in Offset, Accept(page, o), PagesMove, PagesOK',
           scanning' = scanning,
           \A t \in page.ids : Pending(t),
           ~continuation.complete /\ doubt # Track => Accurate(page, o),
           refresh.on /\ refresh.quiet => QuietRefresh'
    PROVE  LikesInv'
<1> /\ RefreshOK /\ ShownOK /\ needsReconciliation \subseteq Track /\ list' = list
    /\ ListOK /\ WritesOK /\ PagesOK
  BY DEF LikesInv, LikesTypes, ShownOK, Unwritten
<1>1. ListOK' /\ WritesOK'
  BY UnwrittenFacts
<1>2. /\ PagesAccurate => PagesAccurate'
      /\ (\A l \in late : Accurate(l.page, l.offset))
             => (\A l \in late : Accurate(l.page, l.offset))'
      /\ \A t \in Track : Pending(t)' => Pending(t) \/ t \in Liked
  BY PagesMoveFacts
<1>3. CASE refresh.on
  <2>1. /\ refresh' = Refreshed(page, o) /\ needsReconciliation' = StillNeeded(page, o)
        /\ likedTrackIds' = likedTrackIds /\ continuation' = continuation
    BY <1>3 DEF Accept, AcceptRefreshPage
  <2>2. ShownOK'
    BY <2>1, RefreshedFacts DEF ShownOK, Offset, Shown
  <2>3. RefreshOK'
    BY <2>1, RefreshedFacts DEF RefreshOK, RefreshRecord, Offset, Nowhere
  <2>4. QuietRefresh'
    BY <2>1, RefreshedFacts, <1>3 DEF QuietRefresh
  <2>5. QuietScan'
    BY <1>2, <2>1 DEF LikesInv, QuietScan, Collected, Prefix, Unwritten
  <2>6. Known'
    BY <1>2, <2>1, KnownKept DEF LikesInv, Read
  <2> QED
    BY <1>1, <2>2, <2>3, <2>4, <2>5, <2>6 DEF LikesInv, LikesTypes
<1>4. CASE ~refresh.on
  <2>1. /\ AcceptCurrentPage(page, o) /\ refresh' = refresh
        /\ needsReconciliation' = needsReconciliation
    BY <1>4 DEF Accept
  <2>2. /\ likedTrackIds' \subseteq Track
        /\ continuation' \in [offset : Offset, complete : BOOLEAN, reliable : BOOLEAN]
        /\ ~continuation'.complete /\ doubt # Track =>
              Collected(likedTrackIds, continuation.offset, continuation.reliable)'
        /\ \A t \in Track \ doubt : Read(t) =>
              /\ t \in likedTrackIds' => t \in Liked
              /\ continuation'.complete /\ continuation'.reliable /\ t \notin likedTrackIds'
                     => t \notin Liked
    BY <2>1, AcceptCurrentFacts
  <2>3. ShownOK'
    BY <2>1, <2>2 DEF ShownOK, Offset, Shown
  <2>4. RefreshOK' /\ QuietRefresh'
    BY <1>4, <2>1 DEF RefreshOK, RefreshRecord, Offset, Nowhere, QuietRefresh
  <2>5. ~continuation'.complete => ~continuation.complete
    BY <2>1 DEF AcceptCurrentPage, ShownOK
  <2>6. QuietScan'
    BY <1>2, <2>2, <2>5 DEF LikesInv, QuietScan, Unwritten
  <2>7. Known'
    BY <1>2, <2>2, KnownKept DEF LikesInv
  <2> QED
    BY <1>1, <2>3, <2>4, <2>6, <2>7 DEF LikesInv, LikesTypes
<1> QED
  BY <1>3, <1>4

LEMMA AnswerPageKeeps == ASSUME LikesInv, NEW o \in Offset, AnswerPage(o) PROVE LikesInv'
<1> DEFINE page == sharedPages[o]
<1> /\ RefreshOK /\ ListOK /\ PagesOK /\ needsReconciliation \subseteq Track
    /\ page \in Page /\ page.at = "read" /\ Unwritten /\ list' = list
  BY DEF LikesInv, LikesTypes, ShownOK, PagesOK, AnswerPage, Unwritten
<1>1. sharedPages' = [sharedPages EXCEPT ![o].at = "done"] /\ Accept(page, o)
      /\ UNCHANGED <<bound, confirmedOverrides, scanning, late>>
  BY DEF AnswerPage
<1>2. PagesOK'
  BY <1>1 DEF PagesOK, Offset, Page, Nowhere
<1>3. PagesMove
  BY <1>1 DEF PagesOK, PagesMove, Kept, Answered, Page
<1>4. \A t \in page.ids : Pending(t)
  BY DEF Pending, Answered
<1>5. ~continuation.complete /\ doubt # Track => Accurate(page, o)
  BY DEF LikesInv, QuietScan, PagesAccurate, Answered
<1>6. ASSUME refresh.on, refresh.quiet
      PROVE  QuietRefresh'
  <2>1. /\ late = {} /\ PagesAccurate /\ refresh.awaits \in Offset
        /\ Collected(refresh.ids, refresh.offset, refresh.reliable)
        /\ refresh.awaits = refresh.offset
    <3>1. refresh.awaits \in Offset /\ refresh.awaits # Nowhere
      BY <1>6, OffsetFacts DEF RefreshOK
    <3>2. sharedPages[refresh.awaits].at # "done"
      BY <3>1 DEF AnswerPage, Resumable, Done
    <3> QED
      BY <1>6, <3>1, <3>2 DEF LikesInv, QuietRefresh
  <2>2. refresh' = Refreshed(page, o)
    BY <1>1, <1>6 DEF Accept, AcceptRefreshPage
  <2>3. Collected(refresh'.ids, refresh'.offset, refresh'.reliable)
    BY <2>1, <2>2, RefreshedCollects DEF PagesAccurate, Answered
  <2>4. late' = {} /\ PagesAccurate'
    BY <1>1, <1>3, <2>1, PagesMoveFacts
  <2>5. \/ refresh'.awaits = refresh'.offset
        \/ /\ sharedPages'[refresh'.awaits].at = "done"
           /\ refresh'.offset = sharedPages'[refresh'.awaits].next
    <3>1. CASE o # refresh.offset
      BY <2>1, <2>2, <3>1, RefreshedFacts
    <3>2. CASE o = refresh.offset
      <4>1. sharedPages'[o].at = "done" /\ sharedPages'[o].next = page.next
        BY <1>1 DEF PagesOK, Page
      <4> QED
        BY <2>1, <2>2, <3>2, <4>1, RefreshedFacts
    <3> QED
      BY <3>1, <3>2
  <2> QED
    BY <2>3, <2>4, <2>5 DEF QuietRefresh, Collected, Prefix
<1> QED
  BY <1>1, <1>2, <1>3, <1>4, <1>5, <1>6, AcceptedStep

LEMMA AnswerLateKeeps == ASSUME LikesInv, NEW l \in late, AnswerLate(l) PROVE LikesInv'
<1> PagesOK /\ l.offset \in Offset /\ l.page \in Page /\ Unwritten
  BY DEF LikesInv, LikesTypes, PagesOK, AnswerLate, Unwritten
<1>1. late' = late \ {l} /\ Accept(l.page, l.offset)
      /\ UNCHANGED <<bound, confirmedOverrides, scanning, sharedPages>>
  BY DEF AnswerLate
<1>2. PagesOK' /\ PagesMove
  BY <1>1 DEF PagesOK, Offset, Page, Nowhere, PagesMove, Kept, Answered
<1>3. \A t \in l.page.ids : Pending(t)
  BY DEF Pending
<1>4. ~continuation.complete /\ doubt # Track => Accurate(l.page, l.offset)
  BY DEF LikesInv, QuietScan
<1>5. refresh.on /\ refresh.quiet => QuietRefresh'
  BY DEF LikesInv, QuietRefresh
<1> QED
  BY <1>1, <1>2, <1>3, <1>4, <1>5, AcceptedStep

LEMMA ScanResumesKeeps == ASSUME LikesInv, ScanResumes PROVE LikesInv'
<1> DEFINE page == sharedPages[scanning]
<1> /\ RefreshOK /\ ListOK /\ ShownOK /\ PagesOK /\ Unwritten /\ list' = list
    /\ scanning \in Offset /\ page \in Page /\ page.at = "done"
  BY DEF LikesInv, LikesTypes, PagesOK, ScanResumes, Unwritten, Done
<1> ~refresh.on
  BY OffsetFacts DEF RefreshOK
<1>1. AcceptCurrentPage(page, scanning) /\ late' = late
      /\ UNCHANGED <<bound, confirmedOverrides, needsReconciliation, refresh>>
  BY DEF ScanResumes
<1>2. \A t \in page.ids : Pending(t)
  BY DEF Pending, Answered
<1>3. ~continuation.complete /\ doubt # Track => Accurate(page, scanning)
  BY DEF LikesInv, QuietScan, PagesAccurate, Answered
<1>4. /\ likedTrackIds' \subseteq Track
      /\ continuation' \in [offset : Offset, complete : BOOLEAN, reliable : BOOLEAN]
      /\ ~continuation'.complete /\ doubt # Track =>
            Collected(likedTrackIds, continuation.offset, continuation.reliable)'
      /\ \A t \in Track \ doubt : Read(t) =>
            /\ t \in likedTrackIds' => t \in Liked
            /\ continuation'.complete /\ continuation'.reliable /\ t \notin likedTrackIds'
                   => t \notin Liked
  BY <1>1, <1>2, <1>3, AcceptCurrentFacts
<1>5. PagesOK' /\ PagesMove
  <2>1. CASE continuation'.complete
    <3>1. scanning' = Nowhere /\ sharedPages' = sharedPages
      BY <2>1 DEF ScanResumes
    <3> QED
      BY <1>1, <3>1 DEF PagesOK, Offset, Page, Nowhere, PagesMove, Kept, Answered
  <2>2. CASE ~continuation'.complete
    <3>1. scanning' = continuation'.offset /\ continuation'.offset \in Offset
          /\ sharedPages' = Ask(sharedPages, continuation'.offset)
      BY <1>4, <2>2 DEF ScanResumes
    <3> QED
      BY <1>1, <3>1, AskMoves DEF PagesOK, Offset, Page
  <2> QED
    BY <2>1, <2>2
<1>6. ListOK' /\ WritesOK'
  BY UnwrittenFacts
<1>7. ShownOK' /\ RefreshOK' /\ QuietRefresh'
  BY <1>1, <1>4 DEF ShownOK, Offset, Shown, RefreshOK, RefreshRecord, Nowhere, QuietRefresh
<1>8. /\ PagesAccurate => PagesAccurate'
      /\ (\A l \in late : Accurate(l.page, l.offset))
             => (\A l \in late : Accurate(l.page, l.offset))'
      /\ \A t \in Track : Pending(t)' => Pending(t) \/ t \in Liked
  BY <1>5, PagesMoveFacts
<1>9. ~continuation'.complete => ~continuation.complete
  BY <1>1 DEF AcceptCurrentPage, ShownOK
<1>10. QuietScan'
  BY <1>4, <1>8, <1>9 DEF LikesInv, QuietScan, Unwritten
<1>11. Known'
  BY <1>1, <1>4, <1>8, KnownKept DEF LikesInv
<1> QED
  BY <1>5, <1>6, <1>7, <1>10, <1>11 DEF LikesInv, LikesTypes

-----------------------------------------------------------------------------
(***************************************************************************)
(* Fresh starts: the account and the refresh.                              *)
(***************************************************************************)
LEMMA NothingAsked ==
    /\ Ask(NoPages, 0) \in [Offset -> Page]
    /\ \A o \in Offset : /\ Ask(NoPages, 0)[o].at \notin {"read", "done"}
                         /\ NoPages[o].at \notin {"read", "done"}
<1>1. \A o \in Offset : NoPages[o] = NoPage
  BY DEF NoPages
<1>2. /\ Ask(NoPages, 0) \in [Offset -> Page]
      /\ \A o \in Offset : Ask(NoPages, 0)[o] = NoPages[o] \/ Ask(NoPages, 0)[o].at = "asked"
  BY OffsetFacts, NoPageFacts, AskFacts
<1> QED
  BY <1>1, <1>2, NoPageFacts

LEMMA NothingCollected == ASSUME ListOK PROVE Collected({}, 0, TRUE)
  BY PrefixFacts DEF Collected, ListOK

LEMMA InvalidateKeeps ==
    ASSUME LikesInv, UNCHANGED <<list, write>>, NEW playlist \in BOOLEAN, Invalidate(playlist),
           sharedPages' \in {NoPages, Ask(NoPages, 0)}, scanning' \in Offset \cup {Nowhere},
           doubt' \subseteq doubt
    PROVE  LikesInv'
<1> ListOK /\ WritesOK
  BY DEF LikesInv, LikesTypes
<1>1. ListOK' /\ WritesOK'
  BY DEF ListOK, WritesOK, Liked, Offset
<1>2. sharedPages' \in [Offset -> Page] /\ \A o \in Offset : ~Answered(o)'
  BY NothingAsked, NoPageFacts DEF Answered
<1>3. /\ bound' = playlist /\ likedTrackIds' = {} /\ needsReconciliation' = {}
      /\ confirmedOverrides' = [t \in Track |-> "none"]
      /\ continuation' = FromTheTop /\ refresh' = NoRefresh /\ late' = {}
  BY DEF Invalidate
<1>4. ShownOK'
  BY <1>3, OffsetFacts DEF ShownOK, FromTheTop, Offset, Shown
<1>5. RefreshOK' /\ QuietRefresh'
  BY <1>3, NoRefreshFacts DEF RefreshOK, QuietRefresh, RefreshRecord, Offset, Nowhere
<1>6. PagesOK'
  BY <1>2, <1>3 DEF PagesOK, Offset, Page, Nowhere
<1>7. QuietScan'
  BY <1>2, <1>3, NothingCollected DEF QuietScan, PagesAccurate, FromTheTop, Collected, Prefix
<1>8. Known'
  <2>1. \A t \in Track : Read(t)'
    BY <1>2, <1>3 DEF Read, Pending, FromTheTop
  <2> QED
    BY <1>3, <2>1 DEF Known
<1> QED
  BY <1>1, <1>4, <1>5, <1>6, <1>7, <1>8 DEF LikesInv, LikesTypes

LEMMA BindKeeps == ASSUME LikesInv, Bind PROVE LikesInv'
  BY InvalidateKeeps, OffsetFacts DEF Bind

LEMMA UnbindKeeps == ASSUME LikesInv, Unbind PROVE LikesInv'
  BY InvalidateKeeps DEF Unbind

\* Pages that are cancelled: the answered ones may still arrive, and are as accurate.
LEMMA CancelFacts ==
    ASSUME PagesOK, CancelSharedPages, sharedPages' = Ask(NoPages, 0), list' = list
    PROVE  /\ late' \subseteq [offset : Offset, page : Page]
           /\ sharedPages' \in [Offset -> Page] /\ \A o \in Offset : ~Answered(o)'
           /\ PagesAccurate /\ (\A l \in late : Accurate(l.page, l.offset))
                 => (\A l \in late : Accurate(l.page, l.offset))'
           /\ \A t \in Track : Pending(t)' => Pending(t)
<1>1. PICK O \in SUBSET {o \in Offset : sharedPages[o].at = "read"} :
         late' = late \cup {[offset |-> o, page |-> sharedPages[o]] : o \in O}
  BY DEF CancelSharedPages
<1>2. \A l \in late' : l \in late \/ \E o \in Offset : /\ l = [offset |-> o, page |-> sharedPages[o]]
                                                       /\ sharedPages[o].at = "read"
  BY <1>1
<1>3. sharedPages' \in [Offset -> Page] /\ \A o \in Offset : ~Answered(o)'
  BY NothingAsked DEF Answered
<1>4. late' \subseteq [offset : Offset, page : Page]
  BY <1>2 DEF PagesOK
<1>5. ASSUME PagesAccurate, \A l \in late : Accurate(l.page, l.offset), NEW l \in late'
      PROVE  Accurate(l.page, l.offset)'
  <2>1. Accurate(l.page, l.offset)
    <3>1. CASE l \in late
      BY <1>5, <3>1
    <3>2. ASSUME NEW o \in Offset, l = [offset |-> o, page |-> sharedPages[o]],
                 sharedPages[o].at = "read"
          PROVE  Accurate(l.page, l.offset)
      <4>1. l.page = sharedPages[o] /\ l.offset = o /\ Accurate(sharedPages[o], o)
        BY <1>5, <3>2 DEF PagesAccurate, Answered
      <4> QED
        BY <4>1
    <3> QED
      BY <1>2, <1>5, <3>1, <3>2
  <2> QED
    BY <2>1 DEF Accurate
<1>6. ASSUME NEW t \in Track, Pending(t)'
      PROVE  Pending(t)
  <2>1. \E l \in late' : t \in l.page.ids
    BY <1>3, <1>6 DEF Pending
  <2> QED
    BY <1>2, <2>1 DEF Pending, Answered
<1> QED
  BY <1>3, <1>4, <1>5, <1>6

\* A refresh that begins, whatever becomes of the rest.
LEMMA BeginFacts ==
    ASSUME LikesInv, BeginRefresh, bound, bound' = bound, list' = list
    PROVE  /\ PagesOK' /\ RefreshOK' /\ QuietRefresh'
           /\ \A o \in Offset : ~Answered(o)'
           /\ PagesAccurate /\ (\A l \in late : Accurate(l.page, l.offset))
                 => (\A l \in late : Accurate(l.page, l.offset))'
           /\ \A t \in Track : Pending(t)' => Pending(t)
<1> PagesOK /\ ListOK
  BY DEF LikesInv, LikesTypes
<1>1. CancelSharedPages /\ scanning' = Nowhere /\ sharedPages' = Ask(NoPages, 0)
      /\ refresh' = NewRefresh(late' = {})
  BY DEF BeginRefresh
<1>2. /\ refresh' \in RefreshRecord /\ refresh'.on /\ refresh'.awaits = 0 /\ refresh'.offset = 0
      /\ refresh'.ids = {} /\ refresh'.reliable = TRUE /\ refresh'.quiet = (late' = {})
  BY <1>1, OffsetFacts DEF NewRefresh, NoRefresh, RefreshRecord
<1>3. PagesOK'
  BY <1>1, CancelFacts DEF PagesOK, Offset, Page, Nowhere
<1>4. RefreshOK'
  BY <1>1, <1>2, OffsetFacts DEF RefreshOK, RefreshRecord, Offset, Nowhere
<1>5. Collected(refresh.ids, refresh.offset, refresh.reliable)'
  BY <1>2, NothingCollected DEF Collected, Prefix
<1>6. QuietRefresh'
  BY <1>1, <1>2, <1>5, CancelFacts DEF QuietRefresh, PagesAccurate
<1> QED
  BY <1>1, <1>3, <1>4, <1>6, CancelFacts

LEMMA RefreshSnapshotKeeps == ASSUME LikesInv, RefreshSnapshot PROVE LikesInv'
<1> Unwritten /\ bound /\ BeginRefresh /\ UNCHANGED shownVars /\ list' = list /\ ShownOK
  BY DEF RefreshSnapshot, Unwritten, LikesInv, LikesTypes
<1>1. /\ PagesOK' /\ RefreshOK' /\ QuietRefresh'
      /\ \A o \in Offset : ~Answered(o)'
      /\ PagesAccurate /\ (\A l \in late : Accurate(l.page, l.offset))
            => (\A l \in late : Accurate(l.page, l.offset))'
      /\ \A t \in Track : Pending(t)' => Pending(t)
  BY BeginFacts DEF shownVars
<1>2. ListOK' /\ WritesOK'
  BY UnwrittenFacts
<1>3. ShownOK'
  BY DEF ShownOK, shownVars, Shown, Offset
<1>4. QuietScan'
  BY <1>1 DEF LikesInv, QuietScan, PagesAccurate, Collected, Prefix, shownVars, Unwritten
<1>5. Known'
  BY <1>1, KnownKept DEF LikesInv, shownVars, Read
<1> QED
  BY <1>1, <1>2, <1>3, <1>4, <1>5 DEF LikesInv, LikesTypes

\* The last page of a quiet refresh: what was collected is the list.
LEMMA QuietIsExact ==
    ASSUME LikesInv, refresh.on, refresh.quiet, Done(refresh.awaits),
           ~sharedPages[refresh.awaits].more,
           Refreshed(sharedPages[refresh.awaits], refresh.awaits).reliable
    PROVE  Refreshed(sharedPages[refresh.awaits], refresh.awaits).ids = Liked
<1> DEFINE o == refresh.awaits
           page == sharedPages[o]
           r == Refreshed(page, o)
<1> /\ RefreshOK /\ ListOK /\ PagesOK /\ needsReconciliation \subseteq Track
    /\ o \in Offset /\ page \in Page /\ page.at = "done"
  BY DEF LikesInv, LikesTypes, ShownOK, RefreshOK, PagesOK, Done
<1>1. /\ Accurate(page, o) /\ Collected(refresh.ids, refresh.offset, refresh.reliable)
      /\ o = refresh.offset \/ refresh.offset = page.next
  BY DEF LikesInv, QuietRefresh, PagesAccurate, Answered
<1>2. Collected(r.ids, r.offset, r.reliable) /\ (o = refresh.offset => r.offset = Len(list))
  BY <1>1, RefreshedCollects
<1>3. o # refresh.offset => r.offset = Len(list)
  <2> SUFFICES ASSUME o # refresh.offset PROVE page.next = Len(list)
    BY <1>1, RefreshedFacts
  <2>1. o \in Nat /\ Len(list) \in Nat
    BY OffsetFacts DEF ListOK
  <2> QED
    BY <1>1, <2>1 DEF Accurate
<1> QED
  BY <1>2, <1>3, PrefixFacts DEF Collected

LEMMA RefreshResumesKeeps == ASSUME LikesInv, RefreshResumes PROVE LikesInv'
<1> DEFINE o == refresh.awaits
           page == sharedPages[o]
           r == Refreshed(page, o)
<1> /\ ListOK /\ ShownOK /\ RefreshOK /\ PagesOK /\ WritesOK /\ Done(o)
    /\ needsReconciliation \subseteq Track
  BY DEF LikesInv, LikesTypes, ShownOK, RefreshResumes
<1> o \in Offset /\ refresh.on /\ page \in Page /\ page.at = "done" /\ scanning = Nowhere
  BY DEF RefreshOK, PagesOK, Done
<1> UNCHANGED <<list, bound, scanning, late, write>>
  BY DEF RefreshResumes
<1>1. /\ r \in RefreshRecord /\ r.on /\ r.awaits = o /\ r.quiet = refresh.quiet
      /\ StillNeeded(page, o) \subseteq needsReconciliation /\ r.offset \in Offset
  BY RefreshedFacts DEF RefreshRecord
<1>2. ListOK'
  BY DEF ListOK, Offset
<1>3. ASSUME refresh.quiet
      PROVE  Collected(r.ids, r.offset, r.reliable) /\ late = {} /\ PagesAccurate
  BY <1>3, RefreshedCollects DEF LikesInv, QuietRefresh, PagesAccurate, Answered
<1>4. CASE page.more
  <2>1. /\ refresh' = [r EXCEPT !.awaits = r.offset]
        /\ needsReconciliation' = StillNeeded(page, o)
        /\ sharedPages' = Ask(sharedPages, r.offset)
        /\ UNCHANGED <<likedTrackIds, continuation, confirmedOverrides, doubt>>
    BY <1>4 DEF RefreshResumes
  <2>2. Unwritten
    BY <2>1 DEF Unwritten
  <2>3. sharedPages' \in [Offset -> Page] /\ PagesMove
    BY <1>1, <2>1, AskMoves
  <2>4. /\ PagesAccurate => PagesAccurate'
        /\ (\A l \in late : Accurate(l.page, l.offset))
               => (\A l \in late : Accurate(l.page, l.offset))'
        /\ \A t \in Track : Pending(t)' => Pending(t) \/ t \in Liked
    BY <2>3, PagesMoveFacts
  <2>5. ShownOK' /\ PagesOK' /\ WritesOK'
    BY <1>1, <2>1, <2>2, <2>3, UnwrittenFacts DEF ShownOK, Shown, Offset, PagesOK, Page, Nowhere
  <2>6. /\ refresh' \in RefreshRecord /\ refresh'.on /\ refresh'.awaits = r.offset
        /\ refresh'.offset = r.offset /\ refresh'.ids = r.ids
        /\ refresh'.reliable = r.reliable /\ refresh'.quiet = refresh.quiet
    BY <1>1, <2>1 DEF RefreshRecord
  <2>7. RefreshOK'
    BY <1>1, <2>6 DEF RefreshOK, RefreshRecord, Offset, Nowhere
  <2>8. QuietRefresh'
    BY <1>3, <2>4, <2>6 DEF QuietRefresh, Collected, Prefix
  <2>9. QuietScan'
    BY <2>1, <2>4 DEF LikesInv, QuietScan, Collected, Prefix
  <2>10. Known'
    BY <2>1, <2>2, <2>4, KnownKept DEF LikesInv, Read
  <2> QED
    BY <1>2, <2>5, <2>7, <2>8, <2>9, <2>10 DEF LikesInv, LikesTypes
<1>5. CASE ~page.more
  <2>1. refresh' = NoRefresh /\ sharedPages' = sharedPages
    BY <1>5 DEF RefreshResumes
  <2>2. RefreshOK' /\ QuietRefresh' /\ PagesOK'
    BY <2>1, NoRefreshFacts
       DEF RefreshOK, RefreshRecord, QuietRefresh, PagesOK, Offset, Page, Nowhere
  <2>3. PagesMove
    BY <2>1 DEF PagesMove, Kept, Answered
  <2>4. /\ PagesAccurate => PagesAccurate'
        /\ (\A l \in late : Accurate(l.page, l.offset))
               => (\A l \in late : Accurate(l.page, l.offset))'
        /\ \A t \in Track : Pending(t)' => Pending(t) \/ t \in Liked
    BY <2>3, PagesMoveFacts
  <2>5. CASE ~r.reliable
    <3>1. /\ needsReconciliation' = StillNeeded(page, o)
          /\ UNCHANGED <<likedTrackIds, continuation, confirmedOverrides, doubt>>
      BY <1>5, <2>5 DEF RefreshResumes
    <3>2. Unwritten
      BY <3>1 DEF Unwritten
    <3>3. ShownOK' /\ WritesOK'
      BY <1>1, <3>1, <3>2, UnwrittenFacts DEF ShownOK, Shown, Offset
    <3>4. QuietScan'
      BY <2>4, <3>1 DEF LikesInv, QuietScan, Collected, Prefix
    <3>5. Known'
      BY <2>4, <3>1, <3>2, KnownKept DEF LikesInv, Read
    <3> QED
      BY <1>2, <2>2, <3>3, <3>4, <3>5 DEF LikesInv, LikesTypes
  <2>6. CASE r.reliable
    <3>1. /\ likedTrackIds' = r.ids
          /\ continuation' = [offset |-> r.offset, complete |-> TRUE, reliable |-> TRUE]
          /\ confirmedOverrides' = [t \in Track |-> "none"] /\ needsReconciliation' = {}
          /\ doubt' = IF r.quiet THEN {} ELSE Track
      BY <1>5, <2>6 DEF RefreshResumes, CommitRefresh
    <3>2. ShownOK'
      BY <1>1, <3>1 DEF ShownOK, Shown, Offset, RefreshRecord
    <3>3. WritesOK'
      BY <3>1 DEF WritesOK, Liked
    <3>4. QuietScan'
      BY <3>1 DEF QuietScan
    <3>5. Known'
      <4>1. CASE ~refresh.quiet
        BY <1>1, <3>1, <4>1 DEF Known
      <4>2. CASE refresh.quiet
        <5>1. r.ids = Liked
          BY <1>5, <2>6, <4>2, QuietIsExact
        <5>2. ASSUME NEW p \in Offset, Answered(p)
              PROVE  sharedPages[p].ids \subseteq Liked
          <6>1. Accurate(sharedPages[p], p) /\ sharedPages[p] \in Page /\ p \in Nat
                /\ Len(list) \in Nat
            BY <1>3, <4>2, <5>2, OffsetFacts DEF PagesAccurate, PagesOK, ListOK
          <6> QED
            BY <6>1, PrefixFacts DEF Accurate
        <5>3. Liked' = Liked /\ late' = {}
          BY <1>3, <4>2 DEF Liked
        <5>4. \A t \in Track : Read(t)'
          BY <2>1, <3>1, <5>1, <5>2, <5>3 DEF Read, Pending, Answered
        <5> QED
          BY <3>1, <5>4 DEF Known
      <4> QED
        BY <4>1, <4>2
    <3> QED
      BY <1>2, <2>2, <3>2, <3>3, <3>4, <3>5 DEF LikesInv, LikesTypes
  <2> QED
    BY <2>5, <2>6
<1> QED
  BY <1>4, <1>5

-----------------------------------------------------------------------------
(***************************************************************************)
(* Writes.                                                                 *)
(***************************************************************************)
LEMMA ListFits ==
    ASSUME NEW l \in Seq(Track), IsInjective(l)
    PROVE  Len(l) \in Offset
<1>1. Len(l) \in Nat /\ l \in [1..Len(l) -> Track] /\ DOMAIN l = 1..Len(l)
  OBVIOUS
<1>2. IsFiniteSet(1..Len(l)) /\ Cardinality(1..Len(l)) = Len(l)
  BY <1>1, FS_Interval
<1>3. ~(Cardinality(Track) < Cardinality(1..Len(l)))
  <2> SUFFICES ASSUME Cardinality(Track) < Cardinality(1..Len(l)) PROVE FALSE
    OBVIOUS
  <2>1. \E x, y \in 1..Len(l) : x # y /\ l[x] = l[y]
    BY <1>1, <1>2, WritableAssumption, FS_PigeonHole
  <2> QED
    BY <1>1, <2>1 DEF IsInjective
<1> QED
  BY <1>1, <1>2, <1>3, OffsetFacts

LEMMA PutFirst ==
    ASSUME ListOK, NEW t \in Track, t \notin Liked, list' = <<t>> \o list
    PROVE  ListOK' /\ Liked' = Liked \cup {t}
<1>1. /\ Len(list) \in Nat /\ DOMAIN list = 1..Len(list) /\ list \in Seq(Track)
      /\ \A i \in 1..Len(list) : list[i] \in Track /\ list[i] # t
  BY DEF ListOK, Liked, ToSet
<1>2. /\ list' \in Seq(Track) /\ DOMAIN list' = 1..(Len(list) + 1)
      /\ list'[1] = t /\ \A i \in 1..Len(list) : list'[i + 1] = list[i]
  BY <1>1
<1>3. \A j \in 1..(Len(list) + 1) : j = 1 \/ (j - 1 \in 1..Len(list) /\ list'[j] = list[j - 1])
  <2> TAKE j \in 1..(Len(list) + 1)
  <2>1. j # 1 => j - 1 \in 1..Len(list) /\ (j - 1) + 1 = j
    BY <1>1
  <2> QED
    BY <1>2, <2>1
<1>4. IsInjective(list')
  <2> SUFFICES ASSUME NEW j \in 1..(Len(list) + 1), NEW k \in 1..(Len(list) + 1),
                      list'[j] = list'[k]
               PROVE  j = k
    BY <1>2 DEF IsInjective
  <2>1. CASE j = 1 \/ k = 1
    BY <1>1, <1>2, <1>3, <2>1
  <2>2. CASE j # 1 /\ k # 1
    <3>1. j - 1 \in 1..Len(list) /\ k - 1 \in 1..Len(list) /\ list[j - 1] = list[k - 1]
      BY <1>3, <2>2
    <3>2. j - 1 = k - 1
      BY <1>1, <3>1 DEF ListOK, IsInjective
    <3> QED
      BY <1>1, <3>2
  <2> QED
    BY <2>1, <2>2
<1>5. Liked' = Liked \cup {t}
  <2>1. ASSUME NEW u \in Liked' PROVE u \in Liked \cup {t}
    BY <1>1, <1>2, <1>3, <2>1 DEF Liked, ToSet
  <2>2. ASSUME NEW u \in Liked PROVE u \in Liked'
    <3>1. PICK i \in 1..Len(list) : u = list[i]
      BY <1>1, <2>2 DEF Liked, ToSet
    <3>2. i + 1 \in 1..(Len(list) + 1) /\ list'[i + 1] = u
      BY <1>1, <1>2, <3>1
    <3> QED
      BY <1>2, <3>2 DEF Liked, ToSet
  <2>3. t \in Liked'
    BY <1>1, <1>2 DEF Liked, ToSet
  <2> QED
    BY <2>1, <2>2, <2>3
<1> QED
  BY <1>2, <1>4, <1>5, ListFits DEF ListOK, Offset

LEMMA TakeOut ==
    ASSUME ListOK, NEW t \in Track, t \in Liked, list' = Without(t)
    PROVE  ListOK' /\ Liked' = Liked \ {t}
<1> DEFINE n == Len(list)
           k == CHOOSE i \in DOMAIN list : list[i] = t
<1>1. /\ n \in Nat /\ DOMAIN list = 1..n /\ list \in Seq(Track)
      /\ \A i \in 1..n : list[i] \in Track
  BY DEF ListOK
<1>2. k \in 1..n /\ list[k] = t
  BY <1>1 DEF Liked, ToSet
<1>3. list' = SubSeq(list, 1, k - 1) \o SubSeq(list, k + 1, n)
  BY DEF Without, RemoveAt
<1> HIDE DEF k
<1>4. /\ list' \in Seq(Track) /\ Len(list') = n - 1 /\ DOMAIN list' = 1..(n - 1)
      /\ \A i \in 1..(n - 1) : list'[i] = IF i < k THEN list[i] ELSE list[i + 1]
  <2> DEFINE front == SubSeq(list, 1, k - 1)
             rest == SubSeq(list, k + 1, n)
  <2>1. /\ front \in Seq(Track) /\ Len(front) = k - 1
        /\ \A i \in 1..(k - 1) : front[i] = list[i]
    <3>1. 1 \in Int /\ k - 1 \in Int /\ \A i \in 1..(k - 1) : list[i] \in Track
      BY <1>1, <1>2
    <3> QED
      BY <1>2, <3>1, SubSeqProperties
  <2>2. /\ rest \in Seq(Track) /\ Len(rest) = n - k
        /\ \A i \in 1..(n - k) : rest[i] = list[k + i]
    <3>1. k + 1 \in Int /\ n \in Int /\ \A i \in (k + 1)..n : list[i] \in Track
      BY <1>1, <1>2
    <3>2. /\ rest \in Seq(Track) /\ Len(rest) = IF k + 1 <= n THEN n - (k + 1) + 1 ELSE 0
          /\ \A i \in 1..(n - (k + 1) + 1) : rest[i] = list[(k + 1) + i - 1]
      BY <3>1, SubSeqProperties
    <3>3. n - (k + 1) + 1 = n - k /\ (~(k + 1 <= n) => n - k = 0)
      <4>1. n \in Nat /\ k \in Nat /\ k <= n
        BY <1>1, <1>2
      <4> HIDE DEF n
      <4> QED
        BY <4>1
    <3>4. \A i \in 1..(n - k) : (k + 1) + i - 1 = k + i
      BY <1>1, <1>2
    <3> HIDE DEF rest
    <3> QED
      BY <3>2, <3>3, <3>4
  <2> HIDE DEF front, rest
  <2>3. /\ list' \in Seq(Track) /\ Len(list') = n - 1
        /\ \A i \in 1..(n - 1) : list'[i] = IF i <= k - 1 THEN front[i] ELSE rest[i - (k - 1)]
    <3>1. list' = front \o rest
      BY <1>3 DEF front, rest
    <3>2. (k - 1) + (n - k) = n - 1
      BY <1>1, <1>2
    <3> QED
      BY <2>1, <2>2, <3>1, <3>2, ConcatProperties
  <2>4. ASSUME NEW i \in 1..(n - 1)
        PROVE  list'[i] = IF i < k THEN list[i] ELSE list[i + 1]
    <3>1. CASE i < k
      BY <1>1, <1>2, <2>1, <2>3, <3>1
    <3>2. CASE ~(i < k)
      <4>1. i - (k - 1) \in 1..(n - k) /\ k + (i - (k - 1)) = i + 1 /\ ~(i <= k - 1)
        BY <1>1, <1>2, <3>2
      <4>2. list'[i] = rest[i - (k - 1)]
        BY <2>3, <4>1
      <4> QED
        BY <2>2, <3>2, <4>1, <4>2
    <3> QED
      BY <3>1, <3>2
  <2>5. DOMAIN list' = 1..(n - 1)
    BY <2>3
  <2> QED
    BY <2>3, <2>4, <2>5
<1> DEFINE at(i) == IF i < k THEN i ELSE i + 1
<1>5. \A i \in 1..(n - 1) : at(i) \in 1..n /\ at(i) # k /\ list'[i] = list[at(i)]
  BY <1>1, <1>2, <1>4
<1>6. \A i \in 1..n : list[i] = t => i = k
  BY <1>1, <1>2 DEF ListOK, IsInjective
<1>7. IsInjective(list')
  <2> SUFFICES ASSUME NEW i \in 1..(n - 1), NEW j \in 1..(n - 1), list'[i] = list'[j]
               PROVE  i = j
    BY <1>4 DEF IsInjective
  <2>1. at(i) = at(j)
    BY <1>1, <1>5 DEF ListOK, IsInjective
  <2> QED
    BY <1>1, <1>2, <2>1
<1>8. Liked' = Liked \ {t}
  <2>1. ASSUME NEW u \in Liked' PROVE u \in Liked \ {t}
    <3>1. PICK i \in 1..(n - 1) : u = list'[i]
      BY <1>4, <2>1 DEF Liked, ToSet
    <3> QED
      BY <1>1, <1>5, <1>6, <3>1 DEF Liked, ToSet
  <2>2. ASSUME NEW u \in Liked, u # t PROVE u \in Liked'
    <3>1. PICK j \in 1..n : u = list[j]
      BY <1>1, <2>2 DEF Liked, ToSet
    <3>2. j # k
      BY <1>2, <2>2, <3>1
    <3>3. \E i \in 1..(n - 1) : at(i) = j
      <4>1. CASE j < k
        <5>1. j \in 1..(n - 1) /\ at(j) = j
          BY <1>1, <1>2, <4>1
        <5> QED
          BY <5>1
      <4>2. CASE ~(j < k)
        <5>1. j - 1 \in 1..(n - 1) /\ at(j - 1) = j
          BY <1>1, <1>2, <3>2, <4>2
        <5> QED
          BY <5>1
      <4> QED
        BY <4>1, <4>2
    <3> QED
      BY <1>4, <1>5, <3>1, <3>3 DEF Liked, ToSet
  <2> QED
    BY <2>1, <2>2
<1> QED
  BY <1>4, <1>7, <1>8, ListFits DEF ListOK, Offset

\* The service puts one track on the list or takes it off.
LEMMA ChangeListFacts ==
    ASSUME ListOK, NEW t \in Track, NEW liked \in BOOLEAN, NEW unseen, ChangeList(t, liked, unseen)
    PROVE  /\ ListOK' /\ (t \in Liked') = liked
           /\ \A u \in Track \ {t} : (u \in Liked' <=> u \in Liked)
<1>1. CASE liked = (t \in Liked)
  <2>1. list' = list
    BY <1>1 DEF ChangeList
  <2> QED
    BY <1>1, <2>1 DEF ListOK, Liked, Offset
<1>2. CASE liked /\ t \notin Liked
  <2>1. list' = <<t>> \o list
    BY <1>2 DEF ChangeList
  <2>2. ListOK' /\ Liked' = Liked \cup {t}
    BY <1>2, <2>1, PutFirst
  <2>3. liked = TRUE /\ (t \in Liked') = TRUE
    BY <1>2, <2>2
  <2>4. ASSUME NEW u \in Track \ {t} PROVE (u \in Liked') <=> (u \in Liked)
    BY <2>2
  <2> QED
    BY <2>2, <2>3, <2>4
<1>3. CASE ~liked /\ t \in Liked
  <2>1. list' = Without(t)
    BY <1>3 DEF ChangeList
  <2> QED
    BY <1>3, <2>1, TakeOut
<1> QED
  BY <1>1, <1>2, <1>3

LEMMA SameReading ==
    ASSUME list' = list, UNCHANGED pageVars
    PROVE  /\ PagesAccurate => PagesAccurate'
           /\ (\A l \in late : Accurate(l.page, l.offset))
                  => (\A l \in late : Accurate(l.page, l.offset))'
<1>1. PagesMove
  BY DEF PagesMove, Kept, Answered, pageVars
<1> QED
  BY <1>1, PagesMoveFacts

\* A write of the list, of which either nothing was collected or everything is in doubt.
LEMMA ListStep ==
    ASSUME LikesInv, NEW t \in Track, NEW liked \in BOOLEAN, NEW unseen \in SUBSET Track,
           ChangeList(t, liked, unseen), UNCHANGED <<shownVars, pageVars>>, WritesOK',
           \A u \in Track \ {t} : write'[u] = write[u],
           write'[t].at = "applied" \/ t \in unseen
    PROVE  LikesInv'
<1> /\ ListOK /\ ShownOK /\ RefreshOK /\ PagesOK /\ WritesOK /\ Len(list) \in Nat
  BY DEF LikesInv, LikesTypes, ListOK
<1> /\ UNCHANGED <<bound, likedTrackIds, confirmedOverrides, needsReconciliation, continuation>>
    /\ UNCHANGED <<scanning, sharedPages, late>>
  BY DEF shownVars, pageVars
<1>1. ListOK' /\ \A u \in Track \ {t} : (u \in Liked' <=> u \in Liked)
  BY ChangeListFacts
<1>2. ShownOK' /\ PagesOK'
  BY DEF ShownOK, Shown, Offset, PagesOK, Page, Nowhere
<1>3. CASE list' # list /\ Collecting
  <2>1. doubt' = Track /\ refresh' = [refresh EXCEPT !.quiet = FALSE]
    BY <1>3 DEF ChangeList
  <2>2. RefreshOK' /\ QuietRefresh'
    BY <2>1 DEF RefreshOK, RefreshRecord, Offset, Nowhere, QuietRefresh
  <2>3. QuietScan' /\ Known'
    BY <2>1 DEF QuietScan, Known
  <2> QED
    BY <1>1, <1>2, <2>2, <2>3 DEF LikesInv, LikesTypes
<1>4. CASE ~(list' # list /\ Collecting)
  <2>1. doubt' = doubt \cup unseen /\ refresh' = refresh
    BY <1>4 DEF ChangeList
  <2>2. RefreshOK'
    BY <2>1 DEF RefreshOK, RefreshRecord, Offset, Nowhere
  <2>3. QuietRefresh'
    <3>1. CASE list' = list
      <4>1. PagesAccurate => PagesAccurate'
        BY <3>1, SameReading
      <4> QED
        BY <2>1, <3>1, <4>1 DEF LikesInv, QuietRefresh, Collected, Prefix
    <3>2. CASE list' # list
      <4> SUFFICES ASSUME refresh.on, refresh.quiet
                   PROVE  /\ late = {} /\ PagesAccurate' /\ refresh.awaits = refresh.offset
                          /\ Collected(refresh.ids, refresh.offset, refresh.reliable)'
        BY <2>1 DEF QuietRefresh
      <4>1. late = {} /\ refresh.offset \in Nat /\ ~(refresh.offset > 0)
            /\ \A o \in Offset : ~Answered(o)
        BY <1>4, <3>2, OffsetFacts
           DEF Collecting, SomethingRead, Answered, RefreshOK, RefreshRecord
      <4>2. /\ Collected(refresh.ids, refresh.offset, refresh.reliable)
            /\ refresh.awaits \in Offset /\ refresh.offset = 0
            /\ \/ refresh.awaits = refresh.offset
               \/ sharedPages[refresh.awaits].at = "done"
        BY <4>1 DEF LikesInv, QuietRefresh, RefreshOK
      <4>3. refresh.ids = {} /\ PagesAccurate'
        BY <4>1, <4>2, PrefixFacts DEF Collected, PagesAccurate, Answered
      <4>4. Len(list') \in Nat /\ Prefix(0)' = {}
        BY <1>1, OffsetFacts DEF ListOK, Prefix
      <4> QED
        BY <2>1, <4>1, <4>2, <4>3, <4>4 DEF Answered, Collected
    <3> QED
      BY <3>1, <3>2
  <2>4. QuietScan'
    <3> SUFFICES ASSUME ~continuation.complete, doubt # Track
                 PROVE  /\ PagesAccurate' /\ (\A l \in late : Accurate(l.page, l.offset))'
                        /\ Collected(likedTrackIds, continuation.offset, continuation.reliable)'
      BY <2>1 DEF QuietScan, WritesOK
    <3>1. Collected(likedTrackIds, continuation.offset, continuation.reliable)
      BY DEF LikesInv, QuietScan
    <3>2. CASE list' = list
      <4>1. PagesAccurate' /\ (\A l \in late : Accurate(l.page, l.offset))'
        BY <3>2, SameReading DEF LikesInv, QuietScan
      <4> QED
        BY <3>1, <3>2, <4>1 DEF Collected, Prefix
    <3>3. CASE list' # list
      <4>1. late = {} /\ continuation.offset \in Nat /\ ~(continuation.offset > 0)
            /\ \A o \in Offset : ~Answered(o)
        BY <1>4, <3>3, OffsetFacts DEF Collecting, SomethingRead, Answered, ShownOK
      <4>2. likedTrackIds = {} /\ continuation.offset = 0 /\ PagesAccurate'
        BY <3>1, <4>1, PrefixFacts DEF Collected, PagesAccurate, Answered
      <4>3. Len(list') \in Nat /\ Prefix(0)' = {}
        BY <1>1, OffsetFacts DEF ListOK, Prefix
      <4> QED
        BY <4>1, <4>2, <4>3 DEF Collected
    <3> QED
      BY <3>2, <3>3
  <2>5. Known'
    <3> SUFFICES ASSUME NEW u \in Track \ doubt', write'[u].at # "applied"
                 PROVE  (Corrected(u) \/ (confirmedOverrides[u] = "none" /\ Read(u)))'
      BY DEF Known
    <3>1. u # t /\ u \notin doubt /\ write[u].at # "applied" /\ (u \in Liked' <=> u \in Liked)
      BY <1>1, <2>1
    <3> QED
      BY <3>1 DEF LikesInv, Known, Corrected, Read, Pending, Answered
  <2> QED
    BY <1>1, <1>2, <2>2, <2>3, <2>4, <2>5 DEF LikesInv, LikesTypes
<1> QED
  BY <1>3, <1>4

LEMMA ApplyWriteKeeps == ASSUME LikesInv, NEW t \in Track, ApplyWrite(t) PROVE LikesInv'
<1> ListOK /\ WritesOK
  BY DEF LikesInv, LikesTypes
<1>1. /\ write' = [write EXCEPT ![t].at = "applied"] /\ ChangeList(t, write[t].liked, {})
      /\ UNCHANGED <<shownVars, pageVars>> /\ write[t].liked \in BOOLEAN
  BY DEF ApplyWrite, WritesOK
<1>2. /\ (t \in Liked') = write[t].liked
      /\ \A u \in Track \ {t} : (u \in Liked' <=> u \in Liked)
  BY <1>1, ChangeListFacts
<1>3. write'[t].at = "applied" /\ write'[t].liked = write[t].liked
      /\ \A u \in Track \ {t} : write'[u] = write[u]
  BY <1>1 DEF WritesOK
<1>4. WritesOK'
  BY <1>1, <1>2, <1>3 DEF WritesOK, ChangeList
<1> QED
  BY <1>1, <1>3, <1>4, ListStep

LEMMA ChangeElsewhereKeeps == ASSUME LikesInv, NEW t \in Track, ChangeElsewhere(t) PROVE LikesInv'
<1> ListOK /\ WritesOK
  BY DEF LikesInv, LikesTypes
<1>1. /\ ChangeList(t, t \notin Liked, {t})
      /\ UNCHANGED <<shownVars, pageVars>> /\ (t \notin Liked) \in BOOLEAN
      /\ write' = IF write[t].at = "applied" THEN [write EXCEPT ![t].at = "overtaken"] ELSE write
  BY DEF ChangeElsewhere
<1>2. \A u \in Track \ {t} : (u \in Liked' <=> u \in Liked)
  BY <1>1, ChangeListFacts
<1>3. /\ write'[t].at # "applied" /\ write'[t].at \in {"none", "sent", "applied", "overtaken"}
      /\ write'[t].liked = write[t].liked
      /\ \A u \in Track \ {t} : write'[u] = write[u]
  BY <1>1 DEF WritesOK
<1>4. WritesOK'
  BY <1>1, <1>2, <1>3 DEF WritesOK, ChangeList
<1> QED
  BY <1>1, <1>3, <1>4, ListStep

\* A write that is sent or refused changes nothing else.
LEMMA RequestKeeps ==
    ASSUME LikesInv, UNCHANGED <<list, shownVars, refresh, pageVars, doubt>>, NEW t \in Track,
           NEW w \in [at : {"none", "sent"}, liked : BOOLEAN], write[t].at # "applied",
           write' = [write EXCEPT ![t] = w]
    PROVE  LikesInv'
<1> /\ ListOK /\ ShownOK /\ RefreshOK /\ PagesOK /\ WritesOK
  BY DEF LikesInv, LikesTypes
<1> /\ UNCHANGED <<bound, likedTrackIds, confirmedOverrides, needsReconciliation, continuation>>
    /\ UNCHANGED <<scanning, sharedPages, late>>
  BY DEF shownVars, pageVars
<1>1. \A u \in Track : write'[u].at = "applied" <=> write[u].at = "applied"
  BY DEF WritesOK
<1>2. WritesOK'
  BY DEF WritesOK, Liked
<1>3. LikesTypes'
  BY <1>2 DEF LikesTypes, ListOK, ShownOK, RefreshOK, RefreshRecord, PagesOK, Page, Offset,
              Nowhere, Shown
<1>4. QuietRefresh' /\ QuietScan'
  <2>1. /\ PagesAccurate => PagesAccurate'
        /\ (\A l \in late : Accurate(l.page, l.offset))
               => (\A l \in late : Accurate(l.page, l.offset))'
    BY SameReading
  <2> QED
    BY <2>1 DEF LikesInv, QuietRefresh, QuietScan, Collected, Prefix
<1>5. Known'
  BY <1>1 DEF LikesInv, Known, Corrected, Read, Pending, Answered, Liked
<1> QED
  BY <1>3, <1>4, <1>5 DEF LikesInv

LEMMA SetLikedKeeps ==
    ASSUME LikesInv, NEW t \in Track, NEW liked \in BOOLEAN, SetLiked(t, liked) PROVE LikesInv'
<1>1. write[t].at # "applied"
  BY DEF SetLiked, NoWrite
<1> QED
  BY <1>1, RequestKeeps DEF SetLiked

LEMMA RefuseKeeps == ASSUME LikesInv, NEW t \in Track, Refuse(t) PROVE LikesInv'
<1>1. NoWrite \in [at : {"none", "sent"}, liked : BOOLEAN]
  BY DEF NoWrite
<1> QED
  BY <1>1, RequestKeeps DEF Refuse

\* A write that is over: its track is corrected or in doubt.
LEMMA WriteEnds ==
    ASSUME LikesInv, UNCHANGED <<list, bound, likedTrackIds, continuation>>, NEW t \in Track,
           write' = [write EXCEPT ![t] = NoWrite], doubt \subseteq doubt', doubt' \subseteq Track,
           needsReconciliation' \subseteq Track, confirmedOverrides' \in [Track -> Shown],
           \A u \in Track \ {t} : confirmedOverrides'[u] = confirmedOverrides[u],
           t \in doubt' \/ Corrected(t)',
           PagesOK' /\ RefreshOK' /\ QuietRefresh',
           PagesAccurate /\ (\A l \in late : Accurate(l.page, l.offset))
               => PagesAccurate' /\ (\A l \in late : Accurate(l.page, l.offset))',
           \A u \in Track : Pending(u)' => Pending(u) \/ u \in Liked
    PROVE  LikesInv'
<1> /\ ListOK /\ ShownOK /\ WritesOK
  BY DEF LikesInv, LikesTypes
<1>1. write'[t] = NoWrite /\ \A u \in Track \ {t} : write'[u] = write[u]
  BY DEF WritesOK
<1>2. WritesOK'
  BY <1>1 DEF WritesOK, NoWrite, Liked
<1>3. ListOK' /\ ShownOK'
  BY DEF ListOK, ShownOK, Shown, Offset
<1>4. QuietScan'
  <2>1. doubt' # Track => doubt # Track
    OBVIOUS
  <2>2. ~continuation.complete /\ doubt # Track =>
            Collected(likedTrackIds, continuation.offset, continuation.reliable)
    BY DEF LikesInv, QuietScan
  <2>3. Collected(likedTrackIds, continuation.offset, continuation.reliable)
            => Collected(likedTrackIds, continuation.offset, continuation.reliable)'
    BY DEF Collected, Prefix
  <2>4. ~continuation.complete /\ doubt # Track =>
            PagesAccurate' /\ (\A l \in late : Accurate(l.page, l.offset))'
    BY DEF LikesInv, QuietScan
  <2> QED
    BY <2>1, <2>2, <2>3, <2>4 DEF QuietScan
<1>5. Known'
  <2> SUFFICES ASSUME NEW u \in Track \ doubt', write'[u].at # "applied"
               PROVE  (Corrected(u) \/ (confirmedOverrides[u] = "none" /\ Read(u)))'
    BY DEF Known
  <2>1. CASE u = t
    BY <2>1
  <2>2. CASE u # t
    <3>1. Corrected(u) \/ (confirmedOverrides[u] = "none" /\ Read(u))
      BY <1>1, <2>2 DEF LikesInv, Known
    <3>2. Liked' = Liked /\ (Pending(u)' => Pending(u) \/ u \in Liked)
      BY DEF Liked
    <3>3. Read(u) => Read(u)'
      BY <3>2 DEF Read
    <3> QED
      BY <2>2, <3>1, <3>2, <3>3 DEF Corrected
  <2> QED
    BY <2>1, <2>2
<1> QED
  BY <1>2, <1>3, <1>4, <1>5 DEF LikesInv, LikesTypes

\* Its pages: they stay, or are asked for again, or are dropped while no refresh runs.
LEMMA PagesAfterWrite ==
    ASSUME LikesInv, UNCHANGED <<list, bound, refresh>>,
           \/ UNCHANGED pageVars
           \/ sharedPages' = Ask(sharedPages, 0) /\ UNCHANGED <<scanning, late>>
           \/ /\ ~refresh.on
              /\ CancelSharedPages /\ scanning' = Nowhere /\ sharedPages' = Ask(NoPages, 0)
    PROVE  /\ PagesOK' /\ RefreshOK' /\ QuietRefresh'
           /\ PagesAccurate /\ (\A l \in late : Accurate(l.page, l.offset))
                  => PagesAccurate' /\ (\A l \in late : Accurate(l.page, l.offset))'
           /\ \A u \in Track : Pending(u)' => Pending(u) \/ u \in Liked
<1> /\ PagesOK /\ RefreshOK
  BY DEF LikesInv, LikesTypes
<1>1. CASE UNCHANGED pageVars \/ (sharedPages' = Ask(sharedPages, 0) /\ UNCHANGED <<scanning, late>>)
  <2>1. /\ PagesMove /\ sharedPages' \in [Offset -> Page] /\ UNCHANGED <<scanning, late>>
        /\ \A p \in Offset : sharedPages[p].at = "done" => sharedPages'[p] = sharedPages[p]
    <3>1. CASE UNCHANGED pageVars
      BY <3>1 DEF pageVars, PagesMove, Kept, Answered, PagesOK
    <3>2. CASE sharedPages' = Ask(sharedPages, 0) /\ UNCHANGED <<scanning, late>>
      BY <3>2, AskMoves, OffsetFacts
    <3> QED
      BY <1>1, <3>1, <3>2
  <2>2. PagesOK' /\ RefreshOK'
    BY <2>1 DEF PagesOK, RefreshOK, RefreshRecord, Offset, Page, Nowhere
  <2>3. /\ PagesAccurate => PagesAccurate'
        /\ (\A l \in late : Accurate(l.page, l.offset))
               => (\A l \in late : Accurate(l.page, l.offset))'
        /\ \A u \in Track : Pending(u)' => Pending(u) \/ u \in Liked
    BY <2>1, PagesMoveFacts
  <2>4. QuietRefresh'
    BY <2>1, <2>3 DEF LikesInv, QuietRefresh, RefreshOK, Collected, Prefix
  <2> QED
    BY <2>2, <2>3, <2>4
<1>2. CASE ~refresh.on /\ CancelSharedPages /\ scanning' = Nowhere /\ sharedPages' = Ask(NoPages, 0)
  <2>1. /\ late' \subseteq [offset : Offset, page : Page]
        /\ sharedPages' \in [Offset -> Page] /\ \A o \in Offset : ~Answered(o)'
        /\ PagesAccurate /\ (\A l \in late : Accurate(l.page, l.offset))
              => (\A l \in late : Accurate(l.page, l.offset))'
        /\ \A u \in Track : Pending(u)' => Pending(u)
    BY <1>2, CancelFacts
  <2>2. PagesOK' /\ RefreshOK' /\ QuietRefresh'
    BY <1>2, <2>1 DEF PagesOK, RefreshOK, RefreshRecord, QuietRefresh, Offset, Page, Nowhere
  <2> QED
    BY <2>1, <2>2 DEF PagesAccurate
<1> QED
  BY <1>1, <1>2

LEMMA ConfirmKeeps == ASSUME LikesInv, NEW t \in Track, Confirm(t) PROVE LikesInv'
<1> /\ ShownOK /\ WritesOK
  BY DEF LikesInv, LikesTypes
<1>1. /\ write[t].at \in {"applied", "overtaken"} /\ Override(t)
      /\ write' = [write EXCEPT ![t] = NoWrite]
      /\ needsReconciliation' = needsReconciliation \ {t}
      /\ doubt' = IF write[t].at = "overtaken" THEN doubt \cup {t} ELSE doubt
      /\ UNCHANGED <<list, bound, likedTrackIds, continuation, refresh>>
  BY DEF Confirm
<1>2. /\ confirmedOverrides' \in [Track -> Shown] /\ (t \in doubt' \/ Corrected(t)')
      /\ \A u \in Track \ {t} : confirmedOverrides'[u] = confirmedOverrides[u]
  BY <1>1 DEF Override, ShownOK, Shown, Corrected, WritesOK, Liked
<1>3. needsReconciliation' \subseteq Track /\ doubt' \subseteq Track /\ doubt \subseteq doubt'
  BY <1>1 DEF ShownOK, WritesOK
<1>4. \/ UNCHANGED pageVars
      \/ sharedPages' = Ask(sharedPages, 0) /\ UNCHANGED <<scanning, late>>
      \/ /\ ~refresh.on
         /\ CancelSharedPages /\ scanning' = Nowhere /\ sharedPages' = Ask(NoPages, 0)
  BY DEF Confirm, DropPages
<1>5. /\ PagesOK' /\ RefreshOK' /\ QuietRefresh'
      /\ PagesAccurate /\ (\A l \in late : Accurate(l.page, l.offset))
             => PagesAccurate' /\ (\A l \in late : Accurate(l.page, l.offset))'
      /\ \A u \in Track : Pending(u)' => Pending(u) \/ u \in Liked
  BY <1>1, <1>4, PagesAfterWrite
<1> QED
  BY <1>1, <1>2, <1>3, <1>5, WriteEnds

LEMMA LoseAnswerKeeps == ASSUME LikesInv, NEW t \in Track, LoseAnswer(t) PROVE LikesInv'
<1> /\ ShownOK /\ WritesOK
  BY DEF LikesInv, LikesTypes
<1>1. /\ write' = [write EXCEPT ![t] = NoWrite]
      /\ confirmedOverrides' = [confirmedOverrides EXCEPT ![t] = "none"]
      /\ needsReconciliation' = needsReconciliation \cup {t}
      /\ doubt' = doubt \cup {t}
      /\ UNCHANGED <<list, bound, likedTrackIds, continuation>>
  BY DEF LoseAnswer
<1>2. /\ confirmedOverrides' \in [Track -> Shown]
      /\ \A u \in Track \ {t} : confirmedOverrides'[u] = confirmedOverrides[u]
  BY <1>1 DEF ShownOK, Shown
<1>3. needsReconciliation' \subseteq Track /\ doubt' \subseteq Track /\ doubt \subseteq doubt'
      /\ t \in doubt'
  BY <1>1 DEF ShownOK, WritesOK
<1>4. /\ PagesOK' /\ RefreshOK' /\ QuietRefresh'
      /\ PagesAccurate /\ (\A l \in late : Accurate(l.page, l.offset))
             => PagesAccurate' /\ (\A l \in late : Accurate(l.page, l.offset))'
      /\ \A u \in Track : Pending(u)' => Pending(u) \/ u \in Liked
  <2>1. CASE bound /\ ~refresh.on
    <3>1. BeginRefresh
      BY <2>1 DEF LoseAnswer
    <3> QED
      BY <1>1, <2>1, <3>1, BeginFacts DEF PagesAccurate
  <2>2. CASE ~(bound /\ ~refresh.on)
    <3>1. /\ UNCHANGED refresh
          /\ \/ UNCHANGED pageVars
             \/ sharedPages' = Ask(sharedPages, 0) /\ UNCHANGED <<scanning, late>>
      BY <2>2 DEF LoseAnswer, pageVars
    <3> QED
      BY <1>1, <3>1, PagesAfterWrite
  <2> QED
    BY <2>1, <2>2
<1> QED
  BY <1>1, <1>2, <1>3, <1>4, WriteEnds

-----------------------------------------------------------------------------
(***************************************************************************)
(* The invariant.                                                          *)
(***************************************************************************)
LEMMA LikesInitInv == LikesInit => LikesInv
<1> SUFFICES ASSUME LikesInit PROVE LikesInv
  OBVIOUS
<1>1. list \in Seq(Track) /\ IsInjective(list)
  <2>1. PICK m \in 0..Cardinality(Track) : list \in [1..m -> Track]
    BY DEF LikesInit, SeqOf
  <2>2. m \in Nat
    BY <2>1, OffsetFacts
  <2> QED
    BY <2>1, <2>2 DEF LikesInit
<1>2. ListOK
  BY <1>1, ListFits DEF ListOK
<1>3. /\ likedTrackIds = {} /\ refresh = NoRefresh /\ late = {} /\ continuation = FromTheTop
      /\ sharedPages = NoPages /\ scanning = Nowhere /\ write = [t \in Track |-> NoWrite]
      /\ doubt = {} /\ bound = FALSE /\ needsReconciliation = {}
      /\ confirmedOverrides = [t \in Track |-> "none"]
  BY DEF LikesInit
<1>4. ShownOK /\ RefreshOK /\ PagesOK /\ WritesOK
  BY <1>3, OffsetFacts, NoPageFacts, NoRefreshFacts
     DEF ShownOK, Shown, FromTheTop, RefreshOK, PagesOK, WritesOK, NoWrite
<1>5. \A o \in Offset : ~Answered(o)
  BY <1>3, NothingAsked DEF Answered
<1>6. QuietRefresh /\ QuietScan
  BY <1>2, <1>3, <1>5, NoRefreshFacts, NothingCollected
     DEF QuietRefresh, QuietScan, PagesAccurate, FromTheTop
<1>7. Known
  BY <1>3, <1>5 DEF Known, Read, Pending, FromTheTop
<1> QED
  BY <1>2, <1>4, <1>6, <1>7 DEF LikesInv, LikesTypes

LEMMA LikesStutter == ASSUME LikesInv, UNCHANGED lvars PROVE LikesInv'
<1> UNCHANGED <<list, bound, likedTrackIds, confirmedOverrides, needsReconciliation, continuation,
                refresh, scanning, sharedPages, late, write, doubt>>
  BY DEF lvars, shownVars, pageVars
<1> UNCHANGED shownVars /\ UNCHANGED pageVars /\ Unwritten /\ PagesOK /\ RefreshOK
  BY DEF shownVars, pageVars, Unwritten, LikesInv, LikesTypes
<1>1. PagesOK' /\ PagesMove /\ (refresh.on => scanning' = Nowhere)
  BY DEF PagesOK, Page, Offset, Nowhere, PagesMove, Kept, Answered, RefreshOK
<1> QED
  BY <1>1, PagesStep

LEMMA LikesStep == ASSUME LikesInv, [LikesNext]_lvars PROVE LikesInv'
<1>1. CASE UNCHANGED lvars
  BY <1>1, LikesStutter
<1>2. CASE Bind \/ Unbind \/ Preload \/ RefreshSnapshot
  BY <1>2, BindKeeps, UnbindKeeps, PreloadKeeps, RefreshSnapshotKeeps
<1>3. CASE LoopResumes
  BY <1>3, ScanResumesKeeps, RefreshResumesKeeps DEF LoopResumes
<1>4. CASE \E o \in Offset : LoadPage(o) \/ PageStep(o)
  BY <1>4, LoadPageKeeps, ReadPageKeeps, AnswerPageKeeps, FailPageKeeps DEF PageStep
<1>5. CASE \E l \in late : AnswerLate(l)
  BY <1>5, AnswerLateKeeps
<1>6. ASSUME NEW t \in Writable,
             \/ ChangeElsewhere(t) \/ ApplyWrite(t) \/ Confirm(t) \/ LoseAnswer(t) \/ Refuse(t)
             \/ \E liked \in BOOLEAN : SetLiked(t, liked)
      PROVE  LikesInv'
  <2> t \in Track
    BY WritableAssumption
  <2> QED
    BY <1>6, ChangeElsewhereKeeps, ApplyWriteKeeps, ConfirmKeeps, LoseAnswerKeeps, RefuseKeeps,
       SetLikedKeeps
<1> QED
  BY <1>1, <1>2, <1>3, <1>4, <1>5, <1>6 DEF LikesNext

LEMMA LikesInvariant == LikesSpec => []LikesInv
<1>1. LikesInv /\ [LikesNext]_lvars => LikesInv'
  BY LikesStep
<1> QED
  BY <1>1, LikesInitInv, PTL DEF LikesSpec

\* Types of the controller's state; the service's list holds no track twice, and says of a
\* track whose write it has carried out and not answered yet what that write asked for,
\* unless another device has overtaken the write.
THEOREM LikesTyped == LikesSpec => []LikesTypes
<1>1. LikesInv => LikesTypes
  BY DEF LikesInv
<1> QED
  BY <1>1, LikesInvariant, PTL

\* The pages collected without a write in between are a prefix of the list (_scan,
\* _scanRefresh): a quiet refresh that commits shows exactly what the service has.
THEOREM ReadingIsSound == LikesSpec => [](QuietRefresh /\ QuietScan)
<1>1. LikesInv => QuietRefresh /\ QuietScan
  BY DEF LikesInv
<1> QED
  BY <1>1, LikesInvariant, PTL

\* A heart that says yes or no says what the service has, for a track that is not in doubt
\* (stateFor).
THEOREM HeartsAreTruthful == LikesSpec => []Truthful
<1>1. LikesInv => Truthful
  <2> SUFFICES ASSUME LikesInv, NEW t \in Track \ doubt, write[t].at # "applied"
               PROVE  /\ StateFor(t) = "liked" => t \in Liked
                      /\ StateFor(t) = "notLiked" => t \notin Liked
    BY DEF Truthful
  <2>1. Corrected(t) \/ (confirmedOverrides[t] = "none" /\ Read(t))
    BY DEF LikesInv, Known
  <2>2. CASE Corrected(t)
    BY <2>2 DEF Corrected, StateFor
  <2>3. CASE confirmedOverrides[t] = "none" /\ Read(t)
    BY <2>3 DEF Read, StateFor
  <2> QED
    BY <2>1, <2>2, <2>3
<1> QED
  BY <1>1, LikesInvariant, PTL

-----------------------------------------------------------------------------
(***************************************************************************)
(* The old snapshot, while a refresh runs.                                 *)
(***************************************************************************)
LEMMA SameHeart ==
    ASSUME NEW t \in Track, t \notin needsReconciliation, t \notin needsReconciliation',
           UNCHANGED <<bound, likedTrackIds, continuation>>,
           confirmedOverrides'[t] = confirmedOverrides[t]
    PROVE  StateFor(t)' = StateFor(t)
  BY DEF StateFor

KeepsHearts == \A t \in Track \ needsReconciliation :
                   StateFor(t)' = StateFor(t) \/ write'[t] # write[t]
Commits == ~refresh'.on /\ refresh.reliable /\ Done(refresh.awaits)

LEMMA ShrinkingNeeds ==
    ASSUME UNCHANGED <<bound, likedTrackIds, continuation, confirmedOverrides>>,
           needsReconciliation' \subseteq needsReconciliation
    PROVE  KeepsHearts
  BY SameHeart DEF KeepsHearts

LEMMA AcceptingKeepsHearts ==
    ASSUME LikesInv, refresh.on, NEW page \in Page, NEW o \in Offset, Accept(page, o),
           UNCHANGED <<bound, confirmedOverrides>>
    PROVE  KeepsHearts
<1>1. needsReconciliation' = StillNeeded(page, o) /\ UNCHANGED <<likedTrackIds, continuation>>
  BY DEF Accept, AcceptRefreshPage
<1>2. StillNeeded(page, o) \subseteq needsReconciliation
  BY DEF StillNeeded
<1> QED
  BY <1>1, <1>2, ShrinkingNeeds

LEMMA ResumingKeepsHearts ==
    ASSUME LikesInv, refresh.on, RefreshResumes
    PROVE  KeepsHearts \/ Commits
<1> DEFINE o == refresh.awaits
           page == sharedPages[o]
           r == Refreshed(page, o)
<1> /\ RefreshOK /\ needsReconciliation \subseteq Track /\ Done(o) /\ bound' = bound
    /\ o \in Offset /\ page \in Page
  BY DEF LikesInv, LikesTypes, ShownOK, RefreshOK, PagesOK, RefreshResumes
<1>1. StillNeeded(page, o) \subseteq needsReconciliation /\ (r.reliable => refresh.reliable)
  BY RefreshedFacts DEF RefreshOK, RefreshRecord, Page
<1>2. CASE ~page.more /\ r.reliable
  BY <1>1, <1>2, NoRefreshFacts DEF RefreshResumes, Commits
<1>3. CASE page.more \/ ~r.reliable
  BY <1>1, <1>3, ShrinkingNeeds DEF RefreshResumes
<1> QED
  BY <1>2, <1>3

LEMMA WritesKeepHearts ==
    ASSUME LikesInv, NEW t \in Track, Confirm(t) \/ LoseAnswer(t)
    PROVE  KeepsHearts
<1> ShownOK /\ WritesOK
  BY DEF LikesInv, LikesTypes
<1>1. /\ write[t] # NoWrite /\ write' = [write EXCEPT ![t] = NoWrite]
      /\ UNCHANGED <<bound, likedTrackIds, continuation>>
      /\ needsReconciliation' \in {needsReconciliation \cup {t}, needsReconciliation \ {t}}
  BY DEF Confirm, LoseAnswer, NoWrite
<1>2. \A u \in Track \ {t} : confirmedOverrides'[u] = confirmedOverrides[u]
  BY DEF Confirm, Override, LoseAnswer, ShownOK
<1>3. write'[t] # write[t]
  BY <1>1 DEF WritesOK
<1> QED
  BY <1>1, <1>2, <1>3, SameHeart DEF KeepsHearts

\* A refresh keeps the old snapshot until the exact replacement succeeds (_scanRefresh,
\* _commitRefresh, and every other handler that may run meanwhile).
THEOREM SnapshotIsKept == LikesSpec => RefreshKeepsSnapshot
<1>1. LikesInv /\ [LikesNext]_lvars =>
          [refresh.on /\ bound' =>
              \/ \A t \in Track \ needsReconciliation :
                    StateFor(t)' = StateFor(t) \/ write'[t] # write[t]
              \/ ~refresh'.on /\ refresh.reliable /\ Done(refresh.awaits)]_lvars
  <2> SUFFICES ASSUME LikesInv, LikesNext, refresh.on, bound' PROVE KeepsHearts \/ Commits
    BY DEF KeepsHearts, Commits
  <2> bound /\ scanning = Nowhere
    BY DEF LikesInv, LikesTypes, RefreshOK
  <2>1. CASE UNCHANGED shownVars
    BY <2>1, ShrinkingNeeds DEF shownVars
  <2>2. CASE Bind \/ Unbind \/ Preload \/ RefreshSnapshot
    BY <2>2 DEF Bind, Unbind, Preload, RefreshSnapshot, Invalidate
  <2>3. CASE LoopResumes
    <3>1. ~ScanResumes
      BY DEF ScanResumes, Done
    <3> QED
      BY <2>3, <3>1, ResumingKeepsHearts DEF LoopResumes
  <2>4. ASSUME NEW o \in Offset, LoadPage(o) \/ PageStep(o)
        PROVE  KeepsHearts
    <3>1. CASE AnswerPage(o)
      <4>1. sharedPages[o] \in Page
        BY DEF LikesInv, LikesTypes, PagesOK
      <4> QED
        BY <3>1, <4>1, AcceptingKeepsHearts DEF AnswerPage
    <3> QED
      BY <2>4, <3>1, ShrinkingNeeds DEF LoadPage, PageStep, ReadPage, FailPage, shownVars
  <2>5. ASSUME NEW l \in late, AnswerLate(l)
        PROVE  KeepsHearts
    <3>1. l.page \in Page /\ l.offset \in Offset
      BY DEF LikesInv, LikesTypes, PagesOK
    <3> QED
      BY <2>5, <3>1, AcceptingKeepsHearts DEF AnswerLate
  <2>6. ASSUME NEW t \in Writable,
               \/ ChangeElsewhere(t) \/ ApplyWrite(t) \/ Confirm(t) \/ LoseAnswer(t) \/ Refuse(t)
               \/ \E liked \in BOOLEAN : SetLiked(t, liked)
        PROVE  KeepsHearts
    <3>1. t \in Track
      BY WritableAssumption
    <3> QED
      BY <2>6, <3>1, WritesKeepHearts, ShrinkingNeeds
         DEF ChangeElsewhere, ApplyWrite, Refuse, SetLiked, shownVars
  <2> QED
    BY <2>2, <2>3, <2>4, <2>5, <2>6 DEF LikesNext
<1> QED
  BY <1>1, LikesInvariant, PTL DEF LikesSpec, RefreshKeepsSnapshot
=============================================================================
