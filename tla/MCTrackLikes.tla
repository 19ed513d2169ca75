---------------------------- MODULE MCTrackLikes ----------------------------
(***************************************************************************)
(* Model checking of TrackLikes, and of the handle (BridgeHandle) that     *)
(* carries each of its pages and writes.  A cast says what takes part in a *)
(* behaviour: the tracks that are written, whether another device writes   *)
(* too, whether every row has its identity, the pages that the application *)
(* shows besides, and how many cancelled pages may arrive at a time.  Of a *)
(* pair each write asks for a change of what the service has.              *)
(***************************************************************************)
EXTENDS TrackLikes, BridgeHandle

VARIABLE cast
mcvars == <<lvars, bvars, cast>>

One == {CHOOSE t \in Writable : TRUE}
Parts == [
    pair |-> [writes |-> Writable, device |-> FALSE, exact |-> TRUE, shows |-> {}, late |-> 0],
    device |-> [writes |-> One, device |-> TRUE, exact |-> TRUE, shows |-> {0}, late |-> 1],
    rows |-> [writes |-> One, device |-> FALSE, exact |-> FALSE, shows |-> {0}, late |-> 0]]

TakesPart(part) ==
    /\ \A t \in Track \ part.writes : write'[t] = write[t] /\ (t \in Liked)' = (t \in Liked)
    /\ ~part.device =>
          /\ list' # list => write' # write
          /\ \A t \in Track : write'[t].at # "overtaken"
    /\ Cardinality(part.writes) > 1 =>
          \A t \in part.writes : write[t] = NoWrite /\ write'[t] # NoWrite =>
              write'[t].liked # (t \in Liked)
    /\ part.exact => \A o \in Offset : sharedPages'[o].exact
    /\ Cardinality(late') <= part.late
    /\ \A o \in Offset \ part.shows :
          sharedPages[o] = NoPage /\ sharedPages'[o] # NoPage => o \in {scanning', refresh'.awaits}

Likes(A) == cast # "handle" /\ A /\ TakesPart(Parts[cast]) /\ UNCHANGED <<bvars, cast>>
Carries(A) == cast = "handle" /\ A /\ UNCHANGED <<lvars, cast>>

MCInit ==
    /\ LikesInit /\ Init
    /\ \/ cast \in DOMAIN Parts /\ handle = Lyric /\ target = [provider |-> QQ, valid |-> TRUE]
       \/ cast = "handle" /\ list = <<>>
MCNext == Likes(LikesNext) \/ Carries(Next)
MCSpec ==
    /\ MCInit /\ [][MCNext]_mcvars
    /\ WF_mcvars(Likes(LoopResumes)) /\ WF_mcvars(Likes(AwaitedPage))
    /\ \A r \in Run : WF_mcvars(Carries(LocalStep(r)))
=============================================================================
