--------------------------- MODULE PlaybackIntent ---------------------------
(***************************************************************************)
(* What the playback queue promises its listener, without positions,       *)
(* indices or shuffle cycles: a line of entries cut at the entry that is   *)
(* playing.  PlaybackQueue implements this specification under the mapping *)
(* at its end.                                                             *)
(*                                                                         *)
(*   - adding entries only ever makes the line longer behind what plays;   *)
(*   - removing another entry leaves the playing one alone;                *)
(*   - removing the playing entry hands over to its successor, or to its   *)
(*     predecessor when it was the last one;                               *)
(*   - navigation moves the cut and never changes the line;                *)
(*   - the answer asks for playback to be started exactly when what plays  *)
(*     was replaced, moved or established.                                 *)
(***************************************************************************)
EXTENDS Naturals, Sequences, SequencesExt

VARIABLES
    before,  \* the entries ahead of the playing one
    now,     \* the playing entry: a sequence of length at most 1
    after,   \* the entries behind it
    asked,   \* the operation that was asked for last
    start    \* whether its answer asked for playback to start

ivars == <<before, now, after, asked, start>>

Line == before \o now \o after

WellFormed == Len(now) <= 1 /\ (now = <<>> => before = <<>> /\ after = <<>>)

EmptyLine == before = <<>> /\ now = <<>> /\ after = <<>> /\ asked = "create" /\ ~start

\* Any operation may be refused, or find nothing to do.
LeaveAlone == ~start' /\ UNCHANGED <<before, now, after>>

\* A whole new line: only "replace" may do this.
Load == asked' = "replace" /\ start' /\ WellFormed'

Add ==
    /\ asked' \in {"push", "extend"}
    /\ \/ /\ now # <<>> /\ ~start'
          /\ UNCHANGED <<before, now>>
          /\ IsStrictPrefix(after, after')
       \/ /\ now = <<>> /\ start'
          /\ before' = <<>> /\ Len(now') = 1

\* The continuation of a line that had come to its end starts at once.
Continue ==
    /\ asked' = "continue" /\ start'
    /\ now # <<>> /\ after = <<>>
    /\ before' = before \o now
    /\ Len(now') = 1

Navigate ==
    /\ asked' \in {"select", "advance", "rewind", "complete"} /\ start'
    /\ Line' = Line
    /\ Len(now') = 1

TakeOutAnother ==
    /\ asked' = "remove" /\ ~start'
    /\ UNCHANGED now
    /\ \/ UNCHANGED after /\ \E i \in DOMAIN before : before' = RemoveAt(before, i)
       \/ UNCHANGED before /\ \E i \in DOMAIN after : after' = RemoveAt(after, i)

TakeOutPlaying ==
    /\ asked' = "remove" /\ start' /\ now # <<>>
    /\ \/ /\ after # <<>>
          /\ now' = <<Head(after)>> /\ after' = Tail(after) /\ UNCHANGED before
       \/ /\ after = <<>> /\ before # <<>>
          /\ now' = <<Last(before)>> /\ before' = Front(before) /\ UNCHANGED after
       \/ /\ after = <<>> /\ before = <<>>
          /\ now' = <<>> /\ UNCHANGED <<before, after>>

Empty ==
    /\ asked' = "clear" /\ (start' <=> now # <<>>)
    /\ before' = <<>> /\ now' = <<>> /\ after' = <<>>

IntentNext ==
    \/ LeaveAlone
    \/ Load
    \/ Add
    \/ Continue
    \/ Navigate
    \/ TakeOutAnother
    \/ TakeOutPlaying
    \/ Empty

IntentSpec == EmptyLine /\ [][IntentNext]_ivars
=============================================================================
