---------------------------- MODULE FocusContract ----------------------------
(***************************************************************************)
(* What the audio-focus arbiter promises to the rest of the program,       *)
(* without operations, timers, revisions or callers: focus is a token that *)
(* one lease asks for, may be given, and gives up again before another one *)
(* can ask.  Once the platform fails to acknowledge a release the token is *)
(* in an unknown place and is never used again.                            *)
(***************************************************************************)
CONSTANTS Lease, NoLease

VARIABLES
    phase,  \* free, asking, held, givingUp or unknown
    holder  \* the lease that the phase is about, or NoLease

tvars == <<phase, holder>>

Free == phase = "free" /\ holder = NoLease

Ask(l) == Free /\ phase' = "asking" /\ holder' = l

Given == phase = "asking" /\ phase' = "held" /\ UNCHANGED holder

Refused == phase = "asking" /\ Free'

\* A lease that was given up on while asking still has to give the token back.
GiveUp == phase \in {"asking", "held"} /\ phase' = "givingUp" /\ UNCHANGED holder

GivenUp == phase = "givingUp" /\ Free'

Lost == phase = "givingUp" /\ phase' = "unknown" /\ holder' = NoLease

TokenNext ==
    \/ \E l \in Lease : Ask(l)
    \/ Given
    \/ Refused
    \/ GiveUp
    \/ GivenUp
    \/ Lost

TokenSpec == Free /\ [][TokenNext]_tvars
=============================================================================
