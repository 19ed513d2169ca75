\* Two liked songs, one of which is written; its neighbour is not.
CONSTANTS Track = {t1, t2} Writable = {t1} Elsewhere = FALSE Run = {r1, r2}
SPECIFICATION MCSpec
INVARIANTS NeverFabricatesNegative
CHECK_DEADLOCK FALSE
