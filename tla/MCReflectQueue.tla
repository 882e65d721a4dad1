--------------------------- MODULE MCReflectQueue ---------------------------
(* The instances of the session queue: one session whose turn end races    *)
(* with its SessionEnd, crashes and operator commands; its liveness; and a  *)
(* session that is resumed while a pass looks at it.                        *)
EXTENDS ReflectQueue, TLC

\* The two hook processes do the same things (no liveness is checked here).
Symmetry == Permutations(Hooks)
=============================================================================
