--------------------------- MODULE MCEngineStream ---------------------------
(* Instances of EngineStream for TLC.                                       *)
EXTENDS EngineStream

CONSTANTS s1, s2, t1, t2

Own == [s \in Stream |-> IF s = s1 THEN t1 ELSE t2]

\* Every stream has its own token, as the kernel opens them.
OwnTokens == {Own}
\* Each its own, or both the first one's.
OwnOrOneToken == {Own, [s \in Stream |-> t1]}
=============================================================================
