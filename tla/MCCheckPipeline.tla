--------------------------- MODULE MCCheckPipeline ---------------------------
(* Small instances of CheckPipeline for TLC.                               *)
EXTENDS CheckPipeline, TLC

CONSTANTS m1, m2, c1, c2

Nobody == {}
OneMiner == {m1}
TwoMiners == {m1, m2}
SecondMiner == {m2}
OneChecker == {c1}
TwoCheckers == {c1, c2}

CheckerSymmetry == Permutations(Checkers)
==============================================================================
