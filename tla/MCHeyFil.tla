------------------------------ MODULE MCHeyFil ------------------------------
(* A small instance of HeyFil for TLC.                                     *)
EXTENDS HeyFil

CONSTANTS m1, c1

OneMiner == {m1}
OneChecker == {c1}
Nobody == {}
==============================================================================
