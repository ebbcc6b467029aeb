---------------------------- MODULE MCTargetCheck ----------------------------
(* Small instances of TargetCheck for TLC: a participant that may support  *)
(* the transports query, a head protocol on the expected topic, and one on *)
(* another topic.                                                          *)
EXTENDS TargetCheck

CONSTANTS transports, mainnetHead, otherHead, mainnet, other

AllProtocols == {transports, mainnetHead, otherHead}
AllHeadProtocols == {mainnetHead, otherHead}
Topics == [p \in AllHeadProtocols |-> IF p = mainnetHead THEN mainnet ELSE other]
==============================================================================
