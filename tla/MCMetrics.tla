------------------------------ MODULE MCMetrics ------------------------------
(* Small instances of Metrics for TLC.                                     *)
EXTENDS Metrics

CONSTANTS m1, m2

TwoMiners == {m1, m2}
ThreeStatuses == {"ok", "unindexed", "unreachable"}
TwoNames == {"boost", "tcp"}

\* A Boost node on the indexer, one that is not, one that lost its addresses
\* and whose power does not parse, and one that never had a deal.
Indexed ==
  [status |-> "ok", addressable |-> TRUE, known |-> TRUE, count |-> 3, day |-> 1,
   week |-> 2, minPower |-> TRUE, boost |-> TRUE, qap |-> 5, raw |-> 1,
   agent |-> {"boost"}, protocols |-> {"boost"}, transports |-> {"tcp"}]
Unindexed == [Indexed EXCEPT !.status = "unindexed", !.known = FALSE]
Lost == [Indexed EXCEPT !.status = "unreachable", !.addressable = FALSE,
                        !.qap = NoNumber, !.transports = {}]
Young == [Unindexed EXCEPT !.count = 0, !.day = 0, !.week = 0, !.known = TRUE,
                           !.boost = FALSE]

FourRecords == {Indexed, Unindexed, Lost, Young}
\* An empty store, one participant, and two; then others.
SomeMaps == {[m \in TwoMiners |-> NoTarget],
             [m \in TwoMiners |-> IF m = m1 THEN Unindexed ELSE NoTarget],
             [m \in TwoMiners |-> IF m = m1 THEN Indexed ELSE Unindexed]}
TwoMaps == {[m \in TwoMiners |-> IF m = m1 THEN Lost ELSE Unindexed],
            [m \in TwoMiners |-> IF m = m1 THEN Young ELSE Indexed]}
==============================================================================
