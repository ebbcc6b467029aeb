----------------------------- MODULE MCDealStats -----------------------------
(* Small instances of DealStats for TLC: at epochs 10 and 11, with days of *)
(* two and weeks of four epochs, deals on both sides of every limit.       *)
EXTENDS DealStats, SequencesExt

A(active, start, end, piece) ==
  [provider |-> "A", active |-> active, slashed |-> FALSE,
   start |-> start, end |-> end, piece |-> piece]
B(slashed, start, end, piece) ==
  [provider |-> "B", active |-> TRUE, slashed |-> slashed,
   start |-> start, end |-> end, piece |-> piece]

TwoProviders == {"A", "B"}
SomeDeals == {A(TRUE, 9, 12, "a1"), A(TRUE, 8, 10, "a2"), A(TRUE, 6, 20, "a3"),
              A(FALSE, 12, 20, "a4"),
              B(TRUE, 9, 20, "b1"), B(FALSE, 12, 20, "b3")}

\* Every listing of up to three different deals.
AllListings == {l \in BoundedSeq(SomeDeals, 3) : IsInjective(l)}

\* For the refreshes after a tick: one without deals of B, and with one of A
\* that ends between the two epochs.
OneListing == {<<A(TRUE, 8, 10, "a2")>>}
==============================================================================
