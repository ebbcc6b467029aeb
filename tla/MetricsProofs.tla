---------------------------- MODULE MetricsProofs ----------------------------
(***************************************************************************)
(* What a report shows together belongs together and adds up, and what it  *)
(* shows of an unindexed participant is the latest: for any finite set of  *)
(* miners, any results and any number of snapshots.                        *)
(***************************************************************************)
EXTENDS Metrics, SumLemmas

\* While snapshot stores, the totals it has come to are of the snapshot of
\* the counts and the others of the one before; else all are of that of the
\* counts.
Storing ==
  /\ locked <=> handler = "storing"
  /\ writing # {} => handler = "indexing"
  /\ counts = IF handler = "indexing" THEN Len(snaps) - 1 ELSE Len(snaps)
  /\ \A f \in Totals :
       totals[f] = IF handler = "storing" /\ StoreTurn[f] > stores THEN counts - 1
                                                                  ELSE counts

\* A report began when all totals were of the snapshot of its counts, and no
\* total ever goes back.
Reporting ==
  /\ report \in {"idle", "counts"} => loads = 0
  /\ report \in {"loading", "iterating"} => \A f \in Totals : seenCounts <= totals[f]
  /\ \A f \in Totals : Loaded(f) => seenCounts <= seen[f] /\ seen[f] <= totals[f]
  /\ KnownNotNewerThanWithDeals

MInv == TypeOK /\ Storing /\ Reporting

\* Every turn is one of the ten, in both orders; a total keeps its name.
LEMMA Turns ==
  /\ \A f \in Totals : StoreTurn[f] \in 1 .. LastTurn /\ LoadTurn[f] \in 1 .. LastTurn
  /\ "known" \in Totals /\ "withDeals" \in Totals
  /\ StoreTurn["withDeals"] = 2 /\ StoreTurn["known"] = 3
  /\ LoadTurn["withDeals"] = 3 /\ LoadTurn["known"] = 1
  /\ \A f \in Totals : LoadTurn[f] = 3 => f = "withDeals"
  /\ \A f \in Totals : LoadTurn[f] = 1 => f = "known"
BY DEF Totals, StoreTurn, LoadTurn, LastTurn

\* No two totals are stored in the same turn.
LEMMA OneTotalATurn == \A f, g \in Totals : StoreTurn[f] = StoreTurn[g] => f = g
BY DEF Totals, StoreTurn

\* The invariant holds at the start.
LEMMA MInvInit == Init => MInv
<1> SUFFICES ASSUME Init PROVE MInv  OBVIOUS
<1> USE DEF Init
<1>1. TypeOK
  <2>1. unindexed \in Maps
    BY DEF Maps
  <2>2. totals \in [Totals -> Nat] /\ seen \in [Totals -> Nat]
    OBVIOUS
  <2>3. snaps \in Seq(Maps) /\ Len(snaps) = 0
    OBVIOUS
  <2>4. snaps \in Seq(Maps) /\ Len(snaps) <= MaxSnapshots
    BY <2>3, MetricsAssumption
  <2>5. 0 \in 0 .. LastTurn
    BY DEF LastTurn
  <2> QED  BY <2>1, <2>2, <2>4, <2>5 DEF TypeOK
<1>2. Storing
  BY Turns DEF Storing
<1>3. Reporting
  BY Turns DEF Reporting, KnownNotNewerThanWithDeals, Loaded
<1> QED  BY <1>1, <1>2, <1>3 DEF MInv

\* Every step keeps the types.
LEMMA TypeStep == MInv /\ [Next]_vars => TypeOK'
<1> SUFFICES ASSUME MInv, [Next]_vars PROVE TypeOK'  OBVIOUS
<1> USE MetricsAssumption, Turns DEF MInv, TypeOK, summing, publishing, reporting
<1>1. ASSUME NEW ts \in FirstMaps \cup LaterMaps, BeginSnapshot(ts) PROVE TypeOK'
  <2>1. ts \in Maps /\ Participants(ts) \subseteq Miners  BY DEF Participants
  <2> QED  BY <1>1, <2>1 DEF BeginSnapshot, Storing
<1>2. ASSUME NEW m \in Miners, Pass(m) PROVE TypeOK'
  BY <1>2 DEF Pass
<1>3. ASSUME NEW m \in Miners, BeginAssign(m) PROVE TypeOK'
  BY <1>3 DEF BeginAssign
<1>4. ASSUME NEW m \in Miners, EndAssign(m) PROVE TypeOK'
  <2>1. Latest[m] \in Records \cup {NoTarget}
    BY <1>4 DEF Latest, Maps, EndAssign, Storing
  <2>2. unindexed' \in Maps
    BY <1>4, <2>1 DEF EndAssign, Maps
  <2> QED  BY <1>4, <2>2 DEF EndAssign
<1>5. CASE SwapCounts
  BY <1>5 DEF SwapCounts, LastTurn
<1>6. ASSUME NEW f \in Totals, StoreTotal(f) PROVE TypeOK'
  <2>1. totals' \in [Totals -> Nat]
    BY <1>6 DEF StoreTotal
  <2>2. stores' \in 0 .. LastTurn
    <3>1. StoreTurn[f] \in 1 .. LastTurn /\ stores' = StoreTurn[f]
      BY <1>6 DEF StoreTotal
    <3> QED  BY <3>1 DEF LastTurn
  <2> QED  BY <1>6, <2>1, <2>2 DEF StoreTotal
<1>7. CASE EndSnapshot
  BY <1>7 DEF EndSnapshot
<1>8. CASE Scrape
  BY <1>8 DEF Scrape
<1>9. CASE ObserveCounts
  BY <1>9 DEF ObserveCounts
<1>10. ASSUME NEW f \in Totals, LoadTotal(f) PROVE TypeOK'
  <2>1. seen' \in [Totals -> Nat]
    BY <1>10 DEF LoadTotal
  <2>2. loads' \in 0 .. LastTurn
    <3>1. LoadTurn[f] \in 1 .. LastTurn /\ loads' = LoadTurn[f]
      BY <1>10 DEF LoadTotal
    <3> QED  BY <3>1 DEF LastTurn
  <2> QED  BY <1>10, <2>1, <2>2 DEF LoadTotal
<1>11. CASE Iterate
  BY <1>11 DEF Iterate
<1>14. CASE NoticeWrite
  BY <1>14 DEF NoticeWrite
<1>12. CASE EndReport
  BY <1>12 DEF EndReport, LastTurn
<1>13. CASE UNCHANGED vars
  BY <1>13 DEF vars
<1> QED
  BY <1>1, <1>2, <1>3, <1>4, <1>5, <1>6, <1>7, <1>8, <1>9, <1>10, <1>11, <1>12, <1>13, <1>14
  DEF Next, snapshot, reportAsyncMetrics

\* Every step keeps the totals in step with the counts.
LEMMA StoringStep == MInv /\ [Next]_vars => Storing'
<1> SUFFICES ASSUME MInv, [Next]_vars PROVE Storing'  OBVIOUS
<1> USE MetricsAssumption, Turns DEF MInv, TypeOK, Storing, summing, publishing
<1>1. ASSUME NEW ts \in FirstMaps \cup LaterMaps, BeginSnapshot(ts) PROVE Storing'
  <2>1. Len(snaps') = Len(snaps) + 1  BY <1>1 DEF BeginSnapshot
  <2> QED  BY <1>1, <2>1 DEF BeginSnapshot
<1>2. ASSUME NEW m \in Miners, Pass(m) \/ BeginAssign(m) \/ EndAssign(m) PROVE Storing'
  BY <1>2 DEF Pass, BeginAssign, EndAssign
<1>3. CASE SwapCounts
  <2>1. \A f \in Totals : StoreTurn[f] > 0
    OBVIOUS
  <2> QED  BY <1>3, <2>1 DEF SwapCounts
<1>4. ASSUME NEW f \in Totals, StoreTotal(f) PROVE Storing'
  <2>1. totals' = [totals EXCEPT ![f] = counts] /\ StoreTurn[f] = stores + 1
    BY <1>4 DEF StoreTotal
  <2>2. ASSUME NEW g \in Totals
        PROVE totals'[g] = IF StoreTurn[g] > stores + 1 THEN counts - 1 ELSE counts
    <3>1. StoreTurn[g] = StoreTurn[f] => g = f
      BY ONLY OneTotalATurn
    <3>2. StoreTurn[g] \in 1 .. LastTurn
      BY Turns
    <3>3. CASE g = f
      BY <1>4, <2>1, <3>3 DEF StoreTotal
    <3>4. CASE g # f
      <4>1. StoreTurn[g] > stores <=> StoreTurn[g] > stores + 1
        <5>1. StoreTurn[g] # stores + 1
          BY ONLY <2>1, <3>1, <3>4
        <5>2. StoreTurn[g] \in Nat /\ stores \in Nat
          BY ONLY <3>2, TypeOK DEF LastTurn, TypeOK
        <5> QED  BY ONLY <5>1, <5>2
      <4>2. totals'[g] = totals[g]
        BY <2>1, <3>4
      <4> QED  BY <1>4, <4>1, <4>2 DEF StoreTotal
    <3> QED  BY <3>3, <3>4
  <2> QED  BY <1>4, <2>2 DEF StoreTotal
<1>5. CASE EndSnapshot
  <2>1. \A f \in Totals : ~(StoreTurn[f] > stores)
    <3>1. \A f \in Totals : StoreTurn[f] \in 1 .. stores
      BY <1>5 DEF EndSnapshot
    <3> QED  BY <3>1
  <2> QED  BY <1>5, <2>1 DEF EndSnapshot
<1>6. CASE Scrape \/ ObserveCounts \/ Iterate \/ NoticeWrite \/ EndReport
  <2>1. UNCHANGED <<summing, publishing>>
    BY ONLY <1>6 DEF Scrape, ObserveCounts, Iterate, NoticeWrite, EndReport
  <2> QED  BY ONLY <2>1, Storing DEF Storing, summing, publishing
<1>7. ASSUME NEW f \in Totals, LoadTotal(f) PROVE Storing'
  <2>1. UNCHANGED <<summing, publishing>>
    BY ONLY <1>7 DEF LoadTotal
  <2> QED  BY ONLY <2>1, Storing DEF Storing, summing, publishing
<1>8. CASE UNCHANGED vars
  BY <1>8 DEF vars
<1> QED
  BY <1>1, <1>2, <1>3, <1>4, <1>5, <1>6, <1>7, <1>8
  DEF Next, snapshot, reportAsyncMetrics

\* No total goes back to an older snapshot.
LEMMA TotalsAdvance ==
  MInv /\ [Next]_vars => \A f \in Totals : totals[f] \in Nat /\ totals'[f] >= totals[f]
<1> SUFFICES ASSUME MInv, [Next]_vars, NEW f \in Totals
             PROVE totals[f] \in Nat /\ totals'[f] >= totals[f]
  OBVIOUS
<1>1. totals[f] \in Nat /\ totals \in [Totals -> Nat] /\ counts \in Nat /\ totals[f] <= counts
  BY DEF MInv, TypeOK, Storing
<1>2. ASSUME NEW g \in Totals, StoreTotal(g) PROVE totals'[f] >= totals[f]
  <2>1. totals' = [totals EXCEPT ![g] = counts]
    BY <1>2 DEF StoreTotal, MInv, Storing
  <2> QED  BY <1>1, <2>1
<1>3. CASE UNCHANGED totals
  BY <1>1, <1>3
<1> QED
  BY <1>1, <1>2, <1>3
  DEF Next, snapshot, reportAsyncMetrics, vars, publishing, BeginSnapshot, Pass, BeginAssign,
      EndAssign, SwapCounts, EndSnapshot, Scrape, ObserveCounts, LoadTotal, Iterate,
      NoticeWrite, EndReport

\* Every step keeps what a report has seen between its counts and the totals.
LEMMA ReportingStep == MInv /\ [Next]_vars => Reporting'
<1> SUFFICES ASSUME MInv, [Next]_vars PROVE Reporting'  OBVIOUS
<1> USE Turns DEF MInv, Reporting, Loaded, KnownNotNewerThanWithDeals
<1>1. \A f \in Totals : totals[f] \in Nat /\ totals'[f] \in Nat /\ totals'[f] >= totals[f]
                       /\ seen[f] \in Nat /\ seenCounts \in Nat /\ loads \in Nat
  <2>1. totals' \in [Totals -> Nat]
    BY TypeStep DEF TypeOK
  <2> QED  BY <2>1, TotalsAdvance DEF TypeOK, LastTurn
<1>2. CASE UNCHANGED reporting
  BY <1>1, <1>2 DEF reporting
<1>3. CASE Scrape
  BY <1>1, <1>3 DEF Scrape
<1>4. CASE ObserveCounts
  <2>1. \A f \in Totals : totals[f] = counts
    BY <1>4 DEF ObserveCounts, Storing
  <2>2. loads = 0
    BY <1>4 DEF ObserveCounts
  <2>3. UNCHANGED totals
    BY <1>4 DEF ObserveCounts, publishing
  <2> QED  BY <1>1, <1>4, <2>1, <2>2, <2>3 DEF ObserveCounts, LastTurn
<1>5. ASSUME NEW f \in Totals, LoadTotal(f) PROVE Reporting'
  <2>1. seen' = [seen EXCEPT ![f] = totals[f]] /\ seen \in [Totals -> Nat] /\ UNCHANGED totals
        /\ loads' = loads + 1 /\ LoadTurn[f] = loads + 1 /\ seenCounts' = seenCounts
        /\ report = "loading" /\ report' \in {"loading", "iterating"}
    BY <1>5 DEF LoadTotal, TypeOK, publishing
  <2>2. \A g \in Totals : LoadTurn[g] <= loads' /\ g # f => LoadTurn[g] <= loads
    BY <1>1, <2>1 DEF Totals, LoadTurn, StoreTurn
  <2>3. \A g \in Totals : Loaded(g)' => seenCounts' <= seen'[g] /\ seen'[g] <= totals'[g]
    BY <1>1, <2>1, <2>2
  <2>4. totals["known"] <= totals["withDeals"]
    BY DEF Storing, TypeOK, LastTurn
  <2>5. Loaded("withDeals")' => seen'["known"] <= seen'["withDeals"]
    <3>1. CASE f = "withDeals"
      BY <1>1, <2>1, <2>4, <3>1
    <3> QED  BY <1>1, <2>1, <2>2, <3>1
  <2> QED  BY <1>1, <2>1, <2>3, <2>5
<1>6. CASE Iterate
  BY <1>1, <1>6 DEF Iterate
<1>7. CASE EndReport
  BY <1>1, <1>7 DEF EndReport, LastTurn
<1> QED
  BY <1>2, <1>3, <1>4, <1>5, <1>6, <1>7
  DEF Next, snapshot, reportAsyncMetrics, vars, BeginSnapshot, Pass, BeginAssign, EndAssign,
      SwapCounts, StoreTotal, EndSnapshot, NoticeWrite

\* The invariant holds in every state.
THEOREM ReportsInvariance == Spec => []MInv
<1>1. MInv /\ [Next]_vars => MInv'
  BY TypeStep, StoringStep, ReportingStep DEF MInv
<1> QED  BY <1>1, MInvInit, PTL DEF Spec

\* Every variable of the metrics has its type.
THEOREM MetricsTypeCorrect == Spec => []TypeOK
<1>1. MInv => TypeOK  BY DEF MInv
<1> QED  BY <1>1, ReportsInvariance, PTL

\* The totals of a report are never older than its counts: whatever is
\* scraped while a snapshot is published.
THEOREM ReportedTotalsAreNotOlder == Spec => []TotalsNotOlderThanCounts
<1>1. MInv => TotalsNotOlderThanCounts
  BY DEF MInv, Reporting, TotalsNotOlderThanCounts, Loaded, TypeOK
<1> QED  BY <1>1, ReportsInvariance, PTL

\* The numerator of the participant coverage is never newer than its
\* denominator.
THEOREM CoverageNumeratorIsNotNewer == Spec => []KnownNotNewerThanWithDeals
<1>1. MInv => KnownNotNewerThanWithDeals
  BY DEF MInv, Reporting
<1> QED  BY <1>1, ReportsInvariance, PTL

------------------------------------------------------------------------------
\* The loop of snapshot has assigned what it has passed, one at a time.
Indexing ==
  /\ \A m, n \in writing : m = n
  /\ handler # "indexing" => toVisit = {} /\ writing = {}
  /\ handler # "waiting" \/ snaps # <<>> =>
       \A m \in Participants(Latest) \ (toVisit \cup writing) :
         Latest[m].status = "unindexed" => unindexed[m] = Latest[m]

\* Every step keeps what the loop has done.
LEMMA IndexingStep == MInv /\ Indexing /\ [Next]_vars => Indexing'
<1> SUFFICES ASSUME MInv, Indexing, [Next]_vars PROVE Indexing'  OBVIOUS
<1> USE DEF Indexing, summing
<1>1. ASSUME NEW ts \in FirstMaps \cup LaterMaps, BeginSnapshot(ts) PROVE Indexing'
  <2>1. Latest' = ts
    BY <1>1, MetricsAssumption DEF BeginSnapshot, Latest, MInv, TypeOK
  <2>2. toVisit' = Participants(Latest)' /\ handler' = "indexing"
    BY <1>1, <2>1 DEF BeginSnapshot, Participants
  <2> QED  BY <1>1, <2>2 DEF BeginSnapshot
<1>2. ASSUME NEW m \in Miners, Pass(m) PROVE Indexing'
  BY <1>2 DEF Pass, Latest, Participants
<1>3. ASSUME NEW m \in Miners, BeginAssign(m) PROVE Indexing'
  BY <1>3 DEF BeginAssign, Latest, Participants
<1>4. ASSUME NEW m \in Miners, EndAssign(m) PROVE Indexing'
  <2>1. writing = {m} /\ handler = "indexing" /\ UNCHANGED <<snaps, handler, toVisit>>
    BY <1>4 DEF EndAssign
  <2>2. unindexed' = [unindexed EXCEPT ![m] = Latest[m]] /\ unindexed \in Maps
    BY <1>4 DEF EndAssign, MInv, TypeOK
  <2>3. UNCHANGED Latest /\ UNCHANGED Participants(Latest)
    BY <2>1 DEF Latest, Participants
  <2>4. ASSUME NEW n \in Participants(Latest) \ toVisit, Latest[n].status = "unindexed"
        PROVE unindexed'[n] = Latest[n]
    <3>1. n \in Miners  BY DEF Participants
    <3>2. CASE n = m  BY <2>2, <3>2 DEF Maps
    <3>3. CASE n # m  BY <2>1, <2>2, <2>4, <3>1, <3>3 DEF Maps
    <3> QED  BY <3>2, <3>3
  <2> QED  BY <1>4, <2>1, <2>3, <2>4 DEF EndAssign
<1>5. CASE SwapCounts \/ EndSnapshot
  BY <1>5 DEF SwapCounts, EndSnapshot, Latest, Participants, MInv, TypeOK
<1>6. CASE UNCHANGED summing
  BY <1>6 DEF Latest, Participants
<1> QED
  BY <1>1, <1>2, <1>3, <1>4, <1>5, <1>6
  DEF Next, snapshot, reportAsyncMetrics, vars, StoreTotal, Scrape, ObserveCounts, LoadTotal,
      Iterate, NoticeWrite, EndReport

\* What is reported of an unindexed participant is what the last snapshot
\* found.
THEOREM UnindexedIsNeverStale == Spec => []UnindexedIsLatest
<1>1. Init => Indexing
  BY DEF Init, Indexing
<1>2. Indexing => UnindexedIsLatest
  BY DEF Indexing, UnindexedIsLatest
<1> QED  BY <1>1, <1>2, IndexingStep, ReportsInvariance, PTL DEF Spec

------------------------------------------------------------------------------
(* What one snapshot sums up.                                              *)

\* The participants of a map and the sets a snapshot counts nest, and are
\* finite.
LEMMA CountedSetsNest ==
  ASSUME NEW ts
  PROVE  /\ Known(ts) \subseteq WithDeals(ts)
         /\ WithDeals(ts) \subseteq Addressable(ts)
         /\ Addressable(ts) \subseteq Participants(ts)
         /\ Boost(ts) \subseteq MinPower(ts)
         /\ MinPower(ts) \subseteq Participants(ts)
         /\ IsFiniteSet(Participants(ts))
<1>1. Participants(ts) \subseteq Miners
  BY DEF Participants
<1>2. IsFiniteSet(Participants(ts))
  BY <1>1, MetricsAssumption, FS_Subset
<1> QED  BY <1>2 DEF Known, WithDeals, Addressable, Boost, MinPower

\* Every participant has one of the statuses: the counts by status add up to
\* the participants.
LEMMA StatusesAddUp ==
  ASSUME NEW ts \in Maps
  PROVE  SumFunction([s \in Statuses |->
                        Cardinality({m \in Participants(ts) : ts[m].status = s})])
         = Cardinality(Participants(ts))
<1> DEFINE P == Participants(ts)
           class == [m \in P |-> ts[m].status]
           byStatus == [s \in Statuses |-> Cardinality({m \in P : ts[m].status = s})]
<1>1. \A m \in P : ts[m].status \in Statuses
  BY MetricsAssumption DEF Participants, Maps, Results
<1>2. {m \in P : class[m] \in Statuses} = P
  BY <1>1
<1>3. \A s : {m \in P : class[m] = s} = {m \in P : ts[m].status = s}
  OBVIOUS
<1>4. IsFiniteSet(P) /\ IsFiniteSet(Statuses)
  BY CountedSetsNest, MetricsAssumption
<1>5. Cardinality({m \in P : class[m] \in Statuses})
      = SumFunctionOnSet([s \in Statuses |-> Cardinality({m \in P : class[m] = s})], Statuses)
  <2> HIDE DEF P, class
  <2> QED  BY <1>4, SumOfClasses
<1>6. [s \in Statuses |-> Cardinality({m \in P : class[m] = s})] = byStatus
  BY <1>3
<1>7. SumFunctionOnSet(byStatus, Statuses) = Cardinality(P)
  BY <1>2, <1>5, <1>6
<1>8. byStatus \in [Statuses -> {Cardinality(s) : s \in SUBSET P}]
  OBVIOUS
<1>9. SumFunction(byStatus) = SumFunctionOnSet(byStatus, Statuses)
  <2> HIDE DEF byStatus, P
  <2> QED  BY <1>8, SumIsOverDomain
<1> QED  BY <1>7, <1>9

\* A sum over the known participants is no more than one with larger terms.
LEMMA KnownSumsGrow ==
  ASSUME NEW ts \in Maps, NEW f \in [Known(ts) -> Nat], NEW g \in [Known(ts) -> Nat],
         \A m \in Known(ts) : f[m] <= g[m]
  PROVE  SumFunction(f) <= SumFunction(g)
<1>1. IsFiniteSet(Known(ts))
  <2>1. Known(ts) \subseteq Participants(ts)
    BY CountedSetsNest
  <2> QED  BY <2>1, CountedSetsNest, FS_Subset
<1>2. \A m \in Known(ts) : f[m] \in Nat /\ g[m] \in Nat /\ f[m] <= g[m]
  OBVIOUS
<1>3. SumFunctionOnSet(f, Known(ts)) <= SumFunctionOnSet(g, Known(ts))
  BY <1>1, <1>2, SumMonotonic
<1>4. /\ SumFunction(f) = SumFunctionOnSet(f, Known(ts))
      /\ SumFunction(g) = SumFunctionOnSet(g, Known(ts))
  BY SumIsOverDomain
<1> QED  BY <1>3, <1>4

\* Over the known participants the deals of a day are no more than those of a
\* week, and these no more than all.
LEMMA DealsOfKnownNest ==
  ASSUME NEW ts \in Maps
  PROVE  /\ SumFunction([m \in Known(ts) |-> ts[m].day])
            <= SumFunction([m \in Known(ts) |-> ts[m].week])
         /\ SumFunction([m \in Known(ts) |-> ts[m].week])
            <= SumFunction([m \in Known(ts) |-> ts[m].count])
<1> DEFINE day == [m \in Known(ts) |-> ts[m].day]
           week == [m \in Known(ts) |-> ts[m].week]
           all == [m \in Known(ts) |-> ts[m].count]
<1>1. \A m \in Known(ts) : ts[m] \in Records
  BY CountedSetsNest DEF Participants, Maps
<1>2. \A r \in Records : /\ r.day \in Nat /\ r.week \in Nat /\ r.count \in Nat
                         /\ r.day <= r.week /\ r.week <= r.count
  <2>1. \A r \in Results : r.day \in Nat /\ r.week \in Nat /\ r.count \in Nat
    BY DEF Results
  <2> QED  BY <2>1, MetricsAssumption
<1>3. /\ day \in [Known(ts) -> Nat] /\ week \in [Known(ts) -> Nat] /\ all \in [Known(ts) -> Nat]
      /\ \A m \in Known(ts) : day[m] <= week[m] /\ week[m] <= all[m]
  BY <1>1, <1>2
<1> HIDE DEF day, week, all
<1>4. SumFunction(day) <= SumFunction(week) /\ SumFunction(week) <= SumFunction(all)
  BY <1>3, KnownSumsGrow
<1> QED  BY <1>4 DEF day, week, all

\* What a snapshot of ts publishes nests.
SummaryNests(s) ==
  /\ s.withDeals <= s.addressable
  /\ s.addressable <= SumFunction(s.byStatus)
  /\ s.dayKnown <= s.weekKnown
  /\ s.weekKnown <= s.dealsKnown
  /\ s.boost <= s.minPower

\* One snapshot counts no one in a smaller set that is not in the larger.
LEMMA SummaryNestsOfMap == ASSUME NEW ts \in Maps PROVE SummaryNests(Summary(ts))
<1>1. ASSUME NEW A, NEW B, A \subseteq B, IsFiniteSet(B)
      PROVE  Cardinality(A) <= Cardinality(B) /\ IsFiniteSet(A)
  BY <1>1, FS_Subset
<1>2. IsFiniteSet(Addressable(ts)) /\ IsFiniteSet(WithDeals(ts)) /\ IsFiniteSet(MinPower(ts))
  BY <1>1, CountedSetsNest
<1>4. Cardinality(WithDeals(ts)) <= Cardinality(Addressable(ts))
  BY <1>1, <1>2, CountedSetsNest
<1>5. Cardinality(Addressable(ts)) <= Cardinality(Participants(ts))
  BY <1>1, CountedSetsNest
<1>6. Cardinality(Boost(ts)) <= Cardinality(MinPower(ts))
  BY <1>1, <1>2, CountedSetsNest
<1>7. /\ Summary(ts).withDeals = Cardinality(WithDeals(ts))
      /\ Summary(ts).addressable = Cardinality(Addressable(ts))
      /\ Summary(ts).boost = Cardinality(Boost(ts))
      /\ Summary(ts).minPower = Cardinality(MinPower(ts))
  BY DEF Summary
<1>8. /\ Summary(ts).byStatus = [s \in Statuses |->
                                   Cardinality({m \in Participants(ts) : ts[m].status = s})]
      /\ Summary(ts).dayKnown = SumFunction([m \in Known(ts) |-> ts[m].day])
      /\ Summary(ts).weekKnown = SumFunction([m \in Known(ts) |-> ts[m].week])
      /\ Summary(ts).dealsKnown = SumFunction([m \in Known(ts) |-> ts[m].count])
  BY DEF Summary
<1>9. Summary(ts).addressable <= SumFunction(Summary(ts).byStatus)
  BY <1>5, <1>7, <1>8, StatusesAddUp
<1>10. /\ Summary(ts).dayKnown <= Summary(ts).weekKnown
       /\ Summary(ts).weekKnown <= Summary(ts).dealsKnown
  BY <1>8, DealsOfKnownNest
<1> QED  BY <1>4, <1>6, <1>7, <1>9, <1>10 DEF SummaryNests

\* A report that no snapshot has overtaken adds up, whatever targets were checked
\* and however many snapshots went before.
THEOREM ReportsAddUp == Spec => []ReportAddsUp
<1>1. ASSUME MInv PROVE ReportAddsUp
  <2> SUFFICES ASSUME report = "loading", loads = LastTurn,
                      seenCounts = counts, counts # 0
               PROVE  /\ Shown("withDeals") <= Shown("addressable")
                      /\ Shown("addressable") <= SumFunction(Summary(snaps[seenCounts]).byStatus)
                      /\ Shown("dayKnown") <= Shown("weekKnown")
                      /\ Shown("weekKnown") <= Shown("dealsKnown")
                      /\ Shown("boost") <= Shown("minPower")
    BY DEF ReportAddsUp
  <2>1. snaps \in Seq(Maps) /\ counts \in 1 .. Len(snaps)
    <3>1. snaps \in Seq(Maps) /\ Len(snaps) \in Nat /\ counts \in Nat
      BY <1>1 DEF MInv, TypeOK
    <3>2. counts = Len(snaps) - 1 \/ counts = Len(snaps)
      BY <1>1 DEF MInv, Storing
    <3> QED  BY <3>1, <3>2
  <2>2. ASSUME NEW f \in Totals PROVE seen[f] = counts
    <3>1. Loaded(f)
      BY <2>2, Turns DEF Loaded, LastTurn
    <3>2. counts <= seen[f] /\ seen[f] <= totals[f]
      BY <1>1, <3>1 DEF MInv, Reporting
    <3>3. totals[f] <= counts /\ totals[f] \in Nat /\ seen[f] \in Nat
      BY <1>1, <2>1 DEF MInv, TypeOK, Storing
    <3> QED  BY <2>1, <3>2, <3>3
  <2> DEFINE s == Summary(snaps[counts])
  <2>3. SummaryNests(s)
    <3>1. snaps[counts] \in Maps
      BY <2>1
    <3> QED  BY <3>1, SummaryNestsOfMap
  <2>4. \A f \in Totals : Shown(f) = s[f]
    BY <2>2 DEF Shown
  <2>5. {"withDeals", "addressable", "dayKnown", "weekKnown", "dealsKnown", "boost",
         "minPower"} \subseteq Totals
    BY DEF Totals, StoreTurn
  <2>6. Summary(snaps[seenCounts]).byStatus = s.byStatus
    OBVIOUS
  <2> HIDE DEF s
  <2>7. /\ Shown("withDeals") = s.withDeals /\ Shown("addressable") = s.addressable
        /\ Shown("dayKnown") = s.dayKnown /\ Shown("weekKnown") = s.weekKnown
        /\ Shown("dealsKnown") = s.dealsKnown
        /\ Shown("boost") = s.boost /\ Shown("minPower") = s.minPower
    BY <2>4, <2>5
  <2> QED  BY <2>3, <2>6, <2>7 DEF SummaryNests
<1> QED  BY <1>1, ReportsInvariance, PTL
==============================================================================
