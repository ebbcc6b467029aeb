------------------------------- MODULE Metrics -------------------------------
(***************************************************************************)
(* metrics: snapshot, which the result handler calls with the targets map  *)
(* held, sums it up and publishes the four maps of counts under            *)
(* countsMutex and ten totals one atomic after the other;                  *)
(* reportAsyncMetrics, which a scrape calls in a goroutine of the HTTP     *)
(* server, reads them one after the other, in an order of its own.  Both   *)
(* use the map unindexedTargets without a lock.                            *)
(*                                                                         *)
(* A published or observed value is named by the snapshot it is of: the    *)
(* number n stands for what Summary gives for snaps[n], 0 for the zeros of *)
(* start.                                                                  *)
(***************************************************************************)
EXTENDS Integers, Sequences, FiniteSets, Functions

CONSTANTS Miners,          \* the miner IDs
          Statuses,        \* the statuses of a Target, "unindexed" among them
          Names,           \* agents, market protocols and transports
          Records,         \* the results of checks that occur
          FirstMaps,       \* bound of the model: the targets maps at start
          LaterMaps,       \* bound of the model: the targets maps after that
          MaxSnapshots,    \* bound of the model: snapshots taken
          NoTarget,        \* no entry in a map
          NoNumber         \* a power that does not parse

Results == [status : Statuses, addressable : BOOLEAN, known : BOOLEAN,
            count : Nat, day : Nat, week : Nat,
            minPower : BOOLEAN, boost : BOOLEAN,
            qap : Nat \cup {NoNumber}, raw : Nat \cup {NoNumber},
            agent : SUBSET Names, protocols : SUBSET Names, transports : SUBSET Names]

Maps == [Miners -> Records \cup {NoTarget}]

\* The counts within a day and a week are parts of the count: DealStats.
ASSUME MetricsAssumption ==
  /\ IsFiniteSet(Miners) /\ IsFiniteSet(Statuses)
  /\ Records \subseteq Results
  /\ \A r \in Records : r.day <= r.week /\ r.week <= r.count
  /\ NoTarget \notin Records
  /\ FirstMaps \subseteq Maps /\ LaterMaps \subseteq Maps
  /\ MaxSnapshots \in Nat

VARIABLES
  snaps,      \* history: the targets map each snapshot was called with
  handler,    \* where the result handler is
  toVisit,    \* participants its loop has not come to
  writing,    \* the participant whose entry of unindexedTargets it writes
  stores,     \* totals it has stored
  locked,     \* it holds countsMutex
  counts,     \* the snapshot the four maps of counts are of
  totals,     \* the snapshot each total is of
  unindexed,  \* unindexedTargets
  report,     \* where reportAsyncMetrics is
  loads,      \* totals it has loaded
  seenCounts, \* the snapshot its counts are of
  seen,       \* the snapshot each of its totals is of
  fatal       \* the runtime has ended the process

summing == <<snaps, handler, toVisit, writing, unindexed>>
publishing == <<stores, locked, counts, totals>>
reporting == <<report, loads, seenCounts, seen>>
vars == <<summing, publishing, reporting, fatal>>

\* The totals: when snapshot stores each, and when reportAsyncMetrics loads it.
StoreTurn == [addressable |-> 1, withDeals |-> 2, known |-> 3, dealsKnown |-> 4,
              dayKnown |-> 5, weekKnown |-> 6, boost |-> 7, minPower |-> 8,
              qap |-> 9, raw |-> 10]
LoadTurn == [known |-> 1, addressable |-> 2, withDeals |-> 3, dealsKnown |-> 4,
             dayKnown |-> 5, weekKnown |-> 6, boost |-> 7, qap |-> 8, raw |-> 9,
             minPower |-> 10]
Totals == DOMAIN StoreTurn
LastTurn == 10
BeforeIteration == 6   \* totals loaded before unindexedTargets is iterated

Init ==
  /\ snaps = <<>>
  /\ handler = "waiting"
  /\ toVisit = {}
  /\ writing = {}
  /\ stores = 0
  /\ locked = FALSE
  /\ counts = 0
  /\ totals = [f \in Totals |-> 0]
  /\ unindexed = [m \in Miners |-> NoTarget]
  /\ report = "idle"
  /\ loads = 0
  /\ seenCounts = 0
  /\ seen = [f \in Totals |-> 0]
  /\ fatal = FALSE

------------------------------------------------------------------------------
(* What a snapshot computes.                                               *)

Participants(ts) == {m \in Miners : ts[m] # NoTarget}
Addressable(ts) == {m \in Participants(ts) : ts[m].addressable}
WithDeals(ts) == {m \in Addressable(ts) : ts[m].count > 0}

\* Only participants with deals count as known to the indexer.
Known(ts) == {m \in WithDeals(ts) : ts[m].known}
MinPower(ts) == {m \in Participants(ts) : ts[m].minPower}
Boost(ts) == {m \in MinPower(ts) : ts[m].boost}

Summary(ts) ==
  [byStatus |-> [s \in Statuses |->
                   Cardinality({m \in Participants(ts) : ts[m].status = s})],
   byAgent |-> [a \in Names |-> Cardinality({m \in Participants(ts) : a \in ts[m].agent})],
   byProtocol |-> [p \in Names |->
                     Cardinality({m \in Participants(ts) : p \in ts[m].protocols})],
   byTransport |-> [p \in Names |->
                      Cardinality({m \in Participants(ts) : p \in ts[m].transports})],
   addressable |-> Cardinality(Addressable(ts)),
   withDeals |-> Cardinality(WithDeals(ts)),
   known |-> Cardinality(Known(ts)),
   dealsKnown |-> SumFunction([m \in Known(ts) |-> ts[m].count]),
   dayKnown |-> SumFunction([m \in Known(ts) |-> ts[m].day]),
   weekKnown |-> SumFunction([m \in Known(ts) |-> ts[m].week]),
   boost |-> Cardinality(Boost(ts)),
   minPower |-> Cardinality(MinPower(ts)),
   qap |-> SumFunction([m \in {b \in Boost(ts) : ts[b].qap # NoNumber} |-> ts[m].qap]),
   raw |-> SumFunction([m \in {b \in Boost(ts) : ts[b].raw # NoNumber} |-> ts[m].raw])]

------------------------------------------------------------------------------
(* snapshot.                                                               *)

Latest == snaps[Len(snaps)]

\* The handler calls snapshot with ts.  Nothing deletes from the targets map.
BeginSnapshot(ts) ==
  /\ handler = "waiting" /\ ~fatal
  /\ Len(snaps) < MaxSnapshots
  /\ snaps # <<>> => Participants(Latest) \subseteq Participants(ts)
  /\ snaps' = Append(snaps, ts)
  /\ handler' = "indexing"
  /\ toVisit' = Participants(ts)
  /\ UNCHANGED <<writing, unindexed, publishing, reporting, fatal>>

\* The loop comes to a participant with another status.
Pass(m) ==
  /\ handler = "indexing" /\ ~fatal
  /\ writing = {}
  /\ m \in toVisit /\ Latest[m].status # "unindexed"
  /\ toVisit' = toVisit \ {m}
  /\ UNCHANGED <<snaps, handler, writing, unindexed, publishing, reporting, fatal>>

\* The assignment to an entry of a map takes several steps.
BeginAssign(m) ==
  /\ handler = "indexing" /\ ~fatal
  /\ writing = {}
  /\ m \in toVisit /\ Latest[m].status = "unindexed"
  /\ toVisit' = toVisit \ {m}
  /\ writing' = {m}
  /\ UNCHANGED <<snaps, handler, unindexed, publishing, reporting, fatal>>

\* Faulty: an entry that is there is kept.
EndAssignOnce(m) ==
  /\ m \in writing /\ ~fatal
  /\ writing' = {}
  /\ unindexed' = [unindexed EXCEPT ![m] = IF @ = NoTarget THEN Latest[m] ELSE @]
  /\ UNCHANGED <<snaps, handler, toVisit, publishing, reporting, fatal>>

EndAssign(m) ==
  /\ m \in writing /\ ~fatal
  /\ writing' = {}
  /\ unindexed' = [unindexed EXCEPT ![m] = Latest[m]]
  /\ UNCHANGED <<snaps, handler, toVisit, publishing, reporting, fatal>>

\* Faulty: the lock is released once the maps are swapped.
SwapCountsOnly ==
  /\ handler = "indexing" /\ ~fatal
  /\ toVisit = {} /\ writing = {} /\ ~locked
  /\ locked' = FALSE
  /\ counts' = Len(snaps)
  /\ stores' = 0
  /\ handler' = "storing"
  /\ UNCHANGED <<snaps, toVisit, writing, unindexed, totals, reporting, fatal>>

\* Unlock is deferred: the lock is held to the end of snapshot.
SwapCounts ==
  /\ handler = "indexing" /\ ~fatal
  /\ toVisit = {} /\ writing = {} /\ ~locked
  /\ locked' = TRUE
  /\ counts' = Len(snaps)
  /\ stores' = 0
  /\ handler' = "storing"
  /\ UNCHANGED <<snaps, toVisit, writing, unindexed, totals, reporting, fatal>>

StoreTotal(f) ==
  /\ handler = "storing" /\ ~fatal
  /\ StoreTurn[f] = stores + 1
  /\ totals' = [totals EXCEPT ![f] = Len(snaps)]
  /\ stores' = stores + 1
  /\ UNCHANGED <<summing, locked, counts, reporting, fatal>>

\* Faulty: the lock is not released.
EndSnapshotLocked ==
  /\ handler = "storing" /\ ~fatal
  /\ stores = LastTurn
  /\ handler' = "waiting"
  /\ UNCHANGED <<snaps, toVisit, writing, unindexed, publishing, reporting, fatal>>

EndSnapshot ==
  /\ handler = "storing" /\ ~fatal
  /\ stores = LastTurn
  /\ locked' = FALSE
  /\ handler' = "waiting"
  /\ UNCHANGED <<snaps, toVisit, writing, unindexed, stores, counts, totals, reporting, fatal>>

------------------------------------------------------------------------------
(* reportAsyncMetrics.  The SDK runs one callback at a time.               *)

Scrape ==
  /\ report = "idle" /\ ~fatal
  /\ report' = "counts"
  /\ UNCHANGED <<summing, publishing, loads, seenCounts, seen, fatal>>

\* The four maps are read under the read lock, so in one step.
ObserveCounts ==
  /\ report = "counts" /\ ~fatal
  /\ ~locked
  /\ seenCounts' = counts
  /\ report' = "loading"
  /\ UNCHANGED <<summing, publishing, loads, seen, fatal>>

\* Faulty: the denominator of the coverage is loaded before the numerator.
LoadTotalSorted(f) ==
  /\ report = "loading" /\ ~fatal
  /\ StoreTurn[f] = loads + 1
  /\ seen' = [seen EXCEPT ![f] = totals[f]]
  /\ loads' = loads + 1
  /\ report' = IF loads' = BeforeIteration THEN "iterating" ELSE "loading"
  /\ UNCHANGED <<summing, publishing, seenCounts, fatal>>

LoadTotal(f) ==
  /\ report = "loading" /\ ~fatal
  /\ LoadTurn[f] = loads + 1
  /\ seen' = [seen EXCEPT ![f] = totals[f]]
  /\ loads' = loads + 1
  /\ report' = IF loads' = BeforeIteration THEN "iterating" ELSE "loading"
  /\ UNCHANGED <<summing, publishing, seenCounts, fatal>>

\* The iteration comes to its end; a write to the map may have gone unnoticed.
Iterate ==
  /\ report = "iterating" /\ ~fatal
  /\ report' = "loading"
  /\ UNCHANGED <<summing, publishing, loads, seenCounts, seen, fatal>>

\* The runtime notices a write during the iteration and ends the process.  It
\* looks for none when the map is empty.
NoticeWrite ==
  /\ report = "iterating" /\ ~fatal
  /\ writing # {} /\ \E m \in Miners : unindexed[m] # NoTarget
  /\ fatal' = TRUE
  /\ UNCHANGED <<summing, publishing, reporting>>

EndReport ==
  /\ report = "loading" /\ ~fatal
  /\ loads = LastTurn
  /\ report' = "idle"
  /\ loads' = 0 /\ seenCounts' = 0 /\ seen' = [f \in Totals |-> 0]
  /\ UNCHANGED <<summing, publishing, fatal>>

------------------------------------------------------------------------------
snapshot == \/ \E m \in Miners : Pass(m) \/ BeginAssign(m) \/ EndAssign(m)
            \/ SwapCounts
            \/ \E f \in Totals : StoreTotal(f)
            \/ EndSnapshot

reportAsyncMetrics == \/ ObserveCounts
                      \/ \E f \in Totals : LoadTotal(f)
                      \/ Iterate \/ NoticeWrite \/ EndReport

Next == \/ \E ts \in (IF snaps = <<>> THEN FirstMaps ELSE LaterMaps) : BeginSnapshot(ts)
        \/ snapshot \/ Scrape \/ reportAsyncMetrics

Spec == Init /\ [][Next]_vars

\* Both goroutines are scheduled, and countsMutex is the only thing they wait
\* for; nothing makes a scrape or a snapshot begin.
FairSpec == Spec /\ WF_vars(snapshot) /\ WF_vars(reportAsyncMetrics)

------------------------------------------------------------------------------
(* Properties.                                                             *)

\* Every variable has its type.
TypeOK ==
  /\ snaps \in Seq(Maps) /\ Len(snaps) <= MaxSnapshots
  /\ handler \in {"waiting", "indexing", "storing"}
  /\ toVisit \subseteq Miners /\ writing \subseteq Miners
  /\ handler # "waiting" => snaps # <<>>
  /\ stores \in 0 .. LastTurn /\ loads \in 0 .. LastTurn
  /\ locked \in BOOLEAN /\ (locked => handler = "storing")
  /\ fatal \in BOOLEAN
  /\ counts \in Nat /\ seenCounts \in Nat
  /\ totals \in [Totals -> Nat] /\ seen \in [Totals -> Nat]
  /\ unindexed \in Maps
  /\ report \in {"idle", "counts", "loading", "iterating"}

Loaded(f) == report # "idle" /\ LoadTurn[f] <= loads

\* No total of a report is of an older snapshot than its counts by status,
\* agent, protocol and transport: what locks out a report between the counts
\* and the totals is only that Unlock is deferred.
TotalsNotOlderThanCounts == \A f \in Totals : Loaded(f) => seen[f] >= seenCounts

\* The numerator of the participant coverage a report computes is not of a
\* newer snapshot than its denominator: a participant that has just become
\* known is not counted in the one and missed in the other.  It hangs on the
\* order of the stores and that of the loads.
KnownNotNewerThanWithDeals == Loaded("withDeals") => seen["known"] <= seen["withDeals"]

\* A participant that a snapshot found unindexed is reported with the deal
\* counts of that snapshot, not with those it was first seen with.
UnindexedIsLatest ==
  handler = "storing" \/ (handler = "waiting" /\ snaps # <<>>) =>
    \A m \in Participants(Latest) :
      Latest[m].status = "unindexed" => unindexed[m] = Latest[m]

\* What a report shows of a total.
Shown(f) == IF seen[f] = 0 THEN 0 ELSE Summary(snaps[seen[f]])[f]

\* A report adds up although its counts and totals are loaded one by one while
\* a snapshot may store others: unless a snapshot has since replaced its counts,
\* no more participants are addressable in it than were counted by status, a
\* day has no more deals than a week, and no smaller group more participants
\* than the group it is a part of.
ReportAddsUp ==
  report = "loading" /\ loads = LastTurn /\ seenCounts = counts /\ counts # 0 =>
    /\ Shown("withDeals") <= Shown("addressable")
    /\ Shown("addressable") <= SumFunction(Summary(snaps[seenCounts]).byStatus)
    /\ Shown("dayKnown") <= Shown("weekKnown")
    /\ Shown("weekKnown") <= Shown("dealsKnown")
    /\ Shown("boost") <= Shown("minPower")

\* A snapshot and a scrape that have begun end, unless the process does: that
\* the one waits for the lock of the other stops neither for good.
NoneWaitsForGood ==
  /\ handler # "waiting" ~> (handler = "waiting" \/ fatal)
  /\ report # "idle" ~> (report = "idle" \/ fatal)

\* README.md:16: "the service exposes a set of Prometheus metrics".  A scrape
\* never ends the process.
ScrapesAreSafe == ~fatal
==============================================================================
