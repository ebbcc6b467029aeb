# A TLA+ model of heyfil

`heyfil` lists the storage providers of the Filecoin market (here: miners),
checks each of them as an index provider, announces their newest advertisement
to an IPNI node, and serves what it found over an HTTP API and as Prometheus
metrics.  This directory models the parts of it where steps of several
goroutines, failing calls and ends of the process meet, checks the models with
TLC and proves the central ones with TLAPS.

- [Inventory](#inventory): what the system consists of
- [Plan](#plan): modules, runs and theorems, in order, with what is done
- [Modules](#modules): how state and actions correspond to the code
- [Runs](#runs): what is checked, with which bounds and which fairness
- [Proofs](#proofs): what is proved, from what, and how
- [Where code and documents disagree](#where-code-and-documents-disagree)
- [Not modelled](#not-modelled)

## Inventory

| component | code | state | operations | what is hard |
|---|---|---|---|---|
| **Check pipeline** | `heyfil.go:57-157` | channels `toCheck` and `checked` (capacity 100), the map `targets` under `targetsMutex`, two tickers | dispatch: list the miners, send a new `Target` each; checkers: take, check, send; result handler: record and store, snapshot for the metrics | goroutines race over the channels; back-pressure; the context is cancelled at any point; a select picks any ready case |
| **Target check** | `target.go:60-192`, with `fil_client.go:94-148,321-361`, `indexer_client.go`, `boost_client.go`, `announce.go` | the `Target` under check | ten calls with early returns, some errors fatal, some only logged | every call may fail; participants hang; their head changes between two calls; hardly a call has a timeout that holds |
| **Target store** | `store.go` | a file per miner, `recent.pieces`, the maps they mirror | `store`, `loadTargets`, `storeRecentPieces`, `loadRecentPieces` | files are truncated before they are written; main does not wait for the goroutines; records that do not decode |
| **Deal statistics** | `fil_deal_stats.go`, `fil_client.go:150-319` | the counts under `refreshLock`, the accumulators of a refresh, a channel of capacity 1 to the producer | the refresh loop; the producer, from the S3 snapshot or (never selected) from FileCoin Tools | a stream that breaks midway; publication in several steps; epoch limits |
| **Metrics** | `metrics.go` | maps under `countsMutex`, a dozen atomics, `unindexedTargets` | `snapshot`, `reportAsyncMetrics`, `notify...` | totals stored one by one while they are read, in another order; a lock held to the end of `snapshot`; a map without a lock |
| **API server** | `api_server.go` | the server | list with filters, one `Target`, a recent piece | reads a `Target` after the lock is released |
| **Metrics server** | `metrics_server.go` | the server | scrape | listens late or never; a scrape under way when it is shut down |
| **Options** | `options.go` | the options | defaults, `With...`, late defaults | order of application, empty values |
| **Process** | `main.go`, `heyfil.go:36-81,158-169` | the context, the channel of the signals | start order, signal, shutdown | goroutines are not joined; a signal at any point; shutdown waits for clients |

How they interact: the pipeline calls the check from its checkers and the
store from its handler, the latter under `targetsMutex`.  The check copies the
deal counts of the deal statistics when it begins.  The deal statistics store
the recent pieces and give three totals to the metrics.  The pipeline gives the
metrics the number of miners and, every snapshot interval, the whole map.  The
API reads the map and the recent pieces under their locks.

What makes each component correct:

- *pipeline*: a `Target` has one owner at a time, is checked once and never
  changes once it was published; every check issued is recorded, exactly once; a result is not
  overtaken by arbitrarily older ones; the dispatcher is never stalled for good;
- *check*: the verdict, the error message and the fields agree with each other
  and with what the check was told; only heads it served on the right topic
  are announced; a checker is not held for ever;
- *store*: a restart brings no older result back, unless a file could not be
  opened since, and loses little; pieces are stored before they are served;
- *deal statistics*: what is served are the counts of one whole listing, within
  the right windows, whatever failed since; no goroutine is left behind;
- *metrics*: a scrape mixes snapshots only in one direction, and what it shows
  adds up if it has not been overtaken; a participant is reported as it was last found;
  a scrape and a snapshot do not stop each other;
- *process*: no goroutine runs before the store is loaded; what clients are told
  stays true of the object they were told of; a shutdown closes everything and,
  if the clients let it, ends.

`PROJECT.json` lists under `hazards` every place where these can go wrong, with
the properties that would notice.

## Plan

| | module | composes | abstract specification | proofs |
|---|---|---|---|---|
| 1 | `CheckPipeline` | | `CheckLedger` | `CheckPipelineProofs` |
| 2 | `TargetCheck` | | | `TargetCheckProofs` |
| 3 | `TargetStore` | | | `TargetStoreProofs` |
| 4 | `DealStats` | | | `DealStatsProofs`, `SumLemmas` |
| 5 | `Metrics` | | | `MetricsProofs`, `SumLemmas` |
| 6 | `HeyFil`, with the API and the metrics server | `CheckPipeline` | `CheckPipeline` | `HeyFilProofs` |

All of these are written, checked and proved about: every invariant, action
property and refinement that a run checks is also a theorem, and liveness is
left to TLC ([Only model-checked](#only-model-checked)).

An abstract register of whole snapshots, first planned for `Metrics`, is not
what the atomics implement: a scrape may see two snapshots.  What it cannot see
is stated instead.  `ApiServer` became a part of `HeyFil`, where the map it reads
is written; `Options` is not a module, see [Not modelled](#not-modelled).

The runs are few and each asks several questions of one instance; a new module
should replace or join one where it can.

## Modules

### `CheckLedger` and `CheckPipeline`

`CheckLedger` says what the pipeline promises: a dispatch issues checks, each is
recorded once, under the miner it is of, and after the cancellation checks may
be abandoned.  `CheckPipeline` is the code.

| code | model |
|---|---|
| `*Target` | its identity `[id, round]`: each dispatch allocates one object per miner, round 0 are the objects of `loadTargets` |
| field `Status` of the objects | `status`, the heap; three values, `failed` for every verdict but `ok`, `unknown` for the blank of `newTarget` |
| the records that `loadTargets` finds | any verdicts, chosen in `Init`: what an earlier process stored may be what its cancellation made of a check |
| `toCheck`, `checked` | sequences bounded by `ToCheckCap`, `CheckedCap` |
| position of a goroutine | `dispatcher`, `checker[c]`, `handler` |
| the rest of `mids` in a dispatch | `todo`, taken in any order: the order of the Filecoin API is not specified |
| a ticker | one pending tick, further ones dropped, as `time.Ticker` does |
| `ctx` | `ctxDone`; a select with several ready cases is a choice between actions |
| `hf.metrics.snapshot(hf.targets)` | `reported`, the pointers that were summed up |

`checker` ranges over `toCheck` without looking at the context: `Take` is
enabled after the cancellation, and so is the check, whose API calls then fail.
A check that began before may end either way: with `ok` if the participant is one
of `Reachable`, and with a failure whoever it is, since any of its calls can fail
(`MayEnd`).  `Reachable` only bounds the instances; what the calls are is
`TargetCheck`.  The check is the operand of the send, so the select of `checker`
comes after it.  `Record` contains the call of `hf.store`, since both are under
one lock; what happens inside it is `TargetStore`.

### `TargetCheck`

One action per call of `Target.check`, in the order of the code (`pc`), with the
early returns as disjuncts; `Return` includes the deferred function.  The
participant is a set of supported protocols, a head on each head protocol that
`Publish` changes at any time, and whether it `hangs`.  `served` and `announced`
remember what it ever served and what the IPNI node ever got.  The query for the
transports is two actions: `queryTransportsTimeout` is a timeout of the context
that opens the stream (`OpenTransportsStream`), and a libp2p stream knows nothing
of that context when it is read (`ReadTransports`).  What the peerstore
lists after `Connect` is any part of what the participant supports, in any order:
`Connect` returns without an error also when the identify exchange failed.  An
answer to `getHead` without an error is the head or none, whatever head there is
(`HeadAnswers`), since the status code is not looked at and an error response may
have an empty body.  The dynamic type of
the error of `stateMinerInfo`, on which the verdict depends, is an element of
`Errors`; which errors the JSON-RPC client can give is external.

### `TargetStore`

A record is `[n, form]`: the n-th result of its miner, in one of three forms
that differ in what the encoder and decoder do with them (`Decodable`).
`os.OpenFile` with `O_TRUNC` and the encoding are two steps with `Torn` between
them; `recent.pieces` is opened, written and only then served, in three steps
(`OpenPieces`, `EncodePieces`, `ReplacePieces`).  `storePath` says whether a store
directory is configured; it is chosen in `Init` and the same after each restart.
`Exit` is a crash and a signal alike: `main` returns without waiting for the
goroutines.  `Start` loads every file that decodes, `StartUnread` only some of
them: the walk may fail at a file or the file not open, which is logged.  Opens,
encoders and such starts can fail, at most `MaxMishaps` times in all.  `missed`
counts how often in a row the file of a miner could not be opened, and `unread`
remembers that `recent.pieces` could not be at the last start.

### `DealStats`

The refresh goroutine and the producer, each step by step, over a channel of
capacity one that carries the position of a deal in the listing, or an error.
`Return` follows `start`: a refresh that answered a tick is followed by another
at once.  `currentEpoch` is read by each refresh (`ChainHead`) and used to its end.
`complete` remembers the listing and the height the published counts are of,
`piecesOf` the listing of the pieces.  The listings the source may give and the
heights the chain may have are constants.

### `Metrics`

Two goroutines: the result handler in `snapshot` and one of the HTTP server in
`reportAsyncMetrics`, of which the OpenTelemetry SDK runs one at a time.

| code | model |
|---|---|
| `targets` as `snapshot` is called with it | `snaps`, the sequence of the maps so far; it gains miners, and loses none |
| the sums and counts of the loop | `Summary`, a function of the map; the nesting of the ifs is the chain `Participants`, `Addressable`, `WithDeals`, `Known` |
| a published map or total, an observed one | the number of the snapshot it is of (`counts`, `totals`, `seenCounts`, `seen`) |
| `countsMutex`, whose unlock is deferred | `locked`, from `SwapCounts` to `EndSnapshot` |
| ten `Store` calls, ten `Load` calls | `StoreTotal` and `LoadTotal`, in the orders `StoreTurn` and `LoadTurn` |
| `m.unindexedTargets[t.ID] = t` | `BeginAssign` and `EndAssign`, since it is not atomic |
| the range over `unindexedTargets` | one state, `iterating`; the runtime may notice a write during it (`NoticeWrite`) or not |

Three of the totals that `notify...` store are single assignments of `DealStats`.
The fourth, the number of miners (`heyfil.go:90`), is not modelled: it is stored
once per dispatch, and nothing is made of it but the gauge.

### `HeyFil`

`HeyFil` extends `CheckPipeline` by the process around it.  `stage` is where main
is, from `newHeyFil` to its end, in the order `Turn`; `dead` is a panic or a
signal before main asked for signals.  `Goroutines` are the steps of the
pipeline, each goroutine from its go statement on and until main ends; nothing
waits for them.  `server` is the state of each of the two HTTP servers: Start
does not wait until they listen, one may fail to, and `Shutdown` may come first.
`http.Server.Shutdown` is external: it closes the listener (`CloseServer`) and
waits for the requests under way (`AwaitServer`).

A client of the API makes one request at a time.  `ListSPs` happens under the
read lock, in one step.  `GetSP` looks the `Target` up under the lock; `got` is
the pointer that the encoder follows afterwards, `read` what it has read first,
and `Answer` ends it, so that the steps of the pipeline in between meet an
encoder at work.  `listed` remembers the miners any answer named.

`Pipeline` is the pipeline as `CheckPipeline` states it, with `Loaded` for the
map: there the store is loaded before the first step, here file by file.

## Runs

All runs with `CHECK_DEADLOCK FALSE`: the pipeline, the store and the deal
statistics stop after the cancellation or at the bound, the check when it is
done.

| run | shows | bounds |
|---|---|---|
| `pipeline_safety` | `TypeOK`, `SingleOwner`, `PublishedIsFinal`, `CheckedOnce`, `NoOlderWaiting`, `OvertakenBounded`, `LedgerSpec` | 1 miner, 2 checkers, capacities 2, 4 dispatches: more dispatches on their way than checkers, both checkers can hold the same miner, both channels fill up |
| `pipeline_live` | `EveryCheckRecorded`, `ResultsReported`, `TicksServed` | 2 miners, 2 checkers, capacities 1, 1 dispatch: the second miner waits for the first at each channel; the tick after the dispatch finds a listing that fails, so the bound does not end the dispatcher |
| `pipeline_hung` | violation of `EveryCheckRecorded` | 2 miners, one of which hangs, 1 checker |
| `check` | `TypeOK`, `VerdictMatchesError`, `VerdictMatchesFindings`, `AnnouncedWasServed`, `OkIsAnnounced`, `OnlyAnswersHang` | one participant, 3 protocols (transports, a head protocol on the topic and one off it), 2 CIDs, so that the head can change and change back |
| `check_topic` | violation of `MismatchIsMismatch` | the same |
| `store` | `TypeOK`, `FileIsLatest`, `ServedIsLatest`, `OneTornPerMishap`, `PiecesMatchFile` | with and without a store path, 2 miners, 3 results each, 3 refreshes, 3 mishaps: a file that cannot be opened, an end of the process, and a start that cannot open it either, in any order |
| `store_reload` | violation of `StoredIsReloaded` | 1 miner, 1 result |
| `deals` | `TypeOK`, `CountsAreOfAListing`, `PiecesAreLatest`, `TotalsMatchCounts`, `NoProducerLeaks`, `RefreshEnds` | every listing of up to 3 of 6 deals that lie on both sides of every limit, 2 heights of the chain, then a tick and two refreshes from a listing with a deal that ends between the two heights, each of which may fail |
| `deals_held` | violation of `PiecesAreHeld` | the same |
| `metrics` | `TypeOK`, `TotalsNotOlderThanCounts`, `KnownNotNewerThanWithDeals`, `UnindexedIsLatest`, `ReportAddsUp`, `NoneWaitsForGood` | 2 miners, 4 kinds of record, 2 snapshots: a scrape can begin before the first, between them and after them, and end after the second |
| `metrics_race` | violation of `ScrapesAreSafe` | the same |
| `heyfil` | `ProcessTypeOK`, `AnswerIsOfOneCheck`, `ListedIsFound`, `ShutdownClosesAll`, `PipelineSpec`, `StopEnds` | 1 miner, with and without a file, 1 checker, capacities 1, 1 dispatch: a second `Target` replaces the loaded one while clients read, and a signal may come at every stage |

A scrape overlaps with as many snapshots as it lasts; two are enough for each
pair of a store and a load to come in both orders, and the safety properties of
`metrics` are proved for any number of snapshots.  `heyfil` is as small
as it is because main, two servers and their clients interleave freely with the
pipeline; its safety properties are all proved for any number of miners and
checkers.

`pipeline_safety` has one miner because what `Target`s can do to each other they
do to those of the same miner, by round; miners meet in the channels only, which
`pipeline_live` shows with two, and the safety properties are proved for any
number of them.  Four dispatches are enough
for each checker to hold an old `Target` while a newer one is served and another
still waits.  The checkers are a
symmetry set there: no property of that run names one, and none is a liveness
property.  In `pipeline_live` and `heyfil` no check ends with `ok` (`Reachable` is
empty): no step of the code looks at a verdict, and `pipeline_safety` has both.

The epochs are 10 and 11 for the chain, 2 for a day, 4 for a week: only comparisons
of differences with the two limits matter, and the deals lie at, below and above
each. In `PiecesAreLatest` every deal listed counts, as in the code; that some of
them are not held is `deals_held`. Every property has a mutant in `PROJECT.json`, a
faulty variant of one definition (marked `Faulty` in the modules and used nowhere
else) under which TLC finds it violated.

`OvertakenBounded` deserves a word.  With several checkers the map *can* go back
to an older result: checks of one miner from two dispatches run at the same
time, and the older may finish last.  What holds is that results that have not
begun are always newer than the one served (`NoOlderWaiting`), so at most one
older result per other checker is still to come; with one checker none is.  Both
are proved (`FewAreOvertaken`, `OneCheckerServesInOrder`); the last, `InOrder`,
needs no run.

### Fairness

`CheckPipeline` assumes fairness only while the context lives, since afterwards
the process may end at any step.  Each goroutine takes its steps (weak fairness)
because the Go scheduler is fair and every call returns, except calls to `Hung`
participants.  Steps that compete for a channel (`Take`, `Send`) or in a select
(`Record`, `Snapshot`) get strong fairness: blocked goroutines are queued first
in, first out, and a select picks among the ready cases at random.  That a call
to the Filecoin API or to the indexer returns is an assumption about these
services: their HTTP client is the default one, without a timeout.

`TargetCheck` assumes the same of the checker, and of a participant that hangs
nothing but what the libp2p host sees to: dialling it and opening a stream to it
end.  `DealStats` assumes that both its goroutines are scheduled, and nothing of
the answers they wait for: the client is `http.DefaultClient` (`options.go:44`), so
that the chain API or the source may never answer and a listing may stop in the
middle.  The fair steps are those that wait for the other goroutine or for nothing
(`SendDeal`, `SendError`, `Working`), and the requests once the context that they
carry is done.  Hence `RefreshEnds` says that a refresh ends or waits for an answer
(`AwaitsAnswer`): the two goroutines never hold each other for good, and the
cancellation ends every wait.  No strong fairness is needed, as a deal sent is
waited for by one receiver only.  `Metrics` assumes that its two goroutines are
scheduled: they share one lock, which one scrape at a time can wait for, and
nothing makes a scrape or a snapshot begin.

`HeyFil` assumes of main and of the goroutine that waits for a signal that they
are scheduled, and of the clients that a scrape and a request end (`EndScrape`,
`Answer`): neither server has a timeout, so `StopEnds` rests on them.  The
pipeline needs no fairness for it.

## Proofs

`CheckPipelineProofs` proves, for any set of miners, any finite set of checkers,
any capacities of at least one and any number of dispatches
(`PipelineAssumption`):

| theorem | statement |
|---|---|
| `TypeCorrect` | `Spec => []TypeOK` |
| `Invariance` | `Spec => []IInv` |
| `TargetsHaveOneOwner` | `Spec => []SingleOwner` |
| `PublishedTargetsAreFinal` | `Spec => []PublishedIsFinal` |
| `ServedIsNewerThanWaiting` | `Spec => []NoOlderWaiting` |
| `TargetsAreCheckedOnce` | `Spec => []CheckedOnce` |
| `OneCheckerServesInOrder` | `Spec => InOrder` |
| `FewAreOvertaken` | `Spec => []OvertakenBounded` |
| `PipelineImplementsLedger` | `Spec => LedgerSpec` |

None of the safety properties is inductive.  That a `Target` enters a
channel only once, for instance, follows from its not having been anywhere
before, which no property of the channels alone says.  The strengthening is
`IInv == TypeOK /\ Stations /\ Ordered /\ Exclusive`:

- `Stations` ties the positions to the data: a checker holds a `Target` exactly
  while it works on one, and only a dispatch that is sending has miners left;
- `Ordered` is the heart: along the stations *to be sent*, `toCheck`, *begun*
  (held, sent, published) the rounds of one miner strictly decrease, and
  `toCheck` is sorted by round.  It makes the first three stations disjoint
  without a word about identity, since a new dispatch has a round of its own;
- `Exclusive` adds the disjointness of hands, `checked` and what is published,
  where there is no order: here checks overtake each other.

`InvStep` has one lemma per action that moves a `Target` (`ListMinersStep`,
`EnqueueStep`, `TakeStep`, `SendStep`, `StopCheckerStep`, `RecordStep`,
`SnapshotStep`) and `Unmoved` for all others.  These rest on four lemmas about
channels and hands (`SendElements`, `ReceiveElements`, `HeldTake`,
`HeldRelease`).  The refinement maps the ledger's outstanding checks to the union
of the stations before the map; a step of `Take` or `Send` is a stutter because
the union stays the same, which again needs `IInv`.

Three theorems need more.  `CheckedOnce` speaks of the channels and the map, but a
verdict is written while the `Target` is in a hand: `Verdicts` carries it along
`Done`, the `Target`s whose check is over, and says that the objects of dispatches
to come are blank.  `IInv` gives that the `Target` a checker writes to is in no
other place (`CheckedIsAlone`).
`InOrder` needs that nothing overtakes behind the checker either: `Sequential`
says so of the hand, `checked` and the map, and is an invariant when there is
one checker (`SequentialTake` rests on `Ordered`: what is taken is newer than
all that has begun).

`OvertakenBounded` needs a bound on the checks behind a result at the moment it is
sent, not only when it is recorded.  `Overtaking` gives it: of the `Target`s of the
same miner that are in hands or behind a result in `checked`, fewer are older than
it than there are checkers.  When the result is sent, what is older and behind it
can only be in other hands, since what is in `checked` already is ahead of it
(`OtherHandsAreFew`), which are fewer than the checkers; what joins later is taken
from `toCheck`, so that `Ordered` makes it newer; and recording only moves the
result from the head of `checked` to the map.  An older result that is recorded
over it brings its own bound along, from when it was sent.

### `TargetCheckProofs`

For any finite set of protocols, any topics, CIDs and errors (`CheckAssumption`;
a libp2p host supports finitely many protocols, and an error is not the absence
of one):

| theorem | statement |
|---|---|
| `CheckInvariant` | `Spec => []CInv` |
| `CheckTypes` | `Spec => []TypeOK` |
| `ErrorsMatchStatus` | `Spec => []VerdictMatchesError` |
| `FindingsMatchStatus` | `Spec => []VerdictMatchesFindings` |
| `OkMeansAnnounced` | `Spec => []OkIsAnnounced` |
| `OnlyServedAnnounced` | `Spec => []AnnouncedWasServed` |

The properties speak of a finished check; what they rest on is established calls
earlier.  `Established(c, t)` says what the calls before `c` have left in the
target `t`: an address, a list of some protocols the participant supports, a head
protocol on the topic, a head that was served, and that nothing is announced yet.
`Backed` says what a finished verdict rests on, and the
step lemma of a call shows that it leads from the first to the first or to the
second.  `HistoryKept` is needed because the participant publishes at any time:
the head that is announced need not be its head any more, only one it served.
`FirstHeadFinds` says what the search for the first head protocol returns, in
whatever order the peerstore lists the protocols it knows (`ListsAll`).
The verdict is held against what the check was told, not against the participant:
an incomplete list of protocols, and an error response taken for an empty head,
lead to verdicts that are wrong about it, see
[below](#where-code-and-documents-disagree).

### `TargetStoreProofs`

For any miners, forms of records, and bounds on results and mishaps
(`StoreAssumption`):

| theorem | statement |
|---|---|
| `StoreInvariant` | `Spec => []StoreInv` |
| `StoreTypes` | `Spec => []TypeOK` |
| `FilesAreLatest` | `Spec => []FileIsLatest` |
| `ServedAreLatest` | `Spec => []ServedIsLatest` |
| `PiecesAgreeWithFile` | `Spec => []PiecesMatchFile` |
| `TornFilesAreFew` | `Spec => []OneTornPerMishap` |

`FileIsLatest` is about the files, but a file is written from memory, after
`O_TRUNC` and possibly long after: `OpenFileIsTorn` says that what will be written
is the last result of the miner.  `DownIsEmpty` and `NoPathNoFiles` carry this over
the end and the start of the process.  `ServedIsLatest` needs `FileIsLatest` at each
start, where what is served comes from the files, and `FileIsLatest` needs
`OpenFileIsTorn` at each write.  `PiecesUnderWay` follows `recent.pieces` through the
three steps of `storeRecentPieces`: it is torn, then ahead of what is served, then
served.  `TornFilesAreFew` counts:
`FewTornFiles` adds that the torn files are finitely many, as they are few
although the miners need not be.

### `SumLemmas`

Totals are sums over finite sets of participants, `SumFunction` of the community
modules, which is defined by a recursive function.  That there is such a function
(`SumExists`, `SumIsFold`), and what it returns, is shown by induction over finite
sets; the induction theorems of the library take an operator as a parameter and
cannot be used here.  The induction is therefore done over sets: the natural
numbers have no infinite descent (`LeastNatural`, from the theorem `WFMin` that
takes a set), so a set of subsets that has the empty one, and each subset that it
has without one chosen element, has all subsets of a finite set
(`SubsetsReached`).  On this rest that the sum is a number
(`SumType`), grows with its terms (`SumMonotonic`), grows by what one term grows
(`SumBump`), and over the values of a classification adds up to the number of
what was classified (`SumOfClasses`).

### `DealStatsProofs`

For any listings up to the bound, any finite set of providers, any heights and any
two windows, the shorter within the longer (`DealAssumption`; the providers are
those of one chain state):

| theorem | statement |
|---|---|
| `StatsInvariant` | `Spec => []DInv` |
| `StatsTypes` | `Spec => []TypeOK` |
| `CountsAreWhole` | `Spec => []CountsAreOfAListing` |
| `PiecesAreWhole` | `Spec => []PiecesAreLatest` |
| `TotalsAreCounts` | `Spec => []TotalsMatchCounts` |
| `ProducersEnd` | `Spec => []NoProducerLeaks` |

That the counts served are of a whole listing is seen only at the publication,
and has to be prepared deal by deal: while a listing is streamed, the refresh has
counted exactly a prefix of it (`PrefixCounted`), and has the latest pieces of a
prefix (`PrefixConsidered`, one deal behind when the deal is live).
`StreamInOrder` says why no deal is missed or counted twice: the channel holds the
deal after the one taken, or nothing, or the error, and is closed without an error
only at the end of the listing.  `TallyStep` and `LatestOfProvider` are the two
steps from a prefix to the next; `TallyOfAll` and `PublishTakesAll` end them.
`TotalsAreSums` follows the three totals through the steps of the publication, each
of which is half done while it lasts.  `ProducerDone` is the reason for
`NoProducerLeaks`: the refresh leaves the loop over the channel only when it is
closed or the context is done.

### `MetricsProofs`

For any finite sets of miners and statuses, any records, targets maps and number
of snapshots (`MetricsAssumption`; a map in memory is finite):

| theorem | statement |
|---|---|
| `ReportsInvariance` | `Spec => []MInv` |
| `MetricsTypeCorrect` | `Spec => []TypeOK` |
| `ReportedTotalsAreNotOlder` | `Spec => []TotalsNotOlderThanCounts` |
| `CoverageNumeratorIsNotNewer` | `Spec => []KnownNotNewerThanWithDeals` |
| `UnindexedIsNeverStale` | `Spec => []UnindexedIsLatest` |
| `ReportsAddUp` | `Spec => []ReportAddsUp` |

`MInv` adds two parts to the type invariant.  `Storing` says which snapshot each
total is of at each turn of `snapshot`: those stored already are of the newest,
the rest of the one before.  `Reporting` says what a scrape holds: no total is
older than its counts, because the lock keeps `ObserveCounts` out until all ten
are stored, and the known participants are not of a newer snapshot than those
with deals, because `known` is stored after `withDeals` and loaded before it.
For `UnindexedIsNeverStale`, `Indexing` ties the entries written so far to the
participants the loop has passed. `ReportsAddUp` rests on `Reporting`: a total that
is neither older than the counts nor newer than the last snapshot is of the same
one, if none has replaced the counts. The rest is about one map: the sets that a
snapshot counts nest (`CountedSetsNest`), the counts by status add up to at least
the addressable ones (`StatusesAddUp`), and sums over the same participants are
ordered as their terms are (`DealsOfKnownNest`).

### `HeyFilProofs`

For any miners, finite set of checkers, capacities and number of dispatches
(`PipelineAssumption`):

| theorem | statement |
|---|---|
| `ProcessInvariance` | `ProcessSpec => []PInv` |
| `ProcessTypeCorrect` | `ProcessSpec => []ProcessTypeOK` |
| `ProcessRunsPipeline` | `ProcessSpec => PipelineSpec` |
| `ProcessOwnsTargets` | `ProcessSpec => [](SingleOwner /\ PublishedIsFinal /\ NoOlderWaiting)` |
| `ProcessChecksOnce` | `ProcessSpec => []CheckedOnce` |
| `ProcessOvertakesFew` | `ProcessSpec => []OvertakenBounded` |
| `ProcessServesInOrder` | `ProcessSpec => InOrder` |
| `ListedMinersAreFound` | `ProcessSpec => []ListedIsFound` |
| `AnswersAreOfOneCheck` | `ProcessSpec => []AnswerIsOfOneCheck` |
| `AnswersAreVerdicts` | `ProcessSpec => []AnswerIsVerdict` |
| `ShutdownIsComplete` | `ProcessSpec => []ShutdownClosesAll` |

`PInv` is `IInv` of the pipeline, the types, and `Unstarted`: before the exporter
starts no goroutine has taken a step, before the checkers start there are none,
and afterwards every file that decodes is in the map.  The step lemma of the
pipeline is used as it is; only the loading of a file is new.  For the
refinement, `LoadedIsTargets` shows the map to be the one of `CheckPipeline` from
the moment a goroutine can look at it, and `PipelineStep` takes the actions one
by one.  `AnswersAreOfOneCheck` is where the two meet: the object an encoder holds
was published, so it is not outstanding, and by the refinement of the ledger it
never is again (`DoneStaysDone`), whatever the checkers do meanwhile.  It is the
reason why the API may let go of the lock.

The promises of the pipeline hold in the process as well, over the map as the
process has it and not over `Loaded`.  For those that follow from `IInv` nothing
is left to show.  The others have invariants of their own, to which the process
adds one step, the loading of a file: it finds the stations empty
(`LoadFindsNothing`), so that nothing can be overtaken, and what it loads has a
verdict, because nothing has written a status before (`Stored`, `StillLoading`).
`AnswersAreVerdicts` takes this to the client: what is written to it of a `Target`
is a verdict, although checks of the same miner may begin and end while it is
written.  `Passed` is the invariant under
`ShutdownIsComplete`: a server once closed stays so and takes no request.

### Only model-checked

The liveness properties: `EveryCheckRecorded`, `ResultsReported` and
`TicksServed` of the pipeline, `OnlyAnswersHang` of the check, `RefreshEnds` of
the deal statistics, `NoneWaitsForGood` of the metrics and `StopEnds` of the
process.  They rest on fairness, hence on `ENABLED`, which the prover does not
handle.  The properties of the runs that expect a violation are false, and what is
false is not proved.

The bounds `MaxRounds`, `MaxVersion`, `MaxMishaps`, `MaxTicks`, `MaxLength` and
`MaxSnapshots` are in the guards of the modules, so that the theorems are about
specifications with a bound; but it is an arbitrary number there.

## Where code and documents disagree

| run | the code | the text |
|---|---|---|
| `pipeline_hung` | participants that never answer the head request hold the checkers for good (`target.go:179`) | `README.md:6-8` |
| `check_topic` | the first head protocol listed decides the topic (`target.go:163`) | `README.md:29` |
| `store_reload` | records with transports addresses or without a peer ID do not decode (`store.go:47`) | `options.go:160` |
| `pipeline_hung` | the timeout of the transports query does not hold for the answer, so the check does not "silently proceed" (`boost_client.go:74`) | `target.go:152-153` |
| `metrics_race` | a scrape iterates over `unindexedTargets` while a snapshot writes to it, and the runtime may end the process (`metrics.go:283,327`) | `README.md:16` |
| `deals_held` | the recent piece may be that of a deal which was proposed and never activated, of which the provider holds nothing (`fil_deal_stats.go:118`) | `openapi.yaml:46,49` |

Noted while modelling, without a run of its own.  In the check and the store:

- A check that the cancellation cuts short ends as unreachable or failed
  (`target.go:132`, `heyfil.go:153`); its result may still be recorded and stored
  (`heyfil.go:126-129`, `store.go:21`), and is what the next start loads and serves
  (`store.go:46-51`) until its own check of the miner.  `CheckPipeline` starts from
  any verdicts for this reason, and `CheckedOnce` promises no more than that each
  is one.
- An index provider is `unindexed` when the identify exchange failed after the
  connection was made, since the peerstore then lists no head protocol
  (`target.go:136`); `README.md:28` says it is none.
- A participant with advertisements is `empty-head` when its answer to the head
  request is an error without a body, since the status code is not looked at
  (`fil_client.go:347-357`); `README.md:30` says it has none.
- A call to the Filecoin API without an answer is `err-internal` (`target.go:119`),
  while `README.md` has `err-api-call` for communication errors.
- A file is truncated before it is written (`store.go:15`; `OneTornPerMishap` bounds
  what is lost).  Without a store path the recent pieces are dropped
  (`store.go:61`).

In the metrics:

- The participants known to the indexer, and their deals, are counted only if they
  have an address and deals (`metrics.go:316`); the comments from line 73 on and the
  description at lines 149-152 speak of all that the indexer lists.
- Participants stay in `unindexedTargets`, and are reported with the deal counts of
  then, when they are indexed or no longer reachable (`metrics.go:327`); the comment
  at line 89 has it hold those "that are not indexed".  `UnindexedIsLatest` is what
  does hold.
- A power sum of 2^63 or more is cut to 64 bits (`metrics.go:291`).  The coverage of
  the deals divides a number of the last snapshot by one of the last refresh, and
  can exceed one.

Elsewhere: a source that stalls in the middle of a listing holds the refresh until
the process ends (`options.go:44`, `RefreshEnds`); from FileCoin Tools all deals of a
page would share one variable (`fil_client.go:218`), but nothing selects that
source; signals after the first are not taken, so that a client that does not read
its answer holds the shutdown (`main.go:35-41`, `StopEnds`); `WithApiListenAddr` sets
the address of the metrics server (`options.go:145`); with
`-maxConcurrentChecks 0` nothing is checked.

## Not modelled

- `Options` as a module: the defaults that decide on behaviour are constants and
  guards of the other modules, each other option is one assignment.
- The client of FileCoin Tools (`fil_client.go:166-226`): no option sets
  `marketDealsFilToolsEnabled`.
- The end of the process that `Metrics!NoticeWrite` shows is not an action of
  `HeyFil`: it could only cut its behaviours short.
- What a scrape reads is in `Metrics`, not in `HeyFil`; the deal counts a check
  copies and the store are modules of their own, since they meet the pipeline in
  one step each, under a lock.
- `dealStats.start` has no stage in `HeyFil`, for the same reason.
- The number of miners given to the metrics at each dispatch (`heyfil.go:90`).
- The names of attributes and statuses in the metrics, HTTP methods and the
  bodies of errors.
- The CBOR, JSON, multiaddr and zstd codecs, except where decoding fails what
  encoding accepted (`TargetStore!Decodable`).
- What the operating system may lose of a write that has returned.
- The build files.
