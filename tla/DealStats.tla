------------------------------ MODULE DealStats ------------------------------
(***************************************************************************)
(* dealStats: a goroutine that refreshes the deal counts and the recent    *)
(* pieces.  A refresh asks for the chain head and for the listing of the   *)
(* deals, which a producer goroutine reads and sends deal by deal over a   *)
(* channel of capacity one, counts them in variables of its own, and       *)
(* publishes the result in steps once the producer closes the channel.     *)
(*                                                                         *)
(* What is sent is a pointer to a deal of its own.  The other source of    *)
(* deals, FileCoin Tools, is not modelled: no option selects it.  The byte *)
(* counts are left out: nothing reads them.                                *)
(***************************************************************************)
EXTENDS Integers, Sequences, FiniteSets, Functions

CONSTANTS Providers,     \* the miners that make deals
          Listings,      \* the listings, sequences of deals, the source may give
          LaterListings, \* bound of the model: those it gives after a tick
          MaxLength,     \* bound of the model: deals in a listing
          Epochs,        \* heights the chain may be found at
          Day, Week,     \* epochs in a day and in a week
          MaxTicks,      \* bound of the model: ticks answered
          NoPiece        \* no recent piece

Deals == [provider : Providers, active : BOOLEAN, slashed : BOOLEAN,
          start : Int, end : Int, piece : STRING]

ASSUME DealAssumption ==
  /\ IsFiniteSet(Providers)
  /\ \A l \in Listings : l \in Seq(Deals) /\ Len(l) <= MaxLength
  /\ <<>> \in Listings
  /\ LaterListings \subseteq Listings
  /\ MaxLength \in Nat /\ MaxTicks \in Nat
  /\ Epochs \subseteq Nat /\ Day \in Nat /\ Week \in Nat /\ Day <= Week
  /\ NoPiece \notin STRING

VARIABLES
  ctxDone,    \* ctx is cancelled
  ticks,      \* ticks answered so far
  refresher,  \* where the refresh is
  ticked,     \* this refresh was started by a tick
  currentEpoch, \* height of the chain found by this refresh
  listing,    \* what the source lists in this refresh
  producer,   \* where the producer is
  next,       \* the last deal the producer has read
  deals,      \* the channel
  taken,      \* the deal the refresh works on
  dealCount,  \* dealCountByParticipant of the refresh
  total,      \* its three totals
  latest,     \* latestPieceByParticipant
  counts,     \* what getDealCounts serves
  pieces,     \* what the API serves as recent pieces
  shown,      \* the three totals given to the metrics
  complete,   \* history: the listing and the height that counts were last published for
  piecesOf    \* history: the listing that pieces were last published for

source == <<currentEpoch, listing>>
stream == <<producer, next>>
working == <<taken, dealCount, total, latest>>
published == <<counts, pieces, shown, complete, piecesOf>>
vars == <<ctxDone, ticks, refresher, ticked, source, stream, deals, working, published>>

Tallies == [count : Nat, day : Nat, week : Nat]
Zero == [count |-> 0, day |-> 0, week |-> 0]
NoPieceYet == [epoch |-> 0, cid |-> NoPiece]
Indices == 1 .. MaxLength
Error == 0  \* the item of the channel that carries an error

Init ==
  /\ ctxDone = FALSE
  /\ ticks = 0
  /\ refresher = "head"
  /\ ticked = FALSE
  /\ currentEpoch = 0
  /\ listing = <<>>
  /\ producer = "none"
  /\ next = 0
  /\ deals = <<>>
  /\ taken = 0
  /\ dealCount = [p \in Providers |-> Zero]
  /\ total = Zero
  /\ latest = [p \in Providers |-> NoPieceYet]
  /\ counts = [p \in Providers |-> Zero]
  /\ pieces = [p \in Providers |-> NoPiece]
  /\ shown = Zero
  /\ complete = [deals |-> <<>>, epoch |-> 0]
  /\ piecesOf = <<>>

------------------------------------------------------------------------------
(* The producer.                                                           *)

\* Faulty: the end of the listing is read as a deal.
ReadPastEnd ==
  /\ producer = "reading"
  /\ next' = next + 1
  /\ producer' = "sending"
  /\ UNCHANGED <<ctxDone, ticks, refresher, ticked, source, deals, working, published>>

ReadDeal ==
  /\ producer = "reading"
  /\ next < Len(listing)
  /\ next' = next + 1
  /\ producer' = "sending"
  /\ UNCHANGED <<ctxDone, ticks, refresher, ticked, source, deals, working, published>>

SendDeal ==
  /\ producer = "sending"
  /\ deals = <<>>
  /\ deals' = <<next>>
  /\ producer' = "reading"
  /\ UNCHANGED <<ctxDone, ticks, refresher, ticked, source, next, working, published>>

\* A request, the decoder or the check for trailing tokens fails.
ReadFails ==
  /\ producer = "reading"
  /\ producer' = "failing"
  /\ UNCHANGED <<ctxDone, ticks, refresher, ticked, source, next, deals, working,
                 published>>

SendError ==
  /\ producer = "failing"
  /\ deals = <<>>
  /\ deals' = <<Error>>
  /\ producer' = "closed"
  /\ UNCHANGED <<ctxDone, ticks, refresher, ticked, source, next, working, published>>

\* Faulty: the producer returns without closing the channel.
EndWithoutClose ==
  /\ producer = "reading"
  /\ next = Len(listing)
  /\ producer' = "none"
  /\ UNCHANGED <<ctxDone, ticks, refresher, ticked, source, next, deals, working,
                 published>>

EndOfListing ==
  /\ producer = "reading"
  /\ next = Len(listing)
  /\ producer' = "closed"
  /\ UNCHANGED <<ctxDone, ticks, refresher, ticked, source, next, deals, working,
                 published>>

------------------------------------------------------------------------------
(* refresh.                                                                *)

\* A refresh returns.  The loop of start refreshes again at its top: after a
\* refresh that answered a tick the next one follows at once.
Return ==
  /\ refresher' = IF ticked THEN "head" ELSE "waiting"
  /\ ticked' = FALSE

ChainHead ==
  /\ refresher = "head"
  /\ \/ ~ctxDone /\ refresher' = "listing" /\ ticked' = ticked /\ currentEpoch' \in Epochs
     \/ Return /\ UNCHANGED currentEpoch
  /\ UNCHANGED <<ctxDone, ticks, listing, stream, deals, working, published>>

\* The request is made and the producer started with a channel of its own.
ListDeals(l) ==
  /\ refresher = "listing"
  /\ ~ctxDone
  /\ refresher' = "receiving"
  /\ listing' = l
  /\ producer' = "reading" /\ next' = 0
  /\ deals' = <<>>
  /\ taken' = 0
  /\ dealCount' = [p \in Providers |-> Zero]
  /\ total' = Zero
  /\ latest' = [p \in Providers |-> NoPieceYet]
  /\ UNCHANGED <<ctxDone, ticks, ticked, currentEpoch, published>>

ListDealsFails ==
  /\ refresher = "listing"
  /\ Return
  /\ UNCHANGED <<ctxDone, ticks, source, stream, deals, working, published>>

Receive ==
  /\ refresher = "receiving"
  /\ deals # <<>>
  /\ deals' = <<>>
  /\ \/ Head(deals) = Error /\ Return /\ taken' = taken
     \/ /\ Head(deals) # Error
        /\ taken' = Head(deals)
        /\ refresher' = "classifying"
        /\ ticked' = ticked
  /\ UNCHANGED <<ctxDone, ticks, source, stream, dealCount, total, latest, published>>

\* The deal behind the pointer.
deal == listing[taken]

\* A deal is active, not slashed and has not ended at epoch e.
Live(d, e) == d.active /\ ~d.slashed /\ ~(d.end < e)

\* Faulty: the first deal that does not count ends the refresh.
ClassifyStopping ==
  /\ refresher = "classifying"
  /\ IF Live(deal, currentEpoch) THEN refresher' = "counting" /\ ticked' = ticked
     ELSE Return
  /\ UNCHANGED <<ctxDone, ticks, source, stream, deals, working, published>>

Classify ==
  /\ refresher = "classifying"
  /\ refresher' = IF Live(deal, currentEpoch) THEN "counting" ELSE "latest"
  /\ UNCHANGED <<ctxDone, ticks, ticked, source, stream, deals, working, published>>

\* Faulty: the window of a week ends an epoch late.
AddLate(t, d, e) == [count |-> t.count + 1,
                        day |-> t.day + (IF e - d.start < Day THEN 1 ELSE 0),
                        week |-> t.week + (IF e - d.start <= Week THEN 1 ELSE 0)]

Add(t, d, e) == [count |-> t.count + 1,
                    day |-> t.day + (IF e - d.start < Day THEN 1 ELSE 0),
                    week |-> t.week + (IF e - d.start < Week THEN 1 ELSE 0)]

Count ==
  /\ refresher = "counting"
  /\ dealCount' = [dealCount EXCEPT ![deal.provider] = Add(@, deal, currentEpoch)]
  /\ total' = Add(total, deal, currentEpoch)
  /\ refresher' = "latest"
  /\ UNCHANGED <<ctxDone, ticks, ticked, source, stream, deals, taken, latest, published>>

\* Faulty: the last piece listed is kept, not the one that starts last.
KeepLast ==
  /\ refresher = "latest"
  /\ latest' = [latest EXCEPT ![deal.provider] = [epoch |-> deal.start, cid |-> deal.piece]]
  /\ refresher' = "receiving"
  /\ UNCHANGED <<ctxDone, ticks, ticked, source, stream, deals, taken, dealCount,
                 total, published>>

\* Every deal competes for the latest piece, also those that do not count.
KeepLatest ==
  /\ refresher = "latest"
  /\ LET lp == latest[deal.provider]
     IN latest' = IF lp.cid = NoPiece \/ deal.start > lp.epoch
                  THEN [latest EXCEPT ![deal.provider] =
                          [epoch |-> deal.start, cid |-> deal.piece]]
                  ELSE latest
  /\ refresher' = "receiving"
  /\ UNCHANGED <<ctxDone, ticks, ticked, source, stream, deals, taken, dealCount,
                 total, published>>

\* select picks the context: the producer is left blocked on its channel.
CancelRefresh ==
  /\ ctxDone
  /\ refresher = "receiving"
  /\ Return
  /\ UNCHANGED <<ctxDone, ticks, source, stream, deals, working, published>>

\* Faulty: an error in the stream is taken for its end.
PublishOnError ==
  /\ refresher = "receiving"
  /\ deals \in {<<>>, <<Error>>} /\ producer = "closed"
  /\ counts' = dealCount
  /\ complete' = [deals |-> listing, epoch |-> currentEpoch]
  /\ refresher' = "storing"
  /\ UNCHANGED <<ctxDone, ticks, ticked, source, stream, deals, working, pieces, shown,
                 piecesOf>>

\* The channel is drained and closed: the counts are swapped under refreshLock.
PublishCounts ==
  /\ refresher = "receiving"
  /\ deals = <<>> /\ producer = "closed"
  /\ counts' = dealCount
  /\ complete' = [deals |-> listing, epoch |-> currentEpoch]
  /\ refresher' = "storing"
  /\ UNCHANGED <<ctxDone, ticks, ticked, source, stream, deals, working, pieces, shown,
                 piecesOf>>

\* The error of storeRecentPieces is dropped; TargetStore has its steps.
StoreRecentPieces ==
  /\ refresher = "storing"
  /\ \/ /\ pieces' = [p \in Providers |-> latest[p].cid]
        /\ piecesOf' = listing
     \/ UNCHANGED <<pieces, piecesOf>>
  /\ refresher' = "count"
  /\ UNCHANGED <<ctxDone, ticks, ticked, source, stream, deals, working, counts, shown,
                 complete>>

NotifyDealCount ==
  /\ refresher = "count"
  /\ shown' = [shown EXCEPT !.count = total.count]
  /\ refresher' = "day"
  /\ UNCHANGED <<ctxDone, ticks, ticked, source, stream, deals, working, counts,
                 pieces, complete, piecesOf>>

NotifyDealCountWithinDay ==
  /\ refresher = "day"
  /\ shown' = [shown EXCEPT !.day = total.day]
  /\ refresher' = "week"
  /\ UNCHANGED <<ctxDone, ticks, ticked, source, stream, deals, working, counts,
                 pieces, complete, piecesOf>>

\* Faulty: the total of the day is given for the week.
NotifyDayTwice ==
  /\ refresher = "week"
  /\ shown' = [shown EXCEPT !.week = total.day]
  /\ Return
  /\ UNCHANGED <<ctxDone, ticks, source, stream, deals, working, counts, pieces,
                 complete, piecesOf>>

NotifyDealCountWithinWeek ==
  /\ refresher = "week"
  /\ shown' = [shown EXCEPT !.week = total.week]
  /\ Return
  /\ UNCHANGED <<ctxDone, ticks, source, stream, deals, working, counts, pieces,
                 complete, piecesOf>>

------------------------------------------------------------------------------
(* start, and the world.                                                   *)

OnTick ==
  /\ refresher = "waiting"
  /\ ticks < MaxTicks
  /\ ticks' = ticks + 1
  /\ refresher' = "head"
  /\ ticked' = TRUE
  /\ UNCHANGED <<ctxDone, source, stream, deals, working, published>>

Stop ==
  /\ ctxDone
  /\ refresher = "waiting"
  /\ refresher' = "stopped"
  /\ UNCHANGED <<ctxDone, ticks, ticked, source, stream, deals, working, published>>

Cancel ==
  /\ ~ctxDone
  /\ ctxDone' = TRUE
  /\ UNCHANGED <<ticks, refresher, ticked, source, stream, deals, working, published>>

Producer == ReadDeal \/ SendDeal \/ ReadFails \/ SendError \/ EndOfListing

\* The steps of refresh that wait for the chain API or the source, and those
\* that wait for nothing but the producer.
Asking == \/ ChainHead
          \/ \E l \in (IF ticks = 0 THEN Listings ELSE LaterListings) : ListDeals(l)
          \/ ListDealsFails
Working == \/ Receive \/ Classify \/ Count \/ KeepLatest
           \/ CancelRefresh \/ PublishCounts \/ StoreRecentPieces
           \/ NotifyDealCount \/ NotifyDealCountWithinDay \/ NotifyDealCountWithinWeek
refresh == Asking \/ Working

Next == Producer \/ refresh \/ OnTick \/ Stop \/ Cancel

Spec == Init /\ [][Next]_vars

\* Both goroutines are scheduled.  The HTTP client has no timeout: an answer of
\* the chain API or of the source may never come, and a listing may stop in the
\* middle.  Every request carries the context, whose end ends it.
FairSpec == /\ Spec
            /\ WF_vars(SendDeal \/ SendError) /\ WF_vars(Working)
            /\ WF_vars(ctxDone /\ Asking)

------------------------------------------------------------------------------
(* Properties.                                                             *)

\* Every variable has its type.
TypeOK ==
  /\ ctxDone \in BOOLEAN /\ ticked \in BOOLEAN
  /\ ticks \in 0 .. MaxTicks
  /\ refresher \in {"head", "listing", "receiving", "classifying", "counting",
                    "latest", "storing", "count", "day", "week", "waiting", "stopped"}
  /\ producer \in {"none", "reading", "sending", "failing", "closed"}
  /\ currentEpoch \in Nat
  /\ listing \in Listings /\ piecesOf \in Listings
  /\ complete \in [deals : Listings, epoch : Nat]
  /\ next \in 0 .. Len(listing)
  /\ deals \in {<<>>} \cup {<<i>> : i \in Indices \cup {Error}}
  /\ taken \in Indices \cup {0}
  /\ dealCount \in [Providers -> Tallies] /\ counts \in [Providers -> Tallies]
  /\ total \in Tallies /\ shown \in Tallies
  /\ latest \in [Providers -> [epoch : Int, cid : STRING \cup {NoPiece}]]
  /\ pieces \in [Providers -> STRING \cup {NoPiece}]

\* The deals of p in the listing l that are live at epoch e, and those of them
\* that started less than n epochs before.
LiveDeals(l, p, e) == {i \in 1 .. Len(l) : l[i].provider = p /\ Live(l[i], e)}
Within(l, p, n, e) == {i \in LiveDeals(l, p, e) : e - l[i].start < n}

\* The counts that are served are those of one whole listing, at the height
\* that one refresh found, however the two goroutines interleave and whatever
\* refresh failed since.
CountsAreOfAListing ==
  \A p \in Providers :
    LET l == complete.deals
        e == complete.epoch
    IN counts[p] = [count |-> Cardinality(LiveDeals(l, p, e)),
                    day |-> Cardinality(Within(l, p, Day, e)),
                    week |-> Cardinality(Within(l, p, Week, e))]

\* The recent piece of a provider is that of a deal of one whole listing
\* which no other deal of the provider in it starts after, held or not: see
\* PiecesAreHeld.
PiecesAreLatest ==
  \A p \in Providers :
    LET mine == {i \in 1 .. Len(piecesOf) : piecesOf[i].provider = p}
    IN IF mine = {} THEN pieces[p] = NoPiece
       ELSE \E i \in mine : /\ pieces[p] = piecesOf[i].piece
                            /\ \A k \in mine : piecesOf[k].start <= piecesOf[i].start

\* openapi.yaml: "The recent PieceID held by the requested SP"; a storage
\* provider holds no piece of a deal that was never activated.
PiecesAreHeld ==
  \A p \in Providers : pieces[p] # NoPiece =>
    \E i \in 1 .. Len(piecesOf) : /\ piecesOf[i].provider = p
                                  /\ piecesOf[i].piece = pieces[p]
                                  /\ piecesOf[i].active

\* Outside the few steps of a publication the totals of the metrics are the
\* sums of the counts per participant.
Publishing == refresher \in {"storing", "count", "day", "week"}
TotalsMatchCounts ==
  ~Publishing =>
    /\ shown.count = SumFunction([p \in Providers |-> counts[p].count])
    /\ shown.day = SumFunction([p \in Providers |-> counts[p].day])
    /\ shown.week = SumFunction([p \in Providers |-> counts[p].week])

\* While the context lives no producer outlives its refresh.
NoProducerLeaks ==
  refresher \in {"waiting", "head", "listing"} /\ ~ctxDone => producer \in {"none", "closed"}

\* A refresh ends, with its result published or not, or waits for an answer
\* from outside: the two goroutines never hold each other for good, and the
\* cancellation ends even that wait.
AwaitsAnswer == ~ctxDone /\ (refresher \in {"head", "listing"} \/ producer = "reading")
RefreshEnds == []<>(refresher \in {"waiting", "stopped"} \/ AwaitsAnswer)
==============================================================================
