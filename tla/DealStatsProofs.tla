--------------------------- MODULE DealStatsProofs ---------------------------
(***************************************************************************)
(* Proofs about DealStats, for any listings, any finite set of providers   *)
(* and any epochs.  While a listing is streamed the refresh has counted a  *)
(* prefix of it, whatever the producer is at; what is published is what    *)
(* was counted when the prefix is the listing.                             *)
(***************************************************************************)
EXTENDS DealStats, SumLemmas

------------------------------------------------------------------------------
(* The inductive invariant.                                                *)

Handling == refresher \in {"classifying", "counting", "latest"}
Streaming == Handling \/ refresher = "receiving"

\* The last deal the producer has sent, in this stream.
Sent == IF producer = "sending" THEN next - 1 ELSE next

\* The channel holds the deal after the one taken, or none, or the error that
\* ends it; it is closed without one only at the end of the listing.
StreamInOrder ==
  /\ deals = <<Error>> => producer = "closed"
  /\ producer = "sending" => next >= 1
  /\ Streaming =>
       /\ producer # "none"
       /\ deals \in {<<>>, <<Error>>} => taken = Sent
       /\ deals \notin {<<>>, <<Error>>} => deals = <<Sent>> /\ taken = Sent - 1
       /\ producer = "closed" /\ deals # <<Error>> => next = Len(listing)
  /\ Handling => taken \in 1 .. Len(listing)

\* How many deals of the listing the refresh has counted, and how many it has
\* considered for the latest piece.
Counted == IF refresher \in {"classifying", "counting"} THEN taken - 1 ELSE taken
Considered == IF Handling THEN taken - 1 ELSE taken

\* The counts of p among the first n deals of the listing l.
Tally(l, p, n, e) == [count |-> Cardinality((1 .. n) \cap LiveDeals(l, p, e)),
                   day |-> Cardinality((1 .. n) \cap Within(l, p, Day, e)),
                   week |-> Cardinality((1 .. n) \cap Within(l, p, Week, e))]

\* lp is the latest piece of p among the first n deals of the listing l.
IsLatestPiece(lp, l, p, n) ==
  LET mine == {i \in 1 .. n : l[i].provider = p}
  IN IF mine = {} THEN lp = NoPieceYet
     ELSE \E i \in mine : /\ lp = [epoch |-> l[i].start, cid |-> l[i].piece]
                          /\ \A k \in mine : l[k].start <= l[i].start

PrefixCounted ==
  /\ Streaming => \A p \in Providers : dealCount[p] = Tally(listing, p, Counted, currentEpoch)
  /\ refresher = "counting" => Live(deal, currentEpoch)

PrefixConsidered ==
  /\ Streaming => \A p \in Providers : IsLatestPiece(latest[p], listing, p, Considered)
  /\ refresher = "storing" =>
       \A p \in Providers : IsLatestPiece(latest[p], listing, p, Len(listing))

\* t has the sums of the counts c over the providers.
Sums(t, c) == /\ t.count = SumFunction([p \in Providers |-> c[p].count])
              /\ t.day = SumFunction([p \in Providers |-> c[p].day])
              /\ t.week = SumFunction([p \in Providers |-> c[p].week])

TotalsAreSums ==
  /\ Streaming \/ Publishing => Sums(total, dealCount)
  /\ Publishing => counts = dealCount
  /\ refresher \in {"day", "week"} => shown.count = total.count
  /\ refresher = "week" => shown.day = total.day
  /\ ~Publishing => Sums(shown, counts)

\* The producer of a refresh is done, or the context is.
ProducerDone ==
  /\ refresher \in {"waiting", "head", "listing"} /\ ~ctxDone => producer \in {"none", "closed"}
  /\ Publishing => producer = "closed"
  /\ refresher = "stopped" => ctxDone

StreamInv == TypeOK /\ StreamInOrder /\ ProducerDone
WorkInv == PrefixCounted /\ PrefixConsidered
DInv == StreamInv /\ WorkInv /\ TotalsAreSums /\ CountsAreOfAListing /\ PiecesAreLatest

------------------------------------------------------------------------------
(* The stream.                                                             *)

\* A listing is a sequence of deals, and no longer than the bound.
LEMMA ListingType ==
  ASSUME NEW l \in Listings
  PROVE  l \in Seq(Deals) /\ Len(l) \in 0 .. MaxLength
BY DealAssumption

\* The deal the refresh works on is one of the listing.
LEMMA DealType ==
  ASSUME TypeOK, taken \in 1 .. Len(listing)
  PROVE  /\ deal \in Deals /\ deal.provider \in Providers
         /\ deal.start \in Int /\ deal.piece \in STRING
<1>1. listing \in Seq(Deals)
  BY ListingType DEF TypeOK
<1>2. deal \in Deals
  BY <1>1 DEF deal
<1> QED  BY <1>2 DEF Deals

\* Adding a deal to a tally gives a tally.
LEMMA AddType ==
  ASSUME NEW t \in Tallies, NEW d, NEW e
  PROVE  Add(t, d, e) \in Tallies
BY DEF Tallies, Add

\* Every variable has its type at the start.
LEMMA TypeInit == Init => TypeOK
<1> SUFFICES ASSUME Init PROVE TypeOK  OBVIOUS
<1> USE DealAssumption DEF Init
<1>1. ctxDone \in BOOLEAN /\ ticked \in BOOLEAN
  OBVIOUS
<1>2. /\ dealCount \in [Providers -> Tallies] /\ counts \in [Providers -> Tallies]
      /\ total \in Tallies /\ shown \in Tallies
  BY DEF Tallies, Zero
<1>3. latest \in [Providers -> [epoch : Int, cid : STRING \cup {NoPiece}]]
  BY DEF NoPieceYet
<1>4. pieces \in [Providers -> STRING \cup {NoPiece}]
  OBVIOUS
<1>5. next \in 0 .. Len(listing) /\ listing \in Listings
  OBVIOUS
<1> QED  BY <1>1, <1>2, <1>3, <1>4, <1>5 DEF TypeOK

\* Every step keeps the types.
LEMMA TypeStep == TypeOK /\ StreamInOrder /\ [Next]_vars => TypeOK'
<1> SUFFICES ASSUME TypeOK, StreamInOrder, [Next]_vars PROVE TypeOK'  OBVIOUS
<1> USE DEF TypeOK, source, stream, working, published, Return
<1>0. listing \in Seq(Deals) /\ Len(listing) \in Nat /\ Len(listing) <= MaxLength
      /\ MaxLength \in Nat /\ MaxTicks \in Nat
  BY ListingType, DealAssumption
<1>1. CASE ReadDeal
  BY <1>0, <1>1 DEF ReadDeal, Indices, Error
<1>2. CASE SendDeal
  BY <1>0, <1>2 DEF SendDeal, Indices, Error
<1>3. CASE ReadFails
  BY <1>0, <1>3 DEF ReadFails, Indices, Error
<1>4. CASE SendError
  BY <1>0, <1>4 DEF SendError, Indices, Error
<1>5. CASE EndOfListing
  BY <1>0, <1>5 DEF EndOfListing, Indices, Error
<1>6. CASE ChainHead
  <2>1. currentEpoch' \in Nat
    BY <1>6, DealAssumption DEF ChainHead
  <2> QED  BY <1>0, <1>6, <2>1 DEF ChainHead
<1>7. CASE ListDealsFails
  BY <1>0, <1>7 DEF ListDealsFails, Indices, Error
<1>8. CASE Receive
  <2>1. PICK i \in Indices \cup {Error} : deals = <<i>>
    BY <1>8 DEF Receive
  <2>2. Head(deals) = i
    BY <2>1
  <2>3. ticked' \in BOOLEAN
    BY <1>8 DEF Receive
  <2>4. taken' \in Indices \cup {0}
    BY <1>8, <2>2 DEF Receive, Error
  <2> QED  BY <1>0, <1>8, <2>3, <2>4 DEF Receive
<1>9. CASE Classify
  BY <1>0, <1>9 DEF Classify, Indices, Error
<1>10. CASE Count
  <2>1. taken \in 1 .. Len(listing)
    BY <1>10 DEF Count, StreamInOrder, Handling
  <2>2. deal.provider \in Providers
    BY <2>1, DealType
  <2>3. total' \in Tallies
    BY <1>10, AddType DEF Count
  <2>4. dealCount' \in [Providers -> Tallies]
    BY <1>10, <2>2, AddType DEF Count
  <2> QED  BY <1>10, <2>3, <2>4 DEF Count
<1>11. CASE KeepLatest
  <2>1. taken \in 1 .. Len(listing)
    BY <1>11 DEF KeepLatest, StreamInOrder, Handling
  <2>2. deal.provider \in Providers /\ deal.start \in Int /\ deal.piece \in STRING
    BY <2>1, DealType
  <2>3. latest' \in [Providers -> [epoch : Int, cid : STRING \cup {NoPiece}]]
    BY <1>11, <2>2 DEF KeepLatest
  <2> QED  BY <1>11, <2>3 DEF KeepLatest
<1>12. CASE CancelRefresh
  BY <1>0, <1>12 DEF CancelRefresh, Indices, Error
<1>13. CASE PublishCounts
  BY <1>0, <1>13 DEF PublishCounts, Indices, Error
<1>14. CASE StoreRecentPieces
  <2>1. pieces' \in [Providers -> STRING \cup {NoPiece}]
    BY <1>14 DEF StoreRecentPieces
  <2> QED  BY <1>14, <2>1 DEF StoreRecentPieces
<1>15. CASE NotifyDealCount
  <2>1. shown' \in Tallies
    BY <1>15 DEF NotifyDealCount, Tallies
  <2> QED  BY <1>15, <2>1 DEF NotifyDealCount
<1>16. CASE NotifyDealCountWithinDay
  <2>1. shown' \in Tallies
    BY <1>16 DEF NotifyDealCountWithinDay, Tallies
  <2> QED  BY <1>16, <2>1 DEF NotifyDealCountWithinDay
<1>17. CASE NotifyDealCountWithinWeek
  <2>1. shown' \in Tallies
    BY <1>17 DEF NotifyDealCountWithinWeek, Tallies
  <2>2. ticked' \in BOOLEAN
    BY <1>17 DEF NotifyDealCountWithinWeek
  <2> QED  BY <1>17, <2>1, <2>2 DEF NotifyDealCountWithinWeek
<1>18. CASE OnTick
  BY <1>0, <1>18 DEF OnTick, Indices, Error
<1>19. CASE Stop
  BY <1>0, <1>19 DEF Stop, Indices, Error
<1>20. CASE Cancel
  BY <1>0, <1>20 DEF Cancel, Indices, Error
<1>21. ASSUME NEW l \in Listings, ListDeals(l) PROVE TypeOK'
  <2>1. Len(l) \in Nat
    BY ListingType, DealAssumption
  <2>2. dealCount' \in [Providers -> Tallies] /\ total' \in Tallies
    BY <1>21 DEF ListDeals, Tallies, Zero
  <2>3. latest' \in [Providers -> [epoch : Int, cid : STRING \cup {NoPiece}]]
    BY <1>21 DEF ListDeals, NoPieceYet
  <2> QED  BY <1>21, <2>1, <2>2, <2>3 DEF ListDeals
<1>22. CASE UNCHANGED vars
  BY <1>22 DEF vars
<1>23. \A l \in (IF ticks = 0 THEN Listings ELSE LaterListings) : l \in Listings
  BY DealAssumption
<1> QED
  BY <1>1, <1>2, <1>3, <1>4, <1>5, <1>6, <1>7, <1>8, <1>9, <1>10, <1>11, <1>12,
     <1>13, <1>14, <1>15, <1>16, <1>17, <1>18, <1>19, <1>20, <1>21, <1>22, <1>23
  DEF Next, Producer, refresh, Asking, Working

\* Whatever the goroutines do, the stream stays in order, and a refresh leaves
\* no producer behind while the context lives.
LEMMA StreamStep == StreamInv /\ [Next]_vars => StreamInOrder' /\ ProducerDone'
<1> SUFFICES ASSUME StreamInv, [Next]_vars PROVE StreamInOrder' /\ ProducerDone'
  OBVIOUS
<1> USE DEF StreamInv, source, stream, working, published, Return,
            Handling, Streaming, Sent, Error, Publishing, StreamInOrder, ProducerDone
<1>0. /\ next \in Nat /\ next <= Len(listing) /\ taken \in Nat
      /\ refresher # "stopped" \/ ctxDone
  BY ListingType DEF TypeOK, Indices
<1>1. CASE ReadDeal
  BY <1>1, <1>0 DEF ReadDeal
<1>2. CASE SendDeal
  BY <1>2, <1>0 DEF SendDeal
<1>3. CASE ReadFails
  BY <1>3, <1>0 DEF ReadFails
<1>4. CASE SendError
  BY <1>4, <1>0 DEF SendError
<1>5. CASE EndOfListing
  BY <1>5, <1>0 DEF EndOfListing
<1>6. CASE ChainHead
  BY <1>6, <1>0 DEF ChainHead
<1>7. CASE ListDealsFails
  BY <1>7, <1>0 DEF ListDealsFails
<1>8. CASE Receive
  <2>1. PICK i \in Indices \cup {Error} : deals = <<i>>
    BY <1>8 DEF Receive, TypeOK
  <2>2. Head(deals) = i /\ deals # <<>> /\ (deals = <<Error>> <=> i = Error)
    BY <2>1
  <2>3. CASE i = Error
    BY <1>8, <2>2, <2>3 DEF Receive
  <2>4. CASE i # Error
    <3>1. /\ deals = <<Sent>> /\ taken = Sent - 1
      BY <1>8, <2>2, <2>4 DEF Receive
    <3>2. i = Sent
      BY <2>1, <3>1
    <3> QED  BY <1>8, <1>0, <2>1, <2>2, <2>4, <3>1, <3>2 DEF Receive, Indices
  <2> QED  BY <2>3, <2>4
<1>9. CASE Classify
  BY <1>9, <1>0 DEF Classify
<1>10. CASE Count
  BY <1>10, <1>0 DEF Count
<1>11. CASE KeepLatest
  BY <1>11, <1>0 DEF KeepLatest
<1>12. CASE CancelRefresh
  BY <1>12, <1>0 DEF CancelRefresh
<1>13. CASE PublishCounts
  BY <1>13, <1>0 DEF PublishCounts
<1>14. CASE StoreRecentPieces
  BY <1>14, <1>0 DEF StoreRecentPieces
<1>15. CASE NotifyDealCount
  BY <1>15, <1>0 DEF NotifyDealCount
<1>16. CASE NotifyDealCountWithinDay
  BY <1>16, <1>0 DEF NotifyDealCountWithinDay
<1>17. CASE NotifyDealCountWithinWeek
  BY <1>17, <1>0 DEF NotifyDealCountWithinWeek
<1>18. CASE OnTick
  BY <1>18, <1>0 DEF OnTick
<1>19. CASE Stop
  BY <1>19, <1>0 DEF Stop
<1>20. CASE Cancel
  BY <1>20, <1>0 DEF Cancel
<1>21. ASSUME NEW l \in Listings, ListDeals(l) PROVE StreamInOrder' /\ ProducerDone'
  BY <1>21 DEF ListDeals
<1>22. CASE UNCHANGED vars
  BY <1>22 DEF vars
<1>23. \A l \in (IF ticks = 0 THEN Listings ELSE LaterListings) : l \in Listings
  BY DealAssumption
<1> QED
  BY <1>1, <1>2, <1>3, <1>4, <1>5, <1>6, <1>7, <1>8, <1>9, <1>10, <1>11, <1>12,
     <1>13, <1>14, <1>15, <1>16, <1>17, <1>18, <1>19, <1>20, <1>21, <1>22, <1>23
  DEF Next, Producer, refresh, Asking, Working

\* At the start there is no stream.
LEMMA StreamInit == Init => StreamInv
BY TypeInit DEF Init, StreamInv, StreamInOrder, ProducerDone, Streaming, Handling, Error, Publishing

\* The stream between the goroutines is in order, and the types are kept.
LEMMA StreamInvariant == Spec => []StreamInv
<1>1. StreamInv /\ [Next]_vars => StreamInv'
  BY TypeStep, StreamStep DEF StreamInv
<1> QED  BY <1>1, StreamInit, PTL DEF Spec

------------------------------------------------------------------------------
(* Counting a listing.                                                     *)

\* How many of the first n + 1 naturals are in a set.
LEMMA PrefixCardinality ==
  ASSUME NEW Q, NEW n \in Nat
  PROVE  /\ Cardinality((1 .. n) \cap Q) \in Nat
         /\ n + 1 \in Q => Cardinality((1 .. n + 1) \cap Q) = Cardinality((1 .. n) \cap Q) + 1
         /\ n + 1 \notin Q => Cardinality((1 .. n + 1) \cap Q) = Cardinality((1 .. n) \cap Q)
<1> DEFINE A == (1 .. n) \cap Q
<1>1. IsFiniteSet(1 .. n)
  BY FS_Interval
<1>2. A \subseteq 1 .. n
  OBVIOUS
<1>3. IsFiniteSet(A)
  BY <1>1, <1>2, FS_Subset
<1>4. n + 1 \notin A
  OBVIOUS
<1>5. n + 1 \in Q => (1 .. n + 1) \cap Q = A \cup {n + 1}
  OBVIOUS
<1>6. n + 1 \notin Q => (1 .. n + 1) \cap Q = A
  OBVIOUS
<1> HIDE DEF A
<1>7. Cardinality(A) \in Nat /\ Cardinality(A \cup {n + 1}) = Cardinality(A) + 1
  BY <1>3, <1>4, FS_AddElement, FS_CardinalityType
<1> QED  BY <1>5, <1>6, <1>7 DEF A

\* Among no deals p has none.
LEMMA TallyOfNone == ASSUME NEW l, NEW p, NEW e PROVE Tally(l, p, 0, e) = Zero
<1>1. \A Q : (1 .. 0) \cap Q = {}
  OBVIOUS
<1> QED  BY <1>1, FS_EmptySet DEF Tally, Zero

\* One deal more is one more for its provider, if it is live.
LEMMA TallyStep ==
  ASSUME NEW l \in Listings, NEW p, NEW n \in Nat, NEW e, n + 1 <= Len(l)
  PROVE  Tally(l, p, n + 1, e) = IF l[n + 1].provider = p /\ Live(l[n + 1], e)
                              THEN Add(Tally(l, p, n, e), l[n + 1], e) ELSE Tally(l, p, n, e)
<1> DEFINE Hit == l[n + 1].provider = p /\ Live(l[n + 1], e)
<1>1. n + 1 \in 1 .. Len(l)
  BY ListingType
<1>2. n + 1 \in LiveDeals(l, p, e) <=> Hit
  BY <1>1 DEF LiveDeals
<1>3. n + 1 \in Within(l, p, Day, e) <=> Hit /\ e - l[n + 1].start < Day
  BY <1>1 DEF Within, LiveDeals
<1>4. n + 1 \in Within(l, p, Week, e) <=> Hit /\ e - l[n + 1].start < Week
  BY <1>1 DEF Within, LiveDeals
<1> HIDE DEF Hit
<1>5. /\ Cardinality((1 .. n) \cap LiveDeals(l, p, e)) \in Nat
      /\ Cardinality((1 .. n) \cap Within(l, p, Day, e)) \in Nat
      /\ Cardinality((1 .. n) \cap Within(l, p, Week, e)) \in Nat
  BY PrefixCardinality
<1>6. Cardinality((1 .. n + 1) \cap LiveDeals(l, p, e))
      = IF Hit THEN Cardinality((1 .. n) \cap LiveDeals(l, p, e)) + 1
               ELSE Cardinality((1 .. n) \cap LiveDeals(l, p, e))
  BY <1>2, PrefixCardinality
<1>7. Cardinality((1 .. n + 1) \cap Within(l, p, Day, e))
      = IF Hit /\ e - l[n + 1].start < Day
        THEN Cardinality((1 .. n) \cap Within(l, p, Day, e)) + 1
        ELSE Cardinality((1 .. n) \cap Within(l, p, Day, e))
  BY <1>3, PrefixCardinality
<1>8. Cardinality((1 .. n + 1) \cap Within(l, p, Week, e))
      = IF Hit /\ e - l[n + 1].start < Week
        THEN Cardinality((1 .. n) \cap Within(l, p, Week, e)) + 1
        ELSE Cardinality((1 .. n) \cap Within(l, p, Week, e))
  BY <1>4, PrefixCardinality
<1>9. CASE Hit
  BY <1>5, <1>6, <1>7, <1>8, <1>9 DEF Tally, Add, Hit
<1>10. CASE ~Hit
  BY <1>6, <1>7, <1>8, <1>10 DEF Tally, Hit
<1> QED  BY <1>9, <1>10

\* Among all its deals p has those the listing has of it.
LEMMA TallyOfAll ==
  ASSUME NEW l, NEW p, NEW e
  PROVE  Tally(l, p, Len(l), e) = [count |-> Cardinality(LiveDeals(l, p, e)),
                                day |-> Cardinality(Within(l, p, Day, e)),
                                week |-> Cardinality(Within(l, p, Week, e))]
<1>1. (1 .. Len(l)) \cap LiveDeals(l, p, e) = LiveDeals(l, p, e)
  BY DEF LiveDeals
<1>2. \A n : (1 .. Len(l)) \cap Within(l, p, n, e) = Within(l, p, n, e)
  BY DEF Within, LiveDeals
<1> QED  BY <1>1, <1>2 DEF Tally

\* A deal of another provider leaves the latest piece of p what it is.
LEMMA LatestOfOther ==
  ASSUME NEW l, NEW p, NEW n \in Nat, NEW lp,
         IsLatestPiece(lp, l, p, n), l[n + 1].provider # p
  PROVE  IsLatestPiece(lp, l, p, n + 1)
<1>1. {i \in 1 .. n + 1 : l[i].provider = p} = {i \in 1 .. n : l[i].provider = p}
  OBVIOUS
<1> QED  BY <1>1 DEF IsLatestPiece

\* A deal of p is its latest piece if it is its first or starts later; if not,
\* the latest piece stays what it is.
LEMMA LatestOfProvider ==
  ASSUME NEW l \in Listings, NEW p, NEW n \in Nat, n + 1 <= Len(l), NEW lp,
         IsLatestPiece(lp, l, p, n), l[n + 1].provider = p
  PROVE  IsLatestPiece(IF lp.cid = NoPiece \/ l[n + 1].start > lp.epoch
                       THEN [epoch |-> l[n + 1].start, cid |-> l[n + 1].piece] ELSE lp,
                       l, p, n + 1)
<1> DEFINE mine == {i \in 1 .. n : l[i].provider = p}
           all == {i \in 1 .. n + 1 : l[i].provider = p}
           this == [epoch |-> l[n + 1].start, cid |-> l[n + 1].piece]
<1>1. all = mine \cup {n + 1} /\ n + 1 \in all
  OBVIOUS
<1>2. \A i \in 1 .. n + 1 : l[i].start \in Int /\ l[i].piece \in STRING
  <2>1. l \in Seq(Deals) /\ Len(l) \in Nat
    BY ListingType
  <2>2. \A i \in 1 .. Len(l) : l[i] \in Deals
    BY <2>1
  <2> SUFFICES ASSUME NEW i \in 1 .. n + 1
               PROVE  l[i].start \in Int /\ l[i].piece \in STRING
    OBVIOUS
  <2>3. i \in 1 .. Len(l)
    BY <2>1
  <2>4. l[i] \in Deals
    BY <2>2, <2>3
  <2> QED  BY <2>4 DEF Deals
<1>3. CASE mine = {}
  <2>1. lp = NoPieceYet
    BY <1>3 DEF IsLatestPiece
  <2>2. lp.cid = NoPiece
    BY <2>1 DEF NoPieceYet
  <2>3. all = {n + 1} /\ all # {}
    BY <1>1, <1>3
  <2>4. l[n + 1].start <= l[n + 1].start
    BY <1>2
  <2>5. \A k \in all : l[k].start <= l[n + 1].start
    BY <2>3, <2>4
  <2>6. IsLatestPiece(this, l, p, n + 1)
    BY <1>1, <2>3, <2>5 DEF IsLatestPiece
  <2> QED  BY <2>2, <2>6
<1>4. CASE mine # {}
  <2>1. PICK i \in mine : /\ lp = [epoch |-> l[i].start, cid |-> l[i].piece]
                          /\ \A k \in mine : l[k].start <= l[i].start
    BY <1>4 DEF IsLatestPiece
  <2>2. lp.epoch = l[i].start /\ lp.cid = l[i].piece /\ lp.cid # NoPiece
    BY <1>2, <2>1, DealAssumption
  <2>3. i \in all /\ \A k \in all : k \in mine \/ k = n + 1
    BY <1>1
  <2>4. l[i].start \in Int /\ l[n + 1].start \in Int /\ \A k \in all : l[k].start \in Int
    BY <1>2
  <2>5. CASE l[n + 1].start > l[i].start
    <3>1. \A k \in all : l[k].start <= l[n + 1].start
      BY <2>1, <2>3, <2>4, <2>5
    <3>2. IsLatestPiece(this, l, p, n + 1)
      BY <1>1, <3>1 DEF IsLatestPiece
    <3> QED  BY <2>2, <2>5, <3>2
  <2>6. CASE ~(l[n + 1].start > l[i].start)
    <3>1. \A k \in all : l[k].start <= l[i].start
      BY <2>1, <2>3, <2>4, <2>6
    <3>2. IsLatestPiece(lp, l, p, n + 1)
      BY <2>1, <2>3, <3>1 DEF IsLatestPiece
    <3> QED  BY <2>2, <2>6, <3>2
  <2> QED  BY <2>5, <2>6
<1> QED  BY <1>3, <1>4

------------------------------------------------------------------------------
(* The refresh has counted a prefix of the listing.                        *)

\* What is received is the deal after the one taken last, unless it is the
\* error, which ends the refresh.
LEMMA ReceiveTakesNext ==
  ASSUME StreamInv, Receive
  PROVE  \/ refresher' \in {"head", "waiting"}
         \/ refresher' = "classifying" /\ taken' = taken + 1
<1>1. PICK i \in Indices \cup {Error} : deals = <<i>>
  BY DEF Receive, StreamInv, TypeOK
<1>2. Head(deals) = i /\ deals # <<>> /\ (deals = <<Error>> <=> i = Error)
  BY <1>1
<1>3. CASE i = Error
  BY <1>2, <1>3 DEF Receive, Return
<1>4. CASE i # Error
  <2>1. deals = <<Sent>> /\ taken = Sent - 1
    BY <1>2, <1>4 DEF Receive, StreamInv, StreamInOrder, Streaming
  <2>2. i = Sent /\ Sent \in Int
    BY <1>1, <2>1, ListingType DEF StreamInv, TypeOK, Sent
  <2> QED  BY <1>2, <1>4, <2>1, <2>2 DEF Receive
<1> QED  BY <1>3, <1>4

\* When the result is published the whole listing has been taken.
LEMMA PublishTakesAll ==
  ASSUME StreamInv, PublishCounts
  PROVE  taken = Len(listing)
BY DEF StreamInv, StreamInOrder, PublishCounts, Streaming, Sent, Error

\* Every step counts another deal of the prefix, or none.
LEMMA CountedStep == StreamInv /\ PrefixCounted /\ [Next]_vars => PrefixCounted'
<1> SUFFICES ASSUME StreamInv, PrefixCounted, [Next]_vars PROVE PrefixCounted'
  OBVIOUS
<1> USE DEF source, stream, working, published, Return, Handling, Streaming, Counted,
            PrefixCounted, deal
<1>0. taken \in Nat /\ (Handling => taken \in 1 .. Len(listing)) /\ listing \in Listings
      /\ dealCount \in [Providers -> Tallies]
  BY DEF StreamInv, StreamInOrder, TypeOK, Indices
<1> USE <1>0
<1>00. Handling => \A p \in Providers :
         Tally(listing, p, taken, currentEpoch)
           = IF deal.provider = p /\ Live(deal, currentEpoch)
             THEN Add(Tally(listing, p, taken - 1, currentEpoch), deal, currentEpoch)
             ELSE Tally(listing, p, taken - 1, currentEpoch)
  <2> SUFFICES ASSUME Handling, NEW p \in Providers
               PROVE  Tally(listing, p, taken, currentEpoch)
                        = IF deal.provider = p /\ Live(deal, currentEpoch)
                          THEN Add(Tally(listing, p, taken - 1, currentEpoch), deal, currentEpoch)
                          ELSE Tally(listing, p, taken - 1, currentEpoch)
    OBVIOUS
  <2> DEFINE n == taken - 1
  <2>1. n \in Nat /\ n + 1 = taken /\ n + 1 <= Len(listing)
    BY ListingType
  <2> HIDE DEF n
  <2>2. Tally(listing, p, n + 1, currentEpoch)
          = IF listing[n + 1].provider = p /\ Live(listing[n + 1], currentEpoch)
            THEN Add(Tally(listing, p, n, currentEpoch), listing[n + 1], currentEpoch)
            ELSE Tally(listing, p, n, currentEpoch)
    BY <2>1, TallyStep
  <2> QED  BY <2>1, <2>2 DEF n
<1>1. CASE ReadDeal
  BY <1>1 DEF ReadDeal
<1>2. CASE SendDeal
  BY <1>2 DEF SendDeal
<1>3. CASE ReadFails
  BY <1>3 DEF ReadFails
<1>4. CASE SendError
  BY <1>4 DEF SendError
<1>5. CASE EndOfListing
  BY <1>5 DEF EndOfListing
<1>6. CASE ChainHead
  BY <1>6 DEF ChainHead
<1>7. CASE ListDealsFails
  BY <1>7 DEF ListDealsFails
<1>8. CASE Receive
  <2>1. \/ refresher' \in {"head", "waiting"}
        \/ refresher' = "classifying" /\ taken' = taken + 1
    BY <1>8, ReceiveTakesNext
  <2>2. refresher = "receiving" /\ UNCHANGED <<currentEpoch, listing, dealCount>>
    BY <1>8 DEF Receive
  <2> QED  BY <2>1, <2>2
<1>9. CASE Classify
  BY <1>9, <1>00 DEF Classify, Live
<1>10. CASE Count
  <2>1. Live(deal, currentEpoch)
    BY <1>10 DEF Count
  <2>2. \A p \in Providers :
           dealCount'[p] = IF deal.provider = p THEN Add(dealCount[p], deal, currentEpoch)
                           ELSE dealCount[p]
    BY <1>10 DEF Count
  <2>3. \A p \in Providers : dealCount[p] = Tally(listing, p, taken - 1, currentEpoch)
    BY <1>10 DEF Count
  <2>4. \A p \in Providers : dealCount'[p] = Tally(listing, p, taken, currentEpoch)
    BY <1>10, <1>00, <2>1, <2>2, <2>3 DEF Count
  <2> QED  BY <1>10, <2>4 DEF Count
<1>11. CASE KeepLatest
  BY <1>11 DEF KeepLatest
<1>12. CASE CancelRefresh
  BY <1>12 DEF CancelRefresh
<1>13. CASE PublishCounts
  BY <1>13 DEF PublishCounts
<1>14. CASE StoreRecentPieces
  BY <1>14 DEF StoreRecentPieces
<1>15. CASE NotifyDealCount
  BY <1>15 DEF NotifyDealCount
<1>16. CASE NotifyDealCountWithinDay
  BY <1>16 DEF NotifyDealCountWithinDay
<1>17. CASE NotifyDealCountWithinWeek
  BY <1>17 DEF NotifyDealCountWithinWeek
<1>18. CASE OnTick
  BY <1>18 DEF OnTick
<1>19. CASE Stop
  BY <1>19 DEF Stop
<1>20. CASE Cancel
  BY <1>20 DEF Cancel
<1>21. ASSUME NEW l \in Listings, ListDeals(l) PROVE PrefixCounted'
  <2>1. \A p \in Providers : dealCount'[p] = Zero /\ Tally(l, p, 0, currentEpoch) = Zero
    BY <1>21, TallyOfNone DEF ListDeals
  <2> QED  BY <1>21, <2>1 DEF ListDeals
<1>22. CASE UNCHANGED vars
  BY <1>22 DEF vars
<1>23. \A l \in (IF ticks = 0 THEN Listings ELSE LaterListings) : l \in Listings
  BY DealAssumption
<1> QED
  BY <1>1, <1>2, <1>3, <1>4, <1>5, <1>6, <1>7, <1>8, <1>9, <1>10, <1>11, <1>12,
     <1>13, <1>14, <1>15, <1>16, <1>17, <1>18, <1>19, <1>20, <1>21, <1>22, <1>23
  DEF Next, Producer, refresh, Asking, Working

\* Every step considers another deal of the prefix, or none.
LEMMA ConsideredStep == StreamInv /\ PrefixConsidered /\ [Next]_vars => PrefixConsidered'
<1> SUFFICES ASSUME StreamInv, PrefixConsidered, [Next]_vars PROVE PrefixConsidered'
  OBVIOUS
<1> USE DEF source, stream, working, published, Return, Handling, Streaming, Considered,
            PrefixConsidered, deal
<1>0. taken \in Nat /\ (Handling => taken \in 1 .. Len(listing)) /\ listing \in Listings
      /\ latest \in [Providers -> [epoch : Int, cid : STRING \cup {NoPiece}]]
  BY DEF StreamInv, StreamInOrder, TypeOK, Indices
<1> USE <1>0
<1>1. CASE ReadDeal
  BY <1>1 DEF ReadDeal
<1>2. CASE SendDeal
  BY <1>2 DEF SendDeal
<1>3. CASE ReadFails
  BY <1>3 DEF ReadFails
<1>4. CASE SendError
  BY <1>4 DEF SendError
<1>5. CASE EndOfListing
  BY <1>5 DEF EndOfListing
<1>6. CASE ChainHead
  BY <1>6 DEF ChainHead
<1>7. CASE ListDealsFails
  BY <1>7 DEF ListDealsFails
<1>8. CASE Receive
  <2>1. \/ refresher' \in {"head", "waiting"}
        \/ refresher' = "classifying" /\ taken' = taken + 1
    BY <1>8, ReceiveTakesNext
  <2>2. refresher = "receiving" /\ UNCHANGED <<listing, latest>>
    BY <1>8 DEF Receive
  <2> QED  BY <2>1, <2>2
<1>9. CASE Classify
  BY <1>9 DEF Classify
<1>10. CASE Count
  BY <1>10 DEF Count
<1>11. CASE KeepLatest
  <2> DEFINE n == taken - 1
             lp == latest[deal.provider]
             this == [epoch |-> deal.start, cid |-> deal.piece]
  <2>1. n \in Nat /\ n + 1 = taken /\ n + 1 <= Len(listing)
    BY <1>11, ListingType DEF KeepLatest
  <2>2. \A p \in Providers : IsLatestPiece(latest[p], listing, p, n)
    BY <1>11 DEF KeepLatest
  <2>3. \A p \in Providers :
           latest'[p] = IF deal.provider # p THEN latest[p]
                        ELSE IF latest[p].cid = NoPiece \/ deal.start > latest[p].epoch
                             THEN this ELSE latest[p]
    BY <1>11 DEF KeepLatest
  <2> HIDE DEF n
  <2>4. ASSUME NEW p \in Providers PROVE IsLatestPiece(latest'[p], listing, p, n + 1)
    <3>1. CASE deal.provider # p
      BY <2>1, <2>2, <2>3, <3>1, LatestOfOther
    <3>2. CASE deal.provider = p
      <4>1. listing[n + 1].provider = p
        BY <2>1, <3>2
      <4>2. latest'[p] = IF latest[p].cid = NoPiece \/ listing[n + 1].start > latest[p].epoch
                         THEN [epoch |-> listing[n + 1].start, cid |-> listing[n + 1].piece]
                         ELSE latest[p]
        BY <2>1, <2>3, <3>2
      <4> QED  BY <2>1, <2>2, <4>1, <4>2, LatestOfProvider
    <3> QED  BY <3>1, <3>2
  <2> QED  BY <1>11, <2>1, <2>4 DEF KeepLatest
<1>12. CASE CancelRefresh
  BY <1>12 DEF CancelRefresh
<1>13. CASE PublishCounts
  BY <1>13, PublishTakesAll DEF PublishCounts
<1>14. CASE StoreRecentPieces
  BY <1>14 DEF StoreRecentPieces
<1>15. CASE NotifyDealCount
  BY <1>15 DEF NotifyDealCount
<1>16. CASE NotifyDealCountWithinDay
  BY <1>16 DEF NotifyDealCountWithinDay
<1>17. CASE NotifyDealCountWithinWeek
  BY <1>17 DEF NotifyDealCountWithinWeek
<1>18. CASE OnTick
  BY <1>18 DEF OnTick
<1>19. CASE Stop
  BY <1>19 DEF Stop
<1>20. CASE Cancel
  BY <1>20 DEF Cancel
<1>21. ASSUME NEW l \in Listings, ListDeals(l) PROVE PrefixConsidered'
  <2>1. {i \in 1 .. 0 : TRUE} = {}
    OBVIOUS
  <2>2. \A p \in Providers : latest'[p] = NoPieceYet /\ IsLatestPiece(NoPieceYet, l, p, 0)
    BY <1>21 DEF ListDeals, IsLatestPiece
  <2> QED  BY <1>21, <2>2 DEF ListDeals
<1>22. CASE UNCHANGED vars
  BY <1>22 DEF vars
<1>23. \A l \in (IF ticks = 0 THEN Listings ELSE LaterListings) : l \in Listings
  BY DealAssumption
<1> QED
  BY <1>1, <1>2, <1>3, <1>4, <1>5, <1>6, <1>7, <1>8, <1>9, <1>10, <1>11, <1>12,
     <1>13, <1>14, <1>15, <1>16, <1>17, <1>18, <1>19, <1>20, <1>21, <1>22, <1>23
  DEF Next, Producer, refresh, Asking, Working

------------------------------------------------------------------------------
(* The totals.                                                             *)

\* Counting a deal for one provider and for the total keeps the total the sum.
LEMMA SumsStep ==
  ASSUME NEW t \in Tallies, NEW c \in [Providers -> Tallies], NEW q \in Providers, NEW d,
         NEW h, Sums(t, c)
  PROVE  Sums(Add(t, d, h), [c EXCEPT ![q] = Add(@, d, h)])
<1> DEFINE e == [c EXCEPT ![q] = Add(@, d, h)]
           ofDay == IF h - d.start < Day THEN 1 ELSE 0
           ofWeek == IF h - d.start < Week THEN 1 ELSE 0
<1>1. \A p \in Providers : c[p].count \in Nat /\ c[p].day \in Nat /\ c[p].week \in Nat
  BY DEF Tallies
<1>2. \A p \in Providers : /\ e[p].count = IF p = q THEN c[p].count + 1 ELSE c[p].count
                           /\ e[p].day = IF p = q THEN c[p].day + ofDay ELSE c[p].day
                           /\ e[p].week = IF p = q THEN c[p].week + ofWeek ELSE c[p].week
  BY DEF Add
<1>3. ofDay \in Nat /\ ofWeek \in Nat
  OBVIOUS
<1>4. /\ Add(t, d, h).count = t.count + 1
      /\ Add(t, d, h).day = t.day + ofDay
      /\ Add(t, d, h).week = t.week + ofWeek
  BY DEF Add
<1> HIDE DEF e, ofDay, ofWeek
<1>5. ASSUME NEW f \in [Providers -> Nat], NEW g \in [Providers -> Nat], NEW by \in Nat,
             \A p \in Providers : g[p] = IF p = q THEN f[p] + by ELSE f[p]
      PROVE  SumFunction(g) = SumFunction(f) + by
  <2>1. SumFunctionOnSet(g, Providers) = SumFunctionOnSet(f, Providers) + by
    <3>1. \A x \in Providers : f[x] \in Nat
      OBVIOUS
    <3>2. IsFiniteSet(Providers)
      BY DealAssumption
    <3>3. GrownAt(q, by, f, g, Providers)
      BY <1>5, <3>1 DEF GrownAt
    <3> QED  BY <3>2, <3>3, SumBump
  <2> QED  BY <2>1, SumIsOverDomain
<1> DEFINE counted(k) == [p \in Providers |-> k[p].count]
           day(k) == [p \in Providers |-> k[p].day]
           week(k) == [p \in Providers |-> k[p].week]
<1>6. /\ counted(c) \in [Providers -> Nat] /\ counted(e) \in [Providers -> Nat]
      /\ day(c) \in [Providers -> Nat] /\ day(e) \in [Providers -> Nat]
      /\ week(c) \in [Providers -> Nat] /\ week(e) \in [Providers -> Nat]
  BY <1>1, <1>2, <1>3
<1>7. /\ \A p \in Providers : counted(e)[p] = IF p = q THEN counted(c)[p] + 1 ELSE counted(c)[p]
      /\ \A p \in Providers : day(e)[p] = IF p = q THEN day(c)[p] + ofDay ELSE day(c)[p]
      /\ \A p \in Providers : week(e)[p] = IF p = q THEN week(c)[p] + ofWeek ELSE week(c)[p]
  BY <1>2
<1>8. /\ t.count = SumFunction(counted(c))
      /\ t.day = SumFunction(day(c))
      /\ t.week = SumFunction(week(c))
  BY DEF Sums
<1> HIDE DEF counted, day, week
<1>9. /\ SumFunction(counted(e)) = SumFunction(counted(c)) + 1
      /\ SumFunction(day(e)) = SumFunction(day(c)) + ofDay
      /\ SumFunction(week(e)) = SumFunction(week(c)) + ofWeek
  <2>1. SumFunction(counted(e)) = SumFunction(counted(c)) + 1
    BY <1>5, <1>6, <1>7
  <2>2. SumFunction(day(e)) = SumFunction(day(c)) + ofDay
    BY <1>3, <1>5, <1>6, <1>7
  <2>3. SumFunction(week(e)) = SumFunction(week(c)) + ofWeek
    BY <1>3, <1>5, <1>6, <1>7
  <2> QED  BY <2>1, <2>2, <2>3
<1>10. /\ Add(t, d, h).count = SumFunction(counted(e))
       /\ Add(t, d, h).day = SumFunction(day(e))
       /\ Add(t, d, h).week = SumFunction(week(e))
  BY <1>4, <1>8, <1>9
<1> QED  BY <1>10 DEF Sums, counted, day, week, e

\* Before the first deal the totals are sums of nothing.
LEMMA SumsOfNone == Sums(Zero, [p \in Providers |-> Zero])
<1>1. SumFunction([p \in Providers |-> 0]) = 0
  <2> DEFINE none == [p \in Providers |-> 0]
  <2>1. none \in [Providers -> {0}] /\ \A p \in Providers : none[p] = 0
    OBVIOUS
  <2> HIDE DEF none
  <2>2. SumFunctionOnSet(none, Providers) = 0
    BY <2>1, SumOfZeros, DealAssumption
  <2>3. SumFunction(none) = 0
    BY <2>1, <2>2, SumIsOverDomain
  <2> QED  BY <2>3 DEF none
<1>2. /\ [p \in Providers |-> [q \in Providers |-> Zero][p].count] = [p \in Providers |-> 0]
      /\ [p \in Providers |-> [q \in Providers |-> Zero][p].day] = [p \in Providers |-> 0]
      /\ [p \in Providers |-> [q \in Providers |-> Zero][p].week] = [p \in Providers |-> 0]
  BY DEF Zero
<1> QED  BY <1>1, <1>2 DEF Sums, Zero

\* Every step keeps the totals the sums.
LEMMA TotalsStep == StreamInv /\ TotalsAreSums /\ [Next]_vars => TotalsAreSums'
<1> SUFFICES ASSUME StreamInv, TotalsAreSums, [Next]_vars PROVE TotalsAreSums'
  OBVIOUS
<1> USE DEF source, stream, working, published, Return, Handling, Streaming, Publishing,
            TotalsAreSums
<1>1. CASE ReadDeal
  BY <1>1 DEF ReadDeal
<1>2. CASE SendDeal
  BY <1>2 DEF SendDeal
<1>3. CASE ReadFails
  BY <1>3 DEF ReadFails
<1>4. CASE SendError
  BY <1>4 DEF SendError
<1>5. CASE EndOfListing
  BY <1>5 DEF EndOfListing
<1>6. CASE ChainHead
  BY <1>6 DEF ChainHead
<1>7. CASE ListDealsFails
  BY <1>7 DEF ListDealsFails
<1>8. CASE Receive
  <2>1. \/ refresher' \in {"head", "waiting"}
        \/ refresher' = "classifying" /\ taken' = taken + 1
    BY <1>8, ReceiveTakesNext
  <2>2. refresher = "receiving" /\ UNCHANGED <<listing, dealCount, total, published>>
    BY <1>8 DEF Receive
  <2> QED  BY <2>1, <2>2
<1>9. CASE Classify
  BY <1>9 DEF Classify
<1>10. CASE Count
  <2>1. taken \in 1 .. Len(listing) /\ TypeOK
    BY <1>10 DEF Count, StreamInv, StreamInOrder
  <2>2. total \in Tallies /\ dealCount \in [Providers -> Tallies] /\ deal.provider \in Providers
    BY <2>1, DealType DEF TypeOK
  <2>3. Sums(total', dealCount')
    BY <1>10, <2>2, SumsStep DEF Count
  <2>4. Sums(shown, counts)
    BY <1>10 DEF Count
  <2> QED  BY <1>10, <2>3, <2>4 DEF Count
<1>11. CASE KeepLatest
  BY <1>11 DEF KeepLatest
<1>12. CASE CancelRefresh
  BY <1>12 DEF CancelRefresh
<1>13. CASE PublishCounts
  BY <1>13 DEF PublishCounts
<1>14. CASE StoreRecentPieces
  BY <1>14 DEF StoreRecentPieces
<1>15. CASE NotifyDealCount
  <2>1. shown'.count = total.count
    BY <1>15 DEF NotifyDealCount, StreamInv, TypeOK, Tallies
  <2> QED  BY <1>15, <2>1 DEF NotifyDealCount
<1>16. CASE NotifyDealCountWithinDay
  <2>1. shown'.day = total.day /\ shown'.count = shown.count
    BY <1>16 DEF NotifyDealCountWithinDay, StreamInv, TypeOK, Tallies
  <2> QED  BY <1>16, <2>1 DEF NotifyDealCountWithinDay
<1>17. CASE NotifyDealCountWithinWeek
  <2>1. /\ shown.count = total.count /\ shown.day = total.day
        /\ shown'.count = shown.count /\ shown'.day = shown.day /\ shown'.week = total.week
    BY <1>17 DEF NotifyDealCountWithinWeek, StreamInv, TypeOK, Tallies
  <2>2. Sums(total, counts)
    BY <1>17 DEF NotifyDealCountWithinWeek
  <2>3. Sums(shown', counts)
    BY <2>1, <2>2 DEF Sums
  <2> QED  BY <1>17, <2>3 DEF NotifyDealCountWithinWeek
<1>18. CASE OnTick
  BY <1>18 DEF OnTick
<1>19. CASE Stop
  BY <1>19 DEF Stop
<1>20. CASE Cancel
  BY <1>20 DEF Cancel
<1>21. ASSUME NEW l \in Listings, ListDeals(l) PROVE TotalsAreSums'
  <2>1. Sums(total', dealCount')
    BY <1>21, SumsOfNone DEF ListDeals
  <2>2. Sums(shown, counts)
    BY <1>21 DEF ListDeals
  <2> QED  BY <1>21, <2>1, <2>2 DEF ListDeals
<1>22. CASE UNCHANGED vars
  BY <1>22 DEF vars
<1>23. \A l \in (IF ticks = 0 THEN Listings ELSE LaterListings) : l \in Listings
  BY DealAssumption
<1> QED
  BY <1>1, <1>2, <1>3, <1>4, <1>5, <1>6, <1>7, <1>8, <1>9, <1>10, <1>11, <1>12,
     <1>13, <1>14, <1>15, <1>16, <1>17, <1>18, <1>19, <1>20, <1>21, <1>22, <1>23
  DEF Next, Producer, refresh, Asking, Working

------------------------------------------------------------------------------
(* What is published.                                                      *)

\* What a step publishes is that of a whole listing.
LEMMA PublishedStep ==
  /\ StreamInv /\ WorkInv /\ CountsAreOfAListing /\ PiecesAreLatest /\ [Next]_vars
  => CountsAreOfAListing' /\ PiecesAreLatest'
<1> SUFFICES ASSUME StreamInv, WorkInv, CountsAreOfAListing, PiecesAreLatest, [Next]_vars
             PROVE  CountsAreOfAListing' /\ PiecesAreLatest'
  OBVIOUS
<1> USE DEF source, stream, working, published
<1>1. UNCHANGED <<counts, complete>> => CountsAreOfAListing'
  BY DEF CountsAreOfAListing
<1>2. UNCHANGED <<pieces, piecesOf>> => PiecesAreLatest'
  BY DEF PiecesAreLatest
<1>3. CASE PublishCounts
  <2>1. taken = Len(listing) /\ refresher = "receiving"
    BY <1>3, PublishTakesAll DEF PublishCounts
  <2>2. \A p \in Providers : dealCount[p] = Tally(listing, p, Len(listing), currentEpoch)
    BY <2>1 DEF WorkInv, PrefixCounted, Streaming, Handling, Counted
  <2>3. CountsAreOfAListing'
    BY <1>3, <2>2, TallyOfAll DEF PublishCounts, CountsAreOfAListing
  <2> QED  BY <1>2, <1>3, <2>3 DEF PublishCounts
<1>4. CASE StoreRecentPieces
  <2>1. \A p \in Providers : IsLatestPiece(latest[p], listing, p, Len(listing))
    BY <1>4 DEF StoreRecentPieces, WorkInv, PrefixConsidered
  <2>2. ASSUME NEW p \in Providers
        PROVE  LET mine == {i \in 1 .. Len(listing) : listing[i].provider = p}
               IN IF mine = {} THEN latest[p].cid = NoPiece
                  ELSE \E i \in mine : /\ latest[p].cid = listing[i].piece
                                       /\ \A k \in mine : listing[k].start <= listing[i].start
    <3>1. IsLatestPiece(latest[p], listing, p, Len(listing))
      BY <2>1
    <3>2. CASE {i \in 1 .. Len(listing) : listing[i].provider = p} = {}
      BY <3>1, <3>2 DEF IsLatestPiece, NoPieceYet
    <3>3. CASE {i \in 1 .. Len(listing) : listing[i].provider = p} # {}
      <4>1. PICK i \in {j \in 1 .. Len(listing) : listing[j].provider = p} :
                 /\ latest[p] = [epoch |-> listing[i].start, cid |-> listing[i].piece]
                 /\ \A k \in {k \in 1 .. Len(listing) : listing[k].provider = p} :
                      listing[k].start <= listing[i].start
        BY <3>1, <3>3 DEF IsLatestPiece
      <4>2. latest[p].cid = listing[i].piece
        BY <4>1
      <4> QED  BY <3>3, <4>1, <4>2
    <3> QED  BY <3>2, <3>3
  <2>3. ASSUME pieces' = [p \in Providers |-> latest[p].cid], piecesOf' = listing
        PROVE  PiecesAreLatest'
    BY <2>2, <2>3 DEF PiecesAreLatest
  <2> QED  BY <1>1, <1>2, <1>4, <2>3 DEF StoreRecentPieces
<1>5. CASE ReadDeal
  BY <1>1, <1>2, <1>5 DEF ReadDeal
<1>6. CASE SendDeal
  BY <1>1, <1>2, <1>6 DEF SendDeal
<1>7. CASE ReadFails
  BY <1>1, <1>2, <1>7 DEF ReadFails
<1>8. CASE SendError
  BY <1>1, <1>2, <1>8 DEF SendError
<1>9. CASE EndOfListing
  BY <1>1, <1>2, <1>9 DEF EndOfListing
<1>10. CASE ChainHead
  BY <1>1, <1>2, <1>10 DEF ChainHead
<1>11. CASE ListDealsFails
  BY <1>1, <1>2, <1>11 DEF ListDealsFails
<1>12. CASE Receive
  BY <1>1, <1>2, <1>12 DEF Receive
<1>13. CASE Classify
  BY <1>1, <1>2, <1>13 DEF Classify
<1>14. CASE Count
  BY <1>1, <1>2, <1>14 DEF Count
<1>15. CASE KeepLatest
  BY <1>1, <1>2, <1>15 DEF KeepLatest
<1>16. CASE CancelRefresh
  BY <1>1, <1>2, <1>16 DEF CancelRefresh
<1>17. CASE NotifyDealCount
  BY <1>1, <1>2, <1>17 DEF NotifyDealCount
<1>18. CASE NotifyDealCountWithinDay
  BY <1>1, <1>2, <1>18 DEF NotifyDealCountWithinDay
<1>19. CASE NotifyDealCountWithinWeek
  BY <1>1, <1>2, <1>19 DEF NotifyDealCountWithinWeek
<1>20. CASE OnTick
  BY <1>1, <1>2, <1>20 DEF OnTick
<1>21. CASE Stop
  BY <1>1, <1>2, <1>21 DEF Stop
<1>22. CASE Cancel
  BY <1>1, <1>2, <1>22 DEF Cancel
<1>23. ASSUME NEW l, ListDeals(l) PROVE CountsAreOfAListing' /\ PiecesAreLatest'
  BY <1>1, <1>2, <1>23 DEF ListDeals
<1>24. CASE UNCHANGED vars
  BY <1>1, <1>2, <1>24 DEF vars
<1> QED
  BY <1>3, <1>4, <1>5, <1>6, <1>7, <1>8, <1>9, <1>10, <1>11, <1>12, <1>13, <1>14,
     <1>15, <1>16, <1>17, <1>18, <1>19, <1>20, <1>21, <1>22, <1>23, <1>24
  DEF Next, Producer, refresh, Asking, Working

\* At the start nothing is counted, and nothing published.
LEMMA DInit == Init => DInv
<1> SUFFICES ASSUME Init PROVE DInv  OBVIOUS
<1>1. refresher = "head"
  BY DEF Init
<1>2. WorkInv
  BY <1>1 DEF WorkInv, PrefixCounted, PrefixConsidered, Streaming, Handling
<1>3. TotalsAreSums
  BY <1>1, SumsOfNone DEF Init, TotalsAreSums, Streaming, Handling, Publishing
<1>4. CountsAreOfAListing
  <2>1. complete = [deals |-> <<>>, epoch |-> 0] /\ \A p \in Providers : counts[p] = Zero
    BY DEF Init
  <2>2. \A p : Tally(<<>>, p, Len(<<>>), 0) = Zero
    BY TallyOfNone
  <2> QED  BY <2>1, <2>2, TallyOfAll DEF CountsAreOfAListing
<1>5. PiecesAreLatest
  BY DEF Init, PiecesAreLatest
<1> QED  BY <1>2, <1>3, <1>4, <1>5, StreamInit DEF DInv

\* The refresh works on a prefix of its listing, publishes what a whole one
\* gives, and keeps the totals the sums.
THEOREM StatsInvariant == Spec => []DInv
<1>1. DInv /\ [Next]_vars => DInv'
  BY TypeStep, StreamStep, CountedStep, ConsideredStep, TotalsStep, PublishedStep
     DEF DInv, StreamInv, WorkInv
<1> QED  BY <1>1, DInit, PTL DEF Spec

\* Every variable of the deal statistics has its type; next never passes the
\* end of the listing.
THEOREM StatsTypes == Spec => []TypeOK
BY StatsInvariant, PTL DEF DInv, StreamInv

\* The counts served are those of one whole listing, however the producer and
\* the refresh interleave and wherever a refresh failed.
THEOREM CountsAreWhole == Spec => []CountsAreOfAListing
BY StatsInvariant, PTL DEF DInv

\* The recent pieces are the latest of one whole listing.
THEOREM PiecesAreWhole == Spec => []PiecesAreLatest
BY StatsInvariant, PTL DEF DInv

\* Outside a publication the totals the metrics were given are the sums of
\* the counts per provider.
THEOREM TotalsAreCounts == Spec => []TotalsMatchCounts
<1>1. DInv => TotalsMatchCounts
  BY DEF DInv, TotalsAreSums, TotalsMatchCounts, Sums
<1> QED  BY <1>1, StatsInvariant, PTL

\* While the context lives a refresh that is over has no producer left.
THEOREM ProducersEnd == Spec => []NoProducerLeaks
<1>1. DInv => NoProducerLeaks
  BY DEF DInv, StreamInv, ProducerDone, NoProducerLeaks
<1> QED  BY <1>1, StatsInvariant, PTL
==============================================================================
