-------------------------- MODULE TargetCheckProofs --------------------------
(***************************************************************************)
(* Proofs about TargetCheck, for any finite set of protocols, any topics   *)
(* and any advertisements.  The invariant says of every call of check what *)
(* the calls before it have established, and of a finished check that its  *)
(* verdict rests on that.                                                  *)
(***************************************************************************)
EXTENDS TargetCheck, SumLemmas

------------------------------------------------------------------------------
(* The inductive invariant.                                                *)

\* The calls that come only after the address was found and after a head
\* protocol was matched.
AfterInfo == {"known", "connect", "protocols", "transports", "reading", "match",
              "head", "announce"}
AfterMatch == {"head", "announce"}

\* What check has established when call c is next and its target is t; the
\* errors that are only logged are not kept.
Established(c, t) ==
  /\ c # "done" => t.status = "unknown" /\ t.err = Nothing
  /\ c \in AfterInfo => t.addrInfo = "full"
  /\ Range(t.protocols) \subseteq supports
  /\ c \in AfterMatch => /\ t.headProtocol \in supports \cap HeadProtocols
                         /\ TopicOf[t.headProtocol] = Topic
  /\ c = "announce" => t.head \in Cids /\ <<t.headProtocol, t.head>> \in served
  /\ c # "done" => announced = {}

\* What the verdict of a target t rests on, when the heads hs were announced.
Backed(t, hs) ==
  /\ t.status # "unknown"
  /\ t.err # Nothing <=> t.status \in Failing
  /\ t.status \in Indexing \cup {"unindexed", "topic-mismatch", "unreachable"}
       => t.addrInfo = "full"
  /\ Range(t.protocols) \subseteq supports
  /\ t.status = "unindexed" => Range(t.protocols) \cap HeadProtocols = {}
  /\ t.status = "topic-mismatch" =>
       t.headProtocol \in supports /\ TopicOf[t.headProtocol] # Topic
  /\ t.status \in Indexing =>
       t.headProtocol \in supports /\ TopicOf[t.headProtocol] = Topic
  /\ hs \subseteq {t.head}
  /\ hs # {} => t.status \in {"ok", "err-announce"}
  /\ t.status = "ok" => /\ t.head \in hs
                        /\ <<t.headProtocol, t.head>> \in served
                        /\ TopicOf[t.headProtocol] = Topic

Finished ==
  pc = "done" => /\ target.lastChecked
                 /\ target.errMessage = target.err
                 /\ Backed(target, announced)

\* The history has what is served now, too.
HistoryKept == \A p \in HeadProtocols : <<p, head[p]>> \in served

CInv ==
  /\ TypeOK
  /\ Established(pc, target)
  /\ Finished
  /\ HistoryKept
  /\ AnnouncedWasServed

------------------------------------------------------------------------------
(* The operators on the list of protocols.                                 *)

\* A nonempty set of naturals has the minimum that Min chooses.
LEMMA MinIsInSet ==
  ASSUME NEW I \in SUBSET Nat, I # {}
  PROVE  Min(I) \in I
BY LeastNatural DEF Min

\* FirstHead finds a head protocol exactly if the list has one.
LEMMA FirstHeadFinds ==
  ASSUME NEW s \in Seq(Protocols)
  PROVE  LET i == FirstHead(s)
         IN \/ i = 0 /\ Range(s) \cap HeadProtocols = {}
            \/ i # 0 /\ s[i] \in Range(s) \cap HeadProtocols
<1> DEFINE I == {i \in 1 .. Len(s) : s[i] \in HeadProtocols}
<1>1. FirstHead(s) = IF I # {} THEN Min(I) ELSE 0
  BY DEF FirstHead, SelectInSeq
<1>2. DOMAIN s = 1 .. Len(s)
  OBVIOUS
<1>3. CASE I = {}
  BY <1>1, <1>2, <1>3 DEF Range
<1>4. CASE I # {}
  <2>1. Min(I) \in I
    <3>1. I \in SUBSET Nat
      OBVIOUS
    <3> QED  BY <1>4, <3>1, MinIsInSet
  <2>2. Min(I) \in 1 .. Len(s) /\ s[Min(I)] \in HeadProtocols
    BY <2>1
  <2> HIDE DEF I
  <2>3. Min(I) # 0 /\ s[Min(I)] \in Range(s)
    BY <1>2, <2>2 DEF Range
  <2> QED  BY <1>1, <1>4, <2>2, <2>3
<1> QED  BY <1>3, <1>4

\* Whatever order the peerstore lists the protocols it knows in, it lists them
\* all and no other.
LEMMA ListsAll ==
  ASSUME NEW S \in SUBSET Protocols, NEW ps \in SetToSeqs(S)
  PROVE  ps \in Seq(Protocols) /\ Range(ps) = S
<1> DEFINE n == Cardinality(S)
<1>1. IsFiniteSet(S) /\ n \in Nat
  BY FS_Subset, FS_CardinalityType, CheckAssumption
<1>2. /\ ps \in [1 .. n -> S]
      /\ \A i, j \in 1 .. n : i # j => ps[i] # ps[j]
  BY DEF SetToSeqs
<1>3. ps \in Seq(Protocols)
  BY <1>1, <1>2
<1>4. ps \in Injection(1 .. n, S)
  BY <1>2 DEF Injection, IsInjective
<1>5. IsFiniteSet(1 .. n) /\ Cardinality(1 .. n) = n
  BY <1>1, FS_Interval
<1>6. ps \in Surjection(1 .. n, S)
  BY <1>1, <1>4, <1>5, FS_Injection
<1>7. Range(ps) = S
  BY <1>2, <1>6 DEF Range, Surjection
<1> QED  BY <1>3, <1>7

------------------------------------------------------------------------------
(* The invariant holds.                                                    *)

\* The invariant holds before the first call.
LEMMA CInvInit == Init => CInv
<1> SUFFICES ASSUME Init PROVE CInv  OBVIOUS
<1> USE CheckAssumption DEF Init
<1>1. target \in Targets
  <2>1. <<>> \in Seq(Protocols)
    OBVIOUS
  <2> QED  BY <2>1 DEF NewTarget, Targets, Statuses
<1>2. TypeOK
  <2>1. ctxDone \in BOOLEAN
    OBVIOUS
  <2>2. \A p \in HeadProtocols : head[p] \in Cids \cup {Undef}
    OBVIOUS
  <2>3. served \subseteq HeadProtocols \X (Cids \cup {Undef})
    BY <2>2
  <2> QED  BY <1>1, <2>1, <2>3 DEF TypeOK
<1>3. Established(pc, target)
  BY DEF Established, NewTarget, AfterInfo, AfterMatch, Range
<1>4. Finished /\ HistoryKept /\ AnnouncedWasServed
  BY DEF Finished, HistoryKept, AnnouncedWasServed
<1> QED  BY <1>2, <1>3, <1>4 DEF CInv

Calls == {"power", "info", "known", "connect", "protocols", "transports", "reading",
          "match", "head", "announce"}

\* A call that goes on keeps the invariant if what it hands to the next call
\* is established.
LEMMA GoOnStep ==
  ASSUME CInv, NEW c \in Calls, NEW t \in Targets, GoOn(c, t), Established(c, t),
         UNCHANGED <<ctxDone, participant, announced>>
  PROVE  CInv'
<1> USE DEF GoOn, participant, CInv
<1>1. TypeOK'
  BY DEF TypeOK, Calls
<1>2. Established(pc, target)'
  BY DEF Established
<1>3. Finished'
  BY DEF Finished, Calls
<1>4. HistoryKept' /\ AnnouncedWasServed'
  BY DEF HistoryKept, AnnouncedWasServed
<1> QED  BY <1>1, <1>2, <1>3, <1>4

\* A call that returns keeps the invariant if its verdict is backed.
LEMMA ReturnStep ==
  ASSUME CInv, NEW t \in Targets, Return(t), Backed(t, announced'),
         UNCHANGED <<ctxDone, participant>>,
         announced' \subseteq Cids, AnnouncedWasServed'
  PROVE  CInv'
<1> USE DEF participant, CInv
<1>1. /\ target' \in Targets
      /\ target'.lastChecked /\ target'.errMessage = t.err
      /\ target'.status = t.status /\ target'.err = t.err
      /\ target'.addrInfo = t.addrInfo /\ target'.headProtocol = t.headProtocol
      /\ target'.head = t.head /\ target'.protocols = t.protocols
      /\ pc' = "done"
  BY DEF Return, Targets
<1>2. TypeOK'
  BY <1>1 DEF TypeOK
<1>3. Established(pc, target)'
  BY <1>1 DEF Established, Backed, AfterInfo, AfterMatch
<1>4. Finished'
  BY <1>1 DEF Finished, Backed
<1>5. HistoryKept'
  BY DEF HistoryKept
<1> QED  BY <1>2, <1>3, <1>4, <1>5

\* A target that a failed call leaves, with its error and status.
FailedWith(u, e, s) == [u EXCEPT !.err = e, !.status = s]

\* A failed call sets the error and the status, and leaves what was found.
LEMMA FailedTarget ==
  ASSUME NEW u \in Targets, NEW e \in Errors, NEW s \in Failing
  PROVE  /\ FailedWith(u, e, s) \in Targets
         /\ FailedWith(u, e, s).err = e
         /\ FailedWith(u, e, s).status = s
         /\ FailedWith(u, e, s).addrInfo = u.addrInfo
         /\ FailedWith(u, e, s).protocols = u.protocols
         /\ FailedWith(u, e, s).headProtocol = u.headProtocol
         /\ FailedWith(u, e, s).head = u.head
<1>1. s \in Statuses
  BY DEF Statuses
<1>2. [u EXCEPT !.err = e] \in Targets
  BY DEF Targets
<1>3. [[u EXCEPT !.err = e] EXCEPT !.status = s] \in Targets
  BY <1>1, <1>2 DEF Targets
<1> QED  BY <1>3 DEF Targets, FailedWith

\* Whether or not the power is found, the check goes on.
LEMMA StateMinerPowerStep == CInv /\ StateMinerPower => CInv'
<1> SUFFICES ASSUME CInv, StateMinerPower PROVE CInv'  OBVIOUS
<1>1. PICK t \in {target, [target EXCEPT !.power = TRUE]} : GoOn("info", t)
  BY DEF StateMinerPower
<1>2. /\ t \in Targets /\ t.status = target.status /\ t.err = target.err
      /\ t.protocols = target.protocols
  BY <1>1 DEF CInv, TypeOK, Targets
<1>3. Established("info", t)
  BY <1>2 DEF CInv, StateMinerPower, Established, AfterInfo, AfterMatch
<1> QED  BY <1>1, <1>2, <1>3, GoOnStep DEF StateMinerPower, Calls

\* If the API fails, its error decides on the status and ends the check.
LEMMA StateMinerInfoFailsStep == CInv /\ StateMinerInfoFails => CInv'
<1> SUFFICES ASSUME CInv, StateMinerInfoFails PROVE CInv'  OBVIOUS
<1>1. PICK e \in Errors, s \in {"err-api-call", "not-miner", "err-rpc-unknown", "err-internal"} :
        Return(FailedWith(target, e, s))
  <2>1. PICK e \in InfoErrors :
          Return([target EXCEPT !.err = e, !.status = InfoStatus(e)])
    BY DEF StateMinerInfoFails
  <2>2. /\ e \in Errors
        /\ InfoStatus(e) \in {"err-api-call", "not-miner", "err-rpc-unknown", "err-internal"}
    BY DEF InfoErrors, Errors, InfoStatus
  <2> QED  BY <2>1, <2>2 DEF FailedWith
<1> DEFINE t == FailedWith(target, e, s)
<1>2. t \in Targets /\ t.status = s /\ t.err = e /\ t.protocols = target.protocols
  <2>1. target \in Targets /\ s \in Failing  BY DEF CInv, TypeOK, Failing
  <2> QED  BY <2>1, FailedTarget
<1>3. Backed(t, announced')
  BY <1>2, CheckAssumption
     DEF Backed, Failing, Indexing, CInv, Established, StateMinerInfoFails
<1> HIDE DEF t
<1> QED  BY <1>1, <1>2, <1>3, ReturnStep DEF StateMinerInfoFails, CInv, TypeOK,
            AnnouncedWasServed, participant, t

\* Only an address the check can use lets it go on; each other one is a verdict.
LEMMA StateMinerInfoStep == CInv /\ StateMinerInfo => CInv'
<1> SUFFICES ASSUME CInv, StateMinerInfo PROVE CInv'  OBVIOUS
<1> DEFINE t(s) == [target EXCEPT !.status = s, !.addrInfo = info]
           a == [target EXCEPT !.addrInfo = info]
           n == [target EXCEPT !.status = "no-addrinfo"]
<1>1. /\ target \in Targets /\ target.err = Nothing /\ target.status = "unknown"
      /\ Range(target.protocols) \subseteq supports
  BY DEF CInv, TypeOK, StateMinerInfo, Established
<1>2. /\ announced = {} /\ announced' \subseteq Cids /\ AnnouncedWasServed'
      /\ UNCHANGED <<ctxDone, participant, announced>>
  BY DEF CInv, TypeOK, StateMinerInfo, Established, participant, AnnouncedWasServed
<1>3. ASSUME info = "full", GoOn("known", a) PROVE CInv'
  <2>1. /\ a \in Targets /\ a.err = Nothing /\ a.status = "unknown" /\ a.addrInfo = "full"
        /\ a.protocols = target.protocols
    BY <1>1, <1>3 DEF Targets, Infos
  <2>2. Established("known", a)
    BY <1>1, <1>2, <2>1 DEF Established, AfterMatch
  <2> HIDE DEF a
  <2> QED  BY <1>2, <1>3, <2>1, <2>2, GoOnStep DEF Calls
<1>4. ASSUME NEW s \in {"unidentifiable", "unaddressable"}, info \in Infos, Return(t(s))
      PROVE  CInv'
  <2>1. /\ t(s) \in Targets /\ t(s).err = Nothing /\ t(s).status = s
        /\ t(s).protocols = target.protocols
    BY <1>1, <1>4 DEF Targets, Statuses
  <2>2. Backed(t(s), announced')
    BY <1>1, <1>2, <2>1 DEF Backed, Failing, Indexing
  <2> HIDE DEF t
  <2> QED  BY <1>2, <1>4, <2>1, <2>2, ReturnStep
<1>5. ASSUME Return(n) PROVE CInv'
  <2>1. /\ n \in Targets /\ n.err = Nothing /\ n.status = "no-addrinfo"
        /\ n.protocols = target.protocols
    BY <1>1 DEF Targets, Statuses
  <2>2. Backed(n, announced')
    BY <1>1, <1>2, <2>1 DEF Backed, Failing, Indexing
  <2> HIDE DEF n
  <2> QED  BY <1>2, <1>5, <2>1, <2>2, ReturnStep
<1> QED  BY <1>3, <1>4, <1>5 DEF StateMinerInfo, Infos

\* The answer of the indexer decides nothing.
LEMMA IsKnownByIndexerStep == CInv /\ IsKnownByIndexer => CInv'
<1> SUFFICES ASSUME CInv, IsKnownByIndexer PROVE CInv'  OBVIOUS
<1>1. PICK known \in BOOLEAN : GoOn("connect", [target EXCEPT !.known = known])
  BY DEF IsKnownByIndexer
<1> DEFINE t == [target EXCEPT !.known = known]
<1>2. /\ t \in Targets /\ t.status = target.status /\ t.err = target.err
      /\ t.addrInfo = target.addrInfo /\ t.protocols = target.protocols
  BY DEF CInv, TypeOK, Targets
<1>3. Established("connect", t)
  BY <1>2 DEF CInv, IsKnownByIndexer, Established, AfterInfo, AfterMatch
<1> HIDE DEF t
<1> QED  BY <1>1, <1>2, <1>3, GoOnStep DEF IsKnownByIndexer, Calls, t

\* The check goes on with a connected participant, or ends with it unreachable.
LEMMA ConnectStep == CInv /\ Connect => CInv'
<1> SUFFICES ASSUME CInv, Connect PROVE CInv'  OBVIOUS
<1>1. /\ target \in Targets /\ target.err = Nothing /\ target.status = "unknown"
      /\ target.addrInfo = "full" /\ Range(target.protocols) \subseteq supports
      /\ announced = {}
  BY DEF CInv, TypeOK, Connect, Established, AfterInfo
<1>2. CASE GoOn("protocols", target)
  <2>1. Established("protocols", target)
    BY <1>1 DEF Established, AfterMatch
  <2> QED  BY <1>1, <1>2, <2>1, GoOnStep DEF Connect, Calls
<1> DEFINE t == FailedWith(target, "connect", "unreachable")
<1>3. ASSUME Return(t) PROVE CInv'
  <2>1. /\ t \in Targets /\ t.err = "connect" /\ t.status = "unreachable"
        /\ t.addrInfo = "full" /\ t.protocols = target.protocols
    <3>1. "connect" \in Errors /\ "unreachable" \in Failing  BY DEF Errors, Failing
    <3> QED  BY <1>1, <3>1, FailedTarget
  <2>2. Backed(t, announced')
    BY <1>1, <2>1, CheckAssumption DEF Backed, Failing, Indexing, Errors, Connect
  <2> HIDE DEF t
  <2> QED  BY <1>3, <2>1, <2>2, ReturnStep
              DEF Connect, CInv, TypeOK, AnnouncedWasServed, participant
<1> QED  BY <1>2, <1>3 DEF Connect, FailedWith

\* The protocols listed are some of those the participant supports.
LEMMA GetProtocolsStep == CInv /\ GetProtocols => CInv'
<1> SUFFICES ASSUME CInv, GetProtocols PROVE CInv'  OBVIOUS
<1>1. /\ target \in Targets /\ target.err = Nothing /\ target.status = "unknown"
      /\ target.addrInfo = "full" /\ Range(target.protocols) \subseteq supports
      /\ announced = {}
  BY DEF CInv, TypeOK, GetProtocols, Established, AfterInfo
<1>2. ASSUME NEW c \in {"transports", "match"},
             NEW known \in SUBSET supports, NEW ps \in SetToSeqs(known),
             GoOn(c, [target EXCEPT !.protocols = ps])
      PROVE  CInv'
  <2> DEFINE t == [target EXCEPT !.protocols = ps]
  <2>1. ps \in Seq(Protocols) /\ Range(ps) \subseteq supports
    <3>1. known \in SUBSET Protocols  BY DEF CInv, TypeOK
    <3> QED  BY <3>1, ListsAll
  <2>2. /\ t \in Targets /\ t.err = Nothing /\ t.status = "unknown"
        /\ t.addrInfo = "full" /\ t.protocols = ps
    BY <1>1, <2>1 DEF Targets
  <2>3. Established(c, t)
    BY <1>1, <2>1, <2>2 DEF Established, AfterMatch
  <2> HIDE DEF t
  <2> QED  BY <1>2, <2>2, <2>3, GoOnStep DEF GetProtocols, Calls, t
<1> DEFINE t == FailedWith(target, "peerstore", "unreachable")
<1>3. ASSUME Return(t) PROVE CInv'
  <2>1. /\ t \in Targets /\ t.err = "peerstore" /\ t.status = "unreachable"
        /\ t.addrInfo = "full" /\ t.protocols = target.protocols
    <3>1. "peerstore" \in Errors /\ "unreachable" \in Failing  BY DEF Errors, Failing
    <3> QED  BY <1>1, <3>1, FailedTarget
  <2>2. Backed(t, announced')
    BY <1>1, <2>1, CheckAssumption DEF Backed, Failing, Indexing, Errors, GetProtocols
  <2> HIDE DEF t
  <2> QED  BY <1>3, <2>1, <2>2, ReturnStep
              DEF GetProtocols, CInv, TypeOK, AnnouncedWasServed, participant
<1> QED  BY <1>2, <1>3 DEF GetProtocols, FailedWith

\* The transports are asked for or not: the check goes on.
LEMMA OpenTransportsStreamStep == CInv /\ OpenTransportsStream => CInv'
<1> SUFFICES ASSUME CInv, OpenTransportsStream PROVE CInv'  OBVIOUS
<1>1. PICK c \in {"reading", "match"} : GoOn(c, target)
  BY DEF OpenTransportsStream
<1>2. Established(c, target)
  BY DEF CInv, OpenTransportsStream, Established, AfterInfo, AfterMatch
<1> QED  BY <1>1, <1>2, GoOnStep DEF CInv, TypeOK, OpenTransportsStream, Calls

\* The transports are read or not: the check goes on.
LEMMA ReadTransportsStep == CInv /\ ReadTransports => CInv'
<1> SUFFICES ASSUME CInv, ReadTransports PROVE CInv'  OBVIOUS
<1>1. PICK t \in {target, [target EXCEPT !.transports = TRUE]} : GoOn("match", t)
  BY DEF ReadTransports
<1>2. /\ t \in Targets /\ t.status = target.status /\ t.err = target.err
      /\ t.addrInfo = target.addrInfo /\ t.protocols = target.protocols
  BY <1>1 DEF CInv, TypeOK, Targets
<1>3. Established("match", t)
  BY <1>2 DEF CInv, ReadTransports, Established, AfterInfo, AfterMatch
<1> QED  BY <1>1, <1>2, <1>3, GoOnStep DEF ReadTransports, Calls

\* The head protocol that is found is one the participant supports, and none
\* is found only if the list has none.
LEMMA MatchHeadProtocolStep == CInv /\ MatchHeadProtocol => CInv'
<1> SUFFICES ASSUME CInv, MatchHeadProtocol PROVE CInv'  OBVIOUS
<1> DEFINE i == FirstHead(target.protocols)
           p == target.protocols[i]
           matched == [target EXCEPT !.headProtocol = p, !.topic = TopicOf[p]]
           missing == [target EXCEPT !.status = "unindexed"]
           mismatch == [matched EXCEPT !.status = "topic-mismatch"]
<1>1. /\ target \in Targets /\ target.err = Nothing /\ target.status = "unknown"
      /\ target.addrInfo = "full" /\ Range(target.protocols) \subseteq supports
      /\ announced = {}
  BY DEF CInv, TypeOK, MatchHeadProtocol, Established, AfterInfo
<1>2. \/ i = 0 /\ Range(target.protocols) \cap HeadProtocols = {}
      \/ i # 0 /\ p \in supports \cap HeadProtocols
  <2>1. target.protocols \in Seq(Protocols)  BY <1>1 DEF Targets
  <2> QED  BY <1>1, <2>1, FirstHeadFinds
<1>3. /\ announced' = announced /\ announced' \subseteq Cids /\ AnnouncedWasServed'
      /\ UNCHANGED <<ctxDone, participant, announced>>
  BY DEF CInv, TypeOK, MatchHeadProtocol, participant, AnnouncedWasServed
<1>4. \/ i = 0 /\ Return(missing)
      \/ i # 0 /\ TopicOf[p] # Topic /\ Return(mismatch)
      \/ i # 0 /\ TopicOf[p] = Topic /\ GoOn("head", matched)
  BY DEF MatchHeadProtocol
<1> HIDE DEF i
<1>5. ASSUME i # 0 PROVE p \in HeadProtocols /\ TopicOf[p] \in Range(TopicOf)
  BY <1>2, <1>5, CheckAssumption DEF Range
<1> HIDE DEF p
<1>6. ASSUME i = 0, Return(missing) PROVE CInv'
  <2>1. /\ missing \in Targets /\ missing.err = Nothing /\ missing.status = "unindexed"
        /\ missing.addrInfo = "full" /\ missing.protocols = target.protocols
    BY <1>1 DEF Targets, Statuses
  <2>2. Backed(missing, announced')
    BY <1>1, <1>2, <1>3, <1>6, <2>1 DEF Backed, Failing, Indexing
  <2> HIDE DEF missing
  <2> QED  BY <1>3, <1>6, <2>1, <2>2, ReturnStep
<1>7. ASSUME i # 0 PROVE /\ matched \in Targets /\ matched.err = Nothing
                         /\ matched.status = "unknown" /\ matched.addrInfo = "full"
                         /\ matched.headProtocol = p
                         /\ matched.protocols = target.protocols
  BY <1>1, <1>5, <1>7 DEF Targets
<1> HIDE DEF matched
<1>8. ASSUME i # 0, TopicOf[p] # Topic, Return(mismatch) PROVE CInv'
  <2>1. /\ mismatch \in Targets /\ mismatch.err = Nothing
        /\ mismatch.status = "topic-mismatch" /\ mismatch.addrInfo = "full"
        /\ mismatch.headProtocol = p /\ mismatch.protocols = target.protocols
    BY <1>7, <1>8 DEF Targets, Statuses
  <2>2. Backed(mismatch, announced')
    BY <1>1, <1>2, <1>3, <1>8, <2>1 DEF Backed, Failing, Indexing
  <2> HIDE DEF mismatch
  <2> QED  BY <1>3, <1>8, <2>1, <2>2, ReturnStep
<1>9. ASSUME i # 0, TopicOf[p] = Topic, GoOn("head", matched) PROVE CInv'
  <2>1. Established("head", matched)
    BY <1>1, <1>2, <1>7, <1>9 DEF Established
  <2> QED  BY <1>3, <1>7, <1>9, <2>1, GoOnStep DEF Calls
<1> QED  BY <1>4, <1>6, <1>8, <1>9

\* A head comes from what the participant serves as the call is answered; an
\* answer without one may mean that there is none or not.
LEMMA GetHeadStep == CInv /\ GetHead => CInv'
<1> SUFFICES ASSUME CInv, GetHead PROVE CInv'  OBVIOUS
<1> DEFINE got(h) == [target EXCEPT !.head = h]
           empty == [target EXCEPT !.status = "empty-head"]
           failed == FailedWith(target, "get-head", "err-get-head")
<1>1. /\ target \in Targets /\ target.err = Nothing /\ target.status = "unknown"
      /\ target.addrInfo = "full" /\ Range(target.protocols) \subseteq supports
      /\ target.headProtocol \in supports \cap HeadProtocols
      /\ TopicOf[target.headProtocol] = Topic
      /\ announced = {}
  BY DEF CInv, TypeOK, GetHead, Established, AfterInfo, AfterMatch
<1>2. \A h \in HeadAnswers : h # Undef =>
        h \in Cids /\ <<target.headProtocol, h>> \in served
  BY <1>1 DEF CInv, TypeOK, HistoryKept, HeadAnswers
<1>3. /\ announced' = announced /\ announced' \subseteq Cids /\ AnnouncedWasServed'
      /\ UNCHANGED <<ctxDone, participant, announced>>
  BY DEF CInv, TypeOK, GetHead, participant, AnnouncedWasServed
<1>4. \/ Return(empty)
      \/ \E h \in HeadAnswers : h # Undef /\ GoOn("announce", got(h))
      \/ Return(failed)
  BY DEF GetHead, FailedWith
<1>6. ASSUME Return(empty) PROVE CInv'
  <2>1. /\ empty \in Targets /\ empty.err = Nothing /\ empty.status = "empty-head"
        /\ empty.addrInfo = "full" /\ empty.headProtocol = target.headProtocol
        /\ empty.protocols = target.protocols
    BY <1>1 DEF Targets, Statuses, Indexing
  <2>2. Backed(empty, announced')
    BY <1>1, <1>3, <2>1 DEF Backed, Failing, Indexing, participant
  <2> HIDE DEF empty
  <2> QED  BY <1>3, <1>6, <2>1, <2>2, ReturnStep
<1>7. ASSUME NEW h \in HeadAnswers, h # Undef, GoOn("announce", got(h)) PROVE CInv'
  <2>1. /\ got(h) \in Targets /\ got(h).err = Nothing /\ got(h).status = "unknown"
        /\ got(h).addrInfo = "full" /\ got(h).protocols = target.protocols
        /\ got(h).headProtocol = target.headProtocol /\ got(h).head = h
    BY <1>1, <1>2, <1>7 DEF Targets
  <2>2. Established("announce", got(h))
    BY <1>1, <1>2, <1>7, <2>1 DEF Established
  <2> HIDE DEF got
  <2> QED  BY <1>3, <1>7, <2>1, <2>2, GoOnStep DEF Calls
<1>8. ASSUME Return(failed) PROVE CInv'
  <2>1. /\ failed \in Targets /\ failed.err = "get-head" /\ failed.status = "err-get-head"
        /\ failed.addrInfo = "full" /\ failed.protocols = target.protocols
        /\ failed.headProtocol = target.headProtocol
    <3>1. "get-head" \in Errors /\ "err-get-head" \in Failing  BY DEF Errors, Failing
    <3> QED  BY <1>1, <3>1, FailedTarget
  <2>2. Backed(failed, announced')
    BY <1>1, <1>3, <2>1, CheckAssumption
       DEF Backed, Failing, Indexing, Errors, participant
  <2> HIDE DEF failed
  <2> QED  BY <1>3, <1>8, <2>1, <2>2, ReturnStep
<1> QED  BY <1>4, <1>6, <1>7, <1>8

\* What is announced is the head that was got, on the topic that was matched.
LEMMA AnnounceStep == CInv /\ Announce => CInv'
<1> SUFFICES ASSUME CInv, Announce PROVE CInv'  OBVIOUS
<1> DEFINE done == [target EXCEPT !.status = "ok"]
           failed == FailedWith(target, "announce", "err-announce")
<1>1. /\ target \in Targets /\ target.err = Nothing
      /\ target.addrInfo = "full" /\ Range(target.protocols) \subseteq supports
      /\ target.headProtocol \in supports \cap HeadProtocols
      /\ TopicOf[target.headProtocol] = Topic
      /\ target.head \in Cids /\ <<target.headProtocol, target.head>> \in served
      /\ announced = {}
  BY DEF CInv, TypeOK, Announce, Established, AfterInfo, AfterMatch
<1>2. /\ announced' \in {announced, announced \cup {target.head}}
      /\ UNCHANGED <<ctxDone, participant>>
  BY DEF Announce
<1>3. announced' \subseteq Cids
  BY <1>1, <1>2 DEF CInv, TypeOK
<1>4. AnnouncedWasServed'
  BY <1>1, <1>2 DEF CInv, AnnouncedWasServed, participant
<1>5. \/ announced' = announced \cup {target.head} /\ Return(done)
      \/ Return(failed)
  BY DEF Announce, FailedWith
<1>6. ASSUME announced' = announced \cup {target.head}, Return(done) PROVE CInv'
  <2>1. /\ done \in Targets /\ done.err = Nothing /\ done.status = "ok"
        /\ done.addrInfo = "full" /\ done.headProtocol = target.headProtocol
        /\ done.head = target.head /\ done.protocols = target.protocols
    BY <1>1 DEF Targets, Statuses, Indexing
  <2>2. Backed(done, announced')
    BY <1>1, <1>2, <1>6, <2>1 DEF Backed, Failing, Indexing, participant
  <2> HIDE DEF done
  <2> QED  BY <1>2, <1>3, <1>4, <1>6, <2>1, <2>2, ReturnStep
<1>7. ASSUME Return(failed) PROVE CInv'
  <2>1. /\ failed \in Targets /\ failed.err = "announce" /\ failed.status = "err-announce"
        /\ failed.addrInfo = "full" /\ failed.protocols = target.protocols
        /\ failed.headProtocol = target.headProtocol /\ failed.head = target.head
    <3>1. "announce" \in Errors /\ "err-announce" \in Failing  BY DEF Errors, Failing
    <3> QED  BY <1>1, <3>1, FailedTarget
  <2>2. Backed(failed, announced')
    BY <1>1, <1>2, <2>1, CheckAssumption
       DEF Backed, Failing, Indexing, Errors, participant
  <2> HIDE DEF failed
  <2> QED  BY <1>2, <1>3, <1>4, <1>7, <2>1, <2>2, ReturnStep
<1> QED  BY <1>5, <1>6, <1>7

\* The participant may publish and the context end at any time: the history
\* only grows, and nothing else that was established changes.
LEMMA WorldStep ==
  ASSUME CInv, (\E p \in HeadProtocols, h \in Cids : Publish(p, h)) \/ Cancel
  PROVE  CInv'
<1> USE DEF CInv
<1>1. /\ UNCHANGED <<pc, target, supports, announced>>
      /\ served \subseteq served'
  BY DEF Publish, Cancel, participant
<1>2. TypeOK'
  <2>1. ctxDone' \in BOOLEAN
    BY DEF TypeOK, Publish, Cancel
  <2>2. head' \in [HeadProtocols -> Cids \cup {Undef}]
    BY DEF TypeOK, Publish, Cancel, participant
  <2>3. served' \subseteq HeadProtocols \X (Cids \cup {Undef})
    BY DEF TypeOK, Publish, Cancel, participant
  <2>4. UNCHANGED <<info, hangs>>
    BY DEF Publish, Cancel, participant
  <2> QED  BY <1>1, <2>1, <2>2, <2>3, <2>4 DEF TypeOK
<1>3. Established(pc, target)'
  BY <1>1 DEF Established
<1>4. Finished'
  BY <1>1 DEF Finished, Backed
<1>5. HistoryKept'
  BY <1>1 DEF TypeOK, HistoryKept, Publish, Cancel, participant
<1>6. AnnouncedWasServed'
  BY <1>1 DEF AnnouncedWasServed
<1> QED  BY <1>2, <1>3, <1>4, <1>5, <1>6

\* Every step keeps the invariant.
LEMMA CInvStep == CInv /\ [Next]_vars => CInv'
<1> SUFFICES ASSUME CInv, [Next]_vars PROVE CInv'  OBVIOUS
<1>1. CASE UNCHANGED vars
  BY <1>1 DEF vars, CInv, TypeOK, Established, Finished, Backed, HistoryKept, AnnouncedWasServed
<1>2. CASE check
  BY <1>2, StateMinerPowerStep, StateMinerInfoFailsStep, StateMinerInfoStep,
     IsKnownByIndexerStep, ConnectStep, GetProtocolsStep, OpenTransportsStreamStep,
     ReadTransportsStep, MatchHeadProtocolStep, GetHeadStep, AnnounceStep DEF check
<1> QED  BY <1>1, <1>2, WorldStep DEF Next

\* At every call of check what the calls before it found still holds, whatever
\* the participant publishes meanwhile and whenever the context ends.
THEOREM CheckInvariant == Spec => []CInv
<1> QED  BY CInvInit, CInvStep, PTL DEF Spec

\* Every variable of a check has its type.
THEOREM CheckTypes == Spec => []TypeOK
<1>1. CInv => TypeOK  BY DEF CInv
<1> QED  BY <1>1, CheckInvariant, PTL

\* A finished check has an error message exactly if its status is a failure.
THEOREM ErrorsMatchStatus == Spec => []VerdictMatchesError
<1>1. CInv => VerdictMatchesError
  BY DEF CInv, Finished, Backed, VerdictMatchesError
<1> QED  BY <1>1, CheckInvariant, PTL

\* The status of a finished check rests on what the check was told, and only
\* a check that ends ok or err-announce has announced its head, and no other.
THEOREM FindingsMatchStatus == Spec => []VerdictMatchesFindings
<1>1. CInv => VerdictMatchesFindings
  BY DEF CInv, Finished, Backed, VerdictMatchesFindings
<1> QED  BY <1>1, CheckInvariant, PTL

\* Status ok: the head was announced, and the participant served it on the
\* expected topic.
THEOREM OkMeansAnnounced == Spec => []OkIsAnnounced
<1>1. CInv => OkIsAnnounced
  BY DEF CInv, Established, Finished, Backed, OkIsAnnounced
<1> QED  BY <1>1, CheckInvariant, PTL

\* Nothing is announced that the participant did not serve on the topic.
THEOREM OnlyServedAnnounced == Spec => []AnnouncedWasServed
<1>1. CInv => AnnouncedWasServed  BY DEF CInv
<1> QED  BY <1>1, CheckInvariant, PTL
==============================================================================
