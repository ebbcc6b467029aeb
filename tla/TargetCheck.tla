----------------------------- MODULE TargetCheck -----------------------------
(***************************************************************************)
(* Target.check: one check of one participant, call by call, against a     *)
(* participant that may publish a new advertisement at any time, services  *)
(* that may fail on every call, and a context that may be cancelled.       *)
(*                                                                         *)
(* The deal counts copied when the check begins, the agent version and the *)
(* addresses are left out: nothing the check decides depends on them.      *)
(***************************************************************************)
EXTENDS Integers, Sequences, FiniteSets, Functions, SequencesExt

CONSTANTS Protocols,     \* protocol IDs a participant may support
          Transports,    \* the one of the retrieval transports query
          HeadProtocols, \* those that match headProtocolPattern
          TopicOf,       \* the topic each head protocol names
          Topic,         \* the topic of the options
          Cids,          \* advertisement CIDs
          Undef,         \* cid.Undef: no advertisement
          Nothing        \* the zero value of any other field

Infos == {"none", "no-id", "no-addrs", "full"}
Failing == {"err-api-call", "err-internal", "err-rpc-unknown", "not-miner",
            "unreachable", "err-get-head", "err-announce"}
Indexing == {"empty-head", "err-get-head", "err-announce", "ok"}
Statuses == Failing \cup Indexing \cup
  {"unknown", "no-addrinfo", "unidentifiable", "unaddressable", "unindexed",
   "topic-mismatch"}
Errors == {"http", "rpc-1", "rpc-other", "communication", "decode", "connect",
           "peerstore", "get-head", "announce"}

ASSUME CheckAssumption ==
  /\ IsFiniteSet(Protocols)
  /\ Transports \in Protocols \ HeadProtocols
  /\ HeadProtocols \subseteq Protocols
  /\ DOMAIN TopicOf = HeadProtocols
  /\ Undef \notin Cids
  /\ Nothing \notin Protocols \cup Range(TopicOf) \cup {Topic} \cup Errors

VARIABLES
  pc,         \* the call of check that is next, or "done"
  target,     \* the Target under check
  ctxDone,    \* ctx is cancelled
  info,       \* what the chain knows of the participant's address
  supports,   \* protocols the participant's host supports
  hangs,      \* the participant accepts streams and never answers on them
  head,       \* the head it serves on each head protocol
  served,     \* history: the pairs <<protocol, head>> it ever served
  announced   \* heads the IPNI node was given

vars == <<pc, target, ctxDone, info, supports, hangs, head, served, announced>>

participant == <<info, supports, hangs, head, served>>

Targets == [status : Statuses, err : Errors \cup {Nothing},
            errMessage : Errors \cup {Nothing}, addrInfo : Infos \cup {Nothing},
            power : BOOLEAN, known : BOOLEAN, protocols : Seq(Protocols),
            transports : BOOLEAN, headProtocol : HeadProtocols \cup {Nothing},
            topic : Range(TopicOf) \cup {Nothing}, head : Cids \cup {Undef},
            lastChecked : BOOLEAN]

NewTarget == [status |-> "unknown", err |-> Nothing, errMessage |-> Nothing,
              addrInfo |-> Nothing, power |-> FALSE, known |-> FALSE,
              protocols |-> <<>>, transports |-> FALSE, headProtocol |-> Nothing,
              topic |-> Nothing, head |-> Undef, lastChecked |-> FALSE]

Init ==
  /\ pc = "power"
  /\ target = NewTarget
  /\ ctxDone = FALSE
  /\ info \in Infos
  /\ supports \in SUBSET Protocols
  /\ hangs \in BOOLEAN
  /\ head \in [HeadProtocols -> Cids \cup {Undef}]
  /\ served = {<<p, head[p]>> : p \in HeadProtocols}
  /\ announced = {}

\* return t, and the deferred function that stamps it.
Return(t) ==
  /\ target' = [t EXCEPT !.lastChecked = TRUE, !.errMessage = t.err]
  /\ pc' = "done"

GoOn(step, t) ==
  /\ target' = t
  /\ pc' = step

------------------------------------------------------------------------------
(* The steps of check.  A call given a cancelled context fails.            *)

\* The error of stateMinerPower is reset: the check goes on either way.
StateMinerPower ==
  /\ pc = "power"
  /\ \/ ~ctxDone /\ GoOn("info", [target EXCEPT !.power = TRUE])
     \/ GoOn("info", target)
  /\ UNCHANGED <<ctxDone, participant, announced>>

\* The verdict on an error of stateMinerInfo, by its dynamic type and code.
InfoStatus(e) == CASE e = "http" -> "err-api-call"
                   [] e = "rpc-1" -> "not-miner"
                   [] e = "rpc-other" -> "err-rpc-unknown"
                   [] OTHER -> "err-internal"

\* External jsonrpc client: an HTTP error status is an HTTPError, an error in
\* the answer an RPCError, a call that gets no answer neither of the two.
InfoErrors == IF ctxDone THEN {"communication"}
              ELSE {"http", "rpc-1", "rpc-other", "communication", "decode"}

StateMinerInfoFails ==
  /\ pc = "info"
  /\ \E e \in InfoErrors :
       Return([target EXCEPT !.err = e, !.status = InfoStatus(e)])
  /\ UNCHANGED <<ctxDone, participant, announced>>

StateMinerInfo ==
  /\ pc = "info"
  /\ ~ctxDone
  /\ \/ info = "none" /\ Return([target EXCEPT !.status = "no-addrinfo"])
     \/ info = "no-id" /\ Return([target EXCEPT !.status = "unidentifiable",
                                                !.addrInfo = info])
     \/ info = "no-addrs" /\ Return([target EXCEPT !.status = "unaddressable",
                                                   !.addrInfo = info])
     \/ info = "full" /\ GoOn("known", [target EXCEPT !.addrInfo = info])
  /\ UNCHANGED <<ctxDone, participant, announced>>

\* An error leaves KnownByIndexer false and is only logged.
IsKnownByIndexer ==
  /\ pc = "known"
  /\ \E known \in {FALSE} \cup (IF ctxDone THEN {} ELSE {TRUE}) :
       GoOn("connect", [target EXCEPT !.known = known])
  /\ UNCHANGED <<ctxDone, participant, announced>>

\* External libp2p host: an existing connection is used even when ctx is done.
Connect ==
  /\ pc = "connect"
  /\ \/ GoOn("protocols", target)
     \/ Return([target EXCEPT !.err = "connect", !.status = "unreachable"])
  /\ UNCHANGED <<ctxDone, participant, announced>>

\* The peerstore lists what the identify exchange told it of the peer, in no
\* particular order: Connect returns whether or not the exchange succeeded, so
\* the list may lack some protocols, or all.
GetProtocols ==
  /\ pc = "protocols"
  /\ \/ \E known \in SUBSET supports : \E ps \in SetToSeqs(known) :
          GoOn(IF Transports \in known THEN "transports" ELSE "match",
               [target EXCEPT !.protocols = ps])
     \/ Return([target EXCEPT !.err = "peerstore", !.status = "unreachable"])
  /\ UNCHANGED <<ctxDone, participant, announced>>

\* The context with queryTransportsTimeout bounds the opening of the stream.
OpenTransportsStream ==
  /\ pc = "transports"
  /\ GoOn("reading", target) \/ GoOn("match", target)
  /\ UNCHANGED <<ctxDone, participant, announced>>

\* The answer is read from a libp2p stream, to which no deadline is set: not
\* even the cancellation ends the read.  Its error is only logged.
ReadTransports ==
  /\ pc = "reading"
  /\ ~hangs
  /\ GoOn("match", [target EXCEPT !.transports = TRUE]) \/ GoOn("match", target)
  /\ UNCHANGED <<ctxDone, participant, announced>>

\* The place of the first head protocol in the list, or zero.
FirstHead(ps) == SelectInSeq(ps, LAMBDA p : p \in HeadProtocols)

\* Faulty: a participant on another topic is announced as well.
MatchAnyTopic ==
  /\ pc = "match"
  /\ LET i == FirstHead(target.protocols)
         p == target.protocols[i]
     IN \/ i = 0 /\ Return([target EXCEPT !.status = "unindexed"])
        \/ i # 0 /\ GoOn("head", [target EXCEPT !.headProtocol = p, !.topic = Topic])
  /\ UNCHANGED <<ctxDone, participant, announced>>

\* Faulty: the loop over the protocols does not stop at the first match, so
\* that the last protocol of the list decides.
MatchLastProtocol ==
  /\ pc = "match"
  /\ \/ /\ \A p \in HeadProtocols : ~IsSuffix(<<p>>, target.protocols)
        /\ Return([target EXCEPT !.status = "unindexed"])
     \/ \E p \in HeadProtocols :
          /\ IsSuffix(<<p>>, target.protocols)
          /\ LET matched == [target EXCEPT !.headProtocol = p, !.topic = TopicOf[p]]
             IN IF TopicOf[p] = Topic THEN GoOn("head", matched)
                ELSE Return([matched EXCEPT !.status = "topic-mismatch"])
  /\ UNCHANGED <<ctxDone, participant, announced>>

\* The first protocol that is a head protocol decides.
MatchHeadProtocol ==
  /\ pc = "match"
  /\ LET i == FirstHead(target.protocols)
         p == target.protocols[i]
         matched == [target EXCEPT !.headProtocol = p, !.topic = TopicOf[p]]
     IN \/ i = 0 /\ Return([target EXCEPT !.status = "unindexed"])
        \/ i # 0 /\ TopicOf[p] # Topic
             /\ Return([matched EXCEPT !.status = "topic-mismatch"])
        \/ i # 0 /\ TopicOf[p] = Topic /\ GoOn("head", matched)
  /\ UNCHANGED <<ctxDone, participant, announced>>

\* The head an answer without error gives: the status code of the response is
\* not looked at, so an error response with an empty body means no head.
HeadAnswers == {head[target.headProtocol], Undef}

\* Faulty: the error of getHead is only logged, as those of other calls are.
GetHeadLogged ==
  /\ pc = "head"
  /\ \/ /\ ~hangs /\ ~ctxDone
        /\ \E h \in HeadAnswers :
             \/ h = Undef /\ Return([target EXCEPT !.status = "empty-head"])
             \/ h # Undef /\ GoOn("announce", [target EXCEPT !.head = h])
     \/ /\ ~hangs \/ ctxDone
        /\ Return([target EXCEPT !.status = "err-get-head"])
  /\ UNCHANGED <<ctxDone, participant, announced>>

\* Faulty: the head is announced without asking whether there is one.
GetHeadUnasked ==
  /\ pc = "head"
  /\ \/ /\ ~hangs /\ ~ctxDone
        /\ \E h \in HeadAnswers : GoOn("announce", [target EXCEPT !.head = h])
     \/ /\ ~hangs \/ ctxDone
        /\ Return([target EXCEPT !.err = "get-head", !.status = "err-get-head"])
  /\ UNCHANGED <<ctxDone, participant, announced>>

\* Faulty: the request is not made with the context of the check.
GetHeadBackground ==
  /\ pc = "head"
  /\ \/ /\ ~hangs /\ ~ctxDone
        /\ \E h \in HeadAnswers :
             \/ h = Undef /\ Return([target EXCEPT !.status = "empty-head"])
             \/ h # Undef /\ GoOn("announce", [target EXCEPT !.head = h])
     \/ /\ ~hangs
        /\ Return([target EXCEPT !.err = "get-head", !.status = "err-get-head"])
  /\ UNCHANGED <<ctxDone, participant, announced>>

\* The request has no timeout: against a participant that hangs only the
\* context ends it.
GetHead ==
  /\ pc = "head"
  /\ \/ /\ ~hangs /\ ~ctxDone
        /\ \E h \in HeadAnswers :
             \/ h = Undef /\ Return([target EXCEPT !.status = "empty-head"])
             \/ h # Undef /\ GoOn("announce", [target EXCEPT !.head = h])
     \/ /\ ~hangs \/ ctxDone
        /\ Return([target EXCEPT !.err = "get-head", !.status = "err-get-head"])
  /\ UNCHANGED <<ctxDone, participant, announced>>

\* Faulty: any answer of the IPNI node counts as success.
AnnounceUnchecked ==
  /\ pc = "announce"
  /\ \/ ~ctxDone /\ announced' = announced \cup {target.head}
     \/ announced' = announced
  /\ Return([target EXCEPT !.status = "ok"])
  /\ UNCHANGED <<ctxDone, participant>>

\* The IPNI node may take the announcement and its answer be lost.
Announce ==
  /\ pc = "announce"
  /\ \/ /\ ~ctxDone
        /\ announced' = announced \cup {target.head}
        /\ Return([target EXCEPT !.status = "ok"])
     \/ /\ announced' \in {announced, announced \cup {target.head}}
        /\ Return([target EXCEPT !.err = "announce", !.status = "err-announce"])
  /\ UNCHANGED <<ctxDone, participant>>

check == \/ StateMinerPower \/ StateMinerInfoFails \/ StateMinerInfo
         \/ IsKnownByIndexer \/ Connect \/ GetProtocols
         \/ OpenTransportsStream \/ ReadTransports \/ MatchHeadProtocol \/ GetHead \/ Announce

------------------------------------------------------------------------------
(* The world around the check.                                             *)

\* The participant publishes an advertisement.
Publish(p, h) ==
  /\ h # head[p]
  /\ head' = [head EXCEPT ![p] = h]
  /\ served' = served \cup {<<p, h>>}
  /\ UNCHANGED <<pc, target, ctxDone, info, supports, hangs, announced>>

Cancel ==
  /\ ~ctxDone
  /\ ctxDone' = TRUE
  /\ UNCHANGED <<pc, target, participant, announced>>

Next == \/ check
        \/ \E p \in HeadProtocols, h \in Cids : Publish(p, h)
        \/ Cancel

Spec == Init /\ [][Next]_vars

\* The checker goroutine is scheduled.  The Filecoin API, the indexer and the
\* dialer answer or fail; the participant may hang, where it is queried.
FairSpec == Spec /\ WF_vars(check)

------------------------------------------------------------------------------
(* Properties.                                                             *)

\* Every variable has its type; only heads, never cid.Undef, are announced.
TypeOK ==
  /\ pc \in {"power", "info", "known", "connect", "protocols", "transports", "reading",
             "match", "head", "announce", "done"}
  /\ target \in Targets
  /\ ctxDone \in BOOLEAN
  /\ info \in Infos /\ hangs \in BOOLEAN
  /\ supports \subseteq Protocols
  /\ head \in [HeadProtocols -> Cids \cup {Undef}]
  /\ served \subseteq HeadProtocols \X (Cids \cup {Undef})
  /\ announced \subseteq Cids

\* A finished check has a verdict, a time, and an error message exactly when
\* its status is one of the failures: none is overwritten by a later call,
\* and the errors that are only logged never show.
VerdictMatchesError ==
  pc = "done" => /\ target.status # "unknown"
                 /\ target.lastChecked
                 /\ target.errMessage # Nothing <=> target.status \in Failing

\* Each verdict rests on what the check was told on the way to it, and the
\* IPNI node is given nothing but the head of a check that got one: what a
\* check announced, lost answers included, shows in its status and its head.
VerdictMatchesFindings ==
  pc = "done" =>
    /\ target.status \in Indexing \cup {"unindexed", "topic-mismatch", "unreachable"}
         => target.addrInfo = "full"
    /\ Range(target.protocols) \subseteq supports
    /\ target.status = "unindexed" => Range(target.protocols) \cap HeadProtocols = {}
    /\ target.status = "topic-mismatch" =>
         target.headProtocol \in supports /\ TopicOf[target.headProtocol] # Topic
    /\ target.status \in Indexing =>
         target.headProtocol \in supports /\ TopicOf[target.headProtocol] = Topic
    /\ announced \subseteq {target.head}
    /\ announced # {} => target.status \in {"ok", "err-announce"}

\* README.md: ok is "an index provider with non-empty head successfully
\* announced"; the head is one it served on the topic, perhaps not its newest.
OkIsAnnounced ==
  target.status = "ok" => /\ target.head \in announced
                          /\ <<target.headProtocol, target.head>> \in served
                          /\ TopicOf[target.headProtocol] = Topic

\* Whatever fails, the IPNI node is only ever given heads that the
\* participant served on the expected topic.
AnnouncedWasServed ==
  \A h \in announced : \E p \in HeadProtocols : TopicOf[p] = Topic /\ <<p, h>> \in served

\* A check ends, or waits for the answer of a participant that hangs: for the
\* head until the cancellation, for the transports even after it.  No other
\* call to the participant can hold a checker for good.
OnlyAnswersHang ==
  []<>(pc = "done" \/ (hangs /\ (pc = "reading" \/ (pc = "head" /\ ~ctxDone))))

\* README.md: topic-mismatch is "an IPNI index provider but not on the
\* expected topic".
MismatchIsMismatch ==
  pc = "done" /\ target.status = "topic-mismatch" =>
    \A p \in supports \cap HeadProtocols : TopicOf[p] # Topic
==============================================================================
