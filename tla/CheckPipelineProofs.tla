------------------------- MODULE CheckPipelineProofs -------------------------
(***************************************************************************)
(* Proofs about CheckPipeline for any number of miners, checkers, rounds   *)
(* and any channel capacities.  The invariants and the refinement rest on  *)
(* one inductive invariant, IInv: the stations a Target passes through     *)
(* hold disjoint sets of Targets (Exclusive), and at every station nearer  *)
(* to the dispatcher the Targets of a miner are newer (Ordered).           *)
(***************************************************************************)
EXTENDS CheckPipeline, SequenceTheorems, FiniteSetTheorems, TLAPS

Started == InFlight \cup Published
Everything == Waiting \cup Range(toCheck) \cup Started

\* A checker holds a Target exactly while it works on one; only a dispatch
\* that is sending has miners left; a result is filed under its own miner.
Stations ==
  /\ \A c \in Checkers : hand[c] = NoTarget <=> checker[c] \in {"idle", "stopped"}
  /\ dispatcher # "sending" => todo = {}
  /\ \A m \in Miners : targets[m] # NoTarget => targets[m].id = m

Ordered ==
  /\ \A t \in Everything : t.round <= round
  /\ \A w \in Waiting, t \in Range(toCheck) \cup Started :
       w.id = t.id => t.round < w.round
  /\ \A q \in Range(toCheck), t \in Started : q.id = t.id => t.round < q.round
  /\ \A i, k \in DOMAIN toCheck :
       i < k /\ toCheck[i].id = toCheck[k].id => toCheck[i].round < toCheck[k].round

Exclusive ==
  /\ IsInjective(checked)
  /\ \A c, d \in Checkers : c # d /\ hand[c] # NoTarget => hand[c] # hand[d]
  /\ Held \cap Range(checked) = {}
  /\ InFlight \cap Published = {}

IInv == TypeOK /\ Stations /\ Ordered /\ Exclusive

------------------------------------------------------------------------------
(* Channels: what sending and receiving do to the Targets in a channel.    *)

\* Sending x adds x to the Targets in a channel, and keeps its entries
\* distinct if x was not among them.
LEMMA SendElements ==
  ASSUME NEW S, NEW q \in Seq(S), NEW e \in S
  PROVE  /\ Append(q, e) \in Seq(S)
         /\ Len(Append(q, e)) = Len(q) + 1
         /\ Range(Append(q, e)) = Range(q) \cup {e}
         /\ IsInjective(q) /\ e \notin Range(q) => IsInjective(Append(q, e))
<1> DEFINE r == Append(q, e)
<1>1. /\ r \in Seq(S) /\ Len(r) = Len(q) + 1
      /\ DOMAIN r = 1 .. Len(q) + 1 /\ DOMAIN q = 1 .. Len(q)
      /\ \A i \in 1 .. Len(q) : r[i] = q[i]
      /\ r[Len(q) + 1] = e /\ Len(q) \in Nat
  OBVIOUS
<1>2. Range(r) = Range(q) \cup {e}
  <2>1. ASSUME NEW x \in Range(r) PROVE x \in Range(q) \cup {e}
    <3>1. PICK i \in DOMAIN r : x = r[i]
      BY <2>1 DEF Range
    <3>2. CASE i = Len(q) + 1
      BY <3>1, <3>2, <1>1
    <3>3. CASE i \in 1 .. Len(q)
      BY <3>1, <3>3, <1>1 DEF Range
    <3> QED
      BY <3>2, <3>3, <1>1
  <2>2. ASSUME NEW x \in Range(q) PROVE x \in Range(r)
    BY <2>2, <1>1 DEF Range
  <2>3. e \in Range(r)
    <3>1. Len(q) + 1 \in DOMAIN r
      BY <1>1
    <3> QED
      BY <3>1, <1>1 DEF Range
  <2> QED
    BY <2>1, <2>2, <2>3
<1>3. ASSUME IsInjective(q), e \notin Range(q) PROVE IsInjective(r)
  <2> SUFFICES ASSUME NEW i \in DOMAIN r, NEW k \in DOMAIN r, r[i] = r[k]
               PROVE  i = k
    BY DEF IsInjective
  <2>1. \A n \in 1 .. Len(q) : q[n] # e
    BY <1>1, <1>3 DEF Range
  <2>2. CASE i \in 1 .. Len(q) /\ k \in 1 .. Len(q)
    BY <2>2, <1>1, <1>3 DEF IsInjective
  <2>3. CASE i = Len(q) + 1 \/ k = Len(q) + 1
    BY <2>1, <2>3, <1>1
  <2> QED
    BY <2>2, <2>3, <1>1
<1> QED
  BY <1>1, <1>2, <1>3

\* Receiving takes the head out of a channel whose entries are distinct,
\* and nothing else.
LEMMA ReceiveElements ==
  ASSUME NEW S, NEW q \in Seq(S), q # <<>>
  PROVE  /\ Tail(q) \in Seq(S) /\ Head(q) \in S
         /\ Len(Tail(q)) = Len(q) - 1 /\ Len(q) \in Nat \ {0}
         /\ \A i \in DOMAIN Tail(q) : i + 1 \in DOMAIN q /\ Tail(q)[i] = q[i + 1]
         /\ 1 \in DOMAIN q /\ Head(q) = q[1]
         /\ Range(q) = Range(Tail(q)) \cup {Head(q)}
         /\ IsInjective(q) => /\ IsInjective(Tail(q))
                              /\ Head(q) \notin Range(Tail(q))
<1> DEFINE r == Tail(q)
<1>1. /\ r \in Seq(S) /\ Len(r) = Len(q) - 1 /\ Len(q) \in Nat \ {0}
      /\ \A i \in 1 .. Len(r) : r[i] = q[i + 1]
      /\ Head(q) = q[1] /\ Head(q) \in S
      /\ DOMAIN q = 1 .. Len(q) /\ DOMAIN r = 1 .. Len(q) - 1
  BY HeadTailProperties, EmptySeq, LenProperties
<1>2. Range(q) = Range(r) \cup {Head(q)}
  <2>1. ASSUME NEW x \in Range(q) PROVE x \in Range(r) \cup {Head(q)}
    <3>1. PICK i \in DOMAIN q : x = q[i]
      BY <2>1 DEF Range
    <3>2. CASE i = 1
      BY <3>1, <3>2, <1>1
    <3>3. CASE i # 1
      <4>1. i - 1 \in DOMAIN r /\ r[i - 1] = q[i]
        BY <3>3, <1>1
      <4> QED
        BY <4>1, <3>1 DEF Range
    <3> QED
      BY <3>2, <3>3
  <2>2. ASSUME NEW x \in Range(r) PROVE x \in Range(q)
    <3>1. PICK i \in DOMAIN r : x = r[i]
      BY <2>2 DEF Range
    <3>2. i + 1 \in DOMAIN q /\ q[i + 1] = x
      BY <3>1, <1>1
    <3> QED
      BY <3>2 DEF Range
  <2>3. Head(q) \in Range(q)
    BY <1>1 DEF Range
  <2> QED
    BY <2>1, <2>2, <2>3
<1>3. ASSUME IsInjective(q) PROVE IsInjective(r) /\ Head(q) \notin Range(r)
  <2>1. ASSUME NEW i \in DOMAIN r, NEW k \in DOMAIN r, r[i] = r[k] PROVE i = k
    <3>1. i + 1 \in DOMAIN q /\ k + 1 \in DOMAIN q /\ q[i + 1] = q[k + 1]
      BY <2>1, <1>1
    <3>2. i + 1 = k + 1
      BY <3>1, <1>3 DEF IsInjective
    <3> QED
      BY <3>2, <1>1
  <2>2. ASSUME NEW i \in DOMAIN r PROVE r[i] # Head(q)
    <3>1. i + 1 \in DOMAIN q /\ i + 1 # 1 /\ r[i] = q[i + 1] /\ 1 \in DOMAIN q
      BY <1>1
    <3> QED
      BY <3>1, <1>1, <1>3 DEF IsInjective
  <2> QED
    BY <2>1, <2>2 DEF IsInjective, Range
<1> QED
  BY <1>1, <1>2, <1>3

------------------------------------------------------------------------------
(* Hands: what taking a Target and letting go of it do to the Targets held.*)

\* A checker with empty hands that takes t adds t to the Targets held.
LEMMA HeldTake ==
  ASSUME hand \in [Checkers -> Targets \cup {NoTarget}], NEW c \in Checkers,
         NEW t \in Targets, hand[c] = NoTarget, NoTarget \notin Targets,
         hand' = [hand EXCEPT ![c] = t]
  PROVE  /\ Held' = Held \cup {t}
         /\ \A d \in Checkers : hand'[d] = IF d = c THEN t ELSE hand[d]
<1>1. \A d \in Checkers : hand'[d] = IF d = c THEN t ELSE hand[d]
  OBVIOUS
<1>2. ASSUME NEW x \in Held PROVE x \in Held'
  <2>1. PICK d \in Checkers : hand[d] = x /\ x # NoTarget
    BY <1>2 DEF Held
  <2> QED
    BY <2>1, <1>1 DEF Held
<1>3. t \in Held'
  BY <1>1 DEF Held
<1>4. ASSUME NEW x \in Held' PROVE x \in Held \cup {t}
  <2>1. PICK d \in Checkers : hand'[d] = x /\ x # NoTarget
    BY <1>4 DEF Held
  <2> QED
    BY <2>1, <1>1 DEF Held
<1> QED
  BY <1>1, <1>2, <1>3, <1>4

\* A checker that lets go of its Target takes just that one from those held.
LEMMA HeldRelease ==
  ASSUME hand \in [Checkers -> Targets \cup {NoTarget}], NEW c \in Checkers,
         hand[c] # NoTarget,
         \A b, d \in Checkers : b # d /\ hand[b] # NoTarget => hand[b] # hand[d],
         hand' = [hand EXCEPT ![c] = NoTarget]
  PROVE  /\ Held' = Held \ {hand[c]}
         /\ hand[c] \in Held
         /\ \A d \in Checkers : hand'[d] = IF d = c THEN NoTarget ELSE hand[d]
<1>1. \A d \in Checkers : hand'[d] = IF d = c THEN NoTarget ELSE hand[d]
  OBVIOUS
<1>2. ASSUME NEW x \in Held, x # hand[c] PROVE x \in Held'
  <2>1. PICK d \in Checkers : hand[d] = x /\ x # NoTarget
    BY <1>2 DEF Held
  <2> QED
    BY <2>1, <1>1, <1>2 DEF Held
<1>3. ASSUME NEW x \in Held' PROVE x \in Held /\ x # hand[c]
  <2>1. PICK d \in Checkers : hand'[d] = x /\ x # NoTarget
    BY <1>3 DEF Held
  <2>2. d # c /\ hand[d] = x
    BY <2>1, <1>1
  <2> QED
    BY <2>1, <2>2 DEF Held
<1>4. hand[c] \in Held
  BY DEF Held
<1> QED
  BY <1>1, <1>2, <1>3, <1>4

------------------------------------------------------------------------------
(* Type correctness.  Send needs Stations: only a checker with a Target in *)
(* its hand is sending.                                                    *)

\* What the initial states of the pipeline have in common, with the store
\* loaded or not yet: of each miner no result is there, or that of the store.
AtStart ==
  /\ Idle
  /\ targets \in [Miners -> Targets \cup {NoTarget}]
  /\ \E stored \in [Miners -> Statuses] :
       /\ status = Heap(stored)
       /\ \A m \in Miners : targets[m] # NoTarget => targets[m] = At(m, 0) /\ stored[m] # "unknown"

\* The pipeline starts with the store loaded.
LEMMA InitAtStart == Init => AtStart
<1> SUFFICES ASSUME Init PROVE AtStart
  OBVIOUS
<1>1. PICK stored \in [Miners -> Statuses] :
        /\ targets = [m \in Miners |-> IF stored[m] = "unknown" THEN NoTarget ELSE At(m, 0)]
        /\ status = Heap(stored)
  BY DEF Init
<1>2. targets \in [Miners -> Targets \cup {NoTarget}]
  BY <1>1, PipelineAssumption DEF Targets, At
<1>3. \A m \in Miners : targets[m] # NoTarget => targets[m] = At(m, 0) /\ stored[m] # "unknown"
  BY <1>1
<1> QED
  BY <1>1, <1>2, <1>3 DEF Init, AtStart

\* The service starts with every variable in its type.
LEMMA TypesInit == AtStart => TypeOK /\ Stations
<1> SUFFICES ASSUME AtStart PROVE TypeOK /\ Stations
  OBVIOUS
<1> USE PipelineAssumption
<1>1. PICK stored \in [Miners -> Statuses] : status = Heap(stored)
  BY DEF AtStart
<1>2. \A m \in Miners : targets[m] # NoTarget => targets[m].id = m
  BY DEF AtStart, At
<1>3. status \in [[id : Miners, round : 0 .. MaxRounds] -> Statuses]
  BY <1>1 DEF Heap, Statuses
<1>4. toCheck = <<>> /\ checked = <<>>
  BY DEF AtStart, Idle
<1>5. /\ toCheck \in Seq(Targets) /\ Len(toCheck) <= ToCheckCap
      /\ checked \in Seq(Targets) /\ Len(checked) <= CheckedCap
  BY <1>4
<1>6. TypeOK
  <2>1. /\ checker \in [Checkers -> {"idle", "checking", "doomed", "sending", "stopped"}]
        /\ hand \in [Checkers -> Targets \cup {NoTarget}]
        /\ reported \in [Miners -> Targets \cup {NoTarget}]
    BY DEF AtStart, Idle
  <2>2. round \in 0 .. MaxRounds /\ todo \subseteq Miners
    BY DEF AtStart, Idle
  <2> QED
    BY <1>3, <1>5, <2>1, <2>2 DEF AtStart, Idle, TypeOK
<1>7. Stations
  BY <1>2 DEF AtStart, Idle, Stations
<1> QED
  BY <1>6, <1>7

\* No step of any goroutine takes a variable out of its type.
LEMMA TypesStep ==
  ASSUME TypeOK, Stations, [Next]_vars
  PROVE  TypeOK' /\ Stations'
<1> USE PipelineAssumption
<1>1. ASSUME NEW S \in SUBSET Miners, ListMiners(S) PROVE TypeOK' /\ Stations'
  BY <1>1 DEF TypeOK, Stations, ListMiners
<1>2. CASE ListFails
  BY <1>2 DEF TypeOK, Stations, ListFails
<1>3. ASSUME NEW m \in Miners, Enqueue(m) PROVE TypeOK' /\ Stations'
  <2>1. newTarget(m) \in Targets
    BY DEF TypeOK, newTarget, At, Targets
  <2>2. toCheck' \in Seq(Targets) /\ Len(toCheck') <= ToCheckCap
    BY <2>1, <1>3, SendElements DEF TypeOK, Enqueue
  <2> QED
    BY <2>2, <1>3 DEF TypeOK, Stations, Enqueue
<1>4. CASE AbortDispatch
  BY <1>4 DEF TypeOK, Stations, AbortDispatch
<1>5. CASE OnCheckTick
  BY <1>5 DEF TypeOK, Stations, OnCheckTick
<1>6. CASE StopDispatcher
  BY <1>6 DEF TypeOK, Stations, StopDispatcher
<1>7. ASSUME NEW c \in Checkers, Take(c) PROVE TypeOK' /\ Stations'
  <2>1. /\ toCheck' \in Seq(Targets) /\ Len(toCheck') <= ToCheckCap
        /\ Head(toCheck) \in Targets
    BY <1>7, ReceiveElements DEF TypeOK, Take
  <2>2. Head(toCheck) # NoTarget
    BY <2>1 DEF Targets
  <2>3. /\ hand' \in [Checkers -> Targets \cup {NoTarget}]
        /\ checker' \in [Checkers -> {"idle", "checking", "doomed", "sending", "stopped"}]
        /\ \A d \in Checkers : hand'[d] = IF d = c THEN Head(toCheck) ELSE hand[d]
        /\ \A d \in Checkers : d # c => checker'[d] = checker[d]
        /\ checker'[c] \in {"checking", "doomed"}
    BY <1>7, <2>1 DEF TypeOK, Take
  <2>4. TypeOK'
    BY <2>1, <2>3, <1>7 DEF TypeOK, Take
  <2>5. Stations'
    BY <2>2, <2>3, <1>7 DEF Stations, Take
  <2> QED
    BY <2>4, <2>5
<1>8. ASSUME NEW c \in Checkers, FinishCheck(c) PROVE TypeOK' /\ Stations'
  <2>2. PICK s \in Statuses : MayEnd(c, s) /\ status' = [status EXCEPT ![hand[c]] = s]
    BY <1>8 DEF FinishCheck
  <2>3. status' \in [[id : Miners, round : 0 .. MaxRounds] -> Statuses]
    BY <2>2 DEF TypeOK
  <2>4. checker[c] \in {"doomed", "checking"}
    BY <2>2 DEF MayEnd
  <2>5. TypeOK'
    BY <2>3, <1>8 DEF TypeOK, FinishCheck
  <2>6. Stations'
    BY <2>4, <1>8 DEF Stations, FinishCheck, TypeOK
  <2> QED
    BY <2>5, <2>6
<1>9. ASSUME NEW c \in Checkers, Send(c) PROVE TypeOK' /\ Stations'
  <2>1. hand[c] \in Targets
    BY <1>9 DEF TypeOK, Stations, Send
  <2>2. checked' \in Seq(Targets) /\ Len(checked') <= CheckedCap
    BY <2>1, <1>9, SendElements DEF TypeOK, Send
  <2>3. TypeOK'
    BY <2>2, <1>9 DEF TypeOK, Send
  <2>4. Stations'
    BY <1>9 DEF Stations, Send, TypeOK
  <2> QED
    BY <2>3, <2>4
<1>10. ASSUME NEW c \in Checkers, StopChecker(c) PROVE TypeOK' /\ Stations'
  <2>1. TypeOK'
    BY <1>10 DEF TypeOK, StopChecker
  <2>2. Stations'
    BY <1>10 DEF Stations, StopChecker, TypeOK
  <2> QED
    BY <2>1, <2>2
<1>11. CASE Record
  <2>1. /\ checked' \in Seq(Targets) /\ Len(checked') <= CheckedCap
        /\ Head(checked) \in Targets
    BY <1>11, ReceiveElements DEF TypeOK, Record
  <2>2. Head(checked).id \in Miners
    BY <2>1 DEF Targets
  <2>3. /\ targets' \in [Miners -> Targets \cup {NoTarget}]
        /\ \A m \in Miners : targets'[m] = IF m = Head(checked).id THEN Head(checked)
                                                                 ELSE targets[m]
    BY <2>1, <2>2, <1>11 DEF TypeOK, Record
  <2>4. TypeOK'
    BY <2>1, <2>3, <1>11 DEF TypeOK, Record
  <2>5. Stations'
    BY <2>3, <1>11 DEF Stations, Record
  <2> QED
    BY <2>4, <2>5
<1>12. CASE Snapshot
  BY <1>12 DEF TypeOK, Stations, Snapshot
<1>13. CASE StopHandler
  BY <1>13 DEF TypeOK, Stations, StopHandler
<1>14. CASE Environment
  BY <1>14 DEF TypeOK, Stations, Environment, CheckTick, SnapshotTick, Cancel
<1>15. CASE UNCHANGED vars
  BY <1>15 DEF TypeOK, Stations, vars
<1> QED
  BY <1>1, <1>2, <1>3, <1>4, <1>5, <1>6, <1>7, <1>8, <1>9, <1>10, <1>11, <1>12,
     <1>13, <1>14, <1>15 DEF Next, Dispatcher, Checker, Handler

\* Every variable keeps its type and no channel exceeds its capacity, however
\* the goroutines interleave.
THEOREM TypeCorrect == Spec => []TypeOK
<1>1. Init => TypeOK /\ Stations
  BY InitAtStart, TypesInit
<1>2. TypeOK /\ Stations /\ [Next]_vars => TypeOK' /\ Stations'
  BY TypesStep
<1> QED
  BY <1>1, <1>2, PTL DEF Spec

------------------------------------------------------------------------------
(* The inductive invariant.                                                *)

\* Where a Target sits decides which of the sets of the invariant it is in.
LEMMA Members ==
  ASSUME TypeOK
  PROVE  /\ Waiting \subseteq Targets /\ Range(toCheck) \subseteq Targets
         /\ Held \subseteq Targets /\ Range(checked) \subseteq Targets
         /\ Published \subseteq Targets
         /\ \A t \in Targets : t.round \in Nat /\ t.id \in Miners
         /\ round \in Nat
<1> USE PipelineAssumption
<1>1. round \in Nat
  BY DEF TypeOK
<1>2. Waiting \subseteq Targets
  BY <1>1 DEF TypeOK, Waiting, newTarget, At, Targets
<1>3. Range(toCheck) \subseteq Targets /\ Range(checked) \subseteq Targets
  BY DEF TypeOK, Range
<1>4. Held \subseteq Targets
  BY DEF TypeOK, Held
<1>5. Published \subseteq Targets
  <2>1. Range(targets) \subseteq Targets \cup {NoTarget}
    BY DEF TypeOK, Range
  <2>2. Range(reported) \subseteq Targets \cup {NoTarget}
    BY DEF TypeOK, Range
  <2> QED
    BY <2>1, <2>2 DEF Published
<1>6. \A t \in Targets : t.round \in Nat /\ t.id \in Miners
  BY DEF Targets
<1> QED
  BY <1>1, <1>2, <1>3, <1>4, <1>5, <1>6

\* A Target in the channel toCheck has not begun.
LEMMA QueuedIsNew ==
  ASSUME TypeOK, Ordered, NEW q \in Range(toCheck)
  PROVE  q \notin Started
BY Members DEF Ordered

\* Nor has one that the dispatcher still has to send, and it is not queued.
LEMMA WaitingIsNew ==
  ASSUME TypeOK, Ordered, NEW w \in Waiting
  PROVE  w \notin Range(toCheck) /\ w \notin Started
BY Members DEF Ordered

\* At the start no check is outstanding, and the stored results are round 0.
LEMMA OrderInit == AtStart => Ordered /\ Exclusive
<1> SUFFICES ASSUME AtStart PROVE Ordered /\ Exclusive
  OBVIOUS
<1>1. toCheck = <<>> /\ checked = <<>> /\ todo = {} /\ round = 0
  BY DEF AtStart, Idle
<1>2. Waiting = {} /\ Range(toCheck) = {} /\ Range(checked) = {}
  BY <1>1 DEF Waiting, Range
<1>3. Held = {} /\ \A c \in Checkers : hand[c] = NoTarget
  BY DEF AtStart, Idle, Held
<1>4. \A t \in Published : t.round = 0
  <2>1. Range(reported) \subseteq {NoTarget}
    BY DEF AtStart, Idle, Range
  <2>2. \A t \in Range(targets) \ {NoTarget} : t.round = 0
    BY DEF AtStart, Range, At
  <2> QED
    BY <2>1, <2>2 DEF Published
<1>5. Everything = Published /\ Started = Published /\ InFlight = {}
  BY <1>2, <1>3 DEF Everything, Started, InFlight
<1>6. Ordered
  BY <1>1, <1>2, <1>4, <1>5 DEF Ordered
<1>7. Exclusive
  BY <1>1, <1>2, <1>3, <1>5 DEF Exclusive, IsInjective
<1> QED
  BY <1>6, <1>7

\* Steps that move no Target.
LEMMA Unmoved ==
  ASSUME Ordered, Exclusive,
         UNCHANGED <<round, todo, toCheck, hand, checked, targets, reported>>
  PROVE  Ordered' /\ Exclusive'
<1>1. /\ Waiting' = Waiting /\ Range(toCheck)' = Range(toCheck)
      /\ Held' = Held /\ Range(checked)' = Range(checked)
      /\ Published' = Published
  BY DEF Waiting, newTarget, At, Range, Held, Published
<1>2. Started' = Started /\ Everything' = Everything /\ InFlight' = InFlight
  BY <1>1 DEF Started, Everything, InFlight
<1>3. Ordered'
  BY <1>1, <1>2 DEF Ordered
<1>4. Exclusive'
  BY <1>1, <1>2 DEF Exclusive
<1> QED
  BY <1>3, <1>4

\* Steps after which the checks that have begun are among those that had.
LEMMA StartedShrinks ==
  ASSUME Ordered, Started' \subseteq Started, Waiting' \subseteq Waiting,
         UNCHANGED <<toCheck, round>>
  PROVE  Ordered'
<1>1. Range(toCheck)' = Range(toCheck)
  BY DEF Range
<1>2. Everything' \subseteq Everything
  BY <1>1 DEF Everything
<1> QED
  BY <1>1, <1>2 DEF Ordered

\* A dispatch lists the miners: its round is newer than all before.
LEMMA ListMinersStep ==
  ASSUME TypeOK, Stations, Ordered, Exclusive, NEW S \in SUBSET Miners, ListMiners(S)
  PROVE  /\ Ordered' /\ Exclusive'
         /\ Outstanding' = Outstanding \cup {At(m, round') : m \in S}
<1>1. /\ UNCHANGED <<toCheck, hand, checked, targets, reported>>
      /\ round' = round + 1 /\ Waiting = {}
  BY DEF ListMiners, Stations, Waiting
<1>2. /\ Range(toCheck)' = Range(toCheck)
      /\ Held' = Held /\ Range(checked)' = Range(checked)
      /\ Published' = Published
  BY <1>1 DEF Range, Held, Published
<1>3. Started' = Started /\ InFlight' = InFlight
  BY <1>2 DEF Started, InFlight
<1>4. \A w \in Waiting' : w.round = round + 1
  BY <1>1 DEF Waiting, newTarget, At
<1>5. \A t \in Range(toCheck) \cup Started : t.round \in Nat /\ t.round <= round
  BY Members DEF Ordered, Everything, Started, InFlight
<1>6. round \in Nat
  BY Members
<1>7. Ordered'
  <2>1. \A t \in Everything' : t.round <= round'
    BY <1>1, <1>2, <1>3, <1>4, <1>5, <1>6 DEF Everything
  <2>2. \A w \in Waiting', t \in Range(toCheck)' \cup Started' :
          w.id = t.id => t.round < w.round
    BY <1>2, <1>3, <1>4, <1>5, <1>6
  <2> QED
    BY <2>1, <2>2, <1>1, <1>2, <1>3 DEF Ordered
<1>8. Exclusive'
  BY <1>1, <1>2, <1>3 DEF Exclusive
<1>9. Outstanding' = Outstanding \cup {At(m, round') : m \in S}
  BY <1>1, <1>2, <1>3 DEF Outstanding, ListMiners, Waiting, newTarget, At
<1> QED
  BY <1>7, <1>8, <1>9

\* The dispatcher sends a Target to toCheck: it moves to the end of the queue.
LEMMA EnqueueStep ==
  ASSUME TypeOK, Ordered, Exclusive, NEW m \in Miners, Enqueue(m)
  PROVE  Ordered' /\ Exclusive' /\ Outstanding' = Outstanding
<1> DEFINE e == newTarget(m)
<1>1. /\ UNCHANGED <<hand, checked, targets, reported, round>>
      /\ toCheck' = Append(toCheck, e) /\ todo' = todo \ {m} /\ m \in todo
  BY DEF Enqueue
<1>2. /\ Held' = Held /\ Range(checked)' = Range(checked)
      /\ Published' = Published
  BY <1>1 DEF Range, Held, Published
<1>3. Started' = Started /\ InFlight' = InFlight
  BY <1>2 DEF Started, InFlight
<1>4. e \in Waiting /\ e.id = m /\ e \in Targets
  BY <1>1, Members DEF Waiting, newTarget, At
<1>5. Waiting' \subseteq Waiting /\ \A w \in Waiting' : w.id # m
  BY <1>1 DEF Waiting, newTarget, At, TypeOK
<1>6. Range(toCheck)' = Range(toCheck) \cup {e}
  BY <1>1, <1>4, SendElements DEF TypeOK
<1>7. Everything' \subseteq Everything
  BY <1>3, <1>4, <1>5, <1>6 DEF Everything
<1>8. Ordered'
  <2>1. \A w \in Waiting', t \in Range(toCheck)' \cup Started' :
          w.id = t.id => t.round < w.round
    BY <1>3, <1>4, <1>5, <1>6 DEF Ordered
  <2>2. \A q \in Range(toCheck)', t \in Started' : q.id = t.id => t.round < q.round
    BY <1>3, <1>4, <1>6 DEF Ordered
  <2>3. ASSUME NEW i \in DOMAIN toCheck', NEW k \in DOMAIN toCheck',
               i < k, toCheck'[i].id = toCheck'[k].id
        PROVE  toCheck'[i].round < toCheck'[k].round
    <3>1. /\ i \in DOMAIN toCheck /\ toCheck'[i] = toCheck[i]
          /\ \/ k \in DOMAIN toCheck /\ toCheck'[k] = toCheck[k]
             \/ toCheck'[k] = e
      BY <1>1, <1>4, <2>3 DEF TypeOK
    <3>2. toCheck[i] \in Range(toCheck)
      BY <3>1 DEF Range
    <3> QED
      BY <3>1, <3>2, <2>3, <1>4 DEF Ordered
  <2> QED
    BY <2>1, <2>2, <2>3, <1>1, <1>7 DEF Ordered
<1>9. Exclusive'
  BY <1>1, <1>2, <1>3 DEF Exclusive
<1>10. Waiting = Waiting' \cup {e}
  BY <1>1 DEF Waiting, newTarget, At
<1>11. Outstanding' = Outstanding
  BY <1>3, <1>6, <1>10 DEF Outstanding
<1> QED
  BY <1>8, <1>9, <1>11

\* A checker takes a Target from toCheck: the first of the queue begins.
LEMMA TakeStep ==
  ASSUME TypeOK, Stations, Ordered, Exclusive, NEW c \in Checkers, Take(c)
  PROVE  Ordered' /\ Exclusive' /\ Outstanding' = Outstanding
<1> DEFINE h == Head(toCheck)
<1>1. /\ UNCHANGED <<todo, checked, targets, reported, round>>
      /\ toCheck' = Tail(toCheck) /\ toCheck # <<>>
      /\ hand' = [hand EXCEPT ![c] = h] /\ hand[c] = NoTarget
  BY DEF Take, Stations
<1>2. /\ h \in Targets
      /\ \A i \in DOMAIN toCheck' : i + 1 \in DOMAIN toCheck
                                   /\ toCheck'[i] = toCheck[i + 1]
      /\ 1 \in DOMAIN toCheck /\ h = toCheck[1]
      /\ Range(toCheck) = Range(toCheck') \cup {h}
  BY <1>1, ReceiveElements DEF TypeOK
<1>3. DOMAIN toCheck' \subseteq Nat \ {0}
  BY <1>1, ReceiveElements DEF TypeOK
<1>4. /\ Held' = Held \cup {h}
      /\ \A d \in Checkers : hand'[d] = IF d = c THEN h ELSE hand[d]
  BY <1>1, <1>2, HeldTake, PipelineAssumption DEF TypeOK, Targets
<1>5. /\ Range(checked)' = Range(checked) /\ Published' = Published
      /\ Waiting' = Waiting
  BY <1>1 DEF Range, Published, Waiting, newTarget
<1>6. Started' = Started \cup {h} /\ InFlight' = InFlight \cup {h}
  BY <1>4, <1>5 DEF Started, InFlight
<1>7. h \notin Started
  BY <1>2, QueuedIsNew
<1>8. Everything' \subseteq Everything
  BY <1>2, <1>5, <1>6 DEF Everything
<1>9. Ordered'
  <2>1. \A w \in Waiting', t \in Range(toCheck)' \cup Started' :
          w.id = t.id => t.round < w.round
    BY <1>2, <1>5, <1>6 DEF Ordered
  <2>2. \A q \in Range(toCheck)', t \in Started' : q.id = t.id => t.round < q.round
    <3>1. ASSUME NEW q \in Range(toCheck'), q.id = h.id PROVE h.round < q.round
      <4>1. PICK i \in DOMAIN toCheck' : q = toCheck'[i]
        BY <3>1 DEF Range
      <4>2. i + 1 \in DOMAIN toCheck /\ q = toCheck[i + 1] /\ 1 < i + 1
        BY <4>1, <1>2, <1>3
      <4> QED
        BY <4>2, <1>2, <3>1 DEF Ordered
    <3> QED
      BY <3>1, <1>2, <1>6 DEF Ordered
  <2>3. ASSUME NEW i \in DOMAIN toCheck', NEW k \in DOMAIN toCheck',
               i < k, toCheck'[i].id = toCheck'[k].id
        PROVE  toCheck'[i].round < toCheck'[k].round
    <3>1. i + 1 < k + 1
      BY <2>3, <1>3
    <3> QED
      BY <3>1, <2>3, <1>2 DEF Ordered
  <2> QED
    BY <2>1, <2>2, <2>3, <1>1, <1>8 DEF Ordered
<1>10. Exclusive'
  <2>1. \A d \in Checkers : hand[d] # h
    BY <1>7, <1>2, PipelineAssumption DEF Started, InFlight, Held, Targets
  <2>2. \A b, d \in Checkers : b # d /\ hand'[b] # NoTarget => hand'[b] # hand'[d]
    BY <2>1, <1>4 DEF Exclusive
  <2>3. Held' \cap Range(checked)' = {} /\ InFlight' \cap Published' = {}
    BY <1>4, <1>5, <1>6, <1>7 DEF Exclusive, Started, InFlight
  <2> QED
    BY <2>2, <2>3, <1>1 DEF Exclusive
<1>11. Outstanding' = Outstanding
  BY <1>2, <1>5, <1>6 DEF Outstanding
<1> QED
  BY <1>9, <1>10, <1>11

\* A checker sends its Target to checked: it changes hands, still under way.
LEMMA SendStep ==
  ASSUME TypeOK, Stations, Ordered, Exclusive, NEW c \in Checkers, Send(c)
  PROVE  Ordered' /\ Exclusive' /\ Outstanding' = Outstanding
<1> DEFINE h == hand[c]
<1>1. /\ UNCHANGED <<todo, toCheck, targets, reported, round>>
      /\ checked' = Append(checked, h) /\ hand' = [hand EXCEPT ![c] = NoTarget]
      /\ h # NoTarget
  BY DEF Send, Stations
<1>2. /\ Held' = Held \ {h} /\ h \in Held
      /\ \A d \in Checkers : hand'[d] = IF d = c THEN NoTarget ELSE hand[d]
  BY <1>1, HeldRelease DEF TypeOK, Exclusive
<1>3. h \in Targets /\ h \notin Range(checked)
  BY <1>2, Members DEF Exclusive
<1>4. Range(checked') = Range(checked) \cup {h} /\ IsInjective(checked')
  BY <1>1, <1>3, SendElements DEF TypeOK, Exclusive
<1>5. Published' = Published /\ Waiting' = Waiting
  BY <1>1 DEF Published, Range, Waiting, newTarget
<1>6. InFlight' = InFlight
  BY <1>2, <1>4 DEF InFlight
<1>7. Started' = Started
  BY <1>5, <1>6 DEF Started
<1>8. Ordered'
  BY <1>1, <1>5, <1>7, StartedShrinks
<1>9. Exclusive'
  BY <1>2, <1>4, <1>5, <1>6 DEF Exclusive
<1>10. Outstanding' = Outstanding
  BY <1>1, <1>5, <1>6 DEF Outstanding, Range
<1> QED
  BY <1>8, <1>9, <1>10

\* A checker stops and drops its Target.
LEMMA StopCheckerStep ==
  ASSUME TypeOK, Stations, Ordered, Exclusive, NEW c \in Checkers, StopChecker(c)
  PROVE  /\ Ordered' /\ Exclusive'
         /\ hand[c] \in Outstanding /\ Outstanding' = Outstanding \ {hand[c]}
<1> DEFINE h == hand[c]
<1>1. /\ UNCHANGED <<todo, toCheck, checked, targets, reported, round>>
      /\ hand' = [hand EXCEPT ![c] = NoTarget] /\ h # NoTarget
  BY DEF StopChecker, Stations
<1>2. /\ Held' = Held \ {h}
      /\ \A d \in Checkers : hand'[d] = IF d = c THEN NoTarget ELSE hand[d]
  BY <1>1, HeldRelease DEF TypeOK, Exclusive
<1>3. Published' = Published /\ Waiting' = Waiting /\ Range(checked)' = Range(checked)
  BY <1>1 DEF Published, Range, Waiting, newTarget
<1>4. InFlight' \subseteq InFlight /\ Started' \subseteq Started
  BY <1>2, <1>3 DEF InFlight, Started
<1>5. Ordered'
  BY <1>1, <1>3, <1>4, StartedShrinks
<1>6. Exclusive'
  BY <1>1, <1>2, <1>3, <1>4 DEF Exclusive
<1>7. h \in Held /\ h \notin Range(checked)
  BY <1>1 DEF Held, Exclusive
<1>8. h \in Started /\ h \notin Waiting /\ h \notin Range(toCheck)
  BY <1>7, QueuedIsNew, WaitingIsNew DEF Started, InFlight
<1>9. h \in Outstanding /\ Outstanding' = Outstanding \ {h}
  BY <1>1, <1>2, <1>3, <1>7, <1>8 DEF Outstanding, InFlight, Range
<1> QED
  BY <1>5, <1>6, <1>9

\* The handler publishes a Target: it leaves the channel as it enters the map.
LEMMA RecordStep ==
  ASSUME TypeOK, Stations, Ordered, Exclusive, Record
  PROVE  /\ Ordered' /\ Exclusive' /\ Head(checked).id \in Miners
         /\ Head(checked) \in Outstanding
         /\ Outstanding' = Outstanding \ {Head(checked)}
<1> DEFINE h == Head(checked)
<1>1. /\ UNCHANGED <<todo, toCheck, hand, reported, round>>
      /\ checked' = Tail(checked) /\ checked # <<>>
      /\ targets' = [targets EXCEPT ![h.id] = h]
  BY DEF Record
<1>2. /\ h \in Targets /\ Range(checked) = Range(checked') \cup {h}
      /\ IsInjective(checked') /\ h \notin Range(checked')
  BY <1>1, ReceiveElements DEF TypeOK, Exclusive
<1>3. Range(targets') \subseteq Range(targets) \cup {h}
  BY <1>1, <1>2, Members DEF TypeOK, Range
<1>4. Published' \subseteq Published \cup {h}
  BY <1>1, <1>3 DEF Published, Range
<1>5. Waiting' = Waiting /\ Held' = Held
  BY <1>1 DEF Waiting, newTarget, Held
<1>6. h \notin Held
  BY <1>2 DEF Exclusive
<1>7. InFlight' = InFlight \ {h} /\ h \in InFlight
  BY <1>2, <1>5, <1>6 DEF InFlight
<1>8. Started' \subseteq Started
  BY <1>4, <1>7 DEF Started
<1>9. Ordered'
  BY <1>1, <1>5, <1>8, StartedShrinks
<1>10. Exclusive'
  BY <1>1, <1>2, <1>4, <1>5, <1>7 DEF Exclusive
<1>11. h \notin Waiting /\ h \notin Range(toCheck)
  BY <1>7, QueuedIsNew, WaitingIsNew DEF Started
<1>12. h \in Outstanding /\ Outstanding' = Outstanding \ {h}
  BY <1>1, <1>5, <1>7, <1>11 DEF Outstanding, Range
<1> QED
  BY <1>2, <1>9, <1>10, <1>12, Members

\* The metrics keep pointers to the Targets of the map and to no others.
LEMMA SnapshotStep ==
  ASSUME Ordered, Exclusive, Snapshot
  PROVE  Ordered' /\ Exclusive'
<1>1. /\ UNCHANGED <<todo, toCheck, hand, checked, targets, round>>
      /\ reported' = targets
  BY DEF Snapshot
<1>2. Published' \subseteq Published
  BY <1>1 DEF Published, Range
<1>3. Waiting' = Waiting /\ Held' = Held /\ Range(checked)' = Range(checked)
  BY <1>1 DEF Waiting, newTarget, Held, Range
<1>4. InFlight' = InFlight /\ Started' \subseteq Started
  BY <1>2, <1>3 DEF InFlight, Started
<1>5. Ordered'
  BY <1>1, <1>3, <1>4, StartedShrinks
<1>6. Exclusive'
  BY <1>1, <1>2, <1>3, <1>4 DEF Exclusive
<1> QED
  BY <1>5, <1>6

\* Every step keeps the inductive invariant.
LEMMA InvStep ==
  ASSUME IInv, [Next]_vars
  PROVE  IInv'
<1>1. TypeOK /\ Stations /\ Ordered /\ Exclusive
  BY DEF IInv
<1>2. TypeOK' /\ Stations'
  BY <1>1, TypesStep
<1>3. Ordered' /\ Exclusive'
  <2> USE <1>1
  <2>1. CASE \E S \in SUBSET Miners : ListMiners(S)
    BY <2>1, ListMinersStep
  <2>2. CASE ListFails \/ OnCheckTick \/ StopDispatcher
    BY <2>2, Unmoved DEF ListFails, OnCheckTick, StopDispatcher
  <2>3. CASE \E m \in Miners : Enqueue(m)
    BY <2>3, EnqueueStep
  <2>4. CASE AbortDispatch
    <3>1. /\ todo' = {} /\ Waiting' = {}
          /\ UNCHANGED <<toCheck, hand, checked, targets, reported, round>>
      BY <2>4 DEF AbortDispatch, Waiting
    <3>2. Held' = Held /\ Range(checked)' = Range(checked) /\ Published' = Published
      BY <3>1 DEF Held, Range, Published
    <3>3. InFlight' = InFlight /\ Started' = Started
      BY <3>2 DEF InFlight, Started
    <3>4. Ordered'
      BY <3>1, <3>3, StartedShrinks
    <3>5. Exclusive'
      BY <3>1, <3>2, <3>3 DEF Exclusive
    <3> QED
      BY <3>4, <3>5
  <2>5. CASE \E c \in Checkers : Take(c)
    BY <2>5, TakeStep
  <2>6. CASE \E c \in Checkers : FinishCheck(c)
    BY <2>6, Unmoved DEF FinishCheck
  <2>7. CASE \E c \in Checkers : Send(c)
    BY <2>7, SendStep
  <2>8. CASE \E c \in Checkers : StopChecker(c)
    BY <2>8, StopCheckerStep
  <2>9. CASE Record
    BY <2>9, RecordStep
  <2>10. CASE Snapshot
    BY <2>10, SnapshotStep
  <2>11. CASE StopHandler
    BY <2>11, Unmoved DEF StopHandler
  <2>12. CASE Environment
    BY <2>12, Unmoved DEF Environment, CheckTick, SnapshotTick, Cancel
  <2>13. CASE UNCHANGED vars
    BY <2>13, Unmoved DEF vars
  <2> QED
    BY <2>1, <2>2, <2>3, <2>4, <2>5, <2>6, <2>7, <2>8, <2>9, <2>10, <2>11, <2>12,
       <2>13 DEF Next, Dispatcher, Checker, Handler
<1> QED
  BY <1>2, <1>3 DEF IInv

\* The inductive invariant holds at every moment: no Target is in two places,
\* and the checks of one miner begin in the order of their dispatch.
THEOREM Invariance == Spec => []IInv
<1>1. Init => IInv
  BY InitAtStart, TypesInit, OrderInit DEF IInv
<1>2. IInv /\ [Next]_vars => IInv'
  BY InvStep
<1> QED
  BY <1>1, <1>2, PTL DEF Spec

\* Disjoint stations and an order within the queue leave one owner.
LEMMA InvOwner == IInv => SingleOwner
<1> SUFFICES ASSUME IInv PROVE SingleOwner
  OBVIOUS
<1> USE DEF IInv
<1>1. IsInjective(toCheck)
  <2> SUFFICES ASSUME NEW i \in DOMAIN toCheck, NEW k \in DOMAIN toCheck,
                      toCheck[i] = toCheck[k], i # k
               PROVE  FALSE
    BY DEF IsInjective
  <2>1. toCheck[i].round \in Nat
    BY Members DEF Range
  <2>2. i \in Nat /\ k \in Nat
    BY DEF TypeOK
  <2>3. i < k \/ k < i
    BY <2>2
  <2> QED
    BY <2>1, <2>3 DEF Ordered
<1>2. Waiting \cap (Range(toCheck) \cup InFlight) = {}
  BY WaitingIsNew DEF Started
<1>3. Range(toCheck) \cap InFlight = {}
  BY QueuedIsNew DEF Started
<1> QED
  BY <1>1, <1>2, <1>3 DEF SingleOwner, Exclusive

\* However many checkers race, no two goroutines own the same Target.
THEOREM TargetsHaveOneOwner == Spec => []SingleOwner
BY InvOwner, Invariance, PTL

\* What is published began before all that is queued or waits.
LEMMA InvFinal == IInv => PublishedIsFinal
<1> SUFFICES ASSUME IInv PROVE PublishedIsFinal
  OBVIOUS
<1> USE DEF IInv
<1>1. Published \cap Waiting = {}
  BY WaitingIsNew DEF Started
<1>2. Published \cap Range(toCheck) = {}
  BY QueuedIsNew DEF Started
<1> QED
  BY <1>1, <1>2 DEF PublishedIsFinal, Outstanding, Exclusive

\* What the API and the metrics read without a lock is never written again.
THEOREM PublishedTargetsAreFinal == Spec => []PublishedIsFinal
BY InvFinal, Invariance, PTL

\* What is served is among the checks that have begun.
LEMMA InvNewer == IInv => NoOlderWaiting
<1> SUFFICES ASSUME IInv, NEW m \in Miners, NEW t \in Waiting \cup Range(toCheck),
                    targets[m] # NoTarget, t.id = m
             PROVE  targets[m].round < t.round
  BY DEF NoOlderWaiting
<1> USE DEF IInv
<1>1. targets[m] \in Started /\ targets[m].id = m
  BY DEF Started, Published, Stations, TypeOK, Range
<1> QED
  BY <1>1 DEF Ordered

\* A served result is newer than every check of its miner yet to begin.
THEOREM ServedIsNewerThanWaiting == Spec => []NoOlderWaiting
BY InvNewer, Invariance, PTL

------------------------------------------------------------------------------
(* Verdicts: what the Targets hold whose check is over, and the others.    *)

Done == {hand[c] : c \in {d \in Checkers : checker[d] = "sending"}}
          \cup Range(checked) \cup Published

\* A check that is over has left a verdict, one that is not has left none, and
\* no Target has one before a dispatch has allocated it.
Verdicts ==
  /\ \A t \in Done : status[t] # "unknown"
  /\ \A t \in Unchecked : status[t] = "unknown"
  /\ \A t \in DOMAIN status : t.round > round => status[t] = "unknown"

\* A Target that is being checked is nowhere else.
LEMMA CheckedIsAlone ==
  ASSUME IInv, NEW c \in Checkers, checker[c] \in {"checking", "doomed"}
  PROVE  /\ hand[c] \notin Done /\ hand[c] \in DOMAIN status /\ hand[c].round <= round
         /\ hand[c] \notin Waiting \cup Range(toCheck)
         /\ \A d \in Checkers : d # c => hand[d] # hand[c]
<1>1. TypeOK /\ Stations /\ Ordered /\ Exclusive
  BY DEF IInv
<1>2. hand[c] # NoTarget /\ hand[c] \in Held
  BY <1>1 DEF Stations, Held
<1>3. hand[c] \notin Range(checked) /\ hand[c] \notin Published
  BY <1>1, <1>2 DEF Exclusive, InFlight
<1>4. \A d \in Checkers : d # c => hand[d] # hand[c]
  BY <1>1, <1>2 DEF Exclusive
<1>5. hand[c] \notin Done
  BY <1>3, <1>4 DEF Done
<1>6. hand[c] \in Targets /\ hand[c].round <= round
  BY <1>1, <1>2, Members DEF Ordered, Everything, Started, InFlight
<1>7. hand[c].round \in 0 .. MaxRounds
  BY <1>1, <1>6, Members, PipelineAssumption DEF TypeOK
<1>8. hand[c] \in [id : Miners, round : 0 .. MaxRounds]
  BY <1>6, <1>7 DEF Targets
<1>9. hand[c] \notin Waiting \cup Range(toCheck)
  BY <1>1, <1>2, QueuedIsNew, WaitingIsNew DEF Started, InFlight
<1> QED
  BY <1>1, <1>4, <1>5, <1>6, <1>8, <1>9 DEF TypeOK

\* The objects of the heap are numbered by the dispatches.
LEMMA HeapDomain ==
  ASSUME TypeOK
  PROVE  /\ DOMAIN status = [id : Miners, round : 0 .. MaxRounds]
         /\ \A t \in DOMAIN status : t.round \in Nat
<1>1. status \in [[id : Miners, round : 0 .. MaxRounds] -> Statuses]
  BY DEF TypeOK
<1>2. DOMAIN status = [id : Miners, round : 0 .. MaxRounds]
  BY <1>1
<1>3. \A t \in [id : Miners, round : 0 .. MaxRounds] : t.round \in 0 .. MaxRounds
  OBVIOUS
<1> QED
  BY <1>2, <1>3, PipelineAssumption

\* Steps after which no further check is over, and none is new.
LEMMA VerdictsKept ==
  ASSUME Verdicts, Done' \subseteq Done, Unchecked' \subseteq Unchecked,
         UNCHANGED <<round, status>>
  PROVE  Verdicts'
BY DEF Verdicts

\* The stored results have a verdict, and nothing is yet to be checked.
LEMMA VerdictsInit == AtStart => Verdicts
<1> SUFFICES ASSUME AtStart PROVE Verdicts
  OBVIOUS
<1> USE PipelineAssumption
<1>1. /\ toCheck = <<>> /\ checked = <<>> /\ todo = {} /\ round = 0
      /\ \A c \in Checkers : checker[c] = "idle"
      /\ Range(reported) \subseteq {NoTarget}
  BY DEF AtStart, Idle, Range
<1>2. Unchecked = {}
  BY <1>1 DEF Unchecked, Waiting, Range
<1>3. Done \subseteq Range(targets) \ {NoTarget}
  BY <1>1 DEF Done, Published, Range
<1>4. PICK stored \in [Miners -> Statuses] :
        /\ status = Heap(stored)
        /\ \A m \in Miners : targets[m] # NoTarget => targets[m] = At(m, 0) /\ stored[m] # "unknown"
  BY DEF AtStart
<1>5. ASSUME NEW m \in Miners, targets[m] # NoTarget PROVE status[targets[m]] # "unknown"
  <2>1. At(m, 0) \in [id : Miners, round : 0 .. MaxRounds] /\ At(m, 0).id = m /\ At(m, 0).round = 0
    BY DEF At
  <2> QED
    BY <1>4, <1>5, <2>1 DEF Heap
<1>6. \A t \in Done : status[t] # "unknown"
  BY <1>3, <1>5 DEF AtStart, Range
<1>7. \A t \in DOMAIN status : t.round > round => status[t] = "unknown"
  BY <1>1, <1>4 DEF Heap
<1> QED
  BY <1>2, <1>6, <1>7 DEF Verdicts

\* A new dispatch allocates blank Targets.
LEMMA VerdictsListed ==
  ASSUME IInv, Verdicts, NEW S \in SUBSET Miners, ListMiners(S)
  PROVE  Verdicts'
<1>1. TypeOK /\ Stations
  BY DEF IInv
<1>2. /\ round' = round + 1 /\ todo' = S /\ round \in Nat /\ round < MaxRounds
      /\ UNCHANGED <<toCheck, checker, hand, checked, targets, reported, status>>
  BY <1>1, Members DEF ListMiners
<1>3. Done' = Done
  BY <1>2 DEF Done, Published, Range
<1>4. Unchecked' \subseteq Unchecked \cup {At(m, round + 1) : m \in S}
  BY <1>2 DEF Unchecked, Waiting, newTarget, At, Range
<1>5. \A m \in S : status[At(m, round + 1)] = "unknown"
  <2>1. \A m \in S : At(m, round + 1) \in [id : Miners, round : 0 .. MaxRounds]
                     /\ At(m, round + 1).round = round + 1
    BY <1>2, PipelineAssumption DEF At
  <2>2. \A m \in S : At(m, round + 1) \in DOMAIN status /\ At(m, round + 1).round > round
    <3>1. round \in Nat /\ round + 1 > round
      BY <1>2
    <3>2. DOMAIN status = [id : Miners, round : 0 .. MaxRounds]
      BY <1>1, HeapDomain
    <3> QED
      BY <2>1, <3>1, <3>2
  <2> QED
    BY <2>2 DEF Verdicts
<1>6. \A t \in DOMAIN status : t.round > round + 1 => t.round > round
  <2>1. \A t \in DOMAIN status : t.round \in Nat
    BY <1>1, HeapDomain
  <2> QED
    BY <1>2, <2>1
<1> QED
  BY <1>2, <1>3, <1>4, <1>5, <1>6 DEF Verdicts

\* The end of a check gives a verdict to a Target that no one else has.
LEMMA VerdictsFinished ==
  ASSUME IInv, Verdicts, NEW c \in Checkers, FinishCheck(c)
  PROVE  Verdicts'
<1>1. TypeOK
  BY DEF IInv
<1>2. PICK s \in Statuses : MayEnd(c, s) /\ status' = [status EXCEPT ![hand[c]] = s]
  BY DEF FinishCheck
<1>3. checker[c] \in {"checking", "doomed"} /\ s # "unknown"
  BY <1>2 DEF MayEnd
<1>4. /\ hand[c] \notin Done /\ hand[c] \in DOMAIN status /\ hand[c].round <= round
      /\ hand[c] \notin Waiting \cup Range(toCheck)
      /\ \A d \in Checkers : d # c => hand[d] # hand[c]
  BY <1>3, CheckedIsAlone
<1>5. /\ UNCHANGED <<round, todo, toCheck, hand, checked, targets, reported>>
      /\ \A d \in Checkers : checker'[d] = IF d = c THEN "sending" ELSE checker[d]
  BY <1>1 DEF FinishCheck, TypeOK
<1>6. Done' \subseteq Done \cup {hand[c]}
  BY <1>5 DEF Done, Published, Range
<1>7. Unchecked' \subseteq Unchecked \ {hand[c]}
  BY <1>4, <1>5 DEF Unchecked, Waiting, newTarget, At, Range
<1>8. status'[hand[c]] = s /\ DOMAIN status' = DOMAIN status
      /\ \A t : t # hand[c] => status'[t] = status[t]
  BY <1>2, <1>4
<1>9. \A t \in DOMAIN status' : t.round > round' => status'[t] = "unknown"
  <2>1. round \in Nat /\ hand[c].round \in Nat
    BY <1>1, <1>4, Members, HeapDomain
  <2>2. ASSUME NEW t \in DOMAIN status, t.round > round PROVE status'[t] = "unknown"
    <3>1. t # hand[c]
      BY <1>4, <2>1, <2>2
    <3> QED
      BY <1>8, <2>2, <3>1 DEF Verdicts
  <2> QED
    BY <1>5, <1>8, <2>2
<1> QED
  BY <1>3, <1>4, <1>6, <1>7, <1>8, <1>9 DEF Verdicts

\* Every step keeps the verdicts.
LEMMA VerdictsStep ==
  ASSUME IInv, Verdicts, [Next]_vars
  PROVE  Verdicts'
<1>1. TypeOK /\ Stations
  BY DEF IInv
<1>2. CASE UNCHANGED <<round, todo, toCheck, checker, hand, checked, targets, reported, status>>
  BY <1>2 DEF Verdicts, Done, Unchecked, Waiting, newTarget, At, Published, Range
<1>3. ASSUME NEW S \in SUBSET Miners, ListMiners(S) PROVE Verdicts'
  BY <1>3, VerdictsListed
<1>4. ASSUME NEW m \in Miners, Enqueue(m) PROVE Verdicts'
  <2>1. /\ UNCHANGED <<round, checker, hand, checked, targets, reported, status>>
        /\ todo' = todo \ {m} /\ m \in todo /\ toCheck' = Append(toCheck, newTarget(m))
    BY <1>4 DEF Enqueue
  <2>2. newTarget(m) \in Targets /\ newTarget(m) \in Waiting
    BY <2>1, <1>1, Members DEF Waiting
  <2>3. Range(toCheck') = Range(toCheck) \cup {newTarget(m)}
    BY <2>1, <2>2, <1>1, SendElements DEF TypeOK
  <2>4. Done' = Done
    BY <2>1 DEF Done, Published, Range
  <2>5. Unchecked' \subseteq Unchecked
    BY <2>1, <2>2, <2>3 DEF Unchecked, Waiting, newTarget, At
  <2> QED
    BY <2>1, <2>4, <2>5, VerdictsKept
<1>5. CASE AbortDispatch
  <2>1. /\ UNCHANGED <<round, toCheck, checker, hand, checked, targets, reported, status>>
        /\ todo' = {}
    BY <1>5 DEF AbortDispatch
  <2>2. Done' = Done /\ Unchecked' \subseteq Unchecked
    BY <2>1 DEF Done, Published, Range, Unchecked, Waiting
  <2> QED
    BY <2>1, <2>2, VerdictsKept
<1>6. ASSUME NEW c \in Checkers, Take(c) PROVE Verdicts'
  <2>1. /\ UNCHANGED <<round, todo, checked, targets, reported, status>>
        /\ toCheck' = Tail(toCheck) /\ toCheck # <<>>
        /\ hand'[c] = Head(toCheck) /\ checker'[c] \in {"checking", "doomed"}
        /\ \A d \in Checkers : d # c => checker'[d] = checker[d] /\ hand'[d] = hand[d]
    BY <1>1, <1>6 DEF Take, TypeOK
  <2>2. Head(toCheck) \in Range(toCheck) /\ Range(toCheck') \subseteq Range(toCheck)
    BY <2>1, <1>1, ReceiveElements DEF TypeOK, IInv, Exclusive
  <2>3. Done' \subseteq Done
    BY <2>1 DEF Done, Published, Range
  <2>4. Unchecked' \subseteq Unchecked
    BY <2>1, <2>2 DEF Unchecked, Waiting, newTarget, At
  <2> QED
    BY <2>1, <2>3, <2>4, VerdictsKept
<1>7. ASSUME NEW c \in Checkers, FinishCheck(c) PROVE Verdicts'
  BY <1>7, VerdictsFinished
<1>8. ASSUME NEW c \in Checkers, Send(c) PROVE Verdicts'
  <2>1. /\ UNCHANGED <<round, todo, toCheck, targets, reported, status>>
        /\ checker[c] = "sending" /\ checker'[c] = "idle"
        /\ checked' = Append(checked, hand[c])
        /\ \A d \in Checkers : d # c => checker'[d] = checker[d] /\ hand'[d] = hand[d]
    BY <1>1, <1>8 DEF Send, TypeOK
  <2>2. hand[c] \in Targets
    BY <1>1, <2>1 DEF TypeOK, Stations
  <2>3. Range(checked') = Range(checked) \cup {hand[c]}
    BY <2>1, <2>2, <1>1, SendElements DEF TypeOK
  <2>4. Done' \subseteq Done
    BY <2>1, <2>3 DEF Done, Published, Range
  <2>5. Unchecked' \subseteq Unchecked
    BY <2>1 DEF Unchecked, Waiting, newTarget, At, Range
  <2> QED
    BY <2>1, <2>4, <2>5, VerdictsKept
<1>9. ASSUME NEW c \in Checkers, StopChecker(c) PROVE Verdicts'
  <2>1. /\ UNCHANGED <<round, todo, toCheck, checked, targets, reported, status>>
        /\ checker'[c] = "stopped"
        /\ \A d \in Checkers : d # c => checker'[d] = checker[d] /\ hand'[d] = hand[d]
    BY <1>1, <1>9 DEF StopChecker, TypeOK
  <2>2. Done' \subseteq Done
    BY <2>1 DEF Done, Published, Range
  <2>3. Unchecked' \subseteq Unchecked
    BY <2>1 DEF Unchecked, Waiting, newTarget, At, Range
  <2> QED
    BY <2>1, <2>2, <2>3, VerdictsKept
<1>10. CASE Record
  <2>1. /\ UNCHANGED <<round, todo, toCheck, checker, hand, reported, status>>
        /\ checked' = Tail(checked) /\ checked # <<>>
        /\ targets' = [targets EXCEPT ![Head(checked).id] = Head(checked)]
    BY <1>10 DEF Record
  <2>2. /\ Head(checked) \in Range(checked) /\ Range(checked') \subseteq Range(checked)
        /\ Head(checked) \in Targets
    BY <2>1, <1>1, ReceiveElements DEF TypeOK, IInv, Exclusive
  <2>3. Range(targets') \subseteq Range(targets) \cup {Head(checked)}
    BY <2>1, <2>2, <1>1, Members DEF TypeOK, Range
  <2>4. Done' \subseteq Done
    BY <2>1, <2>2, <2>3 DEF Done, Published
  <2>5. Unchecked' = Unchecked
    BY <2>1 DEF Unchecked, Waiting, newTarget, At, Range
  <2> QED
    BY <2>1, <2>4, <2>5, VerdictsKept
<1>11. CASE Snapshot
  <2>1. UNCHANGED <<round, todo, toCheck, checker, hand, checked, targets, status>>
        /\ reported' = targets
    BY <1>11 DEF Snapshot
  <2>2. Done' \subseteq Done
    BY <2>1 DEF Done, Published, Range
  <2>3. Unchecked' = Unchecked
    BY <2>1 DEF Unchecked, Waiting, newTarget, At, Range
  <2> QED
    BY <2>1, <2>2, <2>3, VerdictsKept
<1> QED
  BY <1>2, <1>3, <1>4, <1>5, <1>6, <1>7, <1>8, <1>9, <1>10, <1>11
  DEF Next, Dispatcher, Checker, Handler, Environment, vars, ListFails, OnCheckTick,
      StopDispatcher, StopHandler, CheckTick, SnapshotTick, Cancel

\* What is handed on has a verdict, and what is to be checked has none.
LEMMA InvVerdicts == Verdicts => CheckedOnce
BY DEF Verdicts, CheckedOnce, Done

\* Every check begins with a blank Target and ends with a verdict, and no
\* Target is ever given a second one, whatever is cancelled meanwhile.
THEOREM TargetsAreCheckedOnce == Spec => []CheckedOnce
BY InitAtStart, VerdictsInit, VerdictsStep, InvVerdicts, Invariance, PTL DEF Spec

------------------------------------------------------------------------------
(* One checker.                                                            *)

Served == Range(targets) \ {NoTarget}

\* With one checker the order of the dispatches is also kept behind it.
Sequential ==
  /\ \A i, k \in DOMAIN checked :
       i < k /\ checked[i].id = checked[k].id => checked[i].round < checked[k].round
  /\ \A t \in Held, u \in Range(checked) : t.id = u.id => u.round < t.round
  /\ \A t \in InFlight, p \in Served : t.id = p.id => p.round < t.round

\* The checker takes a Target, which is newer than all that have begun.
LEMMA SequentialTake ==
  ASSUME IInv, Sequential, NEW c \in Checkers, Checkers = {c}, Take(c)
  PROVE  Sequential'
<1>1. TypeOK /\ Stations /\ Ordered
  BY DEF IInv
<1>2. /\ UNCHANGED <<checked, targets>> /\ toCheck # <<>>
      /\ hand[c] = NoTarget /\ hand'[c] = Head(toCheck)
  BY <1>1 DEF Take, TypeOK, Stations
<1>3. Head(toCheck) \in Range(toCheck)
  BY <1>1, <1>2, ReceiveElements DEF TypeOK
<1>4. Held = {} /\ Held' \subseteq {Head(toCheck)}
  BY <1>2 DEF Held
<1>5. Range(checked)' = Range(checked) /\ Served' = Served
  BY <1>2 DEF Range, Served
<1>6. InFlight' \subseteq InFlight \cup {Head(toCheck)}
  BY <1>4, <1>5 DEF InFlight
<1>7. Range(checked) \subseteq Started /\ Served \subseteq Started
  BY DEF Started, InFlight, Served, Published
<1>8. \A t \in Started : t.id = Head(toCheck).id => t.round < Head(toCheck).round
  BY <1>1, <1>3 DEF Ordered
<1> QED
  BY <1>2, <1>4, <1>5, <1>6, <1>7, <1>8 DEF Sequential

\* The checker sends its Target: it goes behind older ones.
LEMMA SequentialSend ==
  ASSUME IInv, Sequential, NEW c \in Checkers, Checkers = {c}, Send(c)
  PROVE  Sequential'
<1> DEFINE h == hand[c]
<1>1. TypeOK /\ Stations
  BY DEF IInv
<1>2. /\ UNCHANGED targets /\ checked' = Append(checked, h)
      /\ hand'[c] = NoTarget /\ h \in Targets /\ h \in Held
  BY <1>1 DEF Send, TypeOK, Stations, Held
<1>3. Held' = {} /\ Range(checked') = Range(checked) \cup {h} /\ Served' = Served
  <2>1. Range(checked') = Range(checked) \cup {h}
    BY <1>1, <1>2, SendElements DEF TypeOK
  <2> QED
    BY <2>1, <1>2 DEF Held, Served, Range
<1>4. InFlight' \subseteq InFlight
  BY <1>2, <1>3 DEF InFlight
<1>5. ASSUME NEW i \in DOMAIN checked', NEW k \in DOMAIN checked',
             i < k, checked'[i].id = checked'[k].id
      PROVE  checked'[i].round < checked'[k].round
  <2>1. /\ i \in DOMAIN checked /\ checked'[i] = checked[i]
        /\ \/ k \in DOMAIN checked /\ checked'[k] = checked[k]
           \/ checked'[k] = h
    BY <1>1, <1>2, <1>5 DEF TypeOK
  <2>2. checked[i] \in Range(checked)
    BY <2>1 DEF Range
  <2> QED
    BY <2>1, <2>2, <1>2, <1>5 DEF Sequential
<1> QED
  BY <1>3, <1>4, <1>5 DEF Sequential

\* The handler publishes a Target: all others of its miner are newer.
LEMMA SequentialRecord ==
  ASSUME IInv, Sequential, Record
  PROVE  Sequential' /\ \A p \in Served : p.id = Head(checked).id
                                            => p.round < Head(checked).round
<1> DEFINE h == Head(checked)
<1>1. TypeOK /\ Stations /\ Exclusive
  BY DEF IInv
<1>2. /\ UNCHANGED hand /\ checked # <<>> /\ checked' = Tail(checked)
      /\ targets' = [targets EXCEPT ![h.id] = h]
  BY DEF Record
<1>3. /\ h \in Targets /\ Range(checked) = Range(checked') \cup {h}
      /\ DOMAIN checked' \subseteq Nat \ {0}
      /\ \A i \in DOMAIN checked' : i + 1 \in DOMAIN checked
                                   /\ checked'[i] = checked[i + 1]
      /\ 1 \in DOMAIN checked /\ h = checked[1]
  BY <1>1, <1>2, ReceiveElements DEF TypeOK, Exclusive
<1>4. Held' = Held /\ InFlight' \subseteq InFlight /\ h \in InFlight
  BY <1>2, <1>3 DEF Held, InFlight
<1>5. Served' \subseteq Served \cup {h}
  BY <1>1, <1>2, <1>3, Members DEF TypeOK, Range, Served
<1>6. \A p \in Served : p.id = h.id => p.round < h.round
  BY <1>4 DEF Sequential
<1>7. ASSUME NEW i \in DOMAIN checked', NEW k \in DOMAIN checked',
             i < k, checked'[i].id = checked'[k].id
      PROVE  checked'[i].round < checked'[k].round
  <2>1. i + 1 < k + 1
    BY <1>3, <1>7
  <2> QED
    BY <2>1, <1>3, <1>7 DEF Sequential
<1>8. ASSUME NEW u \in Range(checked'), u.id = h.id PROVE h.round < u.round
  <2>1. PICK i \in DOMAIN checked' : u = checked'[i]
    BY DEF Range
  <2>2. i + 1 \in DOMAIN checked /\ u = checked[i + 1] /\ 1 < i + 1
    BY <2>1, <1>3
  <2> QED
    BY <2>2, <1>3, <1>8 DEF Sequential
<1>9. \A t \in InFlight' : t.id = h.id => h.round < t.round
  BY <1>3, <1>4, <1>8 DEF InFlight, Sequential
<1>10. Sequential'
  BY <1>3, <1>4, <1>5, <1>7, <1>9 DEF Sequential
<1> QED
  BY <1>6, <1>10

\* With one checker every step keeps the order.
LEMMA SequentialStep ==
  ASSUME IInv, Sequential, [Next]_vars, NEW c \in Checkers, Checkers = {c}
  PROVE  Sequential'
<1>1. CASE UNCHANGED <<hand, checked, targets>>
  BY <1>1 DEF Sequential, Held, InFlight, Served, Range
<1>2. CASE Take(c)
  BY <1>2, SequentialTake
<1>3. CASE Send(c)
  BY <1>3, SequentialSend
<1>4. CASE StopChecker(c)
  <2>1. UNCHANGED <<checked, targets>> /\ hand'[c] = NoTarget
    BY <1>4 DEF StopChecker, IInv, TypeOK
  <2>2. Held' = {} /\ Range(checked)' = Range(checked) /\ Served' = Served
    BY <2>1 DEF Held, Range, Served
  <2>3. InFlight' \subseteq InFlight
    BY <2>2 DEF InFlight
  <2> QED
    BY <2>1, <2>2, <2>3 DEF Sequential
<1>5. CASE Record
  BY <1>5, SequentialRecord
<1> QED
  BY <1>1, <1>2, <1>3, <1>4, <1>5
  DEF Next, Dispatcher, Checker, Handler, Environment, vars, ListMiners, ListFails,
      Enqueue, AbortDispatch, OnCheckTick, StopDispatcher, FinishCheck, Snapshot,
      StopHandler, CheckTick, SnapshotTick, Cancel

\* At first nothing is under way.
LEMMA SequentialInit == AtStart => Sequential
<1> SUFFICES ASSUME AtStart PROVE Sequential
  OBVIOUS
<1>1. checked = <<>> /\ Held = {}
  BY DEF AtStart, Idle, Held
<1>2. Range(checked) = {} /\ InFlight = {}
  BY <1>1 DEF Range, InFlight
<1> QED
  BY <1>1, <1>2 DEF Sequential

\* With one checker no step puts an older result in the place of a newer one.
LEMMA ForwardStep ==
  ASSUME IInv, Sequential, [Next]_vars, NEW m \in Miners, targets[m] # NoTarget
  PROVE  targets'[m].round >= targets[m].round
<1>1. /\ targets[m] \in Served /\ targets[m].id = m
      /\ targets[m].round \in Nat
  BY DEF IInv, TypeOK, Stations, Served, Range, Targets
<1>2. CASE UNCHANGED targets
  BY <1>1, <1>2
<1>3. CASE Record
  <2>1. targets[m].id = Head(checked).id => targets[m].round < Head(checked).round
    BY <1>1, <1>3, SequentialRecord
  <2>2. Head(checked) \in Targets
    BY <1>3, ReceiveElements DEF Record, IInv, TypeOK, Exclusive
  <2>3. targets'[m] = IF m = Head(checked).id THEN Head(checked) ELSE targets[m]
    BY <1>3 DEF Record, IInv, TypeOK
  <2>4. Head(checked).round \in Nat
    BY <2>2 DEF Targets
  <2>5. CASE m = Head(checked).id
    BY <1>1, <2>1, <2>3, <2>4, <2>5
  <2>6. CASE m # Head(checked).id
    BY <1>1, <2>3, <2>6
  <2> QED
    BY <2>5, <2>6
<1> QED
  BY <1>2, <1>3
  DEF Next, Dispatcher, Checker, Handler, Environment, vars, ListMiners, ListFails,
      Enqueue, AbortDispatch, OnCheckTick, StopDispatcher, Take, FinishCheck, Send,
      StopChecker, Snapshot, StopHandler, CheckTick, SnapshotTick, Cancel

\* One checker is a set of one.
LEMMA OneChecker ==
  ASSUME Cardinality(Checkers) = 1
  PROVE  \E c \in Checkers : Checkers = {c}
BY FS_Singleton, PipelineAssumption

\* With one checker the served result of a miner never goes back in time.
THEOREM OneCheckerServesInOrder == Spec => InOrder
<1> DEFINE One == Cardinality(Checkers) = 1
           Inv == One => Sequential
           Forward == One => \A m \in Miners : targets[m] # NoTarget =>
                        targets'[m].round >= targets[m].round
<1>1. Init => Inv
  BY InitAtStart, SequentialInit
<1>2. IInv /\ Inv /\ [Next]_vars => Inv'
  BY OneChecker, SequentialStep
<1>3. IInv /\ Inv /\ [Next]_vars => [Forward]_targets
  BY ForwardStep
<1>4. Spec => [][Forward]_targets
  <2> HIDE DEF Inv, Forward
  <2> QED
    BY <1>1, <1>2, <1>3, Invariance, PTL DEF Spec
<1> QED
  BY <1>4 DEF InOrder

------------------------------------------------------------------------------
(* CheckPipeline implements CheckLedger.                                   *)

\* The service starts where the ledger does: nothing issued, stored results.
LEMMA LedgerInit == AtStart => Ledger!Init
<1> SUFFICES ASSUME AtStart PROVE Ledger!Init
  OBVIOUS
<1>1. toCheck = <<>> /\ checked = <<>> /\ todo = {}
  BY DEF AtStart, Idle
<1>2. Outstanding = {}
  BY <1>1 DEF AtStart, Idle, Outstanding, InFlight, Held, Waiting, Range
<1>3. /\ targets \in [Miners -> {NoTarget} \cup {Ledger!Check(m, 0) : m \in Miners}]
      /\ \A m \in Miners : targets[m] \in {NoTarget, Ledger!Check(m, 0)}
  BY DEF AtStart, At, Ledger!Check
<1> QED
  BY <1>2, <1>3 DEF AtStart, Idle, Ledger!Init

\* Every step of the pipeline issues, records or abandons checks as the
\* ledger allows, or leaves the ledger as it is.
LEMMA LedgerStep ==
  ASSUME IInv, [Next]_vars
  PROVE  [Ledger!Next]_(Ledger!vars)
<1> USE DEF IInv
<1>1. ASSUME NEW S \in SUBSET Miners, ListMiners(S) PROVE Ledger!Next
  <2>1. Outstanding' = Outstanding \cup {Ledger!Check(m, round') : m \in S}
    BY <1>1, ListMinersStep DEF At, Ledger!Check
  <2>2. Ledger!Dispatch(S)
    BY <1>1, <2>1 DEF ListMiners, Ledger!Dispatch
  <2> QED
    BY <2>2 DEF Ledger!Next
<1>2. CASE ListFails \/ OnCheckTick \/ StopDispatcher \/ Snapshot \/ StopHandler
           \/ CheckTick \/ SnapshotTick \/ UNCHANGED vars
           \/ \E c \in Checkers : FinishCheck(c)
  <2>1. UNCHANGED <<round, todo, toCheck, hand, checked, targets, ctxDone>>
    BY <1>2 DEF ListFails, OnCheckTick, StopDispatcher, Snapshot, StopHandler,
                CheckTick, SnapshotTick, vars, FinishCheck
  <2>2. Outstanding' = Outstanding
    BY <2>1 DEF Outstanding, InFlight, Held, Waiting, newTarget, At, Range
  <2> QED
    BY <2>1, <2>2 DEF Ledger!vars
<1>3. CASE \/ \E m \in Miners : Enqueue(m)
           \/ \E c \in Checkers : Take(c) \/ Send(c)
  <2>1. UNCHANGED <<round, targets, ctxDone>>
    BY <1>3 DEF Enqueue, Take, Send
  <2>2. Outstanding' = Outstanding
    BY <1>3, EnqueueStep, TakeStep, SendStep
  <2> QED
    BY <2>1, <2>2 DEF Ledger!vars
<1>4. CASE AbortDispatch
  <2>1. /\ Waiting' = {} /\ ctxDone
        /\ UNCHANGED <<round, toCheck, hand, checked, targets, ctxDone>>
    BY <1>4 DEF AbortDispatch, Waiting
  <2>2. Range(toCheck)' = Range(toCheck) /\ InFlight' = InFlight
    BY <2>1 DEF InFlight, Held, Range
  <2>3. Waiting \subseteq Outstanding /\ Outstanding' = Outstanding \ Waiting
    BY <2>1, <2>2, WaitingIsNew DEF Outstanding, Started
  <2>4. Ledger!Abandon(Waiting)
    BY <2>1, <2>3 DEF Ledger!Abandon
  <2> QED
    BY <2>3, <2>4 DEF Ledger!Next
<1>5. ASSUME NEW c \in Checkers, StopChecker(c) PROVE Ledger!Next
  <2>1. hand[c] \in Outstanding /\ Outstanding' = Outstanding \ {hand[c]}
    BY <1>5, StopCheckerStep
  <2>2. Ledger!Abandon({hand[c]})
    BY <1>5, <2>1 DEF StopChecker, Ledger!Abandon
  <2> QED
    BY <2>1, <2>2 DEF Ledger!Next
<1>6. CASE Record
  <2>1. /\ Head(checked) \in Outstanding
        /\ Outstanding' = Outstanding \ {Head(checked)}
    BY <1>6, RecordStep
  <2>2. Ledger!Record(Head(checked))
    BY <1>6, <2>1 DEF Record, Ledger!Record
  <2> QED
    BY <2>1, <2>2 DEF Ledger!Next
<1>7. CASE Cancel
  <2>1. UNCHANGED <<round, todo, toCheck, hand, checked, targets>> /\ ctxDone'
    BY <1>7 DEF Cancel
  <2>2. Outstanding' = Outstanding
    BY <2>1 DEF Outstanding, InFlight, Held, Waiting, newTarget, At, Range
  <2>3. Ledger!Cancel
    BY <1>7, <2>1, <2>2 DEF Cancel, Ledger!Cancel
  <2> QED
    BY <2>3 DEF Ledger!Next
<1> QED
  BY <1>1, <1>2, <1>3, <1>4, <1>5, <1>6, <1>7
     DEF Next, Dispatcher, Checker, Handler, Environment

\* Every check that is issued is recorded once, under its own miner, and none
\* is lost before the cancellation, for any number of checkers and capacities.
THEOREM PipelineImplementsLedger == Spec => LedgerSpec
<1>1. Init => Ledger!Init
  BY InitAtStart, LedgerInit
<1>2. IInv /\ [Next]_vars => [Ledger!Next]_(Ledger!vars)
  BY LedgerStep
<1> QED
  BY <1>1, <1>2, Invariance, PTL DEF Spec, LedgerSpec, Ledger!Spec
------------------------------------------------------------------------------
(* Overtaking.  With several checkers a newer result may be recorded while *)
(* checks of the same miner are under way that began before its own.       *)

\* The Targets of u's miner in S that are older than u.
Overtaken(u, S) == {t \in S : t.id = u.id /\ t.round < u.round}

\* Fewer than there are checkers.
Few(S) == S # {} => IsFiniteSet(S) /\ Cardinality(S) < Cardinality(Checkers)

\* The Targets under way that will be recorded after checked[i].
Behind(i) == Held \cup {checked[k] : k \in i + 1 .. Len(checked)}

\* What a result has overtaken was in the hands of the other checkers when its
\* check was over: later checks are of newer Targets.
Overtaking ==
  /\ \A i \in DOMAIN checked : Few(Overtaken(checked[i], Behind(i)))
  /\ \A m \in Miners : targets[m] # NoTarget => Few(Overtaken(targets[m], InFlight))

\* A part of few is few.
LEMMA FewSubset ==
  ASSUME NEW S, NEW T, Few(S), T \subseteq S
  PROVE  Few(T)
<1>1. CASE T = {}
  BY <1>1 DEF Few
<1>2. CASE T # {}
  <2>1. IsFiniteSet(S) /\ Cardinality(S) < Cardinality(Checkers)
    BY <1>2 DEF Few
  <2>2. IsFiniteSet(T) /\ Cardinality(T) <= Cardinality(S)
    BY <2>1, FS_Subset
  <2>3. Cardinality(S) \in Nat /\ Cardinality(T) \in Nat /\ Cardinality(Checkers) \in Nat
    BY <2>1, <2>2, FS_CardinalityType, PipelineAssumption
  <2> QED
    BY <2>1, <2>2, <2>3 DEF Few
<1> QED
  BY <1>1, <1>2

\* The less there is of S, the less of it is overtaken.
LEMMA OvertakenSubset ==
  ASSUME NEW u, NEW S, NEW T, T \subseteq S, Few(Overtaken(u, S))
  PROVE  Few(Overtaken(u, T))
<1>1. Overtaken(u, T) \subseteq Overtaken(u, S)
  BY DEF Overtaken
<1> QED
  BY <1>1, FewSubset

\* The hands of the other checkers hold fewer Targets than there are checkers.
LEMMA OtherHandsAreFew ==
  ASSUME NEW c \in Checkers
  PROVE  Few({hand[d] : d \in Checkers \ {c}})
<1> DEFINE D == Checkers \ {c}
           S == {hand[d] : d \in D}
           f == [d \in D |-> hand[d]]
<1>1. IsFiniteSet(D) /\ Cardinality(D) = Cardinality(Checkers) - 1
  BY PipelineAssumption, FS_RemoveElement
<1>2. f \in Surjection(D, S)
  BY DEF Surjection
<1> HIDE DEF D, f, S
<1>3. IsFiniteSet(S) /\ Cardinality(S) <= Cardinality(D)
  BY <1>1, <1>2, FS_Surjection
<1>4. Cardinality(S) \in Nat /\ Cardinality(D) \in Nat /\ Cardinality(Checkers) \in Nat
  BY <1>1, <1>3, FS_CardinalityType, PipelineAssumption
<1>5. Few(S)
  BY <1>1, <1>3, <1>4 DEF Few
<1> QED
  BY <1>5 DEF S, D

\* A check that begins is of a newer Target than those that have begun: it is
\* overtaken by none of them.
LEMMA OvertakingTake ==
  ASSUME IInv, Overtaking, NEW c \in Checkers, Take(c)
  PROVE  Overtaking'
<1> DEFINE h == Head(toCheck)
<1>1. TypeOK /\ Stations /\ Ordered
  BY DEF IInv
<1>2. /\ UNCHANGED <<checked, targets>> /\ toCheck # <<>>
      /\ hand' = [hand EXCEPT ![c] = h] /\ hand[c] = NoTarget
  BY <1>1 DEF Take, TypeOK, Stations
<1>3. h \in Range(toCheck) /\ h \in Targets
  BY <1>1, <1>2, ReceiveElements DEF TypeOK
<1>4. Held' = Held \cup {h}
  BY <1>1, <1>2, <1>3, HeldTake, PipelineAssumption DEF TypeOK, Targets
<1>5. \A u \in Started : /\ u.round \in Nat /\ h.round \in Nat
                         /\ u.id = h.id => u.round < h.round
  BY <1>1, <1>3, Members DEF Ordered, Started, InFlight
<1>6. ASSUME NEW u \in Started, NEW S PROVE Overtaken(u, S \cup {h}) \subseteq Overtaken(u, S)
  BY <1>5 DEF Overtaken
<1>7. \A i : Behind(i)' = Behind(i) \cup {h}
  BY <1>2, <1>4 DEF Behind
<1>8. InFlight' = InFlight \cup {h}
  BY <1>2, <1>4 DEF InFlight, Range
<1>9. ASSUME NEW i \in DOMAIN checked PROVE Few(Overtaken(checked[i], Behind(i) \cup {h}))
  <2>1. checked[i] \in Started
    BY DEF Started, InFlight, Range
  <2> QED
    BY <1>6, <2>1, FewSubset DEF Overtaking
<1>10. ASSUME NEW m \in Miners, targets[m] # NoTarget
       PROVE  Few(Overtaken(targets[m], InFlight \cup {h}))
  <2>1. targets[m] \in Started
    BY <1>1, <1>10 DEF Started, Published, Range, TypeOK
  <2> QED
    BY <1>6, <1>10, <2>1, FewSubset DEF Overtaking
<1> QED
  BY <1>2, <1>7, <1>8, <1>9, <1>10 DEF Overtaking

\* A checker sends its Target: of the Targets of its miner that are under way
\* only those in the hands of the other checkers can come after it.
LEMMA OvertakingSend ==
  ASSUME IInv, Overtaking, NEW c \in Checkers, Send(c)
  PROVE  Overtaking'
<1> DEFINE h == hand[c]
           n == Len(checked)
<1>1. TypeOK /\ Stations /\ Exclusive
  BY DEF IInv
<1>2. /\ UNCHANGED targets /\ checked' = Append(checked, h)
      /\ hand' = [hand EXCEPT ![c] = NoTarget] /\ h # NoTarget /\ h \in Targets
  BY <1>1 DEF Send, TypeOK, Stations
<1>3. Held' = Held \ {h} /\ h \in Held
  BY <1>1, <1>2, HeldRelease DEF TypeOK, Exclusive
<1>4. /\ n \in Nat /\ DOMAIN checked = 1 .. n /\ DOMAIN checked' = 1 .. n + 1
      /\ Len(checked') = n + 1
      /\ \A i \in 1 .. n : checked'[i] = checked[i]
      /\ checked'[n + 1] = h
  <2>1. checked \in Seq(Targets)
    BY <1>1 DEF TypeOK
  <2>2. h \in Targets
    BY <1>2
  <2> HIDE DEF h
  <2> QED
    BY <1>2, <2>1, <2>2
<1>5. InFlight' \subseteq InFlight
  <2>1. Range(checked') = Range(checked) \cup {h}
    BY <1>1, <1>2, SendElements DEF TypeOK
  <2> QED
    BY <1>3, <2>1 DEF InFlight
<1>6. ASSUME NEW i \in 1 .. n PROVE Few(Overtaken(checked'[i], Behind(i)'))
  <2>1. \A k \in i + 1 .. n + 1 : k \in i + 1 .. n \/ k = n + 1
    BY <1>4
  <2>2. \A k \in i + 1 .. n : k \in 1 .. n
    BY <1>4
  <2>3. Behind(i)' \subseteq Behind(i)
    BY <1>3, <1>4, <2>1, <2>2 DEF Behind
  <2>4. Few(Overtaken(checked[i], Behind(i)))
    BY <1>4 DEF Overtaking
  <2> QED
    BY <1>4, <2>3, <2>4, OvertakenSubset
<1>7. ASSUME NEW i \in Nat, i = n + 1 PROVE Few(Overtaken(checked'[i], Behind(i)'))
  <2>1. {checked'[k] : k \in i + 1 .. Len(checked')} = {}
    BY <1>4, <1>7
  <2>2. Behind(i)' \subseteq {hand[d] : d \in Checkers \ {c}}
    BY <1>3, <2>1 DEF Behind, Held
  <2>3. Overtaken(checked'[i], Behind(i)') \subseteq {hand[d] : d \in Checkers \ {c}}
    BY <2>2 DEF Overtaken
  <2> QED
    BY <2>3, OtherHandsAreFew, FewSubset
<1>8. \A i \in DOMAIN checked' : Few(Overtaken(checked'[i], Behind(i)'))
  BY <1>4, <1>6, <1>7
<1>9. \A m \in Miners : targets[m] # NoTarget => Few(Overtaken(targets[m], InFlight'))
  BY <1>5, OvertakenSubset DEF Overtaking
<1> QED
  BY <1>2, <1>8, <1>9 DEF Overtaking

\* The handler records a Target: what it has overtaken was behind it.
LEMMA OvertakingRecord ==
  ASSUME IInv, Overtaking, Record
  PROVE  Overtaking'
<1> DEFINE h == Head(checked)
           n == Len(checked)
<1>1. TypeOK /\ Stations /\ Exclusive
  BY DEF IInv
<1>2. /\ UNCHANGED hand /\ checked # <<>> /\ checked' = Tail(checked)
      /\ targets' = [targets EXCEPT ![h.id] = h]
  BY DEF Record
<1>3. /\ n \in Nat \ {0} /\ Len(checked') = n - 1
      /\ DOMAIN checked' = 1 .. n - 1 /\ DOMAIN checked = 1 .. n
      /\ \A i \in 1 .. n - 1 : checked'[i] = checked[i + 1]
      /\ h = checked[1] /\ Range(checked) = Range(checked') \cup {h}
  <2>1. checked' \in Seq(Targets) /\ checked \in Seq(Targets)
    BY <1>1, <1>2, ReceiveElements DEF TypeOK
  <2> QED
    BY <1>1, <1>2, <2>1, ReceiveElements DEF TypeOK
<1>4. Held' = Held /\ InFlight' \subseteq InFlight
  <2>1. Held' = Held
    BY <1>2 DEF Held
  <2> QED
    BY <1>3, <2>1 DEF InFlight
<1>5. ASSUME NEW i \in 1 .. n - 1 PROVE Few(Overtaken(checked'[i], Behind(i)'))
  <2>1. \A k \in i + 1 .. n - 1 : k + 1 \in i + 2 .. n /\ k \in 1 .. n - 1
    BY <1>3
  <2>2. Behind(i)' \subseteq Behind(i + 1)
    BY <1>3, <1>4, <2>1 DEF Behind
  <2>3. i + 1 \in DOMAIN checked
    BY <1>3
  <2>4. Few(Overtaken(checked[i + 1], Behind(i + 1)))
    BY <2>3 DEF Overtaking
  <2> QED
    BY <1>3, <2>2, <2>4, OvertakenSubset
<1>6. Few(Overtaken(h, InFlight'))
  <2>1. InFlight' \subseteq Behind(1)
    <3>1. ASSUME NEW t \in Range(checked') PROVE t \in {checked[k] : k \in 1 + 1 .. n}
      <4>1. PICK i \in 1 .. n - 1 : t = checked'[i]
        BY <1>3, <3>1 DEF Range
      <4>2. i + 1 \in 1 + 1 .. n /\ t = checked[i + 1]
        BY <1>3, <4>1
      <4> QED
        BY <4>2
    <3> QED
      BY <1>4, <3>1 DEF InFlight, Behind
  <2>2. 1 \in DOMAIN checked
    BY <1>3
  <2>3. Few(Overtaken(checked[1], Behind(1)))
    BY <2>2 DEF Overtaking
  <2> QED
    BY <1>3, <2>1, <2>3, OvertakenSubset
<1>7. ASSUME NEW m \in Miners, targets'[m] # NoTarget
      PROVE  Few(Overtaken(targets'[m], InFlight'))
  <2>1. targets'[m] = IF m = h.id THEN h ELSE targets[m]
    BY <1>1, <1>2 DEF TypeOK
  <2>2. targets[m] # NoTarget => Few(Overtaken(targets[m], InFlight'))
    BY <1>4, OvertakenSubset DEF Overtaking
  <2> QED
    BY <1>6, <1>7, <2>1, <2>2
<1> QED
  BY <1>3, <1>5, <1>7 DEF Overtaking

\* Every step keeps the overtaken few.
LEMMA OvertakingStep == IInv /\ Overtaking /\ [Next]_vars => Overtaking'
<1> SUFFICES ASSUME IInv, Overtaking, [Next]_vars PROVE Overtaking'
  OBVIOUS
<1>1. CASE UNCHANGED <<hand, checked, targets>>
  <2>1. InFlight' = InFlight /\ \A i : Behind(i)' = Behind(i)
    BY <1>1 DEF Behind, Held, InFlight, Range
  <2> QED
    BY <1>1, <2>1 DEF Overtaking
<1>2. CASE \E c \in Checkers : Take(c)
  BY <1>2, OvertakingTake
<1>3. CASE \E c \in Checkers : Send(c)
  BY <1>3, OvertakingSend
<1>4. ASSUME NEW c \in Checkers, StopChecker(c) PROVE Overtaking'
  <2>1. /\ UNCHANGED <<checked, targets>> /\ hand[c] # NoTarget
        /\ hand' = [hand EXCEPT ![c] = NoTarget]
    BY <1>4 DEF StopChecker, IInv, Stations
  <2>2. Held' \subseteq Held
    BY <2>1, HeldRelease DEF IInv, TypeOK, Exclusive
  <2>3. InFlight' \subseteq InFlight /\ \A i : Behind(i)' \subseteq Behind(i)
    BY <2>1, <2>2 DEF InFlight, Behind, Range
  <2>4. \A i \in DOMAIN checked : Few(Overtaken(checked[i], Behind(i)'))
    BY <2>3, OvertakenSubset DEF Overtaking
  <2>5. \A m \in Miners : targets[m] # NoTarget => Few(Overtaken(targets[m], InFlight'))
    BY <2>3, OvertakenSubset DEF Overtaking
  <2> QED
    BY <2>1, <2>4, <2>5 DEF Overtaking
<1>5. CASE Record
  BY <1>5, OvertakingRecord
<1> QED
  BY <1>1, <1>2, <1>3, <1>4, <1>5
  DEF Next, Dispatcher, Checker, Handler, Environment, vars, ListMiners, ListFails,
      Enqueue, AbortDispatch, OnCheckTick, StopDispatcher, FinishCheck, Snapshot,
      StopHandler, CheckTick, SnapshotTick, Cancel

\* What is older than the served result is under way.
LEMMA InvOvertaken == IInv /\ Overtaking => OvertakenBounded
<1> SUFFICES ASSUME IInv, Overtaking, NEW m \in Miners, Older(m) # {}
             PROVE  Cardinality(Older(m)) < Cardinality(Checkers)
  BY DEF OvertakenBounded
<1>1. targets[m] # NoTarget
  BY DEF Older
<1>2. targets[m] \in Started /\ targets[m].id = m
  BY <1>1 DEF Started, Published, Stations, IInv, TypeOK, Range
<1>3. targets[m] \in Targets
  BY <1>1 DEF IInv, TypeOK
<1>4. ASSUME NEW t \in Older(m) PROVE t \in Overtaken(targets[m], InFlight)
  <2>1. t \in Outstanding /\ t.id = m /\ t.round < targets[m].round
    BY DEF Older
  <2>2. t \in Targets
    BY <2>1, Members DEF IInv, Outstanding, InFlight
  <2>3. t.round \in Nat /\ targets[m].round \in Nat
    BY <1>3, <2>2 DEF Targets
  <2>4. t \notin Waiting /\ t \notin Range(toCheck)
    BY <1>2, <2>1, <2>3 DEF IInv, Ordered
  <2> QED
    BY <1>2, <2>1, <2>4 DEF Outstanding, Overtaken
<1>5. Few(Older(m))
  BY <1>1, <1>4, FewSubset DEF Overtaking
<1> QED
  BY <1>5 DEF Few

\* At first nothing is under way.
LEMMA OvertakingInit == AtStart => Overtaking
<1> SUFFICES ASSUME AtStart PROVE Overtaking
  OBVIOUS
<1>1. checked = <<>> /\ Held = {}
  BY DEF AtStart, Idle, Held
<1>2. InFlight = {} /\ DOMAIN checked = {}
  BY <1>1 DEF Range, InFlight
<1>3. \A u : Overtaken(u, {}) = {}
  BY DEF Overtaken
<1> QED
  BY <1>2, <1>3 DEF Overtaking, Few

\* A newer result may be overwritten by an older one, but only by fewer than
\* there are checkers, whatever the capacities and however many dispatches.
THEOREM FewAreOvertaken == Spec => []OvertakenBounded
BY InitAtStart, OvertakingInit, OvertakingStep, InvOvertaken, Invariance, PTL DEF Spec
==============================================================================
