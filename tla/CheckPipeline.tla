---------------------------- MODULE CheckPipeline ----------------------------
(***************************************************************************)
(* The goroutines of heyFil.Start that check participants: the dispatcher  *)
(* lists the miners and sends one new Target each to the channel toCheck,  *)
(* maxConcurrentParticipantCheck checkers take them, run Target.check and  *)
(* send them to the channel checked, and one handler stores the results in *)
(* the targets map and snapshots it for the metrics.  Cancelling the       *)
(* context races with all of them.                                         *)
(*                                                                         *)
(* A Target is a pointer: the channels, the checkers and the map carry the *)
(* identity [id, round] of the object a dispatch allocated, and status is  *)
(* the heap, what the object's Status field holds.                         *)
(***************************************************************************)
EXTENDS Integers, Sequences, FiniteSets, Functions

CONSTANTS Miners,      \* the miner IDs the Filecoin API may list
          Reachable,   \* those whose check can end in StatusOK
          Hung,        \* those that accept a call and never answer it
          Checkers,    \* the checker goroutines
          ToCheckCap,  \* capacity of the channel toCheck (100 in the code)
          CheckedCap,  \* capacity of the channel checked (100 in the code)
          MaxRounds,   \* bound of the model: dispatches that list the miners
          NoTarget     \* the nil *Target

ASSUME PipelineAssumption ==
  /\ Reachable \subseteq Miners
  /\ Hung \subseteq Miners
  /\ IsFiniteSet(Checkers)
  /\ ToCheckCap \in Nat \ {0}
  /\ CheckedCap \in Nat \ {0}
  /\ MaxRounds \in Nat
  /\ NoTarget \notin [id : Miners, round : Nat]

VARIABLES
  ctxDone,     \* ctx is cancelled
  tick,        \* participantsCheckInterval.C holds a tick
  dispatcher,  \* where the check dispatcher is
  round,       \* dispatches that listed the miners so far
  todo,        \* miners of the current dispatch still to be sent
  toCheck,     \* the channel to the checkers
  checker,     \* where each checker is
  hand,        \* the Target each checker holds
  checked,     \* the channel to the result handler
  handler,     \* where the result handler is
  targets,     \* hf.targets
  snapTick,    \* snapshotInterval.C holds a tick
  reported,    \* hf.targets as the metrics last summed it up
  status       \* the Status field of every Target

vars == <<ctxDone, tick, dispatcher, round, todo, toCheck, checker, hand,
          checked, handler, targets, snapTick, reported, status>>

\* Round 0 is the Target that loadTargets read from the store.
Targets == [id : Miners, round : Nat]
\* StatusUnknown, StatusOK, and "failed" for all the others.
Statuses == {"unknown", "ok", "failed"}
At(m, n) == [id |-> m, round |-> n]

\* All goroutines are about to begin, all channels are empty.
Idle ==
  /\ ctxDone = FALSE
  /\ tick = FALSE
  /\ dispatcher = "listing"
  /\ round = 0
  /\ todo = {}
  /\ toCheck = <<>>
  /\ checker = [c \in Checkers |-> "idle"]
  /\ hand = [c \in Checkers |-> NoTarget]
  /\ checked = <<>>
  /\ handler = "starting"
  /\ snapTick = FALSE
  /\ reported = [m \in Miners |-> NoTarget]

\* The objects when the records stored are loaded; "unknown" stands for none.
Heap(stored) == [t \in [id : Miners, round : 0 .. MaxRounds] |->
                   IF t.round = 0 THEN stored[t.id] ELSE "unknown"]

\* What an earlier process stored is any verdict of its checks, one made up
\* when its context was cancelled included.
Init ==
  /\ Idle
  /\ \E stored \in [Miners -> Statuses] :
       /\ targets = [m \in Miners |-> IF stored[m] = "unknown" THEN NoTarget ELSE At(m, 0)]
       /\ status = Heap(stored)

------------------------------------------------------------------------------
(* The check dispatcher.                                                   *)

\* stateListMiners answers with S.  The order of the list is not modelled:
\* Enqueue takes its elements in any order.  Nor is the count of them that
\* notifyParticipantCount gives the metrics: nothing here depends on it.
ListMiners(S) ==
  /\ dispatcher = "listing"
  /\ round < MaxRounds
  /\ round' = round + 1
  /\ todo' = S
  /\ dispatcher' = IF S = {} THEN "waiting" ELSE "sending"
  /\ UNCHANGED <<ctxDone, tick, toCheck, checker, hand, checked, handler,
                 targets, snapTick, reported, status>>

\* stateListMiners fails: the dispatch is over until the next tick.
ListFails ==
  /\ dispatcher = "listing"
  /\ dispatcher' = "waiting"
  /\ UNCHANGED <<ctxDone, tick, round, todo, toCheck, checker, hand, checked,
                 handler, targets, snapTick, reported, status>>

\* Faulty: Target objects are cached and checked again instead of allocated.
newTargetCached(m) == IF targets[m] # NoTarget THEN targets[m] ELSE At(m, round)

newTarget(m) == At(m, round)

\* Faulty: an unbounded queue in place of the channel.
EnqueueUnbounded(m) ==
  /\ dispatcher = "sending"
  /\ m \in todo
  /\ toCheck' = Append(toCheck, newTarget(m))
  /\ todo' = todo \ {m}
  /\ dispatcher' = IF todo' = {} THEN "waiting" ELSE "sending"
  /\ UNCHANGED <<ctxDone, tick, round, checker, hand, checked, handler,
                 targets, snapTick, reported, status>>

\* Faulty: new work is put before the waiting work.
EnqueueFront(m) ==
  /\ dispatcher = "sending"
  /\ m \in todo
  /\ Len(toCheck) < ToCheckCap
  /\ toCheck' = <<newTarget(m)>> \o toCheck
  /\ todo' = todo \ {m}
  /\ dispatcher' = IF todo' = {} THEN "waiting" ELSE "sending"
  /\ UNCHANGED <<ctxDone, tick, round, checker, hand, checked, handler,
                 targets, snapTick, reported, status>>

\* Faulty: the dispatcher returns when it has sent all.
EnqueueAndReturn(m) ==
  /\ dispatcher = "sending"
  /\ m \in todo
  /\ Len(toCheck) < ToCheckCap
  /\ toCheck' = Append(toCheck, newTarget(m))
  /\ todo' = todo \ {m}
  /\ dispatcher' = IF todo' = {} THEN "stopped" ELSE "sending"
  /\ UNCHANGED <<ctxDone, tick, round, checker, hand, checked, handler,
                 targets, snapTick, reported, status>>

\* The dispatcher blocks while toCheck is full.  select picks any ready case,
\* so a cancelled context does not keep it from sending.
Enqueue(m) ==
  /\ dispatcher = "sending"
  /\ m \in todo
  /\ Len(toCheck) < ToCheckCap
  /\ toCheck' = Append(toCheck, newTarget(m))
  /\ todo' = todo \ {m}
  /\ dispatcher' = IF todo' = {} THEN "waiting" ELSE "sending"
  /\ UNCHANGED <<ctxDone, tick, round, checker, hand, checked, handler,
                 targets, snapTick, reported, status>>

\* ctx.Done is ready while sending: dispatch returns to the ticker loop.
AbortDispatch ==
  /\ ctxDone
  /\ dispatcher = "sending"
  /\ todo' = {}
  /\ dispatcher' = "waiting"
  /\ UNCHANGED <<ctxDone, tick, round, toCheck, checker, hand, checked,
                 handler, targets, snapTick, reported, status>>

OnCheckTick ==
  /\ dispatcher = "waiting"
  /\ tick
  /\ tick' = FALSE
  /\ dispatcher' = "listing"
  /\ UNCHANGED <<ctxDone, round, todo, toCheck, checker, hand, checked,
                 handler, targets, snapTick, reported, status>>

StopDispatcher ==
  /\ ctxDone
  /\ dispatcher = "waiting"
  /\ dispatcher' = "stopped"
  /\ UNCHANGED <<ctxDone, tick, round, todo, toCheck, checker, hand, checked,
                 handler, targets, snapTick, reported, status>>

------------------------------------------------------------------------------
(* The checkers.                                                           *)

\* The range over toCheck does not look at the context.  A check that begins
\* after the cancellation is doomed: its first API calls fail.
Take(c) ==
  /\ checker[c] = "idle"
  /\ toCheck # <<>>
  /\ toCheck' = Tail(toCheck)
  /\ hand' = [hand EXCEPT ![c] = Head(toCheck)]
  /\ checker' = [checker EXCEPT ![c] = IF ctxDone THEN "doomed" ELSE "checking"]
  /\ UNCHANGED <<ctxDone, tick, dispatcher, round, todo, checked, handler,
                 targets, snapTick, reported, status>>

\* The check in the hand of c can end with status s.  Any of its calls may
\* fail, and a cancellation makes the next one fail: then the verdict says
\* nothing of the participant.  What a Hung one is asked after it accepted the
\* call never ends.
MayEnd(c, s) ==
  \/ checker[c] \in {"checking", "doomed"} /\ s = "failed"
  \/ checker[c] = "checking" /\ hand[c].id \in Reachable \ Hung /\ s = "ok"

\* target.check(ctx) returns.  It is the operand of the send, so it runs to
\* its end before select looks at ctx.Done.
FinishCheck(c) ==
  /\ \E s \in Statuses : MayEnd(c, s) /\ status' = [status EXCEPT ![hand[c]] = s]
  /\ checker' = [checker EXCEPT ![c] = "sending"]
  /\ UNCHANGED <<ctxDone, tick, dispatcher, round, todo, toCheck, hand,
                 checked, handler, targets, snapTick, reported>>

\* Faulty: the checker goes on with the Target it has handed over.
SendKeeping(c) ==
  /\ checker[c] = "sending"
  /\ Len(checked) < CheckedCap
  /\ checked' = Append(checked, hand[c])
  /\ checker' = [checker EXCEPT ![c] = "checking"]
  /\ UNCHANGED <<ctxDone, tick, dispatcher, round, todo, toCheck, hand,
                 handler, targets, snapTick, reported, status>>

\* Faulty: the send has a default case and drops the result when full.
SendOrDrop(c) ==
  /\ checker[c] = "sending"
  /\ checked' = IF Len(checked) < CheckedCap THEN Append(checked, hand[c])
                                             ELSE checked
  /\ hand' = [hand EXCEPT ![c] = NoTarget]
  /\ checker' = [checker EXCEPT ![c] = "idle"]
  /\ UNCHANGED <<ctxDone, tick, dispatcher, round, todo, toCheck, handler,
                 targets, snapTick, reported, status>>

Send(c) ==
  /\ checker[c] = "sending"
  /\ Len(checked) < CheckedCap
  /\ checked' = Append(checked, hand[c])
  /\ hand' = [hand EXCEPT ![c] = NoTarget]
  /\ checker' = [checker EXCEPT ![c] = "idle"]
  /\ UNCHANGED <<ctxDone, tick, dispatcher, round, todo, toCheck, handler,
                 targets, snapTick, reported, status>>

\* ctx.Done is ready: the result is dropped and the checker returns.
StopChecker(c) ==
  /\ ctxDone
  /\ checker[c] = "sending"
  /\ hand' = [hand EXCEPT ![c] = NoTarget]
  /\ checker' = [checker EXCEPT ![c] = "stopped"]
  /\ UNCHANGED <<ctxDone, tick, dispatcher, round, todo, toCheck, checked,
                 handler, targets, snapTick, reported, status>>

------------------------------------------------------------------------------
(* The checked result handler.                                             *)

\* Faulty: the latest result is taken first.
RecordLast ==
  /\ handler = "waiting"
  /\ checked # <<>>
  /\ targets' = [targets EXCEPT ![checked[Len(checked)].id] = checked[Len(checked)]]
  /\ checked' = SubSeq(checked, 1, Len(checked) - 1)
  /\ UNCHANGED <<ctxDone, tick, dispatcher, round, todo, toCheck, checker,
                 hand, handler, snapTick, reported, status>>

\* Faulty: only participants found in order are kept.
RecordForgetting ==
  /\ handler = "waiting"
  /\ checked # <<>>
  /\ targets' = [targets EXCEPT ![Head(checked).id] =
                   IF status[Head(checked)] = "ok" THEN Head(checked) ELSE NoTarget]
  /\ checked' = Tail(checked)
  /\ UNCHANGED <<ctxDone, tick, dispatcher, round, todo, toCheck, checker,
                 hand, handler, snapTick, reported, status>>

\* The map is written, and hf.store called, under targetsMutex: no other
\* goroutine sees a state in between.  TargetStore models hf.store.
Record ==
  /\ handler = "waiting"
  /\ checked # <<>>
  /\ targets' = [targets EXCEPT ![Head(checked).id] = Head(checked)]
  /\ checked' = Tail(checked)
  /\ UNCHANGED <<ctxDone, tick, dispatcher, round, todo, toCheck, checker,
                 hand, handler, snapTick, reported, status>>

\* Faulty: only the snapshot at start is taken, ticks are drained.
SnapshotOnce ==
  /\ handler = "starting" \/ (handler = "waiting" /\ snapTick)
  /\ reported' = IF handler = "starting" THEN targets ELSE reported
  /\ snapTick' = (snapTick /\ handler = "starting")
  /\ handler' = "waiting"
  /\ UNCHANGED <<ctxDone, tick, dispatcher, round, todo, toCheck, checker,
                 hand, checked, targets, status>>

\* One snapshot before the loop, then one per tick.
Snapshot ==
  /\ handler = "starting" \/ (handler = "waiting" /\ snapTick)
  /\ reported' = targets
  /\ snapTick' = (snapTick /\ handler = "starting")
  /\ handler' = "waiting"
  /\ UNCHANGED <<ctxDone, tick, dispatcher, round, todo, toCheck, checker,
                 hand, checked, targets, status>>

StopHandler ==
  /\ ctxDone
  /\ handler = "waiting"
  /\ handler' = "stopped"
  /\ UNCHANGED <<ctxDone, tick, dispatcher, round, todo, toCheck, checker,
                 hand, checked, targets, snapTick, reported, status>>

------------------------------------------------------------------------------
(* The tickers, which drop a tick while one is pending, and main.          *)

CheckTick ==
  /\ ~tick
  /\ tick' = TRUE
  /\ UNCHANGED <<ctxDone, dispatcher, round, todo, toCheck, checker, hand,
                 checked, handler, targets, snapTick, reported, status>>

SnapshotTick ==
  /\ ~snapTick
  /\ snapTick' = TRUE
  /\ UNCHANGED <<ctxDone, tick, dispatcher, round, todo, toCheck, checker,
                 hand, checked, handler, targets, reported, status>>

\* A signal arrives.  The process may end at any later point: the steps after
\* the cancellation are those that may still happen, none of them must.
Cancel ==
  /\ ~ctxDone
  /\ ctxDone' = TRUE
  /\ UNCHANGED <<tick, dispatcher, round, todo, toCheck, checker, hand,
                 checked, handler, targets, snapTick, reported, status>>

Dispatcher == \/ \E S \in SUBSET Miners : ListMiners(S)
              \/ ListFails
              \/ \E m \in Miners : Enqueue(m)
              \/ AbortDispatch
              \/ OnCheckTick
              \/ StopDispatcher

Checker(c) == Take(c) \/ FinishCheck(c) \/ Send(c) \/ StopChecker(c)

Handler == Record \/ Snapshot \/ StopHandler

Environment == CheckTick \/ SnapshotTick \/ Cancel

Next == \/ Dispatcher
        \/ \E c \in Checkers : Checker(c)
        \/ Handler
        \/ Environment

Spec == Init /\ [][Next]_vars

(***************************************************************************)
(* While the context lives the process runs, every goroutine is scheduled, *)
(* every check but those of Hung participants ends, and both tickers tick. *)
(* Goroutines blocked on a full or an empty channel are served first come  *)
(* first served, and a select with several ready cases picks one at        *)
(* random: hence strong fairness where the step may be disabled again by a *)
(* competitor.                                                             *)
(***************************************************************************)
Hangs(c) == hand[c] # NoTarget /\ hand[c].id \in Hung
Fairness ==
  /\ WF_vars(~ctxDone /\ (ListFails \/ \E S \in SUBSET Miners : ListMiners(S)))
  /\ WF_vars(~ctxDone /\ \E m \in Miners : Enqueue(m))
  /\ WF_vars(~ctxDone /\ OnCheckTick)
  /\ \A c \in Checkers : /\ SF_vars(~ctxDone /\ Take(c))
                         /\ WF_vars(~ctxDone /\ ~Hangs(c) /\ FinishCheck(c))
                         /\ SF_vars(~ctxDone /\ Send(c))
  /\ SF_vars(~ctxDone /\ Record)
  /\ SF_vars(~ctxDone /\ Snapshot)
  /\ WF_vars(~ctxDone /\ SnapshotTick)

FairSpec == Spec /\ Fairness

------------------------------------------------------------------------------
(* Properties.                                                             *)

Waiting == {newTarget(m) : m \in todo}
Held == {hand[c] : c \in Checkers} \ {NoTarget}
InFlight == Held \cup Range(checked)
Outstanding == Waiting \cup Range(toCheck) \cup InFlight
Published == (Range(targets) \cup Range(reported)) \ {NoTarget}

\* Every variable has its type; the channels respect their capacities.
TypeOK ==
  /\ ctxDone \in BOOLEAN /\ tick \in BOOLEAN /\ snapTick \in BOOLEAN
  /\ dispatcher \in {"listing", "sending", "waiting", "stopped"}
  /\ handler \in {"starting", "waiting", "stopped"}
  /\ checker \in [Checkers -> {"idle", "checking", "doomed", "sending", "stopped"}]
  /\ round \in 0 .. MaxRounds
  /\ todo \subseteq Miners
  /\ toCheck \in Seq(Targets) /\ Len(toCheck) <= ToCheckCap
  /\ checked \in Seq(Targets) /\ Len(checked) <= CheckedCap
  /\ hand \in [Checkers -> Targets \cup {NoTarget}]
  /\ targets \in [Miners -> Targets \cup {NoTarget}]
  /\ reported \in [Miners -> Targets \cup {NoTarget}]
  /\ status \in [[id : Miners, round : 0 .. MaxRounds] -> Statuses]

\* A Target has one owner at a time: it sits once in one of the places it
\* passes through, so no goroutine writes its fields while another has it.
SingleOwner ==
  /\ IsInjective(toCheck)
  /\ IsInjective(checked)
  /\ \A c, d \in Checkers : c # d /\ hand[c] # NoTarget => hand[c] # hand[d]
  /\ Waiting \cap (Range(toCheck) \cup InFlight) = {}
  /\ Range(toCheck) \cap InFlight = {}
  /\ Held \cap Range(checked) = {}

\* A Target that is in the map, or was when the metrics last summed it up, never
\* goes through a check again: handleGetSP and reportAsyncMetrics read its
\* fields after they released the lock.
PublishedIsFinal == Published \cap Outstanding = {}

\* A check begins with a blank Target and ends with a verdict, and whatever
\* was given one is never checked again: check resets no field, so that a used
\* Target would keep an old error message, and a pointer that unindexedTargets
\* kept would see it change.  Nothing blank is handed on.
Unchecked == Waiting \cup Range(toCheck)
               \cup {hand[c] : c \in {d \in Checkers : checker[d] \in {"checking", "doomed"}}}
CheckedOnce ==
  /\ \A t \in Unchecked : status[t] = "unknown"
  /\ \A t \in Range(checked) \cup Published : status[t] # "unknown"

\* A result that is served is newer than every check of the same miner that
\* has not begun: checks of one miner begin in the order of their dispatch.
NoOlderWaiting ==
  \A m \in Miners, t \in Waiting \cup Range(toCheck) :
    targets[m] # NoTarget /\ t.id = m => targets[m].round < t.round

\* A newer result may be overwritten by an older one, but only by as many as
\* there are other checkers, however many dispatches are on their way.
Older(m) == {t \in Outstanding : t.id = m /\ targets[m] # NoTarget
                                          /\ t.round < targets[m].round}
OvertakenBounded ==
  \A m \in Miners : Older(m) # {} => Cardinality(Older(m)) < Cardinality(Checkers)

\* With one checker the served result of a miner never goes back in time.
InOrder ==
  [][Cardinality(Checkers) = 1 =>
       \A m \in Miners : targets[m] # NoTarget =>
         targets'[m].round >= targets[m].round]_targets

\* Every check that a dispatch issues is recorded once, and none is dropped,
\* duplicated or made up while the context lives.
Ledger == INSTANCE CheckLedger WITH issued <- round, outstanding <- Outstanding,
                                    recorded <- targets
LedgerSpec == Ledger!Spec

\* Every check of a participant that answers is recorded in the end.
EveryCheckRecorded ==
  \A m \in Miners \ Hung, n \in 1 .. MaxRounds :
    At(m, n) \in Outstanding ~> (targets[m] = At(m, n) \/ ctxDone)

\* A tick of the check interval is answered by listing the miners again: the
\* back-pressure of the channels never stalls the dispatcher for good.
TicksServed == tick ~> (dispatcher = "listing" \/ ctxDone)

\* What the map serves for a miner reaches the metrics, unless superseded.
ResultsReported ==
  \A m \in Miners, n \in 0 .. MaxRounds :
    targets[m] = At(m, n) ~>
      (reported[m] = At(m, n) \/ targets[m] # At(m, n) \/ ctxDone)
==============================================================================
