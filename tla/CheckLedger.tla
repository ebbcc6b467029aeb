----------------------------- MODULE CheckLedger -----------------------------
(***************************************************************************)
(* What heyfil promises of its participant checks, without saying how:     *)
(* every check that a dispatch issues is recorded exactly once, until the  *)
(* service is told to stop; after that, checks may be abandoned.  The      *)
(* order in which checks are recorded is left open.  CheckPipeline, the    *)
(* two channels and the goroutines between them, implements this.          *)
(***************************************************************************)
EXTENDS Integers

CONSTANTS Miners,    \* the miner IDs the Filecoin API may list
          NoTarget   \* the entry of a miner that was never recorded

VARIABLES issued,       \* number of dispatches that listed the miners
          outstanding,  \* checks issued, neither recorded nor abandoned
          recorded,     \* the check whose result is served, per miner
          ctxDone       \* the service's context is cancelled

vars == <<issued, outstanding, recorded, ctxDone>>

Check(m, n) == [id |-> m, round |-> n]

\* Round 0 stands for the results loaded from the store at start.
Init == /\ issued = 0
        /\ outstanding = {}
        /\ recorded \in [Miners -> {NoTarget} \cup {Check(m, 0) : m \in Miners}]
        /\ \A m \in Miners : recorded[m] \in {NoTarget, Check(m, 0)}
        /\ ctxDone = FALSE

Dispatch(S) ==
  /\ issued' = issued + 1
  /\ outstanding' = outstanding \cup {Check(m, issued') : m \in S}
  /\ UNCHANGED <<recorded, ctxDone>>

Record(j) ==
  /\ j \in outstanding
  /\ outstanding' = outstanding \ {j}
  /\ recorded' = [recorded EXCEPT ![j.id] = j]
  /\ UNCHANGED <<issued, ctxDone>>

Abandon(J) ==
  /\ ctxDone
  /\ outstanding' = outstanding \ J
  /\ UNCHANGED <<issued, recorded, ctxDone>>

Cancel == /\ ctxDone' = TRUE
          /\ UNCHANGED <<issued, outstanding, recorded>>

Next == \/ \E S \in SUBSET Miners : Dispatch(S)
        \/ \E j \in outstanding : Record(j)
        \/ \E J \in SUBSET outstanding : Abandon(J)
        \/ Cancel

Spec == Init /\ [][Next]_vars
==============================================================================
