-------------------------- MODULE DeploymentPolicy --------------------------
(***************************************************************************)
(* The arithmetic of a rollout (deployment_policy_types.go, compartment.go *)
(* and the compartment half of cluster_state_v2.go): budgets, strategies,  *)
(* the size of the next batch, the score of a finished one, and the choice *)
(* of a compartment for a node that matches several.                       *)
(*                                                                         *)
(* A strategy is a record; type "none" is the nil strategy of a            *)
(* budget-only compartment.  step is delta for linear and growthFactor for *)
(* exponential.  failures = 0 stands for an unset failureThreshold, and 0  *)
(* in the other fields for a value the webhook fills in.                   *)
(***************************************************************************)
EXTENDS Integers, FiniteSets

StrategyTypes == {"fixed", "linear", "exponential", "none"}
BudgetKinds == {"count", "percent", "unset"}

Maximum(i, j) == IF i >= j THEN i ELSE j
Minimum(i, j) == IF i <= j THEN i ELSE j
OrDefault(value, default) == IF value = 0 THEN default ELSE value

Default(s) ==
  IF s.type = "none" THEN s ELSE
  [s EXCEPT !.initial = OrDefault(@, 1), !.threshold = OrDefault(@, 100),
            !.safety = OrDefault(@, 50),
            !.step = OrDefault(@, IF s.type = "exponential" THEN 2 ELSE 1)]

\* At least one node, however small the percentage (CalculateCeiling).
CalculateCeiling(budget, matched) ==
  CASE budget.kind = "count" -> budget.n
    [] budget.kind = "percent" /\ matched > 0 -> Maximum(1, (matched * budget.n) \div 100)
    [] OTHER -> 0

\* A NodeWright without a policy: its interruptionBudget as a fixed strategy.
CreateLegacyDefaultStrategy(budget, nodeCount) ==
  LET b == IF budget.kind = "unset" THEN [kind |-> "percent", n |-> 100] ELSE budget
  IN Default([type |-> "fixed", step |-> 0, threshold |-> 0, failures |-> 0, safety |-> 0,
              initial |-> IF b.kind = "count" THEN Maximum(1, Minimum(nodeCount, b.n))
                          ELSE Maximum(1, CalculateCeiling(b, nodeCount))])

-----------------------------------------------------------------------------
(***************************************************************************)
(* BatchProcessingState.  completed and failed are the checkpoint the next *)
(* evaluation is measured against, not running totals of their own.        *)
(***************************************************************************)
FreshBatch ==
  [batch |-> 1, failures |-> 0, completed |-> 0, failed |-> 0,
   stop |-> FALSE, lastSize |-> 0, lastFailed |-> FALSE]
\* What the status holds for a compartment without a strategy, or without a status.
NoBatch == [FreshBatch EXCEPT !.batch = 0]

ProgressPercent(bs, total) ==
  IF total > 0 THEN ((bs.completed + bs.failed) * 100) \div total ELSE 0

\* What the strategy asks for before the remaining nodes bound it.
DesiredBatchSize(s, total, bs) ==
  LET slow == bs.lastFailed /\ ProgressPercent(bs, total) < s.safety IN
  CASE s.type = "fixed" \/ bs.lastSize = 0 -> s.initial
    [] s.type = "linear" /\ bs.lastSize > 0 ->
         IF slow THEN Maximum(1, bs.lastSize - s.step) ELSE bs.lastSize + s.step
    [] s.type = "exponential" /\ bs.lastSize > 0 ->
         Minimum(total, IF slow THEN Maximum(1, bs.lastSize \div s.step)
                        ELSE bs.lastSize * s.step)

CalculateBatchSize(s, total, bs) ==
  LET remaining == total - (bs.completed + bs.failed) IN
  IF remaining <= 0 THEN 0 ELSE Maximum(1, Minimum(DesiredBatchSize(s, total, bs), remaining))

(***************************************************************************)
(* EvaluateCurrentBatch.  A batch is over when no node is in progress; its *)
(* result is what changed since the checkpoint.  A count that went down    *)
(* (nodes changed compartment, or a failed one was retried) only moves the *)
(* checkpoint.  evaluateCompletedBatches skips a batch of which nothing    *)
(* completed or failed, whatever is blocked, so scored is FALSE for it.    *)
(***************************************************************************)
EvaluateCurrentBatch(bs, inProgress, completed, failed) ==
  LET ok == completed - bs.completed
      bad == failed - bs.failed
      checkpoint == [bs EXCEPT !.completed = completed, !.failed = failed]
  IN CASE inProgress > 0 -> [scored |-> FALSE, ok |-> 0, bad |-> 0, bs |-> bs]
       [] inProgress = 0 /\ bs.batch = 0 ->
            [scored |-> FALSE, ok |-> 0, bad |-> 0, bs |-> [bs EXCEPT !.batch = 1]]
       [] inProgress = 0 /\ bs.batch # 0 /\ (ok < 0 \/ bad < 0) ->
            [scored |-> FALSE, ok |-> 0, bad |-> 0, bs |-> checkpoint]
       [] inProgress = 0 /\ bs.batch # 0 /\ ok >= 0 /\ bad >= 0 ->
            [scored |-> ok + bad > 0, ok |-> ok, bad |-> bad, bs |-> checkpoint]

\* Mutant: a batch that just meets the threshold counts as failed.
EvaluateAtThreshold(s, bs, ok, bad, total) ==
  LET failed == (ok * 100) \div (ok + bad) <= s.threshold
      failures == IF failed THEN bs.failures + 1 ELSE 0
  IN [bs EXCEPT !.batch = @ + 1, !.lastSize = ok + bad, !.lastFailed = failed,
                !.failures = failures,
                !.stop = @ \/ (failed /\ s.failures # 0 /\ failures >= s.failures)]

\* EvaluateAndUpdateBatchState, with EvaluateBatchResult.
EvaluateBatchResult(s, bs, ok, bad, total) ==
  LET size == ok + bad
      failedBatch == (ok * 100) \div size < s.threshold
      failures == IF failedBatch THEN bs.failures + 1 ELSE 0
      stop == /\ failedBatch /\ s.failures # 0
              /\ ProgressPercent(bs, total) < s.safety
              /\ failures >= s.failures
  IN IF s.type = "none" THEN [bs EXCEPT !.batch = @ + 1, !.lastSize = size]
     ELSE [bs EXCEPT !.batch = @ + 1, !.lastSize = size, !.lastFailed = failedBatch,
                     !.failures = failures, !.stop = @ \/ stop]

-----------------------------------------------------------------------------
\* The safest of several matching compartments: fixed before linear before
\* exponential before no strategy, then the smaller ceiling, then the name.
SafetyOrder(type) ==
  CASE type = "fixed" -> 0 [] type = "linear" -> 1
    [] type = "exponential" -> 2 [] type = "none" -> 999

StrategyIsSafer(t, u) == SafetyOrder(t) < SafetyOrder(u)

\* m and n are [type, capacity, rank] records of two compartments.
Precedes(m, n) ==
  \/ StrategyIsSafer(m.type, n.type)
  \/ m.type = n.type /\ m.capacity < n.capacity
  \/ m.type = n.type /\ m.capacity = n.capacity /\ m.rank < n.rank

SafestMatch(matches) == CHOOSE m \in matches : \A n \in matches \ {m} : Precedes(m, n)

-----------------------------------------------------------------------------
\* Admission of a policy: exactly one way to give the budget (the kind field), one
\* strategy type, and ranges the CRD schema enforces.
ValidBudget(b) ==
  \/ b.kind = "count" /\ b.n \in Nat
  \/ b.kind = "percent" /\ b.n \in 0..100
ValidStrategy(s) ==
  /\ s \in [type: StrategyTypes, initial: Nat, step: Nat, threshold: 0..100, failures: Nat, safety: 0..100]
  /\ s.type = "exponential" => s.step # 1
=============================================================================
