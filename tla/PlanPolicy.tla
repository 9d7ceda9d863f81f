----------------------------- MODULE PlanPolicy -----------------------------
(***************************************************************************)
(* The pure approval policy of saena_domain.policy: the states of a        *)
(* ChangePlan, the transitions allowed between them and the H-7 quorum.    *)
(* It has no state of its own.  The plan-contract service calls it inside  *)
(* its handlers and the execution workflow calls it again on a signal.     *)
(*                                                                         *)
(* Decisions on one plan are a function from canonical actor ids to        *)
(* "approved", "rejected" or None: DecisionRecord.decision_key holds the   *)
(* canonical id, so one approver has at most one entry.                    *)
(***************************************************************************)
EXTENDS Naturals, FiniteSets

None == "none"

PlanState == {"proposed", "waiting_approval", "approved", "rejected", "expired",
              "cancelled"}

TERMINAL_STATES == {"approved", "rejected", "expired", "cancelled"}

Decision == {"approved", "rejected"}

(* The adjacency of the approval machine; a terminal state has no edge.    *)
ALLOWED_TRANSITIONS ==
  [s \in PlanState |->
     CASE s = "proposed" -> {"waiting_approval", "cancelled"}
       [] s = "waiting_approval" -> {"approved", "rejected", "expired", "cancelled"}
       [] OTHER -> {}]

(* Distinct approvers that count: canonical ids that approved and are not  *)
(* the proposer.                                                           *)
ValidApprovers(proposer, decisions) ==
  {i \in DOMAIN decisions : decisions[i] = "approved" /\ i # proposer}

(* Mutant: the two-person rule is forgotten.                               *)
RequiredOne(highRisk) == 1

Required(highRisk) == IF highRisk THEN 2 ELSE 1

EvaluateH7(proposer, decisions, highRisk) ==
  Cardinality(ValidApprovers(proposer, decisions)) >= Required(highRisk)

(* The approval set a handler evaluates: the decisions it loaded plus the  *)
(* incoming one, unless this approver is already among them.               *)
WithIncoming(decisions, id, decision) ==
  [decisions EXCEPT ![id] = IF @ = None THEN decision ELSE @]

(* An exception raised by the policy.                                      *)
Refused == "refused"

(* Mutant: the proposer's own decision is not refused.                     *)
TransitionSelf(cur, proposer, decisions, id, decision, highRisk) ==
  IF cur # "waiting_approval" \/ decisions[id] \notin {None, decision} THEN Refused
  ELSE IF decision = "rejected" THEN "rejected"
  ELSE IF EvaluateH7(proposer, WithIncoming(decisions, id, decision), highRisk)
  THEN "approved"
  ELSE "waiting_approval"

(* transition() on a decision: the next state, or Refused for the wrong    *)
(* state, for a decision that conflicts with this approver's earlier one   *)
(* and for a decision by the proposer.                                     *)
Transition(cur, proposer, decisions, id, decision, highRisk) ==
  IF \/ cur # "waiting_approval"
     \/ decisions[id] \notin {None, decision}
     \/ id = proposer
  THEN Refused
  ELSE IF decision = "rejected" THEN "rejected"
  ELSE IF EvaluateH7(proposer, WithIncoming(decisions, id, decision), highRisk)
  THEN "approved"
  ELSE "waiting_approval"

(* Mutant: a terminal state may be cancelled or expired.                   *)
MoveToAlways(cur, to) == to

(* cancel() and expire(): `to` if the machine has that edge.               *)
MoveTo(cur, to) == IF to \in ALLOWED_TRANSITIONS[cur] THEN to ELSE Refused

(* Mutant: any recorded approval allows execution.                         *)
GuardExecutionAnyState(cur, decisions) ==
  \E i \in DOMAIN decisions : decisions[i] = "approved"

(* guard_execution(), with the approval the execution check looks for.     *)
GuardExecution(cur, decisions) ==
  cur = "approved" /\ \E i \in DOMAIN decisions : decisions[i] = "approved"
=============================================================================
