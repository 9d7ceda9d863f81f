------------------------- MODULE ExecutionWorkflow -------------------------
(***************************************************************************)
(* The execution workflow of one plan (agent-orchestrator).  It waits for  *)
(* approve signals, validates each of them again with the approval policy, *)
(* and starts the execution activity once a signal is accepted.  The       *)
(* workflow server keeps signals and delivers each at least once, in any   *)
(* order; it may run a signal handler before run() itself.                 *)
(***************************************************************************)
EXTENDS PlanPolicy

CONSTANTS
  Actors,          \* canonical actor ids
  Signals,         \* names of the approve signals that are sent
  Signal,          \* what each of them carries
  MaxDeliveries,   \* bound: deliveries of signals
  MaxAttempts      \* bound: attempts of the execution activity

(* All signals are about the plan of this workflow: the sender addresses   *)
(* it, the handler does not compare the two.  same says that the decision  *)
(* in a signal names the signal's contract, intact that its two plan       *)
(* snapshots agree.                                                        *)
ASSUME ExecutionAssumption ==
  /\ MaxDeliveries \in Nat /\ MaxAttempts \in Nat \ {0}
  /\ Signal \in [Signals -> [approver : Actors, decision : Decision, proposer : Actors,
                             approvals : [Actors -> Decision \cup {None}],
                             highRisk : BOOLEAN, same : BOOLEAN, intact : BOOLEAN]]

VARIABLES
  entered,         \* run() has begun
  runState,        \* _run_state
  planState,       \* _plan_state
  seen,            \* _seen_decisions, by approver
  refusal,         \* _last_refused_reason is set
  activity,        \* the execution activity: none, running or done
  attempts,        \* attempts the workflow server made of it
  starts,          \* how often run() started it
  accepted,        \* signals whose handling was not refused
  deliveries       \* signals delivered so far

executionVars == <<entered, runState, planState, seen, refusal, activity, attempts, starts,
                   accepted, deliveries>>

-----------------------------------------------------------------------------
(* transition(), as the workflow calls it: the quorum is evaluated over    *)
(* the approvals the signal carries, the decisions seen before serve only  *)
(* to find a contradiction.                                                *)
Revalidate(plan, prior, s) ==
  LET sig == Signal[s] IN
  IF \/ plan # "waiting_approval"
     \/ ~sig.intact \/ ~sig.same
     \/ prior[sig.approver] \notin {None, sig.decision}
     \/ sig.approver = sig.proposer
  THEN Refused
  ELSE IF sig.decision = "rejected" THEN "rejected"
  ELSE IF EvaluateH7(sig.proposer, sig.approvals, sig.highRisk)
  THEN "approved"
  ELSE "waiting_approval"

(* apply_approval_signal: the run state and the plan state after a signal. *)
ApplyApprovalSignal(plan, prior, s) ==
  LET next == Revalidate(plan, prior, s) IN
  CASE next = Refused -> [run |-> "refused", plan |-> plan]
    [] next = "waiting_approval" -> [run |-> "waiting_approval", plan |-> next]
    [] next = "rejected" -> [run |-> "refused", plan |-> next]
    [] next = "approved" ->
         [run |-> IF Signal[s].decision = "approved" THEN "executing" ELSE "refused",
          plan |-> next]

ExecutionInit ==
  /\ entered = FALSE
  /\ runState = "waiting_approval" /\ planState = "waiting_approval"
  /\ seen = [a \in Actors |-> None]
  /\ refusal = FALSE
  /\ activity = "none" /\ attempts = 0 /\ starts = 0
  /\ accepted = {} /\ deliveries = 0

(* Mutant: a refused decision is recorded too.                             *)
HandleApproveRecordsAll(s) ==
  LET result == ApplyApprovalSignal(planState, seen, s) IN
  /\ activity # "done" /\ deliveries < MaxDeliveries
  /\ deliveries' = deliveries + 1
  /\ planState' = result.plan
  /\ refusal' = (result.run = "refused")
  /\ seen' = [seen EXCEPT ![Signal[s].approver] = Signal[s].decision]
  /\ accepted' = IF result.run = "refused" THEN accepted ELSE accepted \cup {s}
  /\ runState' = IF result.run = "executing" THEN "executing" ELSE runState
  /\ UNCHANGED <<entered, activity, attempts, starts>>

(* _handle_approve: nothing once executing, else the policy decides.  A    *)
(* refused decision is not recorded.                                       *)
HandleApprove(s) ==
  LET result == ApplyApprovalSignal(planState, seen, s) IN
  /\ activity # "done" /\ deliveries < MaxDeliveries
  /\ deliveries' = deliveries + 1
  /\ IF runState = "executing"
     THEN UNCHANGED <<runState, planState, seen, refusal, accepted>>
     ELSE /\ planState' = result.plan
          /\ refusal' = (result.run = "refused")
          /\ IF result.run = "refused"
             THEN UNCHANGED <<runState, seen, accepted>>
             ELSE /\ seen' = [seen EXCEPT ![Signal[s].approver] = Signal[s].decision]
                  /\ accepted' = accepted \cup {s}
                  /\ runState' = IF result.run = "executing" THEN "executing" ELSE runState
  /\ UNCHANGED <<entered, activity, attempts, starts>>

(* Mutant: run() initialises the state again.                              *)
EnterRunResets ==
  /\ ~entered /\ entered' = TRUE
  /\ runState' = "waiting_approval" /\ planState' = "waiting_approval"
  /\ UNCHANGED <<seen, refusal, activity, attempts, starts, accepted, deliveries>>

(* The first part of run(): it takes its input and waits.                  *)
EnterRun ==
  /\ ~entered /\ entered' = TRUE
  /\ UNCHANGED <<runState, planState, seen, refusal, activity, attempts, starts, accepted,
                 deliveries>>

(* wait_condition is satisfied and run() starts the activity.              *)
StartActivity ==
  /\ entered /\ runState = "executing" /\ activity = "none"
  /\ activity' = "running" /\ starts' = starts + 1 /\ attempts' = 1
  /\ UNCHANGED <<entered, runState, planState, seen, refusal, accepted, deliveries>>

(* A heartbeat or the start-to-close deadline is missed; the server tries  *)
(* again.                                                                  *)
RetryActivity ==
  /\ activity = "running" /\ attempts < MaxAttempts
  /\ attempts' = attempts + 1
  /\ UNCHANGED <<entered, runState, planState, seen, refusal, activity, starts, accepted,
                 deliveries>>

(* run_execution_activity returns and run() with it.                       *)
FinishActivity ==
  /\ activity = "running"
  /\ activity' = "done"
  /\ UNCHANGED <<entered, runState, planState, seen, refusal, attempts, starts, accepted,
                 deliveries>>

ExecutionNext ==
  \/ \E s \in Signals : HandleApprove(s)
  \/ EnterRun \/ StartActivity \/ RetryActivity \/ FinishActivity

(* The workflow server runs a workflow task whenever one is due.           *)
ExecutionFairness ==
  /\ WF_executionVars(EnterRun)
  /\ WF_executionVars(StartActivity)
  /\ WF_executionVars(FinishActivity)

ExecutionSpec == ExecutionInit /\ [][ExecutionNext]_executionVars /\ ExecutionFairness

-----------------------------------------------------------------------------
ExecutionTypeOK ==
  /\ entered \in BOOLEAN /\ refusal \in BOOLEAN
  /\ runState \in {"waiting_approval", "executing"} /\ planState \in PlanState
  /\ seen \in [Actors -> Decision \cup {None}]
  /\ activity \in {"none", "running", "done"}
  /\ attempts \in 0..MaxAttempts /\ starts \in Nat
  /\ accepted \subseteq Signals /\ deliveries \in 0..MaxDeliveries

(* The activity is started at most once, and only after an accepted signal *)
(* that carries an approval by somebody other than the proposer and the    *)
(* quorum its risk requires; signals before run(), repeated or late        *)
(* signals and retries of the activity change nothing about that.          *)
StartedOnceWithQuorum ==
  /\ starts <= 1
  /\ activity # "none" =>
       \E s \in accepted :
         /\ Signal[s].decision = "approved" /\ Signal[s].approver # Signal[s].proposer
         /\ EvaluateH7(Signal[s].proposer, Signal[s].approvals, Signal[s].highRisk)

(* A refused signal never stands in an approver's way: while the plan is   *)
(* waiting, a well-formed signal is accepted or rejects the plan unless    *)
(* its approver was accepted with the opposite decision before.            *)
RefusalBlocksNobody ==
  \A s \in Signals :
    LET sig == Signal[s] IN
    /\ planState = "waiting_approval"
    /\ sig.intact /\ sig.same /\ sig.approver # sig.proposer
    /\ ~\E t \in accepted : Signal[t].approver = sig.approver /\ Signal[t].decision # sig.decision
    => ApplyApprovalSignal(planState, seen, s) # [run |-> "refused", plan |-> planState]

(* Once a signal was accepted for execution the workflow returns, also     *)
(* when the handler ran before run().                                      *)
AcceptedIsExecuted == (runState = "executing") ~> (activity = "done")

(* The execution activity of a workflow starts once, after a quorum, and   *)
(* no refused signal takes an approver out of the game.                    *)
StartIsEarned ==
  /\ ExecutionTypeOK
  /\ StartedOnceWithQuorum
  /\ RefusalBlocksNobody
=============================================================================
