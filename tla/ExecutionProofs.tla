--------------------------- MODULE ExecutionProofs ---------------------------
(***************************************************************************)
(* Proofs about the execution of an approved plan: the workflow starts its *)
(* activity once and only with a quorum (ExecutionWorkflow), and a runner  *)
(* job commits what was approved and reports what it did (AgentRunner).    *)
(* And about the gates on its way: what the policy gate allows is rightful *)
(* and on record (PolicyGate), no wrapping hides a denied command from it  *)
(* (CommandPolicy), what the release gates let pass has no defect          *)
(* (QualityEval), and a coding session under the hooks stays in its        *)
(* contract (HooksSession, HookRules).                                     *)
(***************************************************************************)
EXTENDS ExecutionWorkflow, AgentRunner, PolicyGate, QualityEval, CommandPolicy, HooksSession,
        TupleLemmas, NaturalsInduction, SequenceTheorems

-----------------------------------------------------------------------------
(* The workflow.                                                           *)

(* A signal that entitles the workflow to execute.                         *)
Entitles(s) ==
  /\ Signal[s].decision = "approved" /\ Signal[s].approver # Signal[s].proposer
  /\ EvaluateH7(Signal[s].proposer, Signal[s].approvals, Signal[s].highRisk)

(* The activity runs in state executing only, and that state is entered    *)
(* with an accepted signal that entitles to it.                            *)
StartInv ==
  /\ starts = IF activity = "none" THEN 0 ELSE 1
  /\ activity # "none" => runState = "executing"
  /\ runState = "executing" => \E s \in accepted : Entitles(s)

(* _seen_decisions holds decisions of accepted signals only.               *)
SeenIsAccepted ==
  \A a \in Actors :
    seen[a] # None =>
      \E t \in accepted : Signal[t].approver = a /\ Signal[t].decision = seen[a]

WorkflowInv == ExecutionTypeOK /\ StartInv /\ SeenIsAccepted

LEMMA SignalType ==
  ASSUME NEW s \in Signals
  PROVE  Signal[s].approver \in Actors /\ Signal[s].decision \in Decision
BY ExecutionAssumption

(* What apply_approval_signal returns: it moves the plan to approved only  *)
(* with a quorum and an approver who is not the proposer, and it reports   *)
(* the run as executing exactly then.                                      *)
LEMMA SignalResult ==
  ASSUME NEW s \in Signals, NEW plan \in PlanState, NEW prior
  PROVE  LET r == ApplyApprovalSignal(plan, prior, s) IN
         /\ r.plan \in PlanState
         /\ r.run \in {"refused", "waiting_approval", "executing"}
         /\ r.run = "executing" => Entitles(s)
<1>1. Signal[s].decision \in {"approved", "rejected"}
  BY SignalType DEF Decision
<1>2. Revalidate(plan, prior, s) \in {Refused, "rejected", "approved", "waiting_approval"}
  BY DEF Revalidate
<1>3. Revalidate(plan, prior, s) = "approved" => Entitles(s)
  BY <1>1 DEF Revalidate, Entitles, Refused
<1> QED BY <1>1, <1>2, <1>3 DEF ApplyApprovalSignal, Refused, PlanState

LEMMA WorkflowInitIsGood == ExecutionInit => WorkflowInv
<1> SUFFICES ASSUME ExecutionInit PROVE WorkflowInv
  OBVIOUS
<1>1. attempts \in 0..MaxAttempts /\ starts \in Nat /\ deliveries \in 0..MaxDeliveries
  BY ExecutionAssumption DEF ExecutionInit
<1>2. ExecutionTypeOK
  BY <1>1 DEF ExecutionInit, ExecutionTypeOK, PlanState
<1>3. StartInv /\ SeenIsAccepted
  BY DEF ExecutionInit, StartInv, SeenIsAccepted
<1> QED BY <1>2, <1>3 DEF WorkflowInv

LEMMA HandleApproveStep ==
  ASSUME WorkflowInv, NEW s \in Signals, HandleApprove(s)
  PROVE  WorkflowInv'
<1> DEFINE r == ApplyApprovalSignal(planState, seen, s)
           d == Signal[s].decision
           a == Signal[s].approver
<1> USE DEF WorkflowInv
<1>0. /\ deliveries < MaxDeliveries /\ deliveries' = deliveries + 1
      /\ UNCHANGED <<entered, activity, attempts, starts>>
      /\ runState = "executing" =>
           UNCHANGED <<runState, planState, seen, refusal, accepted>>
      /\ runState # "executing" =>
           /\ planState' = r.plan
           /\ refusal' = (r.run = "refused")
           /\ r.run = "refused" => UNCHANGED <<runState, seen, accepted>>
           /\ r.run # "refused" =>
                /\ seen' = [seen EXCEPT ![a] = d]
                /\ accepted' = accepted \cup {s}
                /\ runState' = IF r.run = "executing" THEN "executing" ELSE runState
  BY DEF HandleApprove
<1>1. /\ r.plan \in PlanState /\ r.run \in {"refused", "waiting_approval", "executing"}
      /\ r.run = "executing" => Entitles(s)
  BY SignalResult DEF ExecutionTypeOK
<1>2. a \in Actors /\ d \in Decision
  BY SignalType
<1> HIDE DEF r, a, d
<1>3. deliveries' \in 0..MaxDeliveries
  BY <1>0, ExecutionAssumption DEF ExecutionTypeOK
<1>4. CASE UNCHANGED <<runState, seen, accepted>>
  <2>1. ExecutionTypeOK'
    BY <1>0, <1>1, <1>3, <1>4 DEF ExecutionTypeOK
  <2> QED BY <2>1, <1>0, <1>4 DEF StartInv, SeenIsAccepted, Entitles
<1>5. CASE /\ runState # "executing" /\ r.run # "refused"
           /\ seen' = [seen EXCEPT ![a] = d] /\ accepted' = accepted \cup {s}
           /\ runState' = IF r.run = "executing" THEN "executing" ELSE runState
  <2>1. ExecutionTypeOK'
    BY <1>0, <1>1, <1>2, <1>3, <1>5 DEF ExecutionTypeOK
  <2>2. StartInv'
    BY <1>0, <1>1, <1>5 DEF StartInv, Entitles
  <2>3. SeenIsAccepted'
    BY <1>2, <1>5 DEF SeenIsAccepted, ExecutionTypeOK, a, d
  <2> QED BY <2>1, <2>2, <2>3
<1> QED BY <1>0, <1>4, <1>5

LEMMA WorkflowStep == WorkflowInv /\ [ExecutionNext]_executionVars => WorkflowInv'
<1> SUFFICES ASSUME WorkflowInv, [ExecutionNext]_executionVars PROVE WorkflowInv'
  OBVIOUS
<1> USE ExecutionAssumption
    DEF WorkflowInv, ExecutionTypeOK, StartInv, SeenIsAccepted, Entitles
<1>1. ASSUME NEW s \in Signals, HandleApprove(s) PROVE WorkflowInv'
  BY <1>1, HandleApproveStep
<1>2. CASE EnterRun
  BY <1>2 DEF EnterRun
<1>3. CASE StartActivity
  BY <1>3 DEF StartActivity
<1>4. CASE RetryActivity
  BY <1>4 DEF RetryActivity
<1>5. CASE FinishActivity
  BY <1>5 DEF FinishActivity
<1>6. CASE UNCHANGED executionVars
  BY <1>6 DEF executionVars
<1> QED BY <1>1, <1>2, <1>3, <1>4, <1>5, <1>6 DEF ExecutionNext

(* A signal that finds nothing against it is accepted or rejects the plan. *)
LEMMA NobodyIsBlocked == WorkflowInv => RefusalBlocksNobody
<1> SUFFICES ASSUME WorkflowInv, NEW s \in Signals, planState = "waiting_approval",
                    Signal[s].intact, Signal[s].same,
                    Signal[s].approver # Signal[s].proposer,
                    ~\E t \in accepted : /\ Signal[t].approver = Signal[s].approver
                                         /\ Signal[t].decision # Signal[s].decision
             PROVE  ApplyApprovalSignal(planState, seen, s)
                      # [run |-> "refused", plan |-> planState]
  BY DEF RefusalBlocksNobody
<1>1. Signal[s].approver \in Actors /\ Signal[s].decision \in {"approved", "rejected"}
  BY SignalType DEF Decision
<1>2. seen[Signal[s].approver] \in {None, Signal[s].decision}
  BY <1>1 DEF WorkflowInv, SeenIsAccepted
<1>3. /\ Revalidate(planState, seen, s) \in {"rejected", "approved", "waiting_approval"}
      /\ Revalidate(planState, seen, s) = "approved" => Signal[s].decision = "approved"
  BY <1>1, <1>2 DEF Revalidate
<1> QED BY <1>3 DEF ApplyApprovalSignal, Refused

(* The execution activity starts at most once and after a quorum, and no   *)
(* refused signal takes an approver out of the game, whatever signals are  *)
(* sent, repeated or reordered.                                            *)
THEOREM StartIsAlwaysEarned == ExecutionSpec => []StartIsEarned
<1>1. WorkflowInv => StartIsEarned
  <2> SUFFICES ASSUME WorkflowInv PROVE ExecutionTypeOK /\ StartedOnceWithQuorum
    BY NobodyIsBlocked DEF StartIsEarned
  <2> QED BY DEF WorkflowInv, StartInv, StartedOnceWithQuorum, Entitles
<1> QED BY <1>1, WorkflowInitIsGood, WorkflowStep, PTL DEF ExecutionSpec

-----------------------------------------------------------------------------
(* The runner.                                                             *)

Cleared(j) ==
  ApprovalRefused(Job[j].approval) = NoError /\ BundleRefused(Job[j].bundle) = NoError

Results == JobErrors \cup UnitErrors \cup WorkErrors \cup {"executed"}

(* Counters and sequences that RunnerTypeOK says less about.               *)
RunnerShape ==
  /\ unitIndex \in Nat /\ workIndex \in Nat /\ overdue \in Nat
  /\ trail \in Seq((STRING \cup {"job"}) \X Results)
  /\ outcomes \in Seq(STRING \X Results)
  /\ IsFiniteSet(written)

(* run() gets to its requests only when approval and bundle were cleared,  *)
(* and goes through them in order.                                         *)
JobInv ==
  /\ step = "idle" => unitIndex = 0 /\ trail = <<>> /\ error = NoError
  /\ step # "idle" => job \in Jobs
  /\ unitIndex = 0 => commits = {} /\ outcomes = <<>>
  /\ unitIndex # 0 => job \in Jobs /\ Cleared(job)
  /\ step \notin {"idle", "done", "raised"} => unitIndex \in 1..Len(Job[job].requests)
  /\ step = "done" => unitIndex = Len(Job[job].requests) + 1

(* While a unit is worked on, it is an approved one of the contract and    *)
(* whatever is in its worktree passed the guards; what is past the budget  *)
(* check is within the budget.                                             *)
UnitInv ==
  /\ step \in {"check_write", "write", "check_command", "command", "register", "audit"} =>
       Request.unit \in Job[job].approval.units \cap Units
  /\ step \in {"check_write", "write", "check_command", "command"} =>
       \A p \in written : WriteRefused(Request.unit, p) = NoError
  /\ step = "write" =>
       /\ workIndex \in DOMAIN Request.writes
       /\ WriteRefused(Request.unit, Request.writes[workIndex]) = NoError
  /\ step = "command" => workIndex \in DOMAIN Request.commands
  /\ step \in {"check_command", "command"} => ~OverBudget(written)
  /\ step \in {"register", "audit"} => \E c \in commits : c[1] = Request.unit
  /\ step = "audit" => Request.unit \in registered
  /\ step \in {"idle", "unit", "deny", "done", "register", "audit"} =>
       written = {} /\ touched = {}

(* A stop that was missed was missed by one call, and none follows.        *)
OverdueInv ==
  overdue # 0 =>
    overdue = 1 /\ (cancelled \/ now > Deadline) /\ step \notin {"write", "command"}

(* The error at hand, and each outcome, says what happened.                *)
StopIsReal(decision) ==
  /\ decision = "cancelled" => cancelled
  /\ decision = "timed_out" => now > Deadline
OutcomeInv ==
  /\ step \in {"rollback", "deny"} => error \in UnitErrors \cup WorkErrors
  /\ StopIsReal(error)
  /\ unitIndex # 0 =>
       /\ trail = outcomes /\ Len(outcomes) = unitIndex - 1
       /\ \A n \in 1..Len(outcomes) :
            /\ outcomes[n][1] = Job[job].requests[n].unit
            /\ StopIsReal(outcomes[n][2])
            /\ outcomes[n][2] = "executed" =>
                 outcomes[n][1] \in registered /\ \E c \in commits : c[1] = outcomes[n][1]
  /\ unitIndex = 0 => trail = <<>> \/ \E e \in JobErrors : trail = <<<<"job", e>>>>

RunnerInv ==
  /\ RunnerTypeOK /\ RunnerShape /\ JobInv /\ UnitInv
  /\ CommitsAreApproved /\ OverdueInv /\ OutcomeInv

(* The arguments of a job, as the assumption types them.                   *)
LEMMA RequestType ==
  ASSUME NEW j \in Jobs, NEW n \in 1..Len(Job[j].requests)
  PROVE  /\ Job[j].requests[n].unit \in STRING
         /\ Job[j].requests[n].writes \in Seq(Paths)
         /\ Job[j].requests[n].commands \in Seq(Commands)
<1>1. Job[j].requests \in Seq(RequestFacts)
  BY RunnerAssumption
<1>2. Job[j].requests[n] \in RequestFacts
  BY <1>1
<1> QED BY <1>2 DEF RequestFacts

LEMMA RequestsType == ASSUME NEW j \in Jobs PROVE Len(Job[j].requests) \in Nat
BY RunnerAssumption

(* What the guards that run() begins with establish.                       *)
LEMMA ClearedMeans ==
  ASSUME NEW j \in Jobs, Cleared(j)
  PROVE  /\ Job[j].approval.same_contract /\ Job[j].approval.same_run
         /\ Job[j].bundle.content = "pinned"
<1>1. Job[j].approval \in ApprovalFacts /\ Job[j].bundle \in BundleFacts
  BY RunnerAssumption
<1>2. Job[j].approval.same_contract /\ Job[j].approval.same_run
  BY <1>1 DEF Cleared, ApprovalRefused, NoError, ApprovalFacts
<1>3. Job[j].bundle.content = "pinned"
  BY <1>1 DEF Cleared, BundleRefused, NoError, BundleFacts
<1> QED BY <1>2, <1>3

(* What the guard of a write establishes.                                  *)
LEMMA GuardedWrite ==
  ASSUME NEW u, NEW p, WriteRefused(u, p) = NoError
  PROVE  p \in Unit[u].files /\ Path[p].in_scope /\ ~Path[p].protected /\ Path[p].inside
BY DEF WriteRefused, NoError

LEMMA GuardResults ==
  /\ \A u, p : WriteRefused(u, p) \in WorkErrors \cup {NoError}
  /\ \A u, c : CommandRefused(u, c) \in WorkErrors \cup {NoError}
  /\ LivenessError \in WorkErrors \cup {NoError}
  /\ StopIsReal(LivenessError)
  /\ \A u, p : WriteRefused(u, p) \notin {"cancelled", "timed_out"}
  /\ \A u, c : CommandRefused(u, c) \notin {"cancelled", "timed_out"}
BY DEF WriteRefused, CommandRefused, LivenessError, WorkErrors, NoError, StopIsReal

LEMMA RefusalResults ==
  /\ \A a : ApprovalRefused(a) \in JobErrors \cup {NoError}
  /\ \A b : BundleRefused(b) \in JobErrors \cup {NoError}
BY DEF ApprovalRefused, BundleRefused, JobErrors, NoError

LEMMA RunnerInitIsGood == RunnerInit => RunnerInv
<1> SUFFICES ASSUME RunnerInit PROVE RunnerInv
  OBVIOUS
<1>0. now \in 0..MaxClock /\ JobErrorOf(error).category \in KNOWN_ERROR_CATEGORIES
  BY RunnerAssumption DEF RunnerInit, JobErrorOf, NoError, KNOWN_ERROR_CATEGORIES
<1>a. DOMAIN trail = {}
  BY DEF RunnerInit
<1>1. RunnerTypeOK
  BY <1>0, <1>a DEF RunnerInit, RunnerTypeOK
<1>2. RunnerShape
  BY FS_EmptySet DEF RunnerInit, RunnerShape
<1>3. JobInv /\ UnitInv /\ CommitsAreApproved /\ OverdueInv
  BY DEF RunnerInit, JobInv, UnitInv, CommitsAreApproved, OverdueInv
<1>4. OutcomeInv
  BY DEF RunnerInit, OutcomeInv, StopIsReal, NoError
<1> QED BY <1>1, <1>2, <1>3, <1>4 DEF RunnerInv

-----------------------------------------------------------------------------
(* One lemma per step of run().                                            *)

LEMMA RequestIsTyped ==
  ASSUME RunnerInv, step \notin {"idle", "done", "raised"}
  PROVE  /\ job \in Jobs /\ Request.unit \in STRING
         /\ Request.writes \in Seq(Paths) /\ Request.commands \in Seq(Commands)
BY RequestType DEF RunnerInv, JobInv, Request

LEMMA StartJobStep ==
  ASSUME RunnerInv, NEW j \in Jobs, StartJob(j)
  PROVE  RunnerInv'
<1> USE DEF RunnerInv
<1> DEFINE refused == IF ApprovalRefused(Job[j].approval) # NoError
                      THEN ApprovalRefused(Job[j].approval) ELSE BundleRefused(Job[j].bundle)
<1>1. refused \in JobErrors \cup {NoError} /\ (refused = NoError => Cleared(j))
  BY RefusalResults DEF Cleared
<1>2. /\ step = "idle" /\ job' = j
      /\ refused # NoError =>
           step' = "raised" /\ trail' = Append(trail, <<"job", refused>>) /\ unitIndex' = 0
      /\ refused = NoError =>
           /\ trail' = trail /\ unitIndex' = 1
           /\ step' = IF Job[j].requests = <<>> THEN "done" ELSE "unit"
      /\ UNCHANGED <<workIndex, written, touched, commits, registered, outcomes, error, now,
                     cancelled, overdue>>
  BY DEF StartJob, worktree, records, RecordRefused
<1> HIDE DEF refused
<1>3. /\ unitIndex = 0 /\ trail = <<>> /\ commits = {} /\ outcomes = <<>> /\ error = NoError
      /\ written = {} /\ touched = {}
  BY <1>2 DEF JobInv, UnitInv
<1>4. Job[j].requests \in Seq(RequestFacts)
  BY RunnerAssumption
<1>5. trail' = <<>> \/ (refused \in JobErrors /\ trail' = <<<<"job", refused>>>>)
  <2>1. Append(<<>>, <<"job", refused>>) = <<<<"job", refused>>>>
    OBVIOUS
  <2> QED BY <2>1, <1>1, <1>2, <1>3
<1>6. RunnerTypeOK' /\ RunnerShape'
  <2>1. trail' \in Seq((STRING \cup {"job"}) \X Results)
    <3>1. CASE trail' = <<>>
      BY <3>1
    <3>2. CASE refused \in JobErrors /\ trail' = <<<<"job", refused>>>>
      <4>1. <<"job", refused>> \in (STRING \cup {"job"}) \X Results
        BY <3>2 DEF Results
      <4> QED BY <3>2, <4>1
    <3> QED BY <3>1, <3>2, <1>5
  <2>2. \A n \in DOMAIN trail' : trail'[n][2] \in Results
    BY <2>1
  <2>3. unitIndex' \in 0..(Len(Job[j].requests) + 1)
    BY <1>2, <1>4
  <2> QED BY <2>1, <2>2, <2>3, <1>2 DEF RunnerTypeOK, RunnerShape, Results
<1>7. JobInv'
  BY <1>1, <1>2, <1>3, <1>4 DEF JobInv
<1>8. UnitInv' /\ OverdueInv' /\ CommitsAreApproved'
  BY <1>2, <1>3 DEF UnitInv, OverdueInv, CommitsAreApproved
<1>9. OutcomeInv'
  BY <1>1, <1>2, <1>3, <1>5 DEF OutcomeInv, StopIsReal, NoError
<1> QED BY <1>6, <1>7, <1>8, <1>9

LEMMA BeginUnitStep ==
  ASSUME RunnerInv, BeginUnit
  PROVE  RunnerInv'
<1> USE DEF RunnerInv
<1>0. /\ step = "unit" /\ workIndex' = 1 /\ written' = {} /\ touched' = {}
      /\ UNCHANGED <<job, unitIndex, commits, registered, trail, outcomes, now, cancelled,
                     overdue>>
      /\ \/ step' = "deny" /\ error' \in UnitErrors
         \/ /\ step' = "check_write" /\ error' = error
            /\ Request.unit \in Job[job].approval.units \cap Units
  BY DEF BeginUnit, worktree, records, UnitErrors
<1>1. Request' = Request
  BY <1>0 DEF Request
<1>2. RunnerTypeOK' /\ RunnerShape'
  BY <1>0, FS_EmptySet DEF RunnerTypeOK, RunnerShape, JobErrorOf, UnitErrors, KNOWN_ERROR_CATEGORIES
<1>3. JobInv' /\ OverdueInv' /\ CommitsAreApproved'
  BY <1>0 DEF JobInv, OverdueInv, CommitsAreApproved
<1>4. UnitInv'
  BY <1>0, <1>1 DEF UnitInv
<1>5. OutcomeInv'
  BY <1>0 DEF OutcomeInv, StopIsReal, UnitErrors, JobInv
<1> QED BY <1>2, <1>3, <1>4, <1>5

(* A step that decides about the next call and touches nothing else.       *)
LEMMA CheckStep ==
  ASSUME RunnerInv, step \in {"check_write", "check_command"},
         UNCHANGED <<job, unitIndex, written, touched, commits, registered, trail, outcomes,
                     now, cancelled, overdue>>,
         workIndex' \in Nat,
         \/ error' \in WorkErrors /\ StopIsReal(error') /\ step' = "rollback"
         \/ /\ error' = error
            /\ \/ /\ step' = "write" /\ step = "check_write" /\ LivenessError = NoError
                  /\ workIndex' \in DOMAIN Request.writes
                  /\ WriteRefused(Request.unit, Request.writes[workIndex']) = NoError
               \/ /\ step' = "command" /\ step = "check_command" /\ LivenessError = NoError
                  /\ workIndex' \in DOMAIN Request.commands
               \/ step' = "check_command" /\ step = "check_write" /\ ~OverBudget(written)
  PROVE  RunnerInv'
<1> USE DEF RunnerInv
<1>1. Request' = Request
  BY DEF Request
<1>2. RunnerTypeOK' /\ RunnerShape'
  BY DEF RunnerTypeOK, RunnerShape, JobErrorOf, WorkErrors, KNOWN_ERROR_CATEGORIES
<1>3. JobInv' /\ CommitsAreApproved'
  BY DEF JobInv, CommitsAreApproved
<1>4. OverdueInv'
  BY DEF OverdueInv, LivenessError, NoError
<1>5. UnitInv'
  BY <1>1 DEF UnitInv, OverBudget, WriteRefused
<1>6. OutcomeInv'
  BY DEF OutcomeInv, StopIsReal
<1> QED BY <1>2, <1>3, <1>4, <1>5, <1>6

LEMMA CheckWriteStep ==
  ASSUME RunnerInv, CheckWrite
  PROVE  RunnerInv'
<1> DEFINE refused == WriteRefused(Request.unit, Request.writes[workIndex])
           e == IF LivenessError # NoError THEN LivenessError ELSE refused
<1>1. /\ e \in WorkErrors \cup {NoError} /\ StopIsReal(e)
      /\ e = NoError => LivenessError = NoError /\ refused = NoError
  <2>1. StopIsReal(refused)
    BY GuardResults DEF StopIsReal
  <2> HIDE DEF refused
  <2> QED BY <2>1, GuardResults DEF refused
<1>2. /\ step = "check_write" /\ workIndex \in DOMAIN Request.writes /\ workIndex' = workIndex
      /\ \/ e # NoError /\ error' = e /\ step' = "rollback"
         \/ e = NoError /\ step' = "write" /\ error' = error
      /\ UNCHANGED <<job, unitIndex, written, touched, commits, registered, trail, outcomes,
                     now, cancelled, overdue>>
  BY DEF CheckWrite, Fail, worktree, records
<1>3. workIndex' \in Nat
  BY <1>2 DEF RunnerInv, RunnerShape
<1> HIDE DEF e
<1> QED BY <1>1, <1>2, <1>3, CheckStep

LEMMA CheckCommandStep ==
  ASSUME RunnerInv, CheckCommand
  PROVE  RunnerInv'
<1> DEFINE refused == CommandRefused(Request.unit, Request.commands[workIndex])
           e == IF LivenessError # NoError THEN LivenessError ELSE refused
<1>1. /\ e \in WorkErrors \cup {NoError} /\ StopIsReal(e)
      /\ e = NoError => LivenessError = NoError
  <2>1. StopIsReal(refused)
    BY GuardResults DEF StopIsReal
  <2> HIDE DEF refused
  <2> QED BY <2>1, GuardResults DEF refused
<1>2. /\ step = "check_command" /\ workIndex \in DOMAIN Request.commands
      /\ workIndex' = workIndex
      /\ \/ e # NoError /\ error' = e /\ step' = "rollback"
         \/ e = NoError /\ step' = "command" /\ error' = error
      /\ UNCHANGED <<job, unitIndex, written, touched, commits, registered, trail, outcomes,
                     now, cancelled, overdue>>
  BY DEF CheckCommand, Fail, worktree, records
<1>3. workIndex' \in Nat
  BY <1>2 DEF RunnerInv, RunnerShape
<1> HIDE DEF e
<1> QED BY <1>1, <1>2, <1>3, CheckStep

LEMMA CheckBudgetStep ==
  ASSUME RunnerInv, CheckBudget
  PROVE  RunnerInv'
<1>1. /\ step = "check_write" /\ workIndex' = 1
      /\ \/ error' = "diff_budget_exceeded" /\ step' = "rollback"
         \/ ~OverBudget(written) /\ step' = "check_command" /\ error' = error
      /\ UNCHANGED <<job, unitIndex, written, touched, commits, registered, trail, outcomes,
                     now, cancelled, overdue>>
  BY DEF CheckBudget, Fail, worktree, records
<1>2. "diff_budget_exceeded" \in WorkErrors /\ StopIsReal("diff_budget_exceeded")
  BY DEF WorkErrors, StopIsReal
<1> QED BY <1>1, <1>2, CheckStep

LEMMA WriteStep ==
  ASSUME RunnerInv, Write
  PROVE  RunnerInv'
<1> USE DEF RunnerInv
<1> DEFINE p == Request.writes[workIndex]
<1>0. /\ step = "write" /\ step' = "check_write"
      /\ written' = written \cup {p} /\ workIndex' = workIndex + 1
      /\ overdue' = overdue + Late
      /\ UNCHANGED <<job, unitIndex, touched, commits, registered, trail, outcomes, error, now,
                     cancelled>>
  BY DEF Write, records
<1>1. Request' = Request
  BY <1>0 DEF Request
<1>2. p \in Paths /\ WriteRefused(Request.unit, p) = NoError
  BY <1>0, RequestIsTyped DEF UnitInv
<1> HIDE DEF p
<1>3. RunnerTypeOK' /\ RunnerShape'
  <2>1. IsFiniteSet(written')
    BY <1>0, FS_AddElement DEF RunnerShape
  <2>2. overdue' \in Nat /\ workIndex' \in Nat
    BY <1>0 DEF RunnerShape, Late
  <2> QED BY <2>1, <2>2, <1>0, <1>2 DEF RunnerTypeOK, RunnerShape
<1>4. JobInv' /\ CommitsAreApproved'
  BY <1>0 DEF JobInv, CommitsAreApproved
<1>5. OverdueInv'
  BY <1>0 DEF OverdueInv, Late, RunnerShape
<1>6. UnitInv'
  BY <1>0, <1>1, <1>2 DEF UnitInv
<1>7. OutcomeInv'
  BY <1>0 DEF OutcomeInv, StopIsReal
<1> QED BY <1>3, <1>4, <1>5, <1>6, <1>7

LEMMA RunCommandStep ==
  ASSUME RunnerInv, RunCommand
  PROVE  RunnerInv'
<1> USE DEF RunnerInv
<1>0. /\ step = "command"
      /\ \E files \in SUBSET Command[Request.commands[workIndex]].changes :
           touched' = touched \cup files
      /\ overdue' = overdue + Late
      /\ \/ step' = "check_command" /\ workIndex' = workIndex + 1 /\ error' = error
         \/ step' = "rollback" /\ workIndex' = workIndex /\ error' = "error"
      /\ UNCHANGED <<job, unitIndex, written, commits, registered, trail, outcomes, now,
                     cancelled>>
  BY DEF RunCommand, Fail, records
<1>1. Request' = Request
  BY <1>0 DEF Request
<1>2. touched' \subseteq Paths
  <2>1. Request.commands[workIndex] \in Commands
    BY <1>0, RequestIsTyped DEF UnitInv
  <2>2. Command[Request.commands[workIndex]].changes \subseteq Paths
    BY <2>1, RunnerAssumption DEF CommandFacts
  <2> QED BY <2>2, <1>0 DEF RunnerTypeOK
<1>3. RunnerTypeOK' /\ RunnerShape'
  BY <1>0, <1>2 DEF RunnerTypeOK, RunnerShape, Late, WorkErrors, JobErrorOf, KNOWN_ERROR_CATEGORIES
<1>4. JobInv' /\ CommitsAreApproved'
  BY <1>0 DEF JobInv, CommitsAreApproved
<1>5. OverdueInv'
  BY <1>0 DEF OverdueInv, Late, RunnerShape
<1>6. UnitInv'
  BY <1>0, <1>1 DEF UnitInv, OverBudget
<1>7. OutcomeInv'
  BY <1>0 DEF OutcomeInv, StopIsReal, WorkErrors
<1> QED BY <1>3, <1>4, <1>5, <1>6, <1>7

(* What is committed is approved: the guards that let the job, the unit,   *)
(* each write and the diff through are all behind it.                      *)
LEMMA CommitStep ==
  ASSUME RunnerInv, Commit
  PROVE  RunnerInv'
<1> USE DEF RunnerInv
<1> DEFINE c == <<Request.unit, written, touched>>
<1>0. /\ step = "check_command" /\ step' = "register"
      /\ commits' = commits \cup {c}
      /\ written' = {} /\ touched' = {}
      /\ UNCHANGED <<job, unitIndex, workIndex, registered, trail, outcomes, error, now,
                     cancelled, overdue>>
  BY DEF Commit, CleanWorktree
<1>1. Request' = Request
  BY <1>0 DEF Request
<1>2. c[1] = Request.unit /\ c[2] = written /\ c[3] = touched
  OBVIOUS
<1> HIDE DEF c
<1>3. Request.unit \in Job[job].approval.units \cap Units
  BY <1>0 DEF UnitInv
<1>4. RunnerTypeOK' /\ RunnerShape'
  BY <1>0, <1>2, <1>3, FS_EmptySet DEF RunnerTypeOK, RunnerShape
<1>5. JobInv' /\ OverdueInv'
  BY <1>0 DEF JobInv, OverdueInv
<1>6. UnitInv'
  BY <1>0, <1>1, <1>2, <1>3 DEF UnitInv
<1>7. OutcomeInv'
  BY <1>0 DEF OutcomeInv, StopIsReal
<1>8. CommitsAreApproved'
  <2>1. Job[job].approval.same_contract /\ Job[job].approval.same_run
        /\ Job[job].bundle.content = "pinned"
    BY <1>0, ClearedMeans DEF JobInv
  <2>2. \A p \in written : /\ p \in Unit[Request.unit].files /\ Path[p].in_scope
                           /\ ~Path[p].protected /\ Path[p].inside
    BY <1>0, GuardedWrite DEF UnitInv
  <2>3. Cardinality(written) <= MaxFiles /\ ~(LinesOf(written) > MaxLines)
    <3>1. Cardinality(written) \in Nat /\ MaxFiles \in Nat
      BY FS_CardinalityType, RunnerAssumption DEF RunnerShape
    <3> QED BY <3>1, <1>0 DEF UnitInv, OverBudget
  <2> QED BY <2>1, <2>2, <2>3, <1>0, <1>2, <1>3 DEF CommitsAreApproved
<1> QED BY <1>4, <1>5, <1>6, <1>7, <1>8

LEMMA RollbackStep ==
  ASSUME RunnerInv, Rollback
  PROVE  RunnerInv'
<1> USE DEF RunnerInv
<1>0. /\ step = "rollback" /\ step' = "deny" /\ written' = {} /\ touched' = {}
      /\ UNCHANGED <<job, unitIndex, workIndex, commits, registered, trail, outcomes, error,
                     now, cancelled, overdue>>
  BY DEF Rollback, CleanWorktree, records
<1>1. RunnerTypeOK' /\ RunnerShape'
  BY <1>0, FS_EmptySet DEF RunnerTypeOK, RunnerShape
<1>2. JobInv' /\ CommitsAreApproved' /\ OverdueInv'
  BY <1>0 DEF JobInv, CommitsAreApproved, OverdueInv
<1>3. UnitInv' /\ OutcomeInv'
  BY <1>0 DEF UnitInv, OutcomeInv, StopIsReal
<1> QED BY <1>1, <1>2, <1>3

(* A unit is concluded: the outcome and its audit entry are the same, and  *)
(* the next request, if any, finds a clean worktree.                       *)
LEMMA ConcludeStep ==
  ASSUME RunnerInv, NEW d \in UnitErrors \cup WorkErrors \cup {"executed"},
         step \in {"deny", "audit"}, StopIsReal(d),
         d = "executed" => step = "audit",
         trail' = RecordDecision(d), Conclude(d),
         UNCHANGED <<job, workIndex, written, touched, commits, registered, now, cancelled,
                     overdue>>
  PROVE  RunnerInv'
<1> USE DEF RunnerInv
<1> DEFINE o == <<Request.unit, d>>
<1>0. /\ outcomes' = Append(outcomes, o) /\ trail' = Append(trail, o)
      /\ unitIndex' = unitIndex + 1 /\ error' = NoError
      /\ step' = IF unitIndex = Len(Job[job].requests) THEN "done" ELSE "unit"
  BY DEF Conclude, RecordDecision
<1>1. /\ o[1] = Request.unit /\ o[2] = d
      /\ o \in STRING \X Results
      /\ o \in (STRING \cup {"job"}) \X Results
  BY RequestIsTyped DEF Results
<1>2. /\ job \in Jobs /\ unitIndex \in 1..Len(Job[job].requests)
      /\ Len(Job[job].requests) \in Nat
  BY RequestsType DEF JobInv
<1> HIDE DEF o
<1>3. RunnerShape'
  BY <1>0, <1>1 DEF RunnerShape
<1>4. RunnerTypeOK'
  <2>1. \A n \in DOMAIN trail' : trail'[n][2] \in Results
    BY <1>3 DEF RunnerShape
  <2>2. unitIndex' \in 0..(Len(Job[job].requests) + 1)
    BY <1>0, <1>2
  <2>3. /\ error' \in UnitErrors \cup WorkErrors \cup {NoError}
        /\ JobErrorOf(error').category \in KNOWN_ERROR_CATEGORIES
    BY <1>0 DEF JobErrorOf, KNOWN_ERROR_CATEGORIES, NoError
  <2>4. step' \in {"done", "unit"}
    BY <1>0
  <2> QED BY <2>1, <2>2, <2>3, <2>4 DEF RunnerTypeOK, Results
<1>5. JobInv' /\ CommitsAreApproved' /\ OverdueInv'
  BY <1>0, <1>2, SMTT(60) DEF JobInv, CommitsAreApproved, OverdueInv
<1>6. UnitInv'
  BY <1>0 DEF UnitInv
<1>7. OutcomeInv'
  <2>1. unitIndex # 0 /\ unitIndex' # 0 /\ step' \notin {"rollback", "deny"}
    BY <1>0, <1>2
  <2>2. trail' = outcomes' /\ Len(outcomes') = unitIndex' - 1 /\ Len(outcomes') = unitIndex
    BY <2>1, <1>0, <1>2 DEF OutcomeInv, RunnerShape
  <2>3. ASSUME NEW n \in 1..Len(outcomes')
        PROVE  /\ outcomes'[n][1] = Job[job].requests[n].unit
               /\ StopIsReal(outcomes'[n][2])
               /\ outcomes'[n][2] = "executed" =>
                    /\ outcomes'[n][1] \in registered
                    /\ \E c \in commits : c[1] = outcomes'[n][1]
    <3>1. CASE n \in 1..Len(outcomes)
      <4>1. outcomes'[n] = outcomes[n]
        BY <3>1, <1>0, <1>1 DEF RunnerShape
      <4> QED BY <4>1, <3>1, <2>1 DEF OutcomeInv
    <3>2. CASE n = unitIndex
      <4>1. outcomes'[n] = o
        BY <3>2, <2>2, <1>0, <1>1 DEF RunnerShape
      <4> QED BY <4>1, <3>2, <1>1 DEF Request, UnitInv
    <3>3. n \in 1..Len(outcomes) \/ n = unitIndex
      BY <2>2, <1>0, <1>1 DEF RunnerShape
    <3> QED BY <3>1, <3>2, <3>3
  <2>4. StopIsReal(error')
    BY <1>0 DEF StopIsReal, NoError
  <2> QED BY <2>1, <2>2, <2>3, <2>4 DEF OutcomeInv, StopIsReal
<1> QED BY <1>3, <1>4, <1>5, <1>6, <1>7

LEMMA DenyStep ==
  ASSUME RunnerInv, Deny
  PROVE  RunnerInv'
<1>1. error \in UnitErrors \cup WorkErrors /\ StopIsReal(error)
  BY DEF RunnerInv, OutcomeInv, Deny
<1>2. error # "executed"
  BY <1>1 DEF UnitErrors, WorkErrors
<1> QED BY <1>1, <1>2, ConcludeStep DEF Deny, worktree, records

LEMMA AuditExecutedStep ==
  ASSUME RunnerInv, AuditExecuted
  PROVE  RunnerInv'
<1>1. StopIsReal("executed")
  BY DEF StopIsReal
<1> QED BY <1>1, ConcludeStep DEF AuditExecuted, worktree, records

LEMMA RegisterStep ==
  ASSUME RunnerInv, Register
  PROVE  RunnerInv'
<1> USE DEF RunnerInv
<1>0. /\ step = "register" /\ step' = "audit"
      /\ registered' = registered \cup {Request.unit}
      /\ UNCHANGED <<job, unitIndex, workIndex, written, touched, commits, trail, outcomes,
                     error, now, cancelled, overdue>>
  BY DEF Register, worktree
<1>1. Request' = Request
  BY <1>0 DEF Request
<1>2. RunnerTypeOK' /\ RunnerShape'
  BY <1>0 DEF RunnerTypeOK, RunnerShape
<1>3. JobInv' /\ CommitsAreApproved' /\ OverdueInv'
  BY <1>0 DEF JobInv, CommitsAreApproved, OverdueInv
<1>4. UnitInv'
  BY <1>0, <1>1 DEF UnitInv
<1>5. OutcomeInv'
  BY <1>0 DEF OutcomeInv, StopIsReal
<1> QED BY <1>2, <1>3, <1>4, <1>5

(* An exception ends run() where it is.                                    *)
LEMMA RaiseOtherStep ==
  ASSUME RunnerInv, RaiseOther
  PROVE  RunnerInv'
<1> USE DEF RunnerInv
<1>0. /\ step \notin {"idle", "done", "raised"} /\ step' = "raised"
      /\ UNCHANGED <<job, unitIndex, workIndex, written, touched, commits, registered, trail,
                     outcomes, error, now, cancelled, overdue>>
  BY DEF RaiseOther, worktree, records
<1>1. RunnerTypeOK' /\ RunnerShape'
  BY <1>0 DEF RunnerTypeOK, RunnerShape
<1>2. JobInv' /\ CommitsAreApproved' /\ OverdueInv'
  BY <1>0 DEF JobInv, CommitsAreApproved, OverdueInv
<1>3. UnitInv' /\ OutcomeInv'
  BY <1>0 DEF UnitInv, OutcomeInv, StopIsReal
<1> QED BY <1>1, <1>2, <1>3

(* Cancellation and the clock only make things later.                      *)
LEMMA LaterStep ==
  ASSUME RunnerInv, Cancel \/ Tick
  PROVE  RunnerInv'
<1> USE DEF RunnerInv
<1>0. /\ UNCHANGED <<job, step, unitIndex, workIndex, written, touched, commits, registered,
                     trail, outcomes, error, overdue>>
      /\ cancelled' \in BOOLEAN /\ (cancelled => cancelled')
      /\ now' \in 0..MaxClock /\ now' >= now /\ {now, now', Deadline} \subseteq Nat
  <2>1. {MaxClock, Deadline} \subseteq Nat /\ now \in 0..MaxClock /\ cancelled \in BOOLEAN
    BY RunnerAssumption DEF RunnerTypeOK
  <2>2. CASE Cancel
    BY <2>1, <2>2 DEF Cancel, worktree, records
  <2>3. CASE Tick
    BY <2>1, <2>3 DEF Tick, worktree, records
  <2> QED BY <2>2, <2>3
<1>1. Request' = Request
  BY <1>0 DEF Request
<1>2. RunnerTypeOK' /\ RunnerShape'
  BY <1>0 DEF RunnerTypeOK, RunnerShape
<1>3. JobInv' /\ CommitsAreApproved'
  BY <1>0 DEF JobInv, CommitsAreApproved
<1>4. OverdueInv'
  BY <1>0 DEF OverdueInv
<1>5. UnitInv'
  BY <1>0, <1>1 DEF UnitInv, OverBudget
<1>6. \A d : StopIsReal(d) => StopIsReal(d)'
  BY <1>0 DEF StopIsReal
<1>7. OutcomeInv'
  BY <1>0, <1>6 DEF OutcomeInv, StopIsReal
<1> QED BY <1>2, <1>3, <1>4, <1>5, <1>7

LEMMA RunnerStutter ==
  ASSUME RunnerInv, UNCHANGED runnerVars
  PROVE  RunnerInv'
<1> USE DEF RunnerInv
<1>0. UNCHANGED <<job, step, unitIndex, workIndex, written, touched, commits, registered,
                  trail, outcomes, error, now, cancelled, overdue>>
  BY DEF runnerVars
<1>1. RunnerTypeOK' /\ RunnerShape' /\ JobInv' /\ CommitsAreApproved' /\ OverdueInv'
  BY <1>0 DEF RunnerTypeOK, RunnerShape, JobInv, CommitsAreApproved, OverdueInv
<1>2. UnitInv' /\ OutcomeInv'
  BY <1>0 DEF UnitInv, OutcomeInv, StopIsReal, Request, OverBudget
<1> QED BY <1>1, <1>2

LEMMA RunnerInvStep == RunnerInv /\ [RunnerNext]_runnerVars => RunnerInv'
BY StartJobStep, BeginUnitStep, CheckWriteStep, WriteStep, CheckBudgetStep, CheckCommandStep,
   RunCommandStep, CommitStep, RollbackStep, DenyStep, RegisterStep, AuditExecutedStep,
   RaiseOtherStep, LaterStep, RunnerStutter
   DEF RunnerNext, RunnerStep

(* A runner job commits approved changes only, leaves nothing behind a     *)
(* refusal, and makes at most one more write or command once it was        *)
(* cancelled or the deadline has passed: for every approval, request list, *)
(* contract and budget.                                                    *)
THEOREM RunnerAlwaysKeepsApproval == RunnerSpec => []RunnerKeepsApproval
<1>1. RunnerInv => RunnerKeepsApproval
  BY DEF RunnerInv, RunnerKeepsApproval, UnitInv, RefusedLeavesNothing, OverdueInv,
         StopsPromptly, RunnerShape
<1> QED BY <1>1, RunnerInitIsGood, RunnerInvStep, PTL DEF RunnerSpec

-----------------------------------------------------------------------------
(* The report.                                                             *)

(* The status of a unit: succeeded, cancelled and timed_out each have one  *)
(* decision.                                                               *)
LEMMA StatusMeans ==
  ASSUME NEW d
  PROVE  /\ StatusOf(d) = "succeeded" => d = "executed"
         /\ StatusOf(d) \in {"cancelled", "timed_out"} => d = StatusOf(d)
<1>1. JobTransition("pending", "running") = "running"
  BY DEF JobTransition, AllowedJobTransitions, JobStatus
<1>2. \A t \in {"succeeded", "failed", "cancelled", "timed_out"} :
         JobTransition("running", t) = t
  BY DEF JobTransition, AllowedJobTransitions, JobStatus
<1> QED BY <1>1, <1>2 DEF StatusOf, AdvanceTo

(* The status of the job: succeeded when every unit was executed, and      *)
(* cancelled or timed_out only because some unit was.                      *)
LEMMA AggregateMeans ==
  ASSUME NEW S, NEW s \in Seq(S)
  PROVE  /\ AggregateStatus(s) = "succeeded" => \A n \in 1..Len(s) : s[n][2] = "executed"
         /\ AggregateStatus(s) \in {"cancelled", "timed_out"} =>
              \E n \in 1..Len(s) : s[n][2] = AggregateStatus(s)
<1> DEFINE statuses == {StatusOf(d[2]) : d \in ToSet(s)}
<1>1. ToSet(s) = {s[n] : n \in 1..Len(s)}
  BY DEF ToSet
<1>2. \A n \in 1..Len(s) : StatusOf(s[n][2]) \in statuses
  BY <1>1
<1>3. \A x \in statuses : \E n \in 1..Len(s) : x = StatusOf(s[n][2])
  BY <1>1
<1> HIDE DEF statuses
<1>4. /\ AggregateStatus(s) = "succeeded" => statuses \subseteq {"succeeded"}
      /\ AggregateStatus(s) = "cancelled" => "cancelled" \in statuses
      /\ AggregateStatus(s) = "timed_out" => "timed_out" \in statuses
  BY DEF AggregateStatus, statuses
<1> QED BY <1>2, <1>3, <1>4, StatusMeans

(* What a runner job reports is what its audit trail says and what it      *)
(* stored: every outcome is audited as it was, a success has an artifact   *)
(* for every unit, and a failure that invites a retry was a stop.          *)
THEOREM RunnerAlwaysReportsTruth == RunnerSpec => []RunnerReportsTruth
<1>1. RunnerInv => OutcomesAreAudited
  <2> SUFFICES ASSUME RunnerInv PROVE OutcomesAreAudited
    OBVIOUS
  <2>1. trail = outcomes \/ (outcomes = <<>> /\ \E e \in JobErrors : trail = <<<<"job", e>>>>)
    BY DEF RunnerInv, OutcomeInv, JobInv
  <2>2. DOMAIN outcomes = 1..Len(outcomes) /\ (unitIndex = 0 => DOMAIN outcomes = {})
    BY DEF RunnerInv, RunnerShape, JobInv
  <2> QED BY <2>1, <2>2 DEF RunnerInv, OutcomeInv, OutcomesAreAudited
<1>2. RunnerInv => SuccessIsComplete
  <2> SUFFICES ASSUME RunnerInv, step = "done" PROVE SuccessIsComplete
    BY DEF SuccessIsComplete
  <2>1. /\ job \in Jobs /\ unitIndex = Len(Job[job].requests) + 1
        /\ Len(Job[job].requests) \in Nat /\ DOMAIN Job[job].requests = 1..Len(Job[job].requests)
    BY RequestsType, RunnerAssumption DEF RunnerInv, JobInv
  <2>2. /\ Len(outcomes) = Len(Job[job].requests) /\ outcomes \in Seq(STRING \X Results)
        /\ DOMAIN outcomes = 1..Len(outcomes)
    BY <2>1 DEF RunnerInv, OutcomeInv, RunnerShape
  <2>3. \A n \in 1..Len(outcomes) :
          /\ outcomes[n][1] = Job[job].requests[n].unit
          /\ StopIsReal(outcomes[n][2])
          /\ outcomes[n][2] = "executed" => outcomes[n][1] \in registered
    BY <2>1 DEF RunnerInv, OutcomeInv
  <2>4. AggregateStatus(outcomes) = "succeeded" =>
          \A n \in DOMAIN Job[job].requests : Job[job].requests[n].unit \in registered
    BY <2>1, <2>2, <2>3, AggregateMeans
  <2>5. ASSUME AggregateStatus(outcomes) \in {"cancelled", "timed_out"}
        PROVE  /\ cancelled \/ now > Deadline
               /\ \E n \in DOMAIN outcomes : JobErrorOf(outcomes[n][2]).retryable
    <3>1. PICK n \in 1..Len(outcomes) : outcomes[n][2] \in {"cancelled", "timed_out"}
      BY <2>2, <2>5, AggregateMeans
    <3> QED BY <3>1, <2>2, <2>3 DEF StopIsReal, JobErrorOf
  <2> QED BY <2>4, <2>5 DEF SuccessIsComplete
<1> QED BY <1>1, <1>2, RunnerInitIsGood, RunnerInvStep, PTL DEF RunnerSpec, RunnerReportsTruth

-----------------------------------------------------------------------------
(* The policy gate, for any requests, callers and command policy.          *)

(* A request is rightly allowed, and the approval is in the book.          *)
IsAllowed(name, book) ==
  LET r == GateRequest[name] IN
  /\ book[DecisionKey(r)] = "approved" /\ ReconcileTenant(r) /\ BodyIsValid(r)
  /\ AuthorizeCommand(r) \/ CheckPlan(r)

(* An answer on the way is as good as one that was heard.                  *)
AnswerIsTrue(a, name, book) ==
  a.status = 200 => a.decision \in {"allow", "deny"} /\ (a.decision = "allow" => IsAllowed(name, book))
GateInv ==
  /\ GateTypeOK
  /\ \A c \in GateCallers : heard[c] = "allow" => IsAllowed(asks[c], decided)
  /\ \A t \in Attempts : wire[t].at = "answered" => AnswerIsTrue(wire[t].answer, asks[t[1]], decided)

LEMMA KeysOfRequests ==
  ASSUME NEW n \in GateRequests
  PROVE  DecisionKey(GateRequest[n]) \in GateKeys
BY DEF GateKeys

LEMMA FailureTyped ==
  ASSUME NEW s \in {403, 409, 422}
  PROVE  Failure(s) \in Answer /\ Failure(s).status = s
BY DEF Failure, Answer

LEMMA ResultTyped ==
  ASSUME NEW r, NEW d \in {"allow", "deny"}, NEW u \in BOOLEAN
  PROVE  GateResult(d, HighRisk(r), u) \in Answer /\ GateResult(d, HighRisk(r), u).decision = d
<1>1. HighRisk(r) \in BOOLEAN
  BY DEF HighRisk
<1> QED
  BY <1>1 DEF GateResult, Answer

(* What is on record stays.                                                *)
StaysOnRecord(old, new) == \A k \in GateKeys : old[k] # NoDecision => new[k] = old[k]

LEMMA AllowedStays ==
  ASSUME NEW n \in GateRequests, NEW old, NEW new, StaysOnRecord(old, new), IsAllowed(n, old)
  PROVE  IsAllowed(n, new)
BY KeysOfRequests DEF IsAllowed, StaysOnRecord, NoDecision

LEMMA RecordKeeps ==
  ASSUME GateInv, NEW k \in GateKeys, NEW d \in {"approved", "rejected"}, RecordGateDecision(k, d)
  PROVE  /\ StaysOnRecord(decided, decided') /\ decided'[k] = d
         /\ decided' \in [GateKeys -> {NoDecision, "approved", "rejected"}]
BY DEF GateInv, GateTypeOK, RecordGateDecision, StaysOnRecord, NoDecision

(* The gate answers one attempt.                                           *)
LEMMA ReplyStep ==
  ASSUME GateInv, NEW t \in Attempts, NEW a \in Answer, Reply(t, a), UNCHANGED <<asks, asked, heard>>,
         StaysOnRecord(decided, decided'), decided' \in [GateKeys -> {NoDecision, "approved", "rejected"}],
         AnswerIsTrue(a, asks[t[1]], decided')
  PROVE  GateInv'
<1>1. /\ wire \in [Attempts -> OnTheWire] /\ asks \in [GateCallers -> GateRequests]
      /\ \A u \in Attempts : u[1] \in GateCallers
  BY DEF GateInv, GateTypeOK, Attempts
<1>2. /\ wire' \in [Attempts -> OnTheWire] /\ wire'[t] = [at |-> "answered", answer |-> a]
      /\ \A u \in Attempts \ {t} : wire'[u] = wire[u]
  BY <1>1 DEF Reply, OnTheWire
<1>3. GateTypeOK'
  BY <1>2 DEF GateInv, GateTypeOK
<1>4. \A c \in GateCallers : heard'[c] = "allow" => IsAllowed(asks'[c], decided')
  BY <1>1, AllowedStays DEF GateInv
<1>5. ASSUME NEW u \in Attempts, wire'[u].at = "answered"
      PROVE  AnswerIsTrue(wire'[u].answer, asks'[u[1]], decided')
  <2>1. CASE u = t
    BY <1>2, <2>1
  <2>2. CASE u # t
    <3>1. wire'[u] = wire[u] /\ AnswerIsTrue(wire[u].answer, asks[u[1]], decided)
      BY <1>2, <1>5, <2>2 DEF GateInv
    <3>2. asks[u[1]] \in GateRequests
      BY <1>1
    <3> QED
      BY <3>1, <3>2, AllowedStays DEF AnswerIsTrue
  <2> QED
    BY <2>1, <2>2
<1> QED
  BY <1>3, <1>4, <1>5 DEF GateInv

LEMMA ServeStep ==
  ASSUME GateInv, NEW t \in Attempts, Serve(t)
  PROVE  GateInv' /\ StaysOnRecord(decided, decided')
<1> DEFINE n == asks[t[1]]
           r == GateRequest[n]
           k == DecisionKey(r)
           allow == AuthorizeCommand(r) \/ CheckPlan(r)
<1>1. n \in GateRequests /\ k \in GateKeys /\ decided \in [GateKeys -> {NoDecision, "approved", "rejected"}]
  <2>1. t[1] \in GateCallers
    BY DEF Attempts
  <2>2. n \in GateRequests
    BY <2>1 DEF GateInv, GateTypeOK
  <2> QED
    BY <2>2, KeysOfRequests DEF GateInv, GateTypeOK
<1>2. UNCHANGED <<asks, asked, heard>>
  BY DEF Serve
<1>3. ASSUME NEW s \in {403, 409, 422}, Reply(t, Failure(s)), UNCHANGED decided
      PROVE  GateInv' /\ StaysOnRecord(decided, decided')
  <2>1. Failure(s) \in Answer /\ AnswerIsTrue(Failure(s), n, decided')
    BY FailureTyped DEF AnswerIsTrue
  <2>2. StaysOnRecord(decided, decided') /\ decided' = decided
    BY <1>3 DEF StaysOnRecord
  <2> QED
    BY <1>1, <1>2, <1>3, <2>1, <2>2, ReplyStep
<1>4. ASSUME NEW u \in BOOLEAN, Reply(t, GateResult("deny", HighRisk(r), u)),
             RecordGateDecision(k, "rejected") \/ UNCHANGED decided
      PROVE  GateInv' /\ StaysOnRecord(decided, decided')
  <2>1. /\ GateResult("deny", HighRisk(r), u) \in Answer
        /\ AnswerIsTrue(GateResult("deny", HighRisk(r), u), n, decided')
    BY ResultTyped DEF AnswerIsTrue
  <2>2. StaysOnRecord(decided, decided') /\ decided' \in [GateKeys -> {NoDecision, "approved", "rejected"}]
    <3>1. CASE RecordGateDecision(k, "rejected")
      BY <1>1, <3>1, RecordKeeps
    <3>2. CASE UNCHANGED decided
      BY <1>1, <3>2 DEF StaysOnRecord
    <3> QED
      BY <1>4, <3>1, <3>2
  <2> QED
    BY <1>2, <1>4, <2>1, <2>2, ReplyStep
<1>5. ASSUME ReconcileTenant(r), BodyIsValid(r), allow,
             Reply(t, GateResult("allow", HighRisk(r), FALSE)), RecordGateDecision(k, "approved")
      PROVE  GateInv' /\ StaysOnRecord(decided, decided')
  <2>1. GateResult("allow", HighRisk(r), FALSE) \in Answer
        /\ GateResult("allow", HighRisk(r), FALSE).decision = "allow"
    BY ResultTyped
  <2>2. /\ StaysOnRecord(decided, decided') /\ decided'[k] = "approved"
        /\ decided' \in [GateKeys -> {NoDecision, "approved", "rejected"}]
    BY <1>1, <1>5, RecordKeeps
  <2>3. AnswerIsTrue(GateResult("allow", HighRisk(r), FALSE), n, decided')
    BY <1>5, <2>1, <2>2 DEF AnswerIsTrue, IsAllowed
  <2> QED
    BY <1>2, <1>5, <2>1, <2>2, <2>3, ReplyStep
<1>6. CASE ~ReconcileTenant(r) \/ ~BodyIsValid(r)
  BY <1>3, <1>6 DEF Serve
<1>7. CASE ReconcileTenant(r) /\ BodyIsValid(r)
  <2>1. EvaluateAndRecord(t, r) \/ FailClosed(t, r)
    BY <1>7 DEF Serve
  <2>2. CASE FailClosed(t, r)
    BY <1>4, <2>2 DEF FailClosed
  <2>3. CASE EvaluateAndRecord(t, r) /\ allow
    <3>1. \/ RecordGateDecision(k, "approved") /\ Reply(t, GateResult("allow", HighRisk(r), FALSE))
          \/ Reply(t, Failure(409)) /\ UNCHANGED decided
      BY <2>3, Zenon DEF EvaluateAndRecord
    <3>2. CASE RecordGateDecision(k, "approved") /\ Reply(t, GateResult("allow", HighRisk(r), FALSE))
      <4>1. ReconcileTenant(r) /\ BodyIsValid(r) /\ allow
        BY <1>7, <2>3
      <4> QED
        BY <1>5, <3>2, <4>1, Zenon
    <3>3. CASE Reply(t, Failure(409)) /\ UNCHANGED decided
      BY <1>3, <3>3
    <3> QED
      BY <3>1, <3>2, <3>3
  <2>4. CASE EvaluateAndRecord(t, r) /\ ~allow
    <3>1. \/ RecordGateDecision(k, "rejected") /\ Reply(t, GateResult("deny", HighRisk(r), FALSE))
          \/ Reply(t, Failure(409)) /\ UNCHANGED decided
      BY <2>4, Zenon DEF EvaluateAndRecord
    <3>2. CASE RecordGateDecision(k, "rejected") /\ Reply(t, GateResult("deny", HighRisk(r), FALSE))
      <4>1. FALSE \in BOOLEAN
        OBVIOUS
      <4> QED
        BY <1>4, <3>2, <4>1, Zenon
    <3>3. CASE Reply(t, Failure(409)) /\ UNCHANGED decided
      BY <1>3, <3>3
    <3> QED
      BY <3>1, <3>2, <3>3
  <2> QED
    BY <2>1, <2>2, <2>3, <2>4
<1> QED
  BY <1>6, <1>7

LEMMA PlanCheckStep ==
  ASSUME GateInv, NEW c \in GateCallers, PlanCheck(c)
  PROVE  GateInv'
<1> DEFINE n == asked[c] + 1
<1>1. n \in 1..MaxAsks /\ <<c, n>> \in Attempts /\ asked' \in [GateCallers -> 0..MaxAsks]
  BY MaxAsksAssumption DEF PlanCheck, GateInv, GateTypeOK, Attempts
<1>2. /\ wire' \in [Attempts -> OnTheWire]
      /\ \A t \in Attempts : wire'[t].at = "answered" => wire'[t] = wire[t]
  <2>1. wire \in [Attempts -> OnTheWire]
    BY DEF GateInv, GateTypeOK
  <2>2. UNCHANGED wire \/ wire' = [wire EXCEPT ![<<c, n>>].at = "sent"]
    BY DEF PlanCheck
  <2> HIDE DEF n
  <2>3. CASE wire' = [wire EXCEPT ![<<c, n>>].at = "sent"]
    <3>1. PICK t \in Attempts : t = <<c, n>>
      BY <1>1
    <3>2. wire' = [wire EXCEPT ![t] = [wire[t] EXCEPT !.at = "sent"]]
      BY <2>3, <3>1
    <3>3. [wire[t] EXCEPT !.at = "sent"] \in OnTheWire /\ [wire[t] EXCEPT !.at = "sent"].at = "sent"
      BY <2>1 DEF OnTheWire
    <3> QED
      BY <2>1, <3>2, <3>3
  <2> QED
    BY <2>1, <2>2, <2>3
<1>3. /\ heard' \in [GateCallers -> {"idle", "waiting", "unavailable", "allow", "deny"}]
      /\ \A d \in GateCallers : heard'[d] = "allow" => heard[d] = "allow"
  BY DEF PlanCheck, GateInv, GateTypeOK
<1>4. UNCHANGED <<asks, decided>>
  BY DEF PlanCheck
<1> QED
  BY <1>1, <1>2, <1>3, <1>4 DEF GateInv, GateTypeOK

LEMMA HearStep ==
  ASSUME GateInv, NEW t \in Attempts, Hear(t)
  PROVE  GateInv'
<1> DEFINE a == wire[t].answer
           h == IF a.status = 200 THEN a.decision ELSE "unavailable"
<1>1. /\ wire \in [Attempts -> OnTheWire] /\ t[1] \in GateCallers
      /\ heard \in [GateCallers -> {"idle", "waiting", "unavailable", "allow", "deny"}]
  BY DEF GateInv, GateTypeOK, Attempts
<1>2. AnswerIsTrue(a, asks[t[1]], decided)
  BY DEF Hear, GateInv
<1>3. h \in {"allow", "deny", "unavailable"} /\ (h = "allow" => IsAllowed(asks[t[1]], decided))
  BY <1>2 DEF AnswerIsTrue
<1>4. /\ heard' = [heard EXCEPT ![t[1]] = h] /\ wire' = [wire EXCEPT ![t] = Quiet]
      /\ UNCHANGED <<asks, asked, decided>>
  BY DEF Hear
<1> HIDE DEF h
<1>5. Quiet \in OnTheWire /\ Quiet.at = "none"
  BY DEF Quiet, OnTheWire, Failure, Answer
<1>6. /\ wire' \in [Attempts -> OnTheWire]
      /\ \A u \in Attempts : wire'[u].at = "answered" => wire'[u] = wire[u]
  BY <1>1, <1>4, <1>5
<1>7. /\ heard' \in [GateCallers -> {"idle", "waiting", "unavailable", "allow", "deny"}]
      /\ \A c \in GateCallers : heard'[c] = "allow" => IsAllowed(asks[c], decided)
  BY <1>1, <1>3, <1>4 DEF GateInv
<1> QED
  BY <1>4, <1>6, <1>7 DEF GateInv, GateTypeOK

LEMMA GiveUpStep ==
  ASSUME GateInv, NEW c \in GateCallers, GiveUp(c)
  PROVE  GateInv'
BY DEF GateInv, GateTypeOK, GiveUp

LEMMA GateStep ==
  GateInv /\ [GateNext]_gateVars => GateInv' /\ StaysOnRecord(decided, decided')
<1> SUFFICES ASSUME GateInv, [GateNext]_gateVars PROVE GateInv' /\ StaysOnRecord(decided, decided')
  OBVIOUS
<1>1. CASE UNCHANGED gateVars
  BY <1>1 DEF gateVars, GateInv, GateTypeOK, StaysOnRecord
<1>2. ASSUME NEW c \in GateCallers, PlanCheck(c) PROVE GateInv' /\ StaysOnRecord(decided, decided')
  BY <1>2, PlanCheckStep DEF PlanCheck, StaysOnRecord
<1>3. ASSUME NEW c \in GateCallers, GiveUp(c) PROVE GateInv' /\ StaysOnRecord(decided, decided')
  BY <1>3, GiveUpStep DEF GiveUp, StaysOnRecord
<1>4. ASSUME NEW t \in Attempts, Serve(t) PROVE GateInv' /\ StaysOnRecord(decided, decided')
  BY <1>4, ServeStep
<1>5. ASSUME NEW t \in Attempts, Hear(t) PROVE GateInv' /\ StaysOnRecord(decided, decided')
  BY <1>5, HearStep DEF Hear, StaysOnRecord
<1> QED
  BY <1>1, <1>2, <1>3, <1>4, <1>5 DEF GateNext

LEMMA GateInitOK == GateInit => GateInv
<1> SUFFICES ASSUME GateInit PROVE GateInv
  OBVIOUS
<1>1. Quiet \in OnTheWire /\ Quiet.at = "none"
  BY DEF Quiet, OnTheWire, Failure, Answer
<1> QED
  BY <1>1, MaxAsksAssumption DEF GateInit, GateInv, GateTypeOK

(* For any requests, callers and command policy: a caller acts on allow    *)
(* only where the gate has an approval on record and the policy allows     *)
(* what was asked, whatever is lost, late or raised, and a decision on     *)
(* record is never replaced (_evaluate_and_record, record, plan_check).    *)
THEOREM GateAlwaysHolds == GateSpec => GateHolds
<1>1. GateInit => GateInv
  BY GateInitOK
<1>2. GateInv /\ [GateNext]_gateVars => GateInv'
  BY GateStep
<1>3. GateInv => GateTypeOK /\ AllowIsOnRecord
  BY DEF GateInv, AllowIsOnRecord, IsAllowed
<1>4. GateInv /\ [GateNext]_gateVars =>
        [\A k \in GateKeys : decided[k] # NoDecision => decided'[k] = decided[k]]_gateVars
  BY GateStep DEF StaysOnRecord
<1> QED
  BY <1>1, <1>2, <1>3, <1>4, PTL DEF GateSpec, GateHolds, DecisionsStick

-----------------------------------------------------------------------------
(* The release gates, for any clean patches and any defects.               *)

(* The defects a gate is there to find.                                    *)
FoundBy ==
  [commit_coherence |-> {"base"}, build |-> {"build"},
   tests |-> {"unit_fails", "unit_skipped", "integration_fails"},
   unit_tests |-> {"unit_fails", "unit_skipped"}, integration_tests |-> {"integration_fails"},
   lint |-> {"lint"}, typecheck |-> {"types"}, schema_contract |-> {"contracts"},
   security |-> {"leak", "injection", "anomaly"}, boundary |-> {"outside"},
   changed_line_coverage |-> {"coverage"}, forbidden_file |-> {"protected"},
   secret_scan |-> {"secret"}, generated_code_drift |-> {"drift"},
   link_route |-> {"link", "redirect"}, crawlability |-> {"blocked", "rendering"},
   structured_data |-> {"syntax", "fabricated", "parity"}, content_fidelity |-> {"claim"},
   accessibility |-> {"a11y"}, performance |-> {"slow"},
   diff_rationality |-> {"stray_hunk", "no_unit"}]

LEMMA GatesAndDefects ==
  ASSUME NEW g \in ALL_GATE_IDS, NEW d \in DOMAIN Meant
  PROVE  g \in Meant[d] <=> d \in FoundBy[g]
BY DEF ALL_GATE_IDS, ALGORITHM_11_1_GATE_IDS, ADDITIONAL_GATE_IDS, Meant, FoundBy

(* A gate reports a failure just when the patch has one of its defects.    *)
Finds(n, D, g) == n \in Nat /\ (n # 0 <=> \E d \in D : d \in FoundBy[g])

LEMMA OneIfFinds ==
  ASSUME NEW D, NEW g, NEW bad \in BOOLEAN, bad <=> \E d \in D : d \in FoundBy[g]
  PROVE  Finds(OneIf(bad), D, g)
BY DEF Finds, OneIf

LEMMA CountFinds ==
  ASSUME NEW D, NEW g, NEW S, IsFiniteSet(S), S # {} <=> \E d \in D : d \in FoundBy[g]
  PROVE  Finds(Cardinality(S), D, g)
<1>1. Cardinality(S) \in Nat /\ (Cardinality(S) = 0 <=> S = {})
  BY FS_CardinalityType, FS_EmptySet
<1> QED
  BY <1>1 DEF Finds

(* The gates that compare numbers.                                         *)
LEMMA CoverageFinds ==
  ASSUME NEW c \in Nat, NEW n \in Nat, 100 * c >= THRESHOLD_PCT * n
  PROVE  /\ n # 0 => 100 * c >= THRESHOLD_PCT * n
         /\ (100 * c) \div THRESHOLD_PCT + 1 \in Nat \ {0}
         /\ ~(100 * c >= THRESHOLD_PCT * ((100 * c) \div THRESHOLD_PCT + 1))
BY DEF THRESHOLD_PCT

LEMMA RegressionFinds ==
  ASSUME NEW b \in Nat, NEW t \in Nat
  PROVE  ~(100 * ((b + (t * b) \div 100 + 1) - b) <= t * b)
<1>1. PICK x \in Nat : x = t * b
  OBVIOUS
<1>2. 100 * (x \div 100 + 1) > x /\ x \div 100 \in Nat
  OBVIOUS
<1>3. (b + x \div 100 + 1) - b = x \div 100 + 1
  BY <1>2
<1> QED
  BY <1>1, <1>2, <1>3


(* The gates that collect what is wrong.                                   *)
LEMMA ClaimsFind ==
  ASSUME NEW C, IsFiniteSet(C), \A c \in C : c.evidence, NEW D,
         NEW new, new = C \cup Only("claim" \in D, [id |-> "d", evidence |-> FALSE])
  PROVE  IsFiniteSet({c \in new : ~c.evidence}) /\ ({c \in new : ~c.evidence} # {} <=> "claim" \in D)
<1> PICK x : x = [id |-> "d", evidence |-> FALSE]
  OBVIOUS
<1>1. ~x.evidence
  OBVIOUS
<1>2. IsFiniteSet(Only("claim" \in D, x)) /\ \A y : y \in Only("claim" \in D, x) <=> "claim" \in D /\ y = x
  BY FS_Singleton, FS_EmptySet DEF Only
<1>3. IsFiniteSet(new)
  BY <1>2, FS_Union
<1>4. IsFiniteSet({c \in new : ~c.evidence})
  BY <1>3, FS_Subset
<1> QED
  BY <1>1, <1>2, <1>4

LEMMA HunksFind ==
  ASSUME NEW H, IsFiniteSet(H), \A h \in H : h.unit \in APPROVED_UNITS, NEW D, NEW new,
         new = H \cup Only("stray_hunk" \in D, [id |-> "i", unit |-> "w"])
                 \cup Only("no_unit" \in D, [id |-> "j", unit |-> "none"])
  PROVE  LET bad == {h \in new : h.unit \notin APPROVED_UNITS} IN
         IsFiniteSet(bad) /\ (bad # {} <=> "stray_hunk" \in D \/ "no_unit" \in D)
<1> PICK x : x = [id |-> "i", unit |-> "w"]
  OBVIOUS
<1> PICK y : y = [id |-> "j", unit |-> "none"]
  OBVIOUS
<1>1. x.unit \notin APPROVED_UNITS /\ y.unit \notin APPROVED_UNITS
  BY DEF APPROVED_UNITS
<1>2. IsFiniteSet(Only("stray_hunk" \in D, x))
      /\ \A z : z \in Only("stray_hunk" \in D, x) <=> "stray_hunk" \in D /\ z = x
  BY FS_Singleton, FS_EmptySet DEF Only
<1>3. IsFiniteSet(Only("no_unit" \in D, y)) /\ \A z : z \in Only("no_unit" \in D, y) <=> "no_unit" \in D /\ z = y
  BY FS_Singleton, FS_EmptySet DEF Only
<1>4. IsFiniteSet(new)
  BY <1>2, <1>3, FS_Union
<1>5. IsFiniteSet({h \in new : h.unit \notin APPROVED_UNITS})
  BY <1>4, FS_Subset
<1> QED
  BY <1>1, <1>2, <1>3, <1>5

LEMMA GatesFind ==
  ASSUME NEW p, IsClean(p), NEW D, NEW g \in ALL_GATE_IDS
  PROVE  Finds(RunAllGates(ReportsOf(p, D))[g], D, g)
<1> PICK r : r = ReportsOf(p, D)
  OBVIOUS
<1> PICK n : n = RunAllGates(r)[g]
  OBVIOUS
<1> SUFFICES Finds(n, D, g)
  OBVIOUS
<1>1. /\ p.unit \in Counts /\ p.integration \in Counts /\ p.lines \in Nat /\ p.covered \in Nat
      /\ p.baseline \in Nat /\ p.threshold \in Nat /\ p.observed \in Nat
  BY DEF IsClean, Reports
<1>2. p.unit.total \in Nat /\ p.unit.passed \in Nat /\ p.unit.failed \in Nat
  BY <1>1 DEF Counts
<1>3. p.integration.total \in Nat /\ p.integration.passed \in Nat /\ p.integration.failed \in Nat
  BY <1>1 DEF Counts
<1>4. AllPassed(p.unit) /\ AllPassed(p.integration)
  BY DEF IsClean
<1>5. CASE g = "commit_coherence"
  <2>1. n = GateCommitCoherence(r)
    BY <1>5 DEF RunAllGates, ALL_GATE_IDS, ALGORITHM_11_1_GATE_IDS, ADDITIONAL_GATE_IDS
  <2>2. r.artifact_base # "approved" <=> "base" \in D
    BY DEF IsClean, ReportsOf
  <2>3. (r.artifact_base # "approved") <=> \E d \in D : d \in FoundBy[g]
    BY <1>5, <2>2 DEF FoundBy
  <2> QED
    BY <2>1, <2>3, OneIfFinds DEF GateCommitCoherence
<1>6. CASE g = "build"
  <2>1. n = GateBuild(r)
    BY <1>6 DEF RunAllGates, ALL_GATE_IDS, ALGORITHM_11_1_GATE_IDS, ADDITIONAL_GATE_IDS
  <2>2. ~r.build_ok <=> "build" \in D
    BY DEF IsClean, ReportsOf
  <2>3. (~r.build_ok) <=> \E d \in D : d \in FoundBy[g]
    BY <1>6, <2>2 DEF FoundBy
  <2> QED
    BY <2>1, <2>3, OneIfFinds DEF GateBuild
<1>7. CASE g = "tests"
  <2>1. n = TestGate(CombinedTestOutcome(r))
    BY <1>7 DEF RunAllGates, ALL_GATE_IDS, ALGORITHM_11_1_GATE_IDS, ADDITIONAL_GATE_IDS
  <2>2. ~AllPassed(CombinedTestOutcome(r)) <=> "unit_fails" \in D \/ "unit_skipped" \in D \/ "integration_fails" \in D
    BY <1>2, <1>3, <1>4 DEF ReportsOf, AllPassed, OneIf, CombinedTestOutcome
  <2>3. ~AllPassed(CombinedTestOutcome(r)) <=> \E d \in D : d \in FoundBy[g]
    BY <1>7, <2>2 DEF FoundBy
  <2> QED
    BY <2>1, <2>3, OneIfFinds DEF TestGate, AllPassed
<1>8. CASE g = "unit_tests"
  <2>1. n = TestGate(r.unit)
    BY <1>8 DEF RunAllGates, ALL_GATE_IDS, ALGORITHM_11_1_GATE_IDS, ADDITIONAL_GATE_IDS
  <2>2. ~AllPassed(r.unit) <=> "unit_fails" \in D \/ "unit_skipped" \in D
    BY <1>2, <1>4 DEF ReportsOf, AllPassed, OneIf
  <2>3. ~AllPassed(r.unit) <=> \E d \in D : d \in FoundBy[g]
    BY <1>8, <2>2 DEF FoundBy
  <2> QED
    BY <2>1, <2>3, OneIfFinds DEF TestGate, AllPassed
<1>9. CASE g = "integration_tests"
  <2>1. n = TestGate(r.integration)
    BY <1>9 DEF RunAllGates, ALL_GATE_IDS, ALGORITHM_11_1_GATE_IDS, ADDITIONAL_GATE_IDS
  <2>2. ~AllPassed(r.integration) <=> "integration_fails" \in D
    BY <1>3, <1>4 DEF ReportsOf, AllPassed, OneIf
  <2>3. ~AllPassed(r.integration) <=> \E d \in D : d \in FoundBy[g]
    BY <1>9, <2>2 DEF FoundBy
  <2> QED
    BY <2>1, <2>3, OneIfFinds DEF TestGate, AllPassed
<1>10. CASE g = "lint"
  <2>1. n = GateLint(r)
    BY <1>10 DEF RunAllGates, ALL_GATE_IDS, ALGORITHM_11_1_GATE_IDS, ADDITIONAL_GATE_IDS
  <2>2. r.lint # 0 <=> "lint" \in D
    BY DEF ReportsOf, OneIf
  <2>3. (r.lint # 0) <=> \E d \in D : d \in FoundBy[g]
    BY <1>10, <2>2 DEF FoundBy
  <2> QED
    BY <2>1, <2>3, OneIfFinds DEF GateLint
<1>11. CASE g = "typecheck"
  <2>1. n = GateTypecheck(r)
    BY <1>11 DEF RunAllGates, ALL_GATE_IDS, ALGORITHM_11_1_GATE_IDS, ADDITIONAL_GATE_IDS
  <2>2. r.types # 0 <=> "types" \in D
    BY DEF ReportsOf, OneIf
  <2>3. (r.types # 0) <=> \E d \in D : d \in FoundBy[g]
    BY <1>11, <2>2 DEF FoundBy
  <2> QED
    BY <2>1, <2>3, OneIfFinds DEF GateTypecheck
<1>12. CASE g = "schema_contract"
  <2>1. n = GateSchemaContract(r)
    BY <1>12 DEF RunAllGates, ALL_GATE_IDS, ALGORITHM_11_1_GATE_IDS, ADDITIONAL_GATE_IDS
  <2>2. ~r.contracts_ok <=> "contracts" \in D
    BY DEF IsClean, ReportsOf
  <2>3. (~r.contracts_ok) <=> \E d \in D : d \in FoundBy[g]
    BY <1>12, <2>2 DEF FoundBy
  <2> QED
    BY <2>1, <2>3, OneIfFinds DEF GateSchemaContract
<1>13. CASE g = "security"
  <2>1. n = GateSecurity(r)
    BY <1>13 DEF RunAllGates, ALL_GATE_IDS, ALGORITHM_11_1_GATE_IDS, ADDITIONAL_GATE_IDS
  <2>2. r.leaks + r.injections + r.anomalies # 0 <=> "leak" \in D \/ "injection" \in D \/ "anomaly" \in D
    BY DEF ReportsOf, OneIf
  <2>3. (r.leaks + r.injections + r.anomalies # 0) <=> \E d \in D : d \in FoundBy[g]
    BY <1>13, <2>2 DEF FoundBy
  <2> QED
    BY <2>1, <2>3, OneIfFinds DEF GateSecurity
<1>14. CASE g = "boundary"
  <2>1. n = GateBoundary(r)
    BY <1>14 DEF RunAllGates, ALL_GATE_IDS, ALGORITHM_11_1_GATE_IDS, ADDITIONAL_GATE_IDS
  <2>2. r.outside # {} <=> "outside" \in D
    BY DEF ReportsOf, Only
  <2>3. (r.outside # {}) <=> \E d \in D : d \in FoundBy[g]
    BY <1>14, <2>2 DEF FoundBy
  <2> QED
    BY <2>1, <2>3, OneIfFinds DEF GateBoundary
<1>15. CASE g = "changed_line_coverage"
  <2>1. n = GateChangedLineCoverage(r)
    BY <1>15 DEF RunAllGates, ALL_GATE_IDS, ALGORITHM_11_1_GATE_IDS, ADDITIONAL_GATE_IDS
  <2>2. /\ r.covered = p.covered
        /\ r.lines = IF "coverage" \in D THEN (100 * p.covered) \div THRESHOLD_PCT + 1 ELSE p.lines
    BY DEF ReportsOf
  <2>3. 100 * p.covered >= THRESHOLD_PCT * p.lines
    BY DEF IsClean
  <2>4. ~CoveredPctIs(r, THRESHOLD_PCT) <=> "coverage" \in D
    <3>1. CASE "coverage" \in D
      BY <1>1, <2>2, <2>3, <3>1, CoverageFinds DEF CoveredPctIs
    <3>2. CASE "coverage" \notin D
      BY <1>1, <2>2, <2>3, <3>2 DEF CoveredPctIs, THRESHOLD_PCT
    <3> QED
      BY <3>1, <3>2
  <2>5. ~CoveredPctIs(r, THRESHOLD_PCT) <=> \E d \in D : d \in FoundBy[g]
    BY <1>15, <2>4 DEF FoundBy
  <2> QED
    BY <2>1, <2>5, OneIfFinds DEF GateChangedLineCoverage, CoveredPctIs
<1>16. CASE g = "forbidden_file"
  <2>1. n = GateForbiddenFile(r)
    BY <1>16 DEF RunAllGates, ALL_GATE_IDS, ALGORITHM_11_1_GATE_IDS, ADDITIONAL_GATE_IDS
  <2>2. r.changed \cap FORBIDDEN_PATHS # {} <=> "protected" \in D
    BY DEF IsClean, ReportsOf, Only, FORBIDDEN_PATHS
  <2>3. (r.changed \cap FORBIDDEN_PATHS # {}) <=> \E d \in D : d \in FoundBy[g]
    BY <1>16, <2>2 DEF FoundBy
  <2> QED
    BY <2>1, <2>3, OneIfFinds DEF GateForbiddenFile
<1>17. CASE g = "secret_scan"
  <2>1. n = GateSecretScan(r)
    BY <1>17 DEF RunAllGates, ALL_GATE_IDS, ALGORITHM_11_1_GATE_IDS, ADDITIONAL_GATE_IDS
  <2>2. r.secrets # 0 <=> "secret" \in D
    BY DEF ReportsOf, OneIf
  <2>3. (r.secrets # 0) <=> \E d \in D : d \in FoundBy[g]
    BY <1>17, <2>2 DEF FoundBy
  <2> QED
    BY <2>1, <2>3, OneIfFinds DEF GateSecretScan
<1>18. CASE g = "generated_code_drift"
  <2>1. n = GateGeneratedCodeDrift(r)
    BY <1>18 DEF RunAllGates, ALL_GATE_IDS, ALGORITHM_11_1_GATE_IDS, ADDITIONAL_GATE_IDS
  <2>2. r.drifted # 0 <=> "drift" \in D
    BY DEF ReportsOf, OneIf
  <2>3. (r.drifted # 0) <=> \E d \in D : d \in FoundBy[g]
    BY <1>18, <2>2 DEF FoundBy
  <2> QED
    BY <2>1, <2>3, OneIfFinds DEF GateGeneratedCodeDrift
<1>19. CASE g = "link_route"
  <2>1. n = GateLinkRoute(r)
    BY <1>19 DEF RunAllGates, ALL_GATE_IDS, ALGORITHM_11_1_GATE_IDS, ADDITIONAL_GATE_IDS
  <2>2. r.broken_links + r.redirect_errors # 0 <=> "link" \in D \/ "redirect" \in D
    BY DEF ReportsOf, OneIf
  <2>3. (r.broken_links + r.redirect_errors # 0) <=> \E d \in D : d \in FoundBy[g]
    BY <1>19, <2>2 DEF FoundBy
  <2> QED
    BY <2>1, <2>3, OneIfFinds DEF GateLinkRoute
<1>20. CASE g = "crawlability"
  <2>1. n = GateCrawlability(r)
    BY <1>20 DEF RunAllGates, ALL_GATE_IDS, ALGORITHM_11_1_GATE_IDS, ADDITIONAL_GATE_IDS
  <2>2. (r.blocked # 0 \/ ~r.rendering_ok) <=> "blocked" \in D \/ "rendering" \in D
    <3>1. r.blocked = OneIf("blocked" \in D) /\ (r.rendering_ok <=> "rendering" \notin D)
      BY DEF IsClean, ReportsOf
    <3> QED
      BY <3>1 DEF OneIf
  <2>3. (r.blocked # 0 \/ ~r.rendering_ok) <=> \E d \in D : d \in FoundBy[g]
    BY <1>20, <2>2 DEF FoundBy
  <2> QED
    BY <2>1, <2>3, OneIfFinds DEF GateCrawlability
<1>21. CASE g = "structured_data"
  <2>1. n = GateStructuredData(r)
    BY <1>21 DEF RunAllGates, ALL_GATE_IDS, ALGORITHM_11_1_GATE_IDS, ADDITIONAL_GATE_IDS
  <2>2. (r.syntax_errors + r.fabricated # 0 \/ ~r.parity_ok) <=> "syntax" \in D \/ "fabricated" \in D \/ "parity" \in D
    <3>1. /\ r.syntax_errors = OneIf("syntax" \in D) /\ r.fabricated = OneIf("fabricated" \in D)
          /\ r.parity_ok <=> "parity" \notin D
      BY DEF IsClean, ReportsOf
    <3> QED
      BY <3>1 DEF OneIf
  <2>3. (r.syntax_errors + r.fabricated # 0 \/ ~r.parity_ok) <=> \E d \in D : d \in FoundBy[g]
    BY <1>21, <2>2 DEF FoundBy
  <2> QED
    BY <2>1, <2>3, OneIfFinds DEF GateStructuredData
<1>22. CASE g = "content_fidelity"
  <2> DEFINE bad == {c \in r.claims : ~c.evidence}
  <2>1. n = Cardinality(bad)
    BY <1>22 DEF RunAllGates, ALL_GATE_IDS, ALGORITHM_11_1_GATE_IDS, ADDITIONAL_GATE_IDS, GateContentFidelity
  <2>2. r.claims = p.claims \cup Only("claim" \in D, [id |-> "d", evidence |-> FALSE])
    BY DEF ReportsOf
  <2>3. IsFiniteSet(p.claims) /\ \A c \in p.claims : c.evidence
    BY DEF IsClean
  <2>4. IsFiniteSet(bad) /\ (bad # {} <=> "claim" \in D)
    BY <2>2, <2>3, ClaimsFind
  <2>5. bad # {} <=> \E d \in D : d \in FoundBy[g]
    BY <1>22, <2>4 DEF FoundBy
  <2> QED
    BY <2>1, <2>4, <2>5, CountFinds
<1>23. CASE g = "accessibility"
  <2>1. n = GateAccessibility(r)
    BY <1>23 DEF RunAllGates, ALL_GATE_IDS, ALGORITHM_11_1_GATE_IDS, ADDITIONAL_GATE_IDS
  <2>2. r.a11y # 0 <=> "a11y" \in D
    BY DEF ReportsOf, OneIf
  <2>3. (r.a11y # 0) <=> \E d \in D : d \in FoundBy[g]
    BY <1>23, <2>2 DEF FoundBy
  <2> QED
    BY <2>1, <2>3, OneIfFinds DEF GateAccessibility
<1>24. CASE g = "performance"
  <2>1. n = GatePerformance(r)
    BY <1>24 DEF RunAllGates, ALL_GATE_IDS, ALGORITHM_11_1_GATE_IDS, ADDITIONAL_GATE_IDS
  <2>2. /\ r.baseline = p.baseline /\ r.threshold = p.threshold
        /\ r.observed = IF "slow" \in D THEN p.baseline + (p.threshold * p.baseline) \div 100 + 1
                        ELSE p.observed
    BY DEF ReportsOf
  <2>3. 100 * (p.observed - p.baseline) <= p.threshold * p.baseline
    BY DEF IsClean
  <2>4. ~RegressionWithin(r) <=> "slow" \in D
    <3>1. CASE "slow" \in D
      BY <1>1, <2>2, <3>1, RegressionFinds DEF RegressionWithin
    <3>2. CASE "slow" \notin D
      BY <2>2, <2>3, <3>2 DEF RegressionWithin
    <3> QED
      BY <3>1, <3>2
  <2>5. ~RegressionWithin(r) <=> \E d \in D : d \in FoundBy[g]
    BY <1>24, <2>4 DEF FoundBy
  <2> QED
    BY <2>1, <2>5, OneIfFinds DEF GatePerformance, RegressionWithin
<1>25. CASE g = "diff_rationality"
  <2> DEFINE bad == {h \in r.hunks : h.unit \notin APPROVED_UNITS}
  <2>1. n = Cardinality(bad)
    BY <1>25 DEF RunAllGates, ALL_GATE_IDS, ALGORITHM_11_1_GATE_IDS, ADDITIONAL_GATE_IDS, GateDiffRationality
  <2>2. r.hunks = p.hunks \cup Only("stray_hunk" \in D, [id |-> "i", unit |-> "w"])
                        \cup Only("no_unit" \in D, [id |-> "j", unit |-> "none"])
    BY DEF ReportsOf
  <2>3. IsFiniteSet(p.hunks) /\ \A h \in p.hunks : h.unit \in APPROVED_UNITS
    BY DEF IsClean
  <2>4. IsFiniteSet(bad) /\ (bad # {} <=> "stray_hunk" \in D \/ "no_unit" \in D)
    BY <2>2, <2>3, HunksFind
  <2>5. bad # {} <=> \E d \in D : d \in FoundBy[g]
    BY <1>25, <2>4 DEF FoundBy
  <2> QED
    BY <2>1, <2>4, <2>5, CountFinds
<1> QED
  BY <1>5, <1>6, <1>7, <1>8, <1>9, <1>10, <1>11, <1>12, <1>13, <1>14, <1>15, <1>16, <1>17, <1>18, <1>19, <1>20,
     <1>21, <1>22, <1>23, <1>24, <1>25
    DEF ALL_GATE_IDS, ALGORITHM_11_1_GATE_IDS, ADDITIONAL_GATE_IDS

LEMMA EveryDefectHasAGate ==
  ASSUME NEW d \in DOMAIN Meant
  PROVE  \E g \in ALL_GATE_IDS : g \in Meant[d]
BY DEF Meant, ALL_GATE_IDS, ALGORITHM_11_1_GATE_IDS, ADDITIONAL_GATE_IDS

LEMMA GatesAreKnown ==
  ASSUME NEW d \in DOMAIN Meant
  PROVE  Meant[d] \subseteq ALL_GATE_IDS
BY DEF Meant, ALL_GATE_IDS, ALGORITHM_11_1_GATE_IDS, ADDITIONAL_GATE_IDS

(* The verdict v is right about a patch with the defects D.                *)
IsRight(v, D) ==
  /\ v \in [ALL_GATE_IDS -> Nat]
  /\ \A g \in ALL_GATE_IDS : v[g] # 0 <=> \E d \in D : g \in Meant[d]

LEMMA EvaluationIsRight ==
  ASSUME NEW p, IsClean(p), NEW D, D \subseteq DOMAIN Meant
  PROVE  IsRight(RunAllGates(ReportsOf(p, D)), D)
<1> PICK v : v = RunAllGates(ReportsOf(p, D))
  OBVIOUS
<1>1. ASSUME NEW g \in ALL_GATE_IDS
      PROVE  v[g] \in Nat /\ (v[g] # 0 <=> \E d \in D : g \in Meant[d])
  <2>1. Finds(v[g], D, g)
    BY GatesFind
  <2>2. \A d \in D : g \in Meant[d] <=> d \in FoundBy[g]
    BY GatesAndDefects
  <2> QED
    BY <2>1, <2>2 DEF Finds
<1>2. v = [g \in ALL_GATE_IDS |-> v[g]]
  BY DEF RunAllGates
<1>3. v \in [ALL_GATE_IDS -> Nat]
  BY <1>1, <1>2
<1> QED
  BY <1>1, <1>3 DEF IsRight

LEMMA OneFailureForbids ==
  ASSUME NEW v, NEW D, D \subseteq DOMAIN Meant, IsRight(v, D)
  PROVE  ForbidsPromotion(v) <=> D # {}
<1>1. ForbidsPromotion(v) <=> \E g \in ALL_GATE_IDS : v[g] # 0
  BY DEF ForbidsPromotion, BuildVerificationResult
<1>2. (\E g \in ALL_GATE_IDS : v[g] # 0) => D # {}
  BY DEF IsRight
<1>3. D # {} => \E g \in ALL_GATE_IDS : v[g] # 0
  BY EveryDefectHasAGate DEF IsRight
<1> QED
  BY <1>1, <1>2, <1>3

LEMMA JobsAdvance ==
  ASSUME NEW t \in {"succeeded", "failed"}
  PROVE  AdvanceTo(t) = t
BY DEF AdvanceTo, JobTransition, AllowedJobTransitions, JobStatus

(* What an evaluation leaves: the verdict on the patch as it was, and a    *)
(* job that ended as the verdict says.                                     *)
QualityInv ==
  /\ QualityTypeOK
  /\ qualityJob # "pending" => IsRight(verdict, evaluated) /\ qualityJob = NextJobStatus(verdict)

LEMMA QualityStep ==
  ASSUME QualityInv, [QualityNext]_qualityVars
  PROVE  QualityInv'
<1>1. ASSUME NewJob, patch' \in CleanPatches, defects' \subseteq Defects
      PROVE  QualityInv'
  BY <1>1 DEF NewJob, NotEvaluated, QualityInv, QualityTypeOK, JobStatus
<1>2. ASSUME NEW d \in Defects, ComeIn(d)
      PROVE  QualityInv'
  BY <1>1, <1>2 DEF ComeIn, QualityInv, QualityTypeOK
<1>3. CASE StartOver
  BY <1>1, <1>3 DEF StartOver, QualityInv, QualityTypeOK
<1>4. CASE RunQualityEvaluation
  <2>1. IsClean(patch) /\ defects \subseteq DOMAIN Meant
    BY QualityAssumption DEF QualityInv, QualityTypeOK
  <2>2. IsRight(verdict', evaluated')
    BY <1>4, <2>1, EvaluationIsRight DEF RunQualityEvaluation
  <2>3. NextJobStatus(verdict') \in {"succeeded", "failed"}
    BY DEF NextJobStatus
  <2>4. qualityJob' = NextJobStatus(verdict')
    BY <1>4, <2>3, JobsAdvance DEF RunQualityEvaluation
  <2>5. QualityTypeOK'
    BY <1>4, <2>2, <2>3, <2>4 DEF RunQualityEvaluation, QualityInv, QualityTypeOK, IsRight, JobStatus
  <2> QED
    BY <2>2, <2>4, <2>5 DEF QualityInv
<1>5. CASE UNCHANGED qualityVars
  BY <1>5 DEF qualityVars, QualityInv, QualityTypeOK
<1> QED
  BY <1>2, <1>3, <1>4, <1>5 DEF QualityNext

LEMMA QualityFollows ==
  ASSUME QualityInv
  PROVE  QualityIsEarned
<1>1. evaluated \subseteq DOMAIN Meant
  BY QualityAssumption DEF QualityInv, QualityTypeOK
<1>2. PromotedIsClean
  <2>1. CASE qualityJob = "pending"
    BY <2>1 DEF PromotedIsClean
  <2>2. CASE qualityJob # "pending"
    <3>1. ForbidsPromotion(verdict) <=> evaluated # {}
      BY <1>1, <2>2, OneFailureForbids DEF QualityInv
    <3> QED
      BY <2>2, <3>1 DEF QualityInv, NextJobStatus, PromotedIsClean
  <2> QED
    BY <2>1, <2>2
<1>3. FailuresAreExplained
  <2> SUFFICES ASSUME qualityJob # "pending"
               PROVE  /\ {g \in ALL_GATE_IDS : BuildGateEventPayload(verdict[g]) = "quality.gate.failed.v1"}
                           = UNION {Meant[d] : d \in evaluated}
                      /\ \A g \in ALL_GATE_IDS :
                           BuildGateAuditRecord(verdict[g]).status = BuildVerificationResult(verdict[g])
    BY DEF FailuresAreExplained
  <2>1. \A g \in ALL_GATE_IDS : BuildGateEventPayload(verdict[g]) = "quality.gate.failed.v1"
                                <=> verdict[g] # 0
    BY DEF BuildGateEventPayload
  <2>2. \A g \in ALL_GATE_IDS : verdict[g] # 0 <=> \E d \in evaluated : g \in Meant[d]
    BY DEF QualityInv, IsRight
  <2>3. \A d \in evaluated : Meant[d] \subseteq ALL_GATE_IDS
    BY <1>1, GatesAreKnown
  <2>4. {g \in ALL_GATE_IDS : BuildGateEventPayload(verdict[g]) = "quality.gate.failed.v1"}
          = UNION {Meant[d] : d \in evaluated}
    BY <2>1, <2>2, <2>3
  <2>5. \A g \in ALL_GATE_IDS :
          BuildGateAuditRecord(verdict[g]).status = BuildVerificationResult(verdict[g])
    BY DEF BuildGateAuditRecord, BuildVerificationResult
  <2> QED
    BY <2>4, <2>5
<1> QED
  BY <1>2, <1>3 DEF QualityInv, QualityIsEarned

(* A job of quality-eval-service succeeds just for a patch without a       *)
(* defect, and the gates that fail are those that are there for its        *)
(* defects: for any number of defects in any patch that was clean.         *)
THEOREM QualityIsAlwaysEarned == QualitySpec => []QualityIsEarned
<1>1. QualityInit => QualityInv
  BY DEF QualityInit, NotEvaluated, QualityInv, QualityTypeOK, JobStatus
<1>2. QualityInv /\ [QualityNext]_qualityVars => QualityInv'
  BY QualityStep
<1>3. QualityInv => QualityIsEarned
  BY QualityFollows
<1> QED
  BY <1>1, <1>2, <1>3, PTL DEF QualitySpec

-----------------------------------------------------------------------------
(* The commands the policy gate judges.                                    *)

LEMMA LeastIsMin ==
  ASSUME NEW S, S \subseteq Nat, NEW i \in S, \A k \in S : i <= k
  PROVE  Min(S) = i
<1>1. PICK m : m = CHOOSE x \in S : \A y \in S : x =< y
  OBVIOUS
<1>2. m \in S /\ \A y \in S : m <= y
  BY <1>1
<1>3. m <= i /\ i <= m /\ m \in Nat /\ i \in Nat
  BY <1>2
<1>4. m = i
  BY <1>3
<1> QED BY <1>1, <1>4 DEF Min

LEMMA MinIsLeast ==
  ASSUME NEW S, S \subseteq Nat, S # {}
  PROVE  Min(S) \in S /\ Min(S) \in Nat /\ \A k \in S : Min(S) <= k
<1>1. PICK i \in S : \A k \in S : i <= k
  BY LeastNumber
<1> QED BY <1>1, LeastIsMin

(* Words, by place.                                                        *)
IsArgv(s) == s \in Seq({s[i] : i \in DOMAIN s})

LEMMA ArgvType ==
  ASSUME NEW s, IsArgv(s) PROVE Len(s) \in Nat /\ DOMAIN s = 1..Len(s)
BY DEF IsArgv

LEMMA ArgvNotEmpty ==
  ASSUME NEW s, IsArgv(s), s # <<>> PROVE 1 \in DOMAIN s /\ Len(s) > 0
<1>1. Len(s) # 0
  BY DEF IsArgv
<1> QED BY <1>1, ArgvType

LEMMA SeqIsArgv == ASSUME NEW T, NEW m \in Seq(T) PROVE IsArgv(m)
<1>1. Len(m) \in Nat /\ DOMAIN m = 1..Len(m) /\ m = [i \in 1..Len(m) |-> m[i]]
  OBVIOUS
<1>2. PICK V : V = {m[i] : i \in DOMAIN m}
  OBVIOUS
<1>3. m \in [1..Len(m) -> V]
  BY <1>1, <1>2
<1>4. m \in Seq(V)
  BY <1>1, <1>3
<1> QED BY <1>2, <1>4 DEF IsArgv

IsJoin(m, p, s) ==
  /\ m = p \o s /\ IsArgv(p) /\ IsArgv(s)
  /\ IsArgv(m) /\ Len(m) = Len(p) + Len(s)
  /\ \A i \in 1..Len(p) : m[i] = p[i]
  /\ \A i \in 1..Len(s) : Len(p) + i \in DOMAIN m /\ m[Len(p) + i] = s[i]
LEMMA ArgvJoin ==
  ASSUME NEW p, NEW s, IsArgv(p), IsArgv(s), NEW m, m = p \o s
  PROVE  IsJoin(m, p, s)
<1> DEFINE T == {p[i] : i \in DOMAIN p} \cup {s[i] : i \in DOMAIN s}
<1>1. p \in Seq(T) /\ s \in Seq(T)
  BY DEF IsArgv
<1> HIDE DEF T
<1>2. m \in Seq(T) /\ Len(m) = Len(p) + Len(s) /\ Len(p) \in Nat /\ Len(s) \in Nat
  BY <1>1
<1>3. \A i \in 1..Len(p) : m[i] = p[i]
  BY <1>1, <1>2
<1>4. ASSUME NEW i \in 1..Len(s) PROVE Len(p) + i \in DOMAIN m /\ m[Len(p) + i] = s[i]
  <2>1. Len(p) + i \in 1..Len(m) /\ ~(Len(p) + i <= Len(p)) /\ (Len(p) + i) - Len(p) = i
    BY <1>2
  <2> QED BY <2>1, <1>1, <1>2
<1>5. IsArgv(m)
  BY <1>2, SeqIsArgv
<1> QED BY <1>2, <1>3, <1>4, <1>5 DEF IsJoin

(* Places of a command, of which the first is as far into it as that of    *)
(* others is into what comes behind its first words.                       *)
FirstOf(P, k) == k \in P /\ \A i \in P : k <= i
Aligned(m, P, p, s, Q) == Q \subseteq DOMAIN s /\ Q # {} /\ P \subseteq DOMAIN m /\ FirstOf(P, Len(p) + Min(Q))
LEMMA JoinedFrom ==
  ASSUME NEW p, NEW s, NEW m, IsJoin(m, p, s), NEW Q, NEW P, Aligned(m, P, p, s, Q)
  PROVE  FromFirst(m, P) = FromFirst(s, Q)
<1>0. Q \subseteq DOMAIN s /\ Q # {} /\ P \subseteq DOMAIN m /\ Len(p) + Min(Q) \in P
      /\ \A i \in P : Len(p) + Min(Q) <= i
  BY DEF Aligned, FirstOf
<1>1. IsJoin(m, p, s) /\ m = p \o s /\ IsArgv(p) /\ IsArgv(s)
  BY DEF IsJoin
<1>2. Len(p) \in Nat /\ Len(s) \in Nat /\ IsArgv(m) /\ Len(m) = Len(p) + Len(s) /\ DOMAIN s = 1..Len(s)
      /\ DOMAIN m = 1..Len(m)
  BY <1>1, ArgvType DEF IsJoin
<1>3. Min(Q) \in Q /\ Min(Q) \in 1..Len(s)
  BY <1>0, <1>2, MinIsLeast
<1>4. P \subseteq Nat /\ P # {}
  BY <1>0, <1>2
<1>5. Min(P) = Len(p) + Min(Q)
  BY <1>0, <1>4, LeastIsMin
<1>a1. PICK k : k = Min(Q)
  OBVIOUS
<1>6. SubSeq(m, Len(p) + k, Len(m)) = SubSeq(s, k, Len(s))
  <2> DEFINE T == {p[i] : i \in DOMAIN p} \cup {s[i] : i \in DOMAIN s}
  <2>1. p \in Seq(T) /\ s \in Seq(T)
    BY <1>1 DEF IsArgv
  <2> HIDE DEF T
  <2>2. k \in 1..Len(s)
    BY <1>3, <1>a1
  <2>3. /\ Len(p) + k \in (Len(p) + 1)..(Len(p) + Len(s)) /\ Len(m) \in (Len(p) + 1)..(Len(p) + Len(s))
        /\ (Len(p) + k) - Len(p) = k /\ Len(m) - Len(p) = Len(s)
    BY <1>2, <2>2
  <2>4. SubSeq(m, Len(p) + k, Len(m)) = SubSeq(s, (Len(p) + k) - Len(p), Len(m) - Len(p))
    <3>1. \A i, j \in (Len(p) + 1)..(Len(p) + Len(s)) : SubSeq(p \o s, i, j) = SubSeq(s, i - Len(p), j - Len(p))
      BY <2>1, SubSeqOfConcat2
    <3>2. PICK i \in (Len(p) + 1)..(Len(p) + Len(s)), j \in (Len(p) + 1)..(Len(p) + Len(s)) : i = Len(p) + k
          /\ j = Len(m)
      BY <2>3
    <3>3. SubSeq(p \o s, i, j) = SubSeq(s, i - Len(p), j - Len(p))
      BY <3>1, Zenon
    <3> QED BY <1>1, <3>2, <3>3, Zenon
  <2> QED BY <2>3, <2>4
<1> QED BY <1>0, <1>4, <1>5, <1>6, <1>a1 DEF FromFirst

(* A command none of whose first words is passed over is found whole.      *)
LEMMA FromStart ==
  ASSUME NEW s, IsArgv(s), NEW Q, Q \subseteq DOMAIN s, 1 \in Q PROVE FromFirst(s, Q) = s
<1>1. Len(s) \in Nat /\ DOMAIN s = 1..Len(s)
  BY ArgvType
<1>2. Min(Q) = 1
  BY <1>1, LeastIsMin
<1>3. SubSeq(s, 1, Len(s)) = s
  BY SubSeqFull DEF IsArgv
<1> QED BY <1>2, <1>3 DEF FromFirst

-----------------------------------------------------------------------------
(* The roles of the words behind a wrapper: there is such a function, and  *)
(* the command starts at the first word that has the role.                 *)
RolesOf(argv, binary, positionals, role) ==
  \A i \in DOMAIN argv : role[i] = RoleAt(argv, binary, positionals, role, i)

LEMMA RoleDependsOnEarlier ==
  ASSUME NEW argv, NEW binary, NEW positionals, NEW i \in Nat \ {0}, NEW f, NEW g,
         \A k \in 1..(i - 1) : f[k] = g[k]
  PROVE  RoleAt(argv, binary, positionals, f, i) = RoleAt(argv, binary, positionals, g, i)
<1>1. i # 1 => f[i - 1] = g[i - 1]
  OBVIOUS
<1>2. (\A k \in 1..(i - 1) : f[k] # "positional") <=> (\A k \in 1..(i - 1) : g[k] # "positional")
  OBVIOUS
<1> QED BY <1>1, <1>2, Zenon DEF RoleAt

IsRoles(f, argv, binary, positionals, n) == f = [i \in 1..n |-> RoleAt(argv, binary, positionals, f, i)]
LEMMA RolesExist ==
  ASSUME NEW argv, NEW binary, NEW positionals, NEW n \in Nat
  PROVE  \E f : IsRoles(f, argv, binary, positionals, n)
<1> DEFINE P(m) == \E f : f = [i \in 1..m |-> RoleAt(argv, binary, positionals, f, i)]
           T == {m \in Nat : ~P(m)}
<1> SUFFICES ASSUME T # {} PROVE FALSE
  BY DEF IsRoles
<1>1. PICK m \in T : \A y \in T : m <= y
  BY LeastNumber
<1>2. m # 0
  <2> DEFINE g == [i \in 1..0 |-> "wrapper"]
  <2>1. g = [i \in 1..0 |-> RoleAt(argv, binary, positionals, g, i)]
    OBVIOUS
  <2>2. P(0)
    BY <2>1
  <2> QED BY <2>2
<1>3. m - 1 \in Nat /\ m - 1 \notin T
  BY <1>1, <1>2
<1>4. PICK f : f = [i \in 1..(m - 1) |-> RoleAt(argv, binary, positionals, f, i)]
  BY <1>3
<1> DEFINE g == [i \in 1..m |-> IF i = m THEN RoleAt(argv, binary, positionals, f, i) ELSE f[i]]
<1>5. ASSUME NEW i \in 1..m PROVE g[i] = RoleAt(argv, binary, positionals, g, i)
  <2>1. \A k \in 1..(i - 1) : k \in 1..m /\ k # m
    BY <1>3
  <2>2. \A k \in 1..(i - 1) : g[k] = f[k]
    BY <2>1
  <2>3. i \in Nat \ {0}
    BY <1>3
  <2>4. RoleAt(argv, binary, positionals, g, i) = RoleAt(argv, binary, positionals, f, i)
    <3> HIDE DEF g
    <3> QED BY <2>2, <2>3, RoleDependsOnEarlier
  <2>5. i # m => f[i] = RoleAt(argv, binary, positionals, f, i)
    <3>1. i # m => i \in 1..(m - 1)
      BY <1>3
    <3> QED BY <3>1, <1>4
  <2> QED BY <2>4, <2>5
<1>6. DOMAIN g = 1..m /\ g = [i \in 1..m |-> g[i]]
  OBVIOUS
<1>7. g = [i \in 1..m |-> RoleAt(argv, binary, positionals, g, i)]
  <2> HIDE DEF g
  <2> QED BY <1>5, <1>6
<1>8. P(m)
  BY <1>7
<1> QED BY <1>8

CommandPlaces(argv, role) == {i \in DOMAIN argv : role[i] = "command"}
LEMMA WrappedIs ==
  ASSUME NEW argv, IsArgv(argv), NEW binary, NEW positionals
  PROVE  \E role : /\ RolesOf(argv, binary, positionals, role)
                   /\ Wrapped(argv, binary, positionals) = FromFirst(argv, CommandPlaces(argv, role))
<1> DEFINE D(f) == f = [i \in DOMAIN argv |-> RoleAt(argv, binary, positionals, f, i)]
           role == CHOOSE f : D(f)
<1>1. Len(argv) \in Nat /\ DOMAIN argv = 1..Len(argv)
  BY ArgvType
<1>2. \E f : D(f)
  <2>1. PICK f : IsRoles(f, argv, binary, positionals, Len(argv))
    BY <1>1, RolesExist
  <2>2. D(f)
    BY <2>1, <1>1, Zenon DEF IsRoles
  <2> QED BY <2>2
<1>3. D(role)
  <2> HIDE DEF D
  <2> QED BY <1>2
<1>4. Wrapped(argv, binary, positionals) = FromFirst(argv, CommandPlaces(argv, role))
  BY DEF Wrapped, CommandPlaces
<1> HIDE DEF role
<1>5. RolesOf(argv, binary, positionals, role)
  BY <1>3 DEF RolesOf
<1> QED BY <1>4, <1>5

-----------------------------------------------------------------------------
(* Levels: what a command comes to after some levels of unwrapping.        *)
Levels(f, argv, n) == f[0] = Open(argv) /\ \A i \in 1..n : f[i] = ClassifyLevel(f[i - 1])
ComesTo(argv, n, denied) == \E f : Levels(f, argv, n) /\ f[n] = Closed(denied)

LEMMA VerdictStays == ASSUME NEW level, level.verdict # "open" PROVE ClassifyLevel(level) = level
BY DEF ClassifyLevel

LEMMA ClosedIs ==
  ASSUME NEW d \in BOOLEAN
  PROVE  Closed(d).verdict = (IF d THEN "denied" ELSE "clear") /\ ClassifyLevel(Closed(d)) = Closed(d)
<1>1. Closed(d).verdict = (IF d THEN "denied" ELSE "clear")
  BY DEF Closed
<1>2. Closed(d).verdict # "open"
  BY <1>1
<1> QED BY <1>1, <1>2, VerdictStays

LEMMA OneLevelDown ==
  ASSUME NEW argv, NEW inner, ClassifyLevel(Open(argv)) = Open(inner), NEW n \in Nat, NEW d, ComesTo(inner, n, d)
  PROVE  ComesTo(argv, n + 1, d)
<1>1. PICK f : Levels(f, inner, n) /\ f[n] = Closed(d)
  BY DEF ComesTo
<1>2. PICK g : g = [i \in 0..(n + 1) |-> IF i = 0 THEN Open(argv) ELSE f[i - 1]]
  OBVIOUS
<1>3. g[0] = Open(argv) /\ g[n + 1] = f[n]
  BY <1>2
<1>4. ASSUME NEW i \in 1..(n + 1) PROVE g[i] = ClassifyLevel(g[i - 1])
  <2>1. g[i] = f[i - 1]
    BY <1>2
  <2>2. CASE i = 1
    <3>1. g[1] = Open(inner) /\ g[1 - 1] = Open(argv)
      BY <2>1, <2>2, <1>1, <1>3 DEF Levels
    <3> QED BY <3>1, <2>2
  <2>3. CASE i # 1
    <3>1. i - 1 \in 1..n /\ i - 1 \in 0..(n + 1) /\ i - 1 # 0
      BY <2>3
    <3>2. g[i - 1] = f[(i - 1) - 1]
      BY <3>1, <1>2
    <3>3. f[i - 1] = ClassifyLevel(f[(i - 1) - 1])
      BY <3>1, <1>1 DEF Levels
    <3> QED BY <2>1, <3>2, <3>3
  <2> QED BY <2>2, <2>3
<1>5. Levels(g, argv, n + 1)
  BY <1>3, <1>4 DEF Levels
<1> QED BY <1>1, <1>3, <1>5 DEF ComesTo

LEMMA OneLevelMore ==
  ASSUME NEW argv, NEW n \in Nat, NEW d \in BOOLEAN, ComesTo(argv, n, d) PROVE ComesTo(argv, n + 1, d)
<1>1. PICK f : Levels(f, argv, n) /\ f[n] = Closed(d)
  BY DEF ComesTo
<1>2. PICK g : g = [i \in 0..(n + 1) |-> IF i = n + 1 THEN Closed(d) ELSE f[i]]
  OBVIOUS
<1>3. g[0] = Open(argv) /\ g[n + 1] = Closed(d) /\ g[n] = Closed(d)
  BY <1>1, <1>2 DEF Levels
<1>4. ASSUME NEW i \in 1..(n + 1) PROVE g[i] = ClassifyLevel(g[i - 1])
  <2>1. CASE i = n + 1
    <3>1. i - 1 = n
      BY <2>1
    <3> QED BY <3>1, <2>1, <1>3, ClosedIs
  <2>2. CASE i # n + 1
    <3>1. i \in 1..n /\ i \in 0..(n + 1) /\ i - 1 \in 0..(n + 1) /\ i - 1 # n + 1
      BY <2>2
    <3>2. g[i] = f[i] /\ g[i - 1] = f[i - 1]
      BY <3>1, <2>2, <1>2
    <3> QED BY <3>1, <3>2, <1>1 DEF Levels
  <2> QED BY <2>1, <2>2
<1>5. Levels(g, argv, n + 1)
  BY <1>3, <1>4 DEF Levels
<1> QED BY <1>3, <1>5 DEF ComesTo

LEMMA SameFirstLevel ==
  ASSUME NEW argv, NEW other, ClassifyLevel(Open(argv)) = ClassifyLevel(Open(other)),
         NEW n \in Nat \ {0}, NEW d, ComesTo(other, n, d)
  PROVE  ComesTo(argv, n, d)
<1>1. PICK f : Levels(f, other, n) /\ f[n] = Closed(d)
  BY DEF ComesTo
<1>2. PICK g : g = [i \in 0..n |-> IF i = 0 THEN Open(argv) ELSE f[i]]
  OBVIOUS
<1>3. g[0] = Open(argv) /\ g[n] = Closed(d)
  BY <1>1, <1>2
<1>4. ASSUME NEW i \in 1..n PROVE g[i] = ClassifyLevel(g[i - 1])
  <2>1. g[i] = f[i] /\ f[i] = ClassifyLevel(f[i - 1])
    BY <1>1, <1>2 DEF Levels
  <2>2. CASE i = 1
    <3>1. g[i - 1] = Open(argv) /\ f[i - 1] = Open(other)
      BY <2>2, <1>1, <1>3 DEF Levels
    <3> QED BY <2>1, <3>1
  <2>3. CASE i # 1
    <3>1. i - 1 \in 0..n /\ i - 1 # 0
      BY <2>3
    <3>2. g[i - 1] = f[i - 1]
      BY <3>1, <1>2
    <3> QED BY <2>1, <3>2
  <2> QED BY <2>2, <2>3
<1>5. Levels(g, argv, n)
  BY <1>3, <1>4 DEF Levels
<1> QED BY <1>3, <1>5 DEF ComesTo

(* A verdict, once there, stays.                                           *)
LEMMA LevelsStay ==
  ASSUME NEW f, NEW argv, NEW n \in Nat, Levels(f, argv, n), NEW m \in 0..n, f[m].verdict # "open"
  PROVE  \A k \in m..n : f[k] = f[m]
<1>1. PICK T : T = {k \in m..n : f[k] # f[m]}
  OBVIOUS
<1>2. SUFFICES ASSUME T # {} PROVE FALSE
  BY <1>1
<1>3. PICK k \in T : \A y \in T : k <= y
  BY <1>1, <1>2, LeastNumber
<1>4. k \in m..n /\ k # m /\ f[k] # f[m]
  BY <1>1
<1>5. k - 1 \in m..n /\ k \in 1..n /\ k - 1 \notin T
  BY <1>3, <1>4
<1>6. f[k - 1] = f[m] /\ f[k] = ClassifyLevel(f[k - 1])
  BY <1>1, <1>5 DEF Levels
<1> QED BY <1>4, <1>6, VerdictStays

LEMMA LevelsAgree ==
  ASSUME NEW f, NEW g, NEW argv, NEW n \in Nat, Levels(f, argv, n), Levels(g, argv, n)
  PROVE  \A k \in 0..n : f[k] = g[k]
<1>1. PICK T : T = {k \in 0..n : f[k] # g[k]}
  OBVIOUS
<1>2. SUFFICES ASSUME T # {} PROVE FALSE
  BY <1>1
<1>3. PICK k \in T : \A y \in T : k <= y
  BY <1>1, <1>2, LeastNumber
<1>4. k \in 0..n /\ f[k] # g[k]
  BY <1>1
<1>5. k # 0
  BY <1>4 DEF Levels
<1>6. k - 1 \in 0..n /\ k \in 1..n /\ k - 1 \notin T
  BY <1>3, <1>4, <1>5
<1>7. f[k - 1] = g[k - 1] /\ f[k] = ClassifyLevel(f[k - 1]) /\ g[k] = ClassifyLevel(g[k - 1])
  BY <1>1, <1>6 DEF Levels
<1> QED BY <1>4, <1>7

LEMMA FewerLevels ==
  ASSUME NEW f, NEW argv, NEW n \in Nat, NEW m \in 0..n, Levels(f, argv, n) PROVE Levels(f, argv, m)
BY DEF Levels

(* classify_command: there are such levels, up to the limit.               *)
Deeper(f, argv, n) == IF n = 0 THEN Open(argv) ELSE ClassifyLevel(f[n - 1])
LEMMA LevelsExist ==
  ASSUME NEW argv, NEW n \in Nat
  PROVE  \E f : f = [i \in 0..n |-> Deeper(f, argv, i)]
<1> DEFINE P(m) == \E f : f = [i \in 0..m |-> Deeper(f, argv, i)]
           T == {m \in Nat : ~P(m)}
<1> SUFFICES ASSUME T # {} PROVE FALSE
  OBVIOUS
<1>1. PICK m \in T : \A y \in T : m <= y
  BY LeastNumber
<1>2. m # 0
  <2> DEFINE g == [i \in 0..0 |-> Open(argv)]
  <2>1. \A i \in 0..0 : Deeper(g, argv, i) = Open(argv)
    BY DEF Deeper
  <2>2. g = [i \in 0..0 |-> Deeper(g, argv, i)]
    BY <2>1
  <2>3. P(0)
    BY <2>2
  <2> QED BY <2>3
<1>3. m - 1 \in Nat /\ m - 1 \notin T
  BY <1>1, <1>2
<1>4. PICK f : f = [i \in 0..(m - 1) |-> Deeper(f, argv, i)]
  BY <1>3
<1> DEFINE g == [i \in 0..m |-> IF i = m THEN Deeper(f, argv, i) ELSE f[i]]
<1>5. ASSUME NEW i \in 0..m PROVE g[i] = Deeper(g, argv, i)
  <2>1. i # 0 => i - 1 \in 0..(m - 1) /\ g[i - 1] = f[i - 1]
    BY <1>3
  <2>2. Deeper(g, argv, i) = Deeper(f, argv, i)
    <3> HIDE DEF g
    <3> QED BY <2>1 DEF Deeper
  <2>3. i # m => f[i] = Deeper(f, argv, i)
    <3>1. i # m => i \in 0..(m - 1)
      BY <1>3
    <3> QED BY <3>1, <1>4
  <2> QED BY <2>2, <2>3
<1>6. DOMAIN g = 0..m /\ g = [i \in 0..m |-> g[i]]
  OBVIOUS
<1>7. g = [i \in 0..m |-> Deeper(g, argv, i)]
  <2> HIDE DEF g
  <2> QED BY <1>5, <1>6
<1>8. P(m)
  BY <1>7
<1> QED BY <1>8

LEMMA ClassifiedIs ==
  ASSUME NEW argv
  PROVE  \E f : /\ Levels(f, argv, MAX_UNWRAP_DEPTH)
                /\ ClassifyCommand(argv).denied =
                     (\/ f[MAX_UNWRAP_DEPTH].verdict = "denied"
                      \/ f[MAX_UNWRAP_DEPTH].verdict = "open" /\ f[MAX_UNWRAP_DEPTH].argv # <<>>)
<1> DEFINE D(f) == f = [n \in 0..MAX_UNWRAP_DEPTH |-> IF n = 0 THEN Open(argv) ELSE ClassifyLevel(f[n - 1])]
           level == CHOOSE f : D(f)
<1>1. MAX_UNWRAP_DEPTH \in Nat
  BY DEF MAX_UNWRAP_DEPTH
<1>2. \E f : D(f)
  <2>1. PICK f : f = [n \in 0..MAX_UNWRAP_DEPTH |-> Deeper(f, argv, n)]
    BY <1>1, LevelsExist, Zenon
  <2>2. D(f)
    BY <2>1, Zenon DEF Deeper
  <2> QED BY <2>2
<1>3. D(level)
  <2> HIDE DEF D
  <2> QED BY <1>2
<1>4. ClassifyCommand(argv).denied =
        (\/ level[MAX_UNWRAP_DEPTH].verdict = "denied"
         \/ level[MAX_UNWRAP_DEPTH].verdict = "open" /\ level[MAX_UNWRAP_DEPTH].argv # <<>>)
  BY Zenon DEF ClassifyCommand
<1> HIDE DEF level
<1>5. Levels(level, argv, MAX_UNWRAP_DEPTH)
  BY <1>1, <1>3 DEF Levels
<1> QED BY <1>4, <1>5

LEMMA NothingIsClear == ASSUME NEW level, level.verdict = "open",
      level.argv = <<>> PROVE ClassifyLevel(level) = Closed(FALSE)
<1>1. DOMAIN <<>> = {}
  OBVIOUS
<1>2. StripEnvAssignments(<<>>) = <<>>
  BY <1>1 DEF StripEnvAssignments, FromFirst
<1> QED BY <1>2 DEF ClassifyLevel

(* What comes to a verdict within the limit gets it; what is denied below  *)
(* it is denied at it.                                                     *)
LEMMA VerdictWithinLimit ==
  ASSUME NEW argv, NEW n \in Nat, n <= MAX_UNWRAP_DEPTH, NEW d \in BOOLEAN, ComesTo(argv, n, d)
  PROVE  ClassifyCommand(argv).denied = d
<1>0. MAX_UNWRAP_DEPTH \in Nat
  BY DEF MAX_UNWRAP_DEPTH
<1>a1. PICK M \in Nat : M = MAX_UNWRAP_DEPTH
  BY <1>0
<1>1. PICK f : /\ Levels(f, argv, M)
               /\ ClassifyCommand(argv).denied =
                    (f[M].verdict = "denied" \/ (f[M].verdict = "open" /\ f[M].argv # <<>>))
  BY <1>a1, ClassifiedIs
<1>2. PICK g : Levels(g, argv, n) /\ g[n] = Closed(d)
  BY DEF ComesTo
<1>3. n \in 0..M
  BY <1>a1
<1>4. Levels(f, argv, n)
  BY <1>1, <1>3, FewerLevels
<1>5. f[n] = Closed(d)
  BY <1>2, <1>4, LevelsAgree
<1>6. f[n].verdict = (IF d THEN "denied" ELSE "clear")
  BY <1>5, ClosedIs
<1>7. f[n].verdict # "open"
  BY <1>6
<1>8. M \in n..M
  BY <1>3
<1>9. f[M] = f[n]
  BY <1>1, <1>3, <1>7, <1>8, LevelsStay
<1> QED BY <1>1, <1>6, <1>9

LEMMA DeniedAtAnyDepth ==
  ASSUME NEW argv, NEW n \in Nat, ComesTo(argv, n, TRUE)
  PROVE  ClassifyCommand(argv).denied
<1>0. MAX_UNWRAP_DEPTH \in Nat
  BY DEF MAX_UNWRAP_DEPTH
<1>1. CASE n <= MAX_UNWRAP_DEPTH
  BY <1>1, VerdictWithinLimit
<1>2. CASE ~(n <= MAX_UNWRAP_DEPTH)
  <2>a1. PICK M \in Nat : M = MAX_UNWRAP_DEPTH
    BY <1>0
  <2>1. PICK f : /\ Levels(f, argv, M)
                 /\ ClassifyCommand(argv).denied =
                      (f[M].verdict = "denied" \/ (f[M].verdict = "open" /\ f[M].argv # <<>>))
    BY <2>a1, ClassifiedIs
  <2>2. PICK g : Levels(g, argv, n) /\ g[n] = Closed(TRUE)
    BY DEF ComesTo
  <2>3. M \in 0..n /\ M + 1 \in 0..n /\ M + 1 \in 1..n /\ (M + 1) - 1 = M /\ n \in M..n /\ n \in (M + 1)..n
        /\ M \in 0..M
    BY <1>2, <2>a1
  <2>4. Levels(g, argv, M)
    BY <2>2, <2>3, FewerLevels
  <2>5. f[M] = g[M]
    BY <2>1, <2>3, <2>4, LevelsAgree
  <2>6. Closed(TRUE).verdict = "denied" /\ Closed(FALSE).verdict = "clear"
    BY DEF Closed
  <2>7. CASE g[M].verdict # "open"
    <3>1. g[n] = g[M]
      BY <2>2, <2>3, <2>7, LevelsStay
    <3> QED BY <3>1, <2>1, <2>2, <2>5, <2>6
  <2>8. CASE g[M].verdict = "open" /\ g[M].argv # <<>>
    BY <2>1, <2>5, <2>8
  <2>9. CASE g[M].verdict = "open" /\ g[M].argv = <<>>
    <3>1. g[M + 1] = ClassifyLevel(g[M])
      BY <2>2, <2>3 DEF Levels
    <3>2. g[M + 1] = Closed(FALSE)
      BY <3>1, <2>9, NothingIsClear
    <3>3. g[M + 1].verdict # "open"
      BY <3>2, <2>6
    <3>4. g[n] = g[M + 1]
      BY <2>2, <2>3, <3>3, LevelsStay
    <3> QED BY <3>2, <3>4, <2>2, <2>6
  <2> QED BY <2>7, <2>8, <2>9
<1> QED BY <1>1, <1>2

-----------------------------------------------------------------------------
(* Wrapping: what the classification finds behind each wrapper.            *)

(* The words of a command that are no assignments, and those that are an   *)
(* option of env's kind, with the string behind the first of them.         *)
Own(argv) == {i \in DOMAIN argv : ~IsEnvAssignment(argv[i])}
Hits(argv) == {i \in DOMAIN argv : argv[i].word \in SPLIT_OPTIONS}
Leads(token, n, d) == token # NoToken /\ Parses(token) /\ ComesTo(ShlexSplit(token), n, d)
SplitsAt(argv, i, n, d) ==
  IF argv[i].word = "-S'...'" THEN Leads(argv[i], n, d)
  ELSE i + 1 <= Len(argv) /\ Leads(argv[i + 1], n, d)
SplitLeads(argv, n, d) == Hits(argv) # {} => SplitsAt(argv, Min(Hits(argv)), n, d)

(* A command can be put behind a wrapper, comes to its verdict in so many  *)
(* levels, and so does what an env in front of it would split.             *)
Runs(argv) ==
  /\ IsArgv(argv) /\ Own(argv) # {}
  /\ ~IsOptionToken(argv[Min(Own(argv))]) /\ ~IsNiceNumericPositional(argv[Min(Own(argv))])
IsCommand(argv, n, d) == Runs(argv) /\ ComesTo(argv, n + 1, d) /\ SplitLeads(argv, n, d)

LEMMA AssignmentsAreNoOptions ==
  ASSUME NEW t, IsEnvAssignment(t) PROVE ~IsOptionToken(t) /\ ~IsNiceNumericPositional(t)
        /\ t.word \notin SPLIT_OPTIONS
BY DEF IsEnvAssignment, IsOptionToken, IsNiceNumericPositional, SPLIT_OPTIONS, VALUE_TAKING_SHORT_OPTIONS,
   WRAPPER_VALUE_TAKING_OPTIONS

LEMMA OwnFacts ==
  ASSUME NEW argv, IsArgv(argv), Own(argv) # {}
  PROVE  /\ Min(Own(argv)) \in Own(argv) /\ Min(Own(argv)) \in 1..Len(argv)
         /\ \A k \in Own(argv) : Min(Own(argv)) <= k
         /\ \A k \in DOMAIN argv : k < Min(Own(argv)) => IsEnvAssignment(argv[k])
         /\ argv # <<>>
<1>1. Own(argv) \subseteq 1..Len(argv) /\ DOMAIN argv = 1..Len(argv) /\ Len(argv) \in Nat
  BY ArgvType DEF Own
<1>2. Own(argv) \subseteq Nat
  BY <1>1
<1>3. Min(Own(argv)) \in Own(argv) /\ \A k \in Own(argv) : Min(Own(argv)) <= k
  BY <1>2, MinIsLeast
<1>4. ASSUME NEW k \in DOMAIN argv, k < Min(Own(argv)) PROVE IsEnvAssignment(argv[k])
  <2>1. k \in Nat /\ Min(Own(argv)) \in Nat
    BY <1>1, <1>3
  <2>2. k \notin Own(argv)
    BY <2>1, <1>3, <1>4
  <2> QED BY <2>2 DEF Own
<1>5. argv # <<>>
  <2>1. DOMAIN <<>> = {}
    OBVIOUS
  <2> QED BY <2>1 DEF Own
<1> QED BY <1>1, <1>3, <1>4, <1>5

LEMMA FirstWord ==
  ASSUME NEW argv, Runs(argv)
  PROVE  1 \in DOMAIN argv /\ ~IsOptionToken(argv[1]) /\ ~IsNiceNumericPositional(argv[1])
<1>1. IsArgv(argv) /\ Own(argv) # {}
  BY DEF Runs
<1>2. 1 \in DOMAIN argv
  BY <1>1, OwnFacts, ArgvNotEmpty
<1>3. CASE Min(Own(argv)) = 1
  BY <1>2, <1>3 DEF Runs
<1>4. CASE Min(Own(argv)) # 1
  <2>1. 1 < Min(Own(argv))
    BY <1>1, <1>4, OwnFacts
  <2>2. IsEnvAssignment(argv[1])
    BY <1>1, <1>2, <2>1, OwnFacts
  <2> QED BY <1>2, <2>2, AssignmentsAreNoOptions
<1> QED BY <1>3, <1>4

(* A command that starts with no assignment is classified as it is.        *)
LEMMA NothingToStrip ==
  ASSUME NEW m, IsArgv(m), m # <<>>, ~IsEnvAssignment(m[1])
  PROVE  /\ StripEnvAssignments(m) = m /\ ClassifyLevel(Open(m)) = ClassifyArgv(m)
         /\ Own(m) # {} /\ Min(Own(m)) = 1
<1>1. Len(m) \in Nat /\ DOMAIN m = 1..Len(m) /\ 1 \in DOMAIN m
  BY ArgvType, ArgvNotEmpty
<1>2. 1 \in Own(m) /\ Own(m) \subseteq DOMAIN m /\ Own(m) \subseteq Nat
  BY <1>1 DEF Own
<1>3. Min(Own(m)) = 1
  BY <1>1, <1>2, LeastIsMin
<1>4. StripEnvAssignments(m) = m
  BY <1>2, FromStart DEF StripEnvAssignments, Own
<1>5. Open(m).verdict = "open" /\ Open(m).argv = m
  BY DEF Open
<1>6. ClassifyLevel(Open(m)) = ClassifyArgv(m)
  BY <1>4, <1>5 DEF ClassifyLevel
<1> QED BY <1>2, <1>3, <1>4, <1>6

(* Classifying a command and what it is without its assignments is one.    *)
LEMMA StrippedIsSame ==
  ASSUME NEW argv, Runs(argv), NEW s, s = StripEnvAssignments(argv)
  PROVE  ClassifyLevel(Open(s)) = ClassifyLevel(Open(argv)) /\ s # <<>>
<1>1. IsArgv(argv) /\ Own(argv) # {}
  BY DEF Runs
<1>a1. PICK k : k = Min(Own(argv))
  OBVIOUS
<1>2. k \in Own(argv) /\ k \in 1..Len(argv) /\ Len(argv) \in Nat
  BY <1>1, <1>a1, OwnFacts, ArgvType
<1>3. s = SubSeq(argv, k, Len(argv))
  BY <1>1, <1>a1 DEF StripEnvAssignments, FromFirst, Own
<1>a2. PICK T : T = {argv[i] : i \in DOMAIN argv}
  OBVIOUS
<1>4. \A i \in k..Len(argv) : argv[i] \in T
  BY <1>1, <1>2, <1>a2, ArgvType
<1>5. /\ s \in Seq(T) /\ Len(s) = Len(argv) - k + 1 /\ \A i \in 1..(Len(argv) - k + 1) : s[i] = argv[k + i - 1]
  BY <1>2, <1>3, <1>4, SubSeqProperties
<1>6. s[1] = argv[k]
  BY <1>2, <1>5
<1>7. IsArgv(s) /\ s # <<>>
  BY <1>2, <1>5, SeqIsArgv
<1>8. ~IsEnvAssignment(s[1])
  BY <1>2, <1>6 DEF Own
<1>9. StripEnvAssignments(s) = s
  BY <1>7, <1>8, NothingToStrip
<1>10. Open(s).verdict = "open" /\ Open(s).argv = s /\ Open(argv).verdict = "open" /\ Open(argv).argv = argv
  BY DEF Open
<1> QED BY <1>7, <1>9, <1>10 DEF ClassifyLevel

(* env's option: found where the first of them is.                         *)
LEMMA SplitArgIs ==
  ASSUME NEW m, IsArgv(m), m # <<>>, m[1].word \notin SPLIT_OPTIONS, NEW n, NEW d, SplitLeads(m, n, d)
  PROVE  /\ Hits(m) = {} => FindEnvSplitStringArg(m) = NoToken
         /\ Hits(m) # {} => Leads(FindEnvSplitStringArg(m), n, d)
<1>1. Len(m) \in Nat /\ DOMAIN m = 1..Len(m)
  BY ArgvType
<1>2. {i \in 2..Len(m) : m[i].word \in SPLIT_OPTIONS} = Hits(m)
  <2>1. ASSUME NEW i \in Hits(m) PROVE i \in 2..Len(m)
    <3>1. i \in 1..Len(m) /\ i # 1
      BY <1>1 DEF Hits
    <3> QED BY <3>1, <1>1
  <2> QED BY <2>1, <1>1 DEF Hits
<1>a1. PICK i : i = Min(Hits(m))
  OBVIOUS
<1>3. FindEnvSplitStringArg(m) =
        IF Hits(m) = {} THEN NoToken
        ELSE IF m[i].word = "-S'...'" THEN m[i]
        ELSE IF i + 1 <= Len(m) THEN m[i + 1] ELSE NoToken
  BY <1>2, <1>a1, Zenon DEF FindEnvSplitStringArg
<1> QED BY <1>3, <1>a1 DEF SplitLeads, SplitsAt

LEMMA SplitMore ==
  ASSUME NEW m, NEW n \in Nat, NEW d \in BOOLEAN, SplitLeads(m, n, d) PROVE SplitLeads(m, n + 1, d)
<1>1. \A t : Leads(t, n, d) => Leads(t, n + 1, d)
  BY OneLevelMore DEF Leads
<1> QED BY <1>1 DEF SplitLeads, SplitsAt

(* Words put in front that are none of them leave it where it was.         *)
LEMMA SplitShifts ==
  ASSUME NEW p, NEW s, IsArgv(p), IsArgv(s), NEW m, m = p \o s, Hits(p) = {}, NEW n, NEW d, SplitLeads(s, n, d)
  PROVE  SplitLeads(m, n, d)
<1>1. IsJoin(m, p, s)
  BY ArgvJoin
<1>2. /\ Len(p) \in Nat /\ DOMAIN p = 1..Len(p) /\ Len(s) \in Nat /\ DOMAIN s = 1..Len(s)
      /\ Len(m) = Len(p) + Len(s) /\ DOMAIN m = 1..Len(m)
  BY <1>1, ArgvType DEF IsJoin
<1>3. ASSUME NEW i \in Hits(m) PROVE i - Len(p) \in Hits(s)
  <2>1. i \in 1..Len(m) /\ m[i].word \in SPLIT_OPTIONS
    BY <1>2 DEF Hits
  <2>2. ~(i <= Len(p))
    <3> SUFFICES ASSUME i <= Len(p) PROVE FALSE
      OBVIOUS
    <3>1. i \in 1..Len(p) /\ m[i] = p[i]
      BY <2>1, <1>1, <1>2 DEF IsJoin
    <3>2. i \in Hits(p)
      BY <3>1, <2>1, <1>2 DEF Hits
    <3> QED BY <3>2
  <2>3. i - Len(p) \in 1..Len(s) /\ Len(p) + (i - Len(p)) = i
    BY <2>1, <2>2, <1>2
  <2>4. m[Len(p) + (i - Len(p))] = s[i - Len(p)]
    BY <2>3, <1>1 DEF IsJoin
  <2> QED BY <2>1, <2>3, <2>4, <1>2 DEF Hits
<1>4. ASSUME NEW i \in Hits(s) PROVE Len(p) + i \in Hits(m) /\ m[Len(p) + i] = s[i]
  <2>1. i \in 1..Len(s) /\ s[i].word \in SPLIT_OPTIONS
    BY <1>2 DEF Hits
  <2>2. Len(p) + i \in DOMAIN m /\ m[Len(p) + i] = s[i]
    BY <2>1, <1>1 DEF IsJoin
  <2> QED BY <2>1, <2>2 DEF Hits
<1> SUFFICES ASSUME Hits(m) # {} PROVE SplitsAt(m, Min(Hits(m)), n, d)
  BY DEF SplitLeads
<1>5. Hits(s) # {} /\ Hits(s) \subseteq Nat /\ Hits(m) \subseteq Nat
  BY <1>2, <1>3 DEF Hits
<1>a1. PICK k : k = Min(Hits(s))
  OBVIOUS
<1>6. k \in Hits(s) /\ k \in 1..Len(s) /\ \A i \in Hits(s) : k <= i
  BY <1>5, <1>a1, <1>2, MinIsLeast DEF Hits
<1>7. ASSUME NEW i \in Hits(m) PROVE Len(p) + k <= i
  <2>1. k <= i - Len(p) /\ i \in Nat
    BY <1>3, <1>5, <1>6
  <2> QED BY <2>1, <1>2, <1>6
<1>8. Min(Hits(m)) = Len(p) + k /\ m[Len(p) + k] = s[k]
  BY <1>4, <1>5, <1>6, <1>7, LeastIsMin
<1>9. SplitsAt(s, k, n, d)
  BY <1>5, <1>a1 DEF SplitLeads
<1>10. CASE s[k].word = "-S'...'"
  BY <1>8, <1>9, <1>10 DEF SplitsAt
<1>11. CASE s[k].word # "-S'...'"
  <2>1. k + 1 \in 1..Len(s) /\ Leads(s[k + 1], n, d)
    BY <1>2, <1>6, <1>9, <1>11 DEF SplitsAt
  <2>2. m[Len(p) + (k + 1)] = s[k + 1] /\ Len(p) + (k + 1) = (Len(p) + k) + 1 /\ (Len(p) + k) + 1 <= Len(m)
    BY <2>1, <1>1, <1>2, <1>6 DEF IsJoin
  <2> QED BY <2>1, <2>2, <1>8, <1>11 DEF SplitsAt
<1> QED BY <1>10, <1>11

(* A wrapper that passes over its own words and finds the command.         *)
InFront(p, s, m) ==
  /\ IsArgv(p) /\ Len(p) \in Nat \ {0} /\ m = p \o s /\ Hits(p) = {}
  /\ ~IsEnvAssignment(p[1]) /\ ~IsOptionToken(p[1]) /\ ~IsNiceNumericPositional(p[1])

LEMMA InFrontIs ==
  ASSUME NEW p, NEW s, IsArgv(s), NEW m, InFront(p, s, m), NEW n \in Nat, NEW d \in BOOLEAN, SplitLeads(s, n, d)
  PROVE  /\ IsJoin(m, p, s) /\ m # <<>> /\ m[1] = p[1] /\ ClassifyLevel(Open(m)) = ClassifyArgv(m)
         /\ Runs(m) /\ SplitLeads(m, n + 1, d)
<1>1. IsArgv(p) /\ Len(p) \in Nat \ {0} /\ IsJoin(m, p, s)
  BY ArgvJoin DEF InFront
<1>2. IsArgv(m) /\ Len(m) = Len(p) + Len(s) /\ Len(s) \in Nat /\ m[1] = p[1]
  BY <1>1, ArgvType DEF IsJoin
<1>3. m # <<>>
  BY <1>1, <1>2
<1>4. ~IsEnvAssignment(m[1]) /\ ~IsOptionToken(m[1]) /\ ~IsNiceNumericPositional(m[1])
  BY <1>2 DEF InFront
<1>5. ClassifyLevel(Open(m)) = ClassifyArgv(m) /\ Own(m) # {} /\ Min(Own(m)) = 1
  BY <1>2, <1>3, <1>4, NothingToStrip
<1>6. Runs(m)
  BY <1>2, <1>4, <1>5 DEF Runs
<1>7. SplitLeads(m, n, d)
  BY SplitShifts DEF InFront
<1>8. SplitLeads(m, n + 1, d)
  BY <1>7, SplitMore
<1> QED BY <1>1, <1>2, <1>3, <1>5, <1>6, <1>8

(* The command starts right behind words that are all passed over.         *)
CommandFollows(p, role) == (\A i \in 1..Len(p) : role[i] # "command") /\ role[Len(p) + 1] = "command"
LEMMA StartsBehind ==
  ASSUME NEW p, NEW s, NEW m, IsJoin(m, p, s), s # <<>>,
         NEW role, CommandFollows(p, role)
  PROVE  FromFirst(m, CommandPlaces(m, role)) = s
<1>0. (\A i \in 1..Len(p) : role[i] # "command") /\ role[Len(p) + 1] = "command"
  BY DEF CommandFollows
<1>1. IsJoin(m, p, s) /\ IsArgv(s)
  BY DEF IsJoin
<1>2. /\ Len(p) \in Nat /\ Len(s) \in Nat /\ Len(s) > 0 /\ DOMAIN s = 1..Len(s)
      /\ Len(m) = Len(p) + Len(s) /\ DOMAIN m = 1..Len(m)
  BY <1>1, ArgvType, ArgvNotEmpty DEF IsJoin
<1>a1. PICK P : P = {i \in DOMAIN m : role[i] = "command"}
  OBVIOUS
<1>a2. PICK Q : Q = {1}
  OBVIOUS
<1>3. Q \subseteq DOMAIN s /\ Q # {} /\ 1 \in Q
  BY <1>2, <1>a2
<1>3a. Q \subseteq Nat /\ \A k \in Q : 1 <= k
  BY <1>a2
<1>4. Min(Q) = 1
  BY <1>3, <1>3a, LeastIsMin
<1>5. Len(p) + 1 \in P
  BY <1>0, <1>2, <1>a1
<1>6. ASSUME NEW i \in P PROVE Len(p) + 1 <= i
  <2>1. i \in 1..Len(m) /\ role[i] = "command"
    BY <1>2, <1>a1
  <2>2. ~(i \in 1..Len(p))
    BY <1>0, <2>1
  <2> QED BY <2>1, <2>2, <1>2
<1>7. P \subseteq DOMAIN m
  BY <1>a1
<1>7a. Aligned(m, P, p, s, Q)
  BY <1>3, <1>4, <1>5, <1>6, <1>7 DEF Aligned, FirstOf
<1>8. FromFirst(m, P) = FromFirst(s, Q)
  BY <1>1, <1>7a, JoinedFrom
<1>9. FromFirst(s, Q) = s
  BY <1>1, <1>3, FromStart
<1> QED BY <1>8, <1>9, <1>a1 DEF CommandPlaces

(* What is found inside is what the verdict is of.                         *)
Found(m, binary) == Wrapped(m, binary, binary \in WRAPPERS_WITH_LEADING_POSITIONAL)
LEMMA WrappedComesTo ==
  ASSUME NEW m, NEW binary, binary = Basename(m[1]), binary \in EXEC_WRAPPERS,
         ClassifyLevel(Open(m)) = ClassifyArgv(m), Found(m, binary) # <<>>,
         binary = "env" => FindEnvSplitStringArg(m) = NoToken
  PROVE  ClassifyLevel(Open(m)) = Open(Found(m, binary))
<1>1. UnwrapExecWrapper(m, binary) = Found(m, binary)
  BY DEF UnwrapExecWrapper, Found
<1> QED BY <1>1 DEF ClassifyArgv

(* The roles of the words behind a wrapper, and what each of them is.      *)
RolesFor(m, binary, role) ==
  /\ RolesOf(m, binary, binary \in WRAPPERS_WITH_LEADING_POSITIONAL, role)
  /\ Found(m, binary) = FromFirst(m, CommandPlaces(m, role))
LEMMA FoundIs == ASSUME NEW m, IsArgv(m), NEW binary PROVE \E role : RolesFor(m, binary, role)
BY WrappedIs, Zenon DEF Found, RolesFor

PlainWord(m, binary, i) ==
  /\ ~IsOptionToken(m[i])
  /\ binary = "env" => ~IsEnvAssignment(m[i])
  /\ binary = "nice" => ~IsNiceNumericPositional(m[i])
RoleRules(m, binary, role, i) ==
  /\ i = 1 => role[i] = "wrapper"
  /\ i # 1 /\ role[i - 1] = "valued" => role[i] = "value"
  /\ i # 1 /\ role[i - 1] # "valued" =>
       /\ binary = "env" /\ IsEnvAssignment(m[i]) => role[i] = "passed"
       /\ binary = "nice" /\ IsNiceNumericPositional(m[i]) => role[i] = "passed"
       /\ IsOptionToken(m[i]) /\ ~IsEnvAssignment(m[i]) /\ ~IsNiceNumericPositional(m[i]) =>
            role[i] = IF m[i].word \in WRAPPER_VALUE_TAKING_OPTIONS THEN "valued" ELSE "passed"
       /\ PlainWord(m, binary, i) =>
            role[i] = IF /\ binary \in WRAPPERS_WITH_LEADING_POSITIONAL
                         /\ \A k \in 1..(i - 1) : role[k] # "positional"
                      THEN "positional" ELSE "command"
LEMMA RolesFollow ==
  ASSUME NEW m, NEW binary, NEW role, RolesFor(m, binary, role), NEW i \in DOMAIN m
  PROVE  RoleRules(m, binary, role, i)
<1>1. role[i] = RoleAt(m, binary, binary \in WRAPPERS_WITH_LEADING_POSITIONAL, role, i)
  BY Zenon DEF RolesFor, RolesOf
<1> QED BY <1>1 DEF RoleAt, RoleRules, PlainWord

(* Kinds of words exclude one another.                                     *)
LEMMA OptionIs ==
  ASSUME NEW t, IsOptionToken(t) PROVE ~IsEnvAssignment(t) /\ ~IsNiceNumericPositional(t)
BY DEF IsOptionToken, IsEnvAssignment, IsNiceNumericPositional, VALUE_TAKING_SHORT_OPTIONS,
   WRAPPER_VALUE_TAKING_OPTIONS
LEMMA ProgramIs ==
  ASSUME NEW t, IsProgram(t)
  PROVE  ~IsEnvAssignment(t) /\ ~IsOptionToken(t) /\ ~IsNiceNumericPositional(t) /\ t.word \notin SPLIT_OPTIONS
BY DEF IsProgram, IsOptionToken, SPLIT_OPTIONS

(* A wrapper's own words, of whose roles the engine's tables and its       *)
(* manual are of one mind.                                                 *)
Agreeing(p, r, binary) ==
  /\ IsArgv(p) /\ p # <<>> /\ Hits(p) = {} /\ IsProgram(p[1]) /\ binary = Basename(p[1]) /\ binary \in EXEC_WRAPPERS
  /\ r[1] = "wrapper" /\ r[Len(p)] # "valued"
  /\ \A i \in 2..Len(p) :
       r[i] \in {"passed", "valued", "value", "positional"} /\ (r[i] = "value" <=> r[i - 1] = "valued")
  /\ \A i \in 1..Len(p) : TableAgrees(binary, p[i], r[i])
  /\ \A i, j \in 1..Len(p) : r[i] = "positional" /\ r[j] = "positional" => i = j
  /\ binary \in WRAPPERS_WITH_LEADING_POSITIONAL => \E i \in 1..Len(p) : r[i] = "positional"

(* A wrapper's own words in front of a command.                            *)
Carries(p, s, m) ==
  /\ InFront(p, s, m) /\ IsJoin(m, p, s) /\ s # <<>> /\ IsArgv(m)
  /\ \A i \in 1..Len(p) : i \in DOMAIN m /\ m[i] = p[i]
  /\ Len(p) + 1 \in DOMAIN m /\ ~IsOptionToken(m[Len(p) + 1]) /\ ~IsNiceNumericPositional(m[Len(p) + 1])
LEMMA WrapperCarries ==
  ASSUME NEW s, Runs(s), NEW p, IsArgv(p), p # <<>>, Hits(p) = {}, IsProgram(p[1]), NEW m, m = p \o s
  PROVE  Carries(p, s, m)
<1>1. Len(p) \in Nat \ {0}
  BY ArgvType, ArgvNotEmpty
<1>3. InFront(p, s, m)
  BY <1>1, ProgramIs DEF InFront
<1>4. IsArgv(s) /\ s # <<>> /\ 1 \in DOMAIN s /\ ~IsOptionToken(s[1]) /\ ~IsNiceNumericPositional(s[1])
  BY FirstWord, OwnFacts DEF Runs
<1>5. IsJoin(m, p, s)
  BY <1>1, <1>4, ArgvJoin
<1>6. IsArgv(m) /\ Len(s) \in Nat /\ Len(s) > 0 /\ Len(m) = Len(p) + Len(s) /\ DOMAIN m = 1..Len(m)
  BY <1>4, <1>5, ArgvType, ArgvNotEmpty DEF IsJoin
<1>7. \A i \in 1..Len(p) : i \in DOMAIN m /\ m[i] = p[i]
  BY <1>1, <1>5, <1>6 DEF IsJoin
<1>8. Len(p) + 1 \in DOMAIN m /\ m[Len(p) + 1] = s[1]
  BY <1>1, <1>5, <1>6 DEF IsJoin
<1> QED BY <1>3, <1>4, <1>5, <1>6, <1>7, <1>8 DEF Carries

(* What is found behind words that are all passed over is the command.     *)
LEMMA FoundBehind ==
  ASSUME NEW p, NEW s, NEW m, Carries(p, s, m), NEW binary, NEW role, RolesFor(m, binary, role),
        CommandFollows(p, role)
  PROVE  Found(m, binary) = s
<1>1. FromFirst(m, CommandPlaces(m, role)) = s
  BY StartsBehind DEF Carries
<1> QED BY <1>1 DEF RolesFor

(* The scan gives a wrapper's own words the roles that its manual does.    *)
Scanned(p, m, binary, role) == \A i \in 1..Len(p) : m[i] = p[i] /\ RoleRules(m, binary, role, i)
LEMMA OwnRoles ==
  ASSUME NEW p, NEW r, NEW binary, Agreeing(p, r, binary), NEW m, NEW role, Scanned(p, m, binary, role)
  PROVE  \A i \in 1..Len(p) : role[i] = r[i]
<1>0. Len(p) \in Nat
  BY ArgvType DEF Agreeing
<1>a1. PICK N \in Nat : N = Len(p)
  BY <1>0
<1>a2. PICK T : T = {i \in 1..N : role[i] # r[i]}
  OBVIOUS
<1> SUFFICES ASSUME T # {} PROVE FALSE
  BY <1>a1, <1>a2
<1>1a. T \subseteq Nat
  BY <1>a2
<1>1. PICK i \in T : \A y \in T : i <= y
  BY <1>1a, LeastNumber
<1>2. i \in 1..N /\ role[i] # r[i]
  BY <1>a2
<1>3. RoleRules(m, binary, role, i) /\ m[i] = p[i] /\ TableAgrees(binary, p[i], r[i])
  BY <1>2, <1>a1 DEF Agreeing, Scanned
<1>4. i # 1
  <2>1. RoleRules(m, binary, role, 1) => role[1] = "wrapper"
    BY DEF RoleRules
  <2> QED BY <2>1, <1>2, <1>3 DEF Agreeing
<1>5. i \in 2..N /\ i - 1 \in 1..N /\ i \in Nat
  BY <1>2, <1>4
<1>6. \A k \in 1..(i - 1) : role[k] = r[k] /\ k \in 1..N /\ k # i
  <2> SUFFICES ASSUME NEW k \in 1..(i - 1) PROVE role[k] = r[k] /\ k \in 1..N /\ k # i
    OBVIOUS
  <2>1. k \in 1..N /\ ~(i <= k) /\ k # i
    BY <1>5
  <2>2. k \notin T
    BY <2>1, <1>1
  <2> QED BY <2>1, <2>2, <1>a2
<1>7. role[i - 1] = r[i - 1]
  <2>1. i - 1 \in 1..(i - 1)
    BY <1>5
  <2> QED BY <2>1, <1>6
<1>8. r[i] \in {"passed", "valued", "value", "positional"} /\ (r[i] = "value" <=> r[i - 1] = "valued")
  BY <1>5, <1>a1 DEF Agreeing
<1>9. CASE r[i] = "value"
  <2>1. role[i - 1] = "valued"
    BY <1>7, <1>8, <1>9
  <2> QED BY <2>1, <1>2, <1>3, <1>4, <1>9 DEF RoleRules
<1>10. ASSUME r[i] # "value" PROVE role[i - 1] # "valued"
  BY <1>7, <1>8, <1>10
<1>11. CASE r[i] = "valued"
  <2>1. p[i].word \in WRAPPER_VALUE_TAKING_OPTIONS
    BY <1>3, <1>11 DEF TableAgrees
  <2>2. IsOptionToken(m[i]) /\ ~IsEnvAssignment(m[i]) /\ ~IsNiceNumericPositional(m[i])
    BY <2>1, <1>3, OptionIs DEF IsOptionToken
  <2>3. role[i] = "valued"
    BY <2>1, <2>2, <1>3, <1>4, <1>10, <1>11 DEF RoleRules
  <2> QED BY <2>3, <1>2, <1>11
<1>12. CASE r[i] = "passed"
  <2>1. \/ IsOptionToken(p[i]) /\ p[i].word \notin WRAPPER_VALUE_TAKING_OPTIONS
        \/ binary = "env" /\ IsEnvAssignment(p[i])
        \/ binary = "nice" /\ IsNiceNumericPositional(p[i])
    BY <1>3, <1>12 DEF TableAgrees
  <2>2. role[i - 1] # "valued"
    BY <1>10, <1>12
  <2>3. CASE IsOptionToken(p[i]) /\ p[i].word \notin WRAPPER_VALUE_TAKING_OPTIONS
    <3>1. IsOptionToken(m[i]) /\ ~IsEnvAssignment(m[i]) /\ ~IsNiceNumericPositional(m[i])
      BY <2>3, <1>3, OptionIs
    <3>2. role[i] = "passed"
      BY <3>1, <2>2, <2>3, <1>3, <1>4 DEF RoleRules
    <3> QED BY <3>2, <1>2, <1>12
  <2>4. CASE binary = "env" /\ IsEnvAssignment(p[i])
    <3>1. role[i] = "passed"
      BY <2>2, <2>4, <1>3, <1>4 DEF RoleRules
    <3> QED BY <3>1, <1>2, <1>12
  <2>5. CASE binary = "nice" /\ IsNiceNumericPositional(p[i])
    <3>1. role[i] = "passed"
      BY <2>2, <2>5, <1>3, <1>4 DEF RoleRules
    <3> QED BY <3>1, <1>2, <1>12
  <2> QED BY <2>1, <2>3, <2>4, <2>5
<1>13. CASE r[i] = "positional"
  <2>1. binary \in WRAPPERS_WITH_LEADING_POSITIONAL /\ ~IsOptionToken(p[i])
    BY <1>3, <1>13 DEF TableAgrees
  <2>2. PlainWord(m, binary, i)
    BY <2>1, <1>3 DEF PlainWord, WRAPPERS_WITH_LEADING_POSITIONAL
  <2>3. \A k \in 1..(i - 1) : role[k] # "positional"
    BY <1>2, <1>6, <1>13, <1>a1 DEF Agreeing
  <2>4. role[i - 1] # "valued"
    BY <1>10, <1>13
  <2>5. role[i] = "positional"
    BY <2>1, <2>2, <2>3, <2>4, <1>3, <1>4 DEF RoleRules
  <2> QED BY <2>5, <1>2, <1>13
<1> QED BY <1>8, <1>9, <1>11, <1>12, <1>13

LEMMA PassedOver ==
  ASSUME NEW p, NEW r, NEW binary, Agreeing(p, r, binary), NEW i \in 1..Len(p) PROVE r[i] # "command"
<1>1. i = 1 \/ i \in 2..Len(p)
  BY ArgvType DEF Agreeing
<1> QED BY <1>1 DEF Agreeing

(* Behind a wrapper other than env, the next word starts the command.      *)
LEMMA WrapperFinds ==
  ASSUME NEW s, Runs(s), NEW p, NEW r, NEW binary, Agreeing(p, r, binary), binary # "env", NEW m, m = p \o s
  PROVE  Carries(p, s, m) /\ Found(m, binary) = s
<1>1. Carries(p, s, m)
  BY WrapperCarries DEF Agreeing
<1>2. IsArgv(m) /\ (\A i \in 1..Len(p) : i \in DOMAIN m /\ m[i] = p[i]) /\ Len(p) + 1 \in DOMAIN m
      /\ ~IsOptionToken(m[Len(p) + 1]) /\ ~IsNiceNumericPositional(m[Len(p) + 1])
  BY <1>1 DEF Carries
<1>3. PICK role : RolesFor(m, binary, role)
  BY <1>2, FoundIs
<1>4. \A i \in DOMAIN m : RoleRules(m, binary, role, i)
  BY <1>3, RolesFollow
<1>4a. Scanned(p, m, binary, role)
  BY <1>2, <1>4 DEF Scanned
<1>5. \A i \in 1..Len(p) : role[i] = r[i]
  BY <1>4a, OwnRoles
<1>6. Len(p) \in Nat \ {0}
  BY ArgvType, ArgvNotEmpty DEF Agreeing
<1>7. role[Len(p) + 1] = "command"
  <2>a1. PICK N \in Nat \ {0} : N = Len(p)
    BY <1>6
  <2>1. RoleRules(m, binary, role, N + 1) /\ N + 1 # 1 /\ (N + 1) - 1 = N /\ N \in 1..N
    BY <1>2, <1>4, <2>a1
  <2>2. role[(N + 1) - 1] # "valued"
    BY <2>1, <2>a1, <1>5 DEF Agreeing
  <2>3. PlainWord(m, binary, N + 1)
    BY <1>2, <2>a1 DEF PlainWord
  <2>4. binary \in WRAPPERS_WITH_LEADING_POSITIONAL => \E k \in 1..((N + 1) - 1) : role[k] = "positional"
    BY <2>1, <2>a1, <1>5 DEF Agreeing
  <2>5. role[N + 1] = "command"
    BY <2>1, <2>2, <2>3, <2>4 DEF RoleRules
  <2> QED BY <2>5, <2>a1
<1>8. CommandFollows(p, role)
  BY <1>5, <1>7, PassedOver DEF CommandFollows
<1> QED BY <1>1, <1>3, <1>8, FoundBehind

(* env passes over the assignments of the command too.                     *)
LEMMA EnvFinds ==
  ASSUME NEW s, Runs(s), NEW p, NEW r, Agreeing(p, r, "env"), NEW m, m = p \o s
  PROVE  Carries(p, s, m) /\ Found(m, "env") = StripEnvAssignments(s)
<1>1. Carries(p, s, m)
  BY WrapperCarries DEF Agreeing
<1>2. IsArgv(m) /\ IsJoin(m, p, s) /\ \A i \in 1..Len(p) : i \in DOMAIN m /\ m[i] = p[i]
  BY <1>1 DEF Carries
<1>3. PICK role : RolesFor(m, "env", role)
  BY <1>2, FoundIs
<1>4. \A i \in DOMAIN m : RoleRules(m, "env", role, i)
  BY <1>3, RolesFollow
<1>4a. Scanned(p, m, "env", role)
  BY <1>2, <1>4 DEF Scanned
<1>5. \A i \in 1..Len(p) : role[i] = r[i]
  BY <1>4a, OwnRoles
<1>6. Len(p) \in Nat \ {0}
  BY ArgvType, ArgvNotEmpty DEF Agreeing
<1>a0. PICK N \in Nat \ {0} : N = Len(p)
  BY <1>6
<1>7. (\A i \in 1..N : role[i] # "command") /\ role[N] # "valued"
  <2>1. N \in 1..N
    BY <1>a0
  <2>2. r[N] # "valued"
    BY <1>a0 DEF Agreeing
  <2> QED BY <2>1, <2>2, <1>5, <1>a0, PassedOver
<1>a1. PICK k : k = Min(Own(s))
  OBVIOUS
<1>13. IsArgv(s) /\ Own(s) # {} /\ Len(s) \in Nat /\ DOMAIN s = 1..Len(s)
  BY ArgvType DEF Runs
<1>14. k \in Own(s) /\ k \in 1..Len(s) /\ \A i \in DOMAIN s : i < k => IsEnvAssignment(s[i])
  BY <1>13, <1>a1, OwnFacts
<1>15. Len(m) = N + Len(s) /\ DOMAIN m = 1..Len(m) /\ \A i \in 1..Len(s) : m[N + i] = s[i]
  BY <1>2, <1>a0, ArgvType DEF IsJoin
<1>a2. PICK T : T = {i \in (N + 1)..(N + k - 1) : role[i] # "passed"}
  OBVIOUS
<1>16. T = {}
  <2> SUFFICES ASSUME T # {} PROVE FALSE
    OBVIOUS
  <2>1. T \subseteq Nat
    BY <1>14, <1>a2
  <2>2. PICK i \in T : \A y \in T : i <= y
    BY <2>1, LeastNumber
  <2>3. i \in (N + 1)..(N + k - 1) /\ role[i] # "passed"
    BY <1>a2
  <2>5. /\ i - N \in 1..Len(s) /\ i - N < k /\ N + (i - N) = i /\ i \in DOMAIN m /\ i # 1
        /\ i - 1 \in Nat /\ ~(i <= i - 1) /\ (i - 1 = N \/ i - 1 \in (N + 1)..(N + k - 1))
    BY <2>3, <1>14, <1>15, <1>13
  <2>6. IsEnvAssignment(m[i])
    <3>1. m[N + (i - N)] = s[i - N]
      BY <2>5, <1>15
    <3>2. IsEnvAssignment(s[i - N])
      BY <2>5, <1>13, <1>14
    <3> QED BY <3>1, <3>2, <2>5
  <2>7. i - 1 \notin T
    BY <2>2, <2>5
  <2>8. role[i - 1] # "valued"
    <3>1. CASE i - 1 = N
      BY <3>1, <1>7
    <3>2. CASE i - 1 \in (N + 1)..(N + k - 1)
      <4>1. role[i - 1] = "passed"
        BY <3>2, <2>7, <1>a2
      <4> QED BY <4>1
    <3> QED BY <2>5, <3>1, <3>2
  <2>9. RoleRules(m, "env", role, i)
    BY <2>5, <1>4
  <2>10. role[i] = "passed"
    BY <2>5, <2>6, <2>8, <2>9 DEF RoleRules
  <2> QED BY <2>3, <2>10
<1>17. \A i \in (N + 1)..(N + k - 1) : role[i] = "passed"
  BY <1>16, <1>a2
<1>17a. \A i \in 1..(N + k - 1) : role[i] # "command"
  <2> SUFFICES ASSUME NEW i \in 1..(N + k - 1) PROVE role[i] # "command"
    OBVIOUS
  <2>1. i \in 1..N \/ i \in (N + 1)..(N + k - 1)
    BY <1>14
  <2>2. CASE i \in 1..N
    BY <2>2, <1>7
  <2>3. CASE i \in (N + 1)..(N + k - 1)
    <3>1. role[i] = "passed"
      BY <2>3, <1>17
    <3> QED BY <3>1
  <2> QED BY <2>1, <2>2, <2>3
<1>18. N + k \in DOMAIN m /\ N + k # 1 /\ m[N + k] = s[k] /\ N + k \in Nat
       /\ ((N + k) - 1 = N \/ (N + k) - 1 \in (N + 1)..(N + k - 1))
  BY <1>13, <1>14, <1>15
<1>18a. role[(N + k) - 1] # "valued"
  <2>1. CASE (N + k) - 1 = N
    BY <2>1, <1>7
  <2>2. CASE (N + k) - 1 \in (N + 1)..(N + k - 1)
    <3>1. role[(N + k) - 1] = "passed"
      BY <2>2, <1>17
    <3> QED BY <3>1
  <2> QED BY <1>18, <2>1, <2>2
<1>19. role[N + k] = "command"
  <2>1. ~IsOptionToken(s[k]) /\ ~IsEnvAssignment(s[k])
    BY <1>14, <1>a1 DEF Runs, Own
  <2>2. PlainWord(m, "env", N + k) /\ "env" \notin WRAPPERS_WITH_LEADING_POSITIONAL
    BY <2>1, <1>18 DEF PlainWord, WRAPPERS_WITH_LEADING_POSITIONAL
  <2>4. RoleRules(m, "env", role, N + k)
    BY <1>4, <1>18
  <2> QED BY <2>2, <2>4, <1>18, <1>18a DEF RoleRules
<1>20. Aligned(m, CommandPlaces(m, role), p, s, Own(s))
  <2>1. Own(s) \subseteq DOMAIN s /\ Own(s) # {} /\ CommandPlaces(m, role) \subseteq DOMAIN m
    BY <1>13 DEF Own, CommandPlaces
  <2>2. N + k \in CommandPlaces(m, role)
    BY <1>18, <1>19 DEF CommandPlaces
  <2>3. ASSUME NEW i \in CommandPlaces(m, role) PROVE N + k <= i
    <3>1. i \in 1..Len(m) /\ role[i] = "command"
      BY <1>15 DEF CommandPlaces
    <3>2. ~(i \in 1..(N + k - 1))
      BY <3>1, <1>17a
    <3> QED BY <3>1, <3>2, <1>14, <1>15, <1>13
  <2>4. Len(p) + Min(Own(s)) = N + k
    BY <1>a0, <1>a1
  <2> QED BY <2>1, <2>2, <2>3, <2>4 DEF Aligned, FirstOf
<1>21. FromFirst(m, CommandPlaces(m, role)) = FromFirst(s, Own(s))
  BY <1>2, <1>20, JoinedFrom
<1>22. FromFirst(s, Own(s)) = StripEnvAssignments(s)
  BY DEF StripEnvAssignments, Own
<1> QED BY <1>1, <1>3, <1>21, <1>22 DEF RolesFor

-----------------------------------------------------------------------------
(* Each wrapper keeps a command one that comes to its verdict, one level   *)
(* deeper at most.                                                         *)
LEMMA QuotedIs ==
  ASSUME NEW argv, NEW t, t \in {Quoted(argv), Joined(argv)}
  PROVE  t # NoToken /\ Parses(t) /\ ShlexSplit(t) = argv
<1>1. t.word \in {"'...'", "-S'...'"} /\ t.inner = argv
  BY DEF Quoted, Joined
<1>2. NoToken.word = ""
  BY DEF NoToken, Word
<1> QED BY <1>1, <1>2 DEF Parses, ShlexSplit

LEMMA TokenIsArgv == ASSUME NEW t, NEW q, q = <<t>> PROVE IsArgv(q) /\ Len(q) = 1 /\ q[1] = t
<1>1. q \in Seq({t}) /\ Len(q) = 1 /\ q[1] = t
  OBVIOUS
<1> QED BY <1>1, SeqIsArgv

LEMMA ProgramStarts ==
  ASSUME NEW m, IsArgv(m), m # <<>>, IsProgram(m[1])
  PROVE  Runs(m) /\ ClassifyLevel(Open(m)) = ClassifyArgv(m) /\ m[1].word \notin SPLIT_OPTIONS
<1>1. ~IsEnvAssignment(m[1]) /\ ~IsOptionToken(m[1]) /\ ~IsNiceNumericPositional(m[1])
      /\ m[1].word \notin SPLIT_OPTIONS
  BY ProgramIs
<1>2. ClassifyLevel(Open(m)) = ClassifyArgv(m) /\ Own(m) # {} /\ Min(Own(m)) = 1
  BY <1>1, NothingToStrip
<1> QED BY <1>1, <1>2 DEF Runs

(* A token that leads to a verdict, found by env or by a shell.            *)
LEMMA TokenComesTo ==
  ASSUME NEW m, NEW token, ClassifyLevel(Open(m)) = Inside(token), NEW n \in Nat, NEW d, Leads(token, n, d)
  PROVE  ComesTo(m, n + 1, d)
<1>1. ClassifyLevel(Open(m)) = Open(ShlexSplit(token)) /\ ComesTo(ShlexSplit(token), n, d)
  BY DEF Leads, Inside
<1> QED BY <1>1, OneLevelDown

LEMMA EnvSplits ==
  ASSUME NEW m, IsArgv(m), m # <<>>, IsProgram(m[1]), Basename(m[1]) = "env", Hits(m) # {},
         NEW n \in Nat, NEW d \in BOOLEAN, SplitLeads(m, n, d)
  PROVE  IsCommand(m, n, d)
<1>2. Runs(m) /\ ClassifyLevel(Open(m)) = ClassifyArgv(m) /\ m[1].word \notin SPLIT_OPTIONS
  BY ProgramStarts
<1>a1. PICK token : token = FindEnvSplitStringArg(m)
  OBVIOUS
<1>3. Leads(token, n, d)
  BY <1>2, <1>a1, SplitArgIs
<1>4. token # NoToken
  BY <1>3 DEF Leads
<1>5. ClassifyArgv(m) = Inside(token)
  BY <1>2, <1>4, <1>a1 DEF ClassifyArgv
<1>6. ComesTo(m, n + 1, d)
  BY <1>2, <1>3, <1>5, TokenComesTo
<1> QED BY <1>2, <1>6 DEF IsCommand

LEMMA CarriedIsCommand ==
  ASSUME NEW s, NEW n \in Nat, NEW d \in BOOLEAN, IsCommand(s, n, d), NEW p, NEW m, Carries(p, s, m),
         NEW binary, Basename(p[1]) = binary, binary \in EXEC_WRAPPERS \ {"env"}, Found(m, binary) = s
  PROVE  IsCommand(m, n + 1, d)
<1>1. Runs(s) /\ ComesTo(s, n + 1, d) /\ SplitLeads(s, n, d) /\ IsArgv(s) /\ s # <<>> /\ InFront(p, s, m)
  BY DEF IsCommand, Runs, Carries
<1>2. m[1] = p[1] /\ ClassifyLevel(Open(m)) = ClassifyArgv(m) /\ Runs(m) /\ SplitLeads(m, n + 1, d)
  BY <1>1, InFrontIs
<1>3. binary = Basename(m[1]) /\ binary \in EXEC_WRAPPERS /\ binary # "env"
  BY <1>2
<1>4. ClassifyLevel(Open(m)) = Open(Found(m, binary))
  BY <1>1, <1>2, <1>3, WrappedComesTo
<1>5. ClassifyLevel(Open(m)) = Open(s)
  BY <1>4
<1>6. ComesTo(m, (n + 1) + 1, d)
  BY <1>1, <1>5, OneLevelDown
<1> QED BY <1>2, <1>6 DEF IsCommand

LEMMA EnvIsCommand ==
  ASSUME NEW s, NEW n \in Nat, NEW d \in BOOLEAN, IsCommand(s, n, d), NEW p, NEW m, Carries(p, s, m),
         IsProgram(p[1]), Basename(p[1]) = "env", Found(m, "env") = StripEnvAssignments(s)
  PROVE  IsCommand(m, n + 1, d)
<1>1. Runs(s) /\ ComesTo(s, n + 1, d) /\ SplitLeads(s, n, d) /\ IsArgv(s) /\ n + 1 \in Nat
  BY DEF IsCommand, Runs
<1>3. InFront(p, s, m) /\ IsArgv(m)
  BY DEF Carries
<1>4. m # <<>> /\ m[1] = p[1] /\ ClassifyLevel(Open(m)) = ClassifyArgv(m) /\ Runs(m) /\ SplitLeads(m, n + 1, d)
  BY <1>1, <1>3, InFrontIs
<1>4a. IsProgram(m[1]) /\ Basename(m[1]) = "env"
  BY <1>4
<1>5. CASE Hits(m) # {}
  BY <1>1, <1>3, <1>4, <1>4a, <1>5, EnvSplits
<1>6. CASE Hits(m) = {}
  <2>2. m[1].word \notin SPLIT_OPTIONS
    BY <1>4a, ProgramIs
  <2>3. FindEnvSplitStringArg(m) = NoToken
    BY <1>3, <1>4, <1>6, <2>2, SplitArgIs
  <2>a1. PICK t : t = StripEnvAssignments(s)
    OBVIOUS
  <2>4. ClassifyLevel(Open(t)) = ClassifyLevel(Open(s)) /\ t # <<>>
    BY <1>1, <2>a1, StrippedIsSame
  <2>5. ComesTo(t, n + 1, d)
    BY <1>1, <2>4, SameFirstLevel
  <2>6. "env" = Basename(m[1]) /\ "env" \in EXEC_WRAPPERS
    BY <1>4a DEF EXEC_WRAPPERS
  <2>7. ClassifyLevel(Open(m)) = Open(Found(m, "env"))
    BY <1>4, <2>3, <2>4, <2>6, <2>a1, WrappedComesTo
  <2>8. ClassifyLevel(Open(m)) = Open(t)
    BY <2>7, <2>a1
  <2>9. ComesTo(m, (n + 1) + 1, d)
    BY <2>5, <2>8, OneLevelDown
  <2> QED BY <1>4, <2>9 DEF IsCommand
<1> QED BY <1>5, <1>6

(* Words agreed on in front of a command.                                  *)
LEMMA WordsIsCommand ==
  ASSUME NEW s, NEW n \in Nat, NEW d \in BOOLEAN, IsCommand(s, n, d),
         NEW p, NEW r, NEW binary, Agreeing(p, r, binary), NEW m, m = p \o s
  PROVE  IsCommand(m, n + 1, d)
<1>1. Runs(s) /\ IsProgram(p[1]) /\ Basename(p[1]) = binary /\ binary \in EXEC_WRAPPERS
  BY DEF IsCommand, Agreeing
<1>2. CASE binary # "env"
  <2>1. Carries(p, s, m) /\ Found(m, binary) = s
    BY <1>1, <1>2, WrapperFinds
  <2> QED BY <1>1, <1>2, <2>1, CarriedIsCommand
<1>3. CASE binary = "env"
  <2>1. Agreeing(p, r, "env")
    BY <1>3
  <2>2. Carries(p, s, m) /\ Found(m, "env") = StripEnvAssignments(s)
    BY <1>1, <2>1, EnvFinds
  <2>3. Basename(p[1]) = "env"
    BY <1>1, <1>3
  <2> QED BY <1>1, <2>2, <2>3, EnvIsCommand
<1> QED BY <1>2, <1>3

(* A token put behind words, and more words behind it.                     *)
TokenBetween(p, t, q, m) ==
  /\ IsArgv(m) /\ m # <<>> /\ m[1] = p[1]
  /\ Len(m) = Len(p) + 1 + Len(q) /\ DOMAIN m = 1..Len(m)
  /\ \A i \in 1..Len(p) : m[i] = p[i]
  /\ m[Len(p) + 1] = t
  /\ \A i \in 1..Len(m) : i > Len(p) + 1 => \E j \in DOMAIN q : m[i] = q[j]
LEMMA TokenBetweenIs ==
  ASSUME NEW p, IsArgv(p), p # <<>>, NEW t, NEW q, IsArgv(q), NEW m, m = (p \o <<t>>) \o q
  PROVE  TokenBetween(p, t, q, m)
<1>a1. PICK u : u = <<t>>
  OBVIOUS
<1>a2. PICK v : v = p \o u
  OBVIOUS
<1>1. IsArgv(u) /\ Len(u) = 1 /\ u[1] = t
  BY <1>a1, TokenIsArgv
<1>2. IsJoin(v, p, u)
  BY <1>1, <1>a2, ArgvJoin
<1>3. IsArgv(v) /\ m = v \o q
  BY <1>2, <1>a1, <1>a2 DEF IsJoin
<1>4. IsJoin(m, v, q)
  BY <1>3, ArgvJoin
<1>5. Len(p) \in Nat /\ Len(p) > 0 /\ Len(q) \in Nat /\ DOMAIN q = 1..Len(q)
  BY ArgvType, ArgvNotEmpty
<1>6. Len(v) = Len(p) + 1 /\ (\A i \in 1..Len(p) : v[i] = p[i]) /\ v[Len(p) + 1] = t
  <2>1. Len(v) = Len(p) + Len(u) /\ (\A i \in 1..Len(p) : v[i] = p[i]) /\ \A i \in 1..Len(u) : v[Len(p) + i] = u[i]
    BY <1>2 DEF IsJoin
  <2>2. 1 \in 1..Len(u)
    BY <1>1
  <2> QED BY <2>1, <2>2, <1>1
<1>7. /\ IsArgv(m) /\ Len(m) = Len(v) + Len(q) /\ (\A i \in 1..Len(v) : m[i] = v[i])
      /\ \A i \in 1..Len(q) : m[Len(v) + i] = q[i]
  BY <1>4 DEF IsJoin
<1>8. DOMAIN m = 1..Len(m) /\ Len(m) = Len(p) + 1 + Len(q)
  BY <1>6, <1>7, ArgvType
<1>9. ASSUME NEW i \in 1..Len(p) PROVE m[i] = p[i]
  <2>1. i \in 1..Len(v)
    BY <1>5, <1>6
  <2> QED BY <2>1, <1>6, <1>7
<1>10. m[Len(p) + 1] = t
  <2>1. Len(p) + 1 \in 1..Len(v)
    BY <1>5, <1>6
  <2> QED BY <2>1, <1>6, <1>7
<1>11. ASSUME NEW i \in 1..Len(m), i > Len(p) + 1 PROVE \E j \in DOMAIN q : m[i] = q[j]
  <2>1. i - (Len(p) + 1) \in 1..Len(q) /\ (Len(p) + 1) + (i - (Len(p) + 1)) = i
    BY <1>5, <1>8, <1>11
  <2>2. m[(Len(p) + 1) + (i - (Len(p) + 1))] = q[i - (Len(p) + 1)]
    BY <2>1, <1>6, <1>7
  <2> QED BY <2>1, <2>2, <1>5
<1>12. m # <<>> /\ m[1] = p[1]
  BY <1>5, <1>7, <1>8, <1>9
<1> QED BY <1>7, <1>8, <1>9, <1>10, <1>11, <1>12 DEF TokenBetween

LEMMA QuotedIsNoSplit == ASSUME NEW s PROVE Quoted(s).word \notin SPLIT_OPTIONS /\ Joined(s).word \in SPLIT_OPTIONS
        /\ Joined(s).word = "-S'...'"
BY DEF Quoted, Joined, SPLIT_OPTIONS

(* The places of a word of some kind: the last of the words in front.      *)
LEMMA LastInFront ==
  ASSUME NEW k \in Nat, NEW S, S \subseteq Nat, k \in S, \A i \in S : ~(i < k) PROVE Min(S) = k
<1>1. \A i \in S : k <= i
  OBVIOUS
<1> QED BY <1>1, LeastIsMin

(* A string of env, apart from its option and glued to it.                 *)
StringOf(p, t, q, m) == IsArgv(p) /\ p # <<>> /\ IsProgram(p[1]) /\ IsArgv(q) /\ m = (p \o <<t>>) \o q
LEMMA StringIs ==
  ASSUME NEW p, NEW t, NEW q, NEW m, StringOf(p, t, q, m), NEW N, N = Len(p)
  PROVE  /\ N \in Nat \ {0} /\ N \in 1..N /\ DOMAIN p = 1..N /\ IsArgv(m) /\ m # <<>> /\ m[1] = p[1] /\ IsProgram(m[1])
         /\ Len(m) \in Nat /\ N + 1 <= Len(m) /\ DOMAIN m = 1..Len(m) /\ m[N + 1] = t
         /\ \A i \in 1..N : m[i] = p[i] /\ i \in DOMAIN m
         /\ \A i \in DOMAIN m : i \in 1..N \/ i = N + 1 \/ \E j \in DOMAIN q : m[i] = q[j]
<1>1. TokenBetween(p, t, q, m)
  BY TokenBetweenIs DEF StringOf
<1>2. Len(p) \in Nat /\ Len(p) > 0 /\ DOMAIN p = 1..Len(p) /\ Len(q) \in Nat
  BY ArgvType, ArgvNotEmpty DEF StringOf
<1>3. /\ IsArgv(m) /\ m # <<>> /\ m[1] = p[1] /\ Len(m) = N + 1 + Len(q) /\ DOMAIN m = 1..Len(m)
      /\ (\A i \in 1..N : m[i] = p[i]) /\ m[N + 1] = t
  BY <1>1 DEF TokenBetween
<1>4. \A i \in 1..Len(m) : i > N + 1 => \E j \in DOMAIN q : m[i] = q[j]
  BY <1>1 DEF TokenBetween
<1>5. IsProgram(m[1])
  BY <1>3 DEF StringOf
<1>6. \A i \in 1..N : i \in DOMAIN m
  BY <1>2, <1>3
<1>7. ASSUME NEW i \in DOMAIN m PROVE i \in 1..N \/ i = N + 1 \/ \E j \in DOMAIN q : m[i] = q[j]
  <2>1. i \in 1..Len(m) /\ (i \in 1..N \/ i = N + 1 \/ i > N + 1)
    BY <1>2, <1>3
  <2> QED BY <2>1, <1>4
<1>8. N \in Nat \ {0} /\ N \in 1..N /\ DOMAIN p = 1..N /\ Len(m) \in Nat /\ N + 1 <= Len(m)
  BY <1>2, <1>3
<1> QED BY <1>3, <1>5, <1>6, <1>7, <1>8

OnlyLast(p, options) == \A i \in DOMAIN p : p[i].word \in options <=> i = Len(p)
LEMMA EnvStringIsCommand ==
  ASSUME NEW s, NEW n \in Nat, NEW d \in BOOLEAN, IsCommand(s, n, d), NEW p, NEW t, NEW m,
         StringOf(p, t, <<>>, m), Basename(p[1]) = "env",
         \/ t = Joined(s) /\ Unsplit(p)
         \/ t = Quoted(s) /\ p[Len(p)].word # "-S'...'" /\ OnlyLast(p, SPLIT_OPTIONS)
  PROVE  IsCommand(m, n + 1, d)
<1>a1. PICK N : N = Len(p)
  OBVIOUS
<1>a2. PICK q : q = <<>>
  OBVIOUS
<1>0. StringOf(p, t, q, m) /\ DOMAIN q = {}
  BY <1>a2
<1>1. /\ N \in Nat \ {0} /\ N \in 1..N /\ DOMAIN p = 1..N /\ IsArgv(m) /\ m # <<>> /\ m[1] = p[1] /\ IsProgram(m[1])
      /\ N + 1 <= Len(m) /\ DOMAIN m = 1..Len(m) /\ m[N + 1] = t /\ Len(m) \in Nat
  BY <1>0, <1>a1, StringIs
<1>2. \A i \in 1..N : m[i] = p[i] /\ i \in DOMAIN m
  BY <1>0, <1>a1, StringIs
<1>3. Hits(m) \subseteq Nat /\ n + 1 \in Nat /\ Basename(m[1]) = "env"
  BY <1>1 DEF Hits
<1>4. Leads(t, n + 1, d)
  BY QuotedIs DEF Leads, IsCommand
<1>5. CASE t = Joined(s) /\ Unsplit(p)
  <2>1. N + 1 \in Hits(m) /\ N + 1 \in Nat /\ m[N + 1].word = "-S'...'"
    BY <1>1, <1>5, QuotedIsNoSplit DEF Hits
  <2>2. ASSUME NEW i \in Hits(m) PROVE ~(i < N + 1)
    <3> SUFFICES ASSUME i < N + 1 PROVE FALSE
      OBVIOUS
    <3>1. i \in 1..N /\ m[i].word \in SPLIT_OPTIONS
      BY <1>1 DEF Hits
    <3> QED BY <3>1, <1>1, <1>2, <1>5 DEF Unsplit
  <2>3. Min(Hits(m)) = N + 1
    BY <1>3, <2>1, <2>2, LastInFront
  <2>4. SplitLeads(m, n + 1, d)
    BY <1>1, <1>4, <2>1, <2>3 DEF SplitLeads, SplitsAt
  <2> QED BY <1>1, <1>3, <2>1, <2>4, EnvSplits
<1>6. CASE t = Quoted(s) /\ p[Len(p)].word # "-S'...'" /\ OnlyLast(p, SPLIT_OPTIONS)
  <2>1. N \in Hits(m) /\ N \in Nat /\ m[N].word # "-S'...'"
    BY <1>1, <1>2, <1>6, <1>a1 DEF Hits, OnlyLast
  <2>2. ASSUME NEW i \in Hits(m) PROVE ~(i < N)
    <3> SUFFICES ASSUME i < N PROVE FALSE
      OBVIOUS
    <3>1. i \in 1..N /\ m[i].word \in SPLIT_OPTIONS
      BY <1>1 DEF Hits
    <3>2. i = N
      BY <3>1, <1>1, <1>2, <1>6, <1>a1 DEF OnlyLast
    <3> QED BY <3>2, <1>1
  <2>3. Min(Hits(m)) = N
    BY <1>3, <2>1, <2>2, LastInFront
  <2>4. SplitLeads(m, n + 1, d)
    BY <1>1, <1>4, <2>1, <2>3 DEF SplitLeads, SplitsAt
  <2> QED BY <1>1, <1>3, <2>1, <2>4, EnvSplits
<1> QED BY <1>5, <1>6

(* -c of a shell or of su and its argument.                                *)
DashCPlaces(m) == {i \in 2..(Len(m) - 1) : m[i].word = "-c"}
LEMMA DashCIsCommand ==
  ASSUME NEW s, NEW n \in Nat, NEW d \in BOOLEAN, IsCommand(s, n, d), NEW m, IsArgv(m), m # <<>>,
         IsProgram(m[1]), Basename(m[1]) \in SHELL_INTERPRETERS \cup {"su"}, Hits(m) = {},
         DashCPlaces(m) # {}, m[Min(DashCPlaces(m)) + 1] = Quoted(s)
  PROVE  IsCommand(m, n + 1, d)
<1>2. Runs(m) /\ ClassifyLevel(Open(m)) = ClassifyArgv(m)
  BY ProgramStarts
<1>a1. PICK binary : binary = Basename(m[1])
  OBVIOUS
<1>3. binary # "env" /\ binary \notin EXEC_WRAPPERS /\ binary \in SHELL_INTERPRETERS \cup {"su"}
  BY <1>a1 DEF EXEC_WRAPPERS, SHELL_INTERPRETERS
<1>4. UnwrapExecWrapper(m, binary) = <<>>
  BY <1>3 DEF UnwrapExecWrapper
<1>5. UnwrapShellDashC(m, binary) = Quoted(s)
  BY <1>3 DEF UnwrapShellDashC, DashCPlaces
<1>6. Quoted(s) # NoToken /\ Leads(Quoted(s), n + 1, d)
  BY QuotedIs DEF Leads, IsCommand
<1>7. ClassifyArgv(m) = Inside(Quoted(s))
  BY <1>3, <1>4, <1>5, <1>6, <1>a1 DEF ClassifyArgv
<1>8. ComesTo(m, (n + 1) + 1, d)
  <2>1. n + 1 \in Nat /\ ClassifyLevel(Open(m)) = Inside(Quoted(s))
    BY <1>2, <1>7
  <2> QED BY <2>1, <1>6, TokenComesTo
<1>9. SplitLeads(m, n + 1, d)
  BY DEF SplitLeads
<1> QED BY <1>2, <1>8, <1>9 DEF IsCommand

LEMMA ShellIsCommand ==
  ASSUME NEW s, NEW n \in Nat, NEW d \in BOOLEAN, IsCommand(s, n, d), NEW p, NEW t, t = Quoted(s), NEW q, NEW m,
         StringOf(p, t, q, m), Basename(p[1]) \in SHELL_INTERPRETERS \cup {"su"}, Unsplit(p), Unsplit(q),
         OnlyLast(p, {"-c"})
  PROVE  IsCommand(m, n + 1, d)
<1>a1. PICK N : N = Len(p)
  OBVIOUS
<1>1. /\ N \in Nat \ {0} /\ N \in 1..N /\ DOMAIN p = 1..N /\ IsArgv(m) /\ m # <<>> /\ m[1] = p[1] /\ IsProgram(m[1])
      /\ N + 1 <= Len(m) /\ DOMAIN m = 1..Len(m) /\ m[N + 1] = t /\ Len(m) \in Nat
  BY <1>a1, StringIs
<1>2. \A i \in 1..N : m[i] = p[i] /\ i \in DOMAIN m
  BY <1>a1, StringIs
<1>3. \A i \in DOMAIN m : i \in 1..N \/ i = N + 1 \/ \E j \in DOMAIN q : m[i] = q[j]
  BY <1>a1, StringIs
<1>4. Hits(m) = {}
  <2> SUFFICES ASSUME NEW i \in DOMAIN m PROVE m[i].word \notin SPLIT_OPTIONS
    BY DEF Hits
  <2>1. CASE i \in 1..N
    BY <2>1, <1>1, <1>2 DEF Unsplit
  <2>2. CASE i = N + 1
    BY <2>2, <1>1, QuotedIsNoSplit
  <2>3. CASE \E j \in DOMAIN q : m[i] = q[j]
    BY <2>3 DEF Unsplit
  <2> QED BY <1>3, <2>1, <2>2, <2>3
<1>5. N # 1
  <2> SUFFICES ASSUME N = 1 PROVE FALSE
    OBVIOUS
  <2>1. m[1].word = "-c"
    BY <1>1, <1>2, <1>a1 DEF OnlyLast
  <2>2. IsOptionToken(m[1])
    BY <2>1 DEF IsOptionToken, VALUE_TAKING_SHORT_OPTIONS
  <2> QED BY <2>2, <1>1, ProgramIs
<1>6. N \in DashCPlaces(m) /\ DashCPlaces(m) \subseteq Nat
  <2>1. N \in 2..(Len(m) - 1)
    BY <1>1, <1>5
  <2>2. m[N].word = "-c"
    BY <1>1, <1>2, <1>a1 DEF OnlyLast
  <2> QED BY <2>1, <2>2, <1>1 DEF DashCPlaces
<1>7. ASSUME NEW i \in DashCPlaces(m) PROVE ~(i < N)
  <2> SUFFICES ASSUME i < N PROVE FALSE
    OBVIOUS
  <2>1. i \in 1..N /\ m[i].word = "-c"
    BY <1>1 DEF DashCPlaces
  <2>2. i = N
    BY <2>1, <1>1, <1>2, <1>a1 DEF OnlyLast
  <2> QED BY <2>2, <1>1
<1>8. Min(DashCPlaces(m)) = N
  BY <1>1, <1>6, <1>7, LastInFront
<1>9. DashCPlaces(m) # {} /\ m[Min(DashCPlaces(m)) + 1] = Quoted(s) /\ Basename(m[1]) \in SHELL_INTERPRETERS \cup {"su"}
  BY <1>1, <1>6, <1>8
<1> QED BY <1>1, <1>4, <1>9, DashCIsCommand

(* NAME= words in front: the first level strips them.                      *)
IsNamePrefix(p) == IsArgv(p) /\ \A i \in DOMAIN p : IsEnvAssignment(p[i])
LEMMA PrefixIsCommand ==
  ASSUME NEW s, NEW n \in Nat, NEW d \in BOOLEAN, IsCommand(s, n, d), NEW p, IsNamePrefix(p), NEW m, m = p \o s
  PROVE  IsCommand(m, n + 1, d)
<1>a0. PICK N : N = Len(p)
  OBVIOUS
<1>1. N \in Nat /\ DOMAIN p = 1..N
  BY <1>a0, ArgvType DEF IsNamePrefix
<1>2. Runs(s) /\ IsArgv(s) /\ Own(s) # {} /\ ComesTo(s, n + 1, d) /\ SplitLeads(s, n, d)
  BY DEF IsCommand, Runs
<1>3. IsJoin(m, p, s)
  BY <1>2, ArgvJoin DEF IsNamePrefix
<1>a1. PICK k : k = Min(Own(s))
  OBVIOUS
<1>4. k \in Own(s) /\ k \in 1..Len(s) /\ Len(s) \in Nat /\ DOMAIN s = 1..Len(s) /\ \A i \in Own(s) : k <= i
  BY <1>2, <1>a1, OwnFacts, ArgvType
<1>5. /\ IsArgv(m) /\ Len(m) = N + Len(s) /\ DOMAIN m = 1..Len(m) /\ \A i \in 1..N : m[i] = p[i]
      /\ \A i \in 1..Len(s) : m[N + i] = s[i]
  BY <1>3, <1>a0, ArgvType DEF IsJoin
<1>6. \A i \in 1..N : IsEnvAssignment(m[i]) /\ p[i].word \notin SPLIT_OPTIONS
  BY <1>1, <1>5, AssignmentsAreNoOptions DEF IsNamePrefix
<1>7. N + k \in Own(m) /\ m[N + k] = s[k]
  BY <1>1, <1>4, <1>5 DEF Own
<1>8. ASSUME NEW i \in Own(m) PROVE N + k <= i
  <2>1. i \in 1..Len(m) /\ ~IsEnvAssignment(m[i])
    BY <1>5 DEF Own
  <2>1a. i \notin 1..N
    BY <2>1, <1>6
  <2>2. i - N \in 1..Len(s) /\ N + (i - N) = i
    BY <2>1, <2>1a, <1>1, <1>4, <1>5
  <2>3. m[N + (i - N)] = s[i - N]
    BY <2>2, <1>5
  <2>4. i - N \in Own(s)
    BY <2>1, <2>2, <2>3, <1>4 DEF Own
  <2>5. k <= i - N
    BY <2>4, <1>4
  <2> QED BY <2>1, <2>5, <1>1, <1>4, <1>5
<1>9. Own(m) \subseteq DOMAIN m /\ Own(m) \subseteq Nat /\ Own(s) \subseteq DOMAIN s
  BY <1>5 DEF Own
<1>10. Min(Own(m)) = N + k
  BY <1>7, <1>8, <1>9, LeastIsMin
<1>11. Runs(m)
  BY <1>2, <1>5, <1>7, <1>10, <1>a1 DEF Runs
<1>12. Aligned(m, Own(m), p, s, Own(s))
  BY <1>a0, <1>2, <1>7, <1>8, <1>9, <1>a1 DEF Aligned, FirstOf
<1>13. FromFirst(m, Own(m)) = FromFirst(s, Own(s))
  BY <1>3, <1>12, JoinedFrom
<1>14. StripEnvAssignments(m) = StripEnvAssignments(s)
  BY <1>13 DEF StripEnvAssignments, Own
<1>15. Open(m).verdict = "open" /\ Open(m).argv = m /\ Open(s).verdict = "open" /\ Open(s).argv = s
  BY DEF Open
<1>16. StripEnvAssignments(s) # <<>>
  BY <1>2, StrippedIsSame
<1>17. ClassifyLevel(Open(m)) = ClassifyLevel(Open(s))
  BY <1>14, <1>15, <1>16 DEF ClassifyLevel
<1>18. n + 1 \in Nat \ {0} /\ n + 1 \in Nat
  OBVIOUS
<1>19. ComesTo(m, n + 1, d)
  BY <1>2, <1>17, <1>18, SameFirstLevel
<1>20. ComesTo(m, (n + 1) + 1, d)
  BY <1>18, <1>19, OneLevelMore
<1>21. Hits(p) = {}
  BY <1>1, <1>6 DEF Hits
<1>22. SplitLeads(m, n, d)
  BY <1>2, <1>21, SplitShifts DEF IsNamePrefix
<1>23. SplitLeads(m, n + 1, d)
  BY <1>22, SplitMore
<1> QED BY <1>11, <1>20, <1>23 DEF IsCommand

(* Any wrapper that is read as meant.                                      *)
LEMMA WrapperIs ==
  ASSUME NEW w \in Wrappers, NEW x, x = Wrapper[w]
  PROVE  /\ IsArgv(x.own) /\ x.own # <<>> /\ IsArgv(x.after)
         /\ x.how \in {"words", "prefix", "string", "joined"}
         /\ x.how = "words" => RolesAreWritten(x)
BY WrapperAssumption, Zenon DEF IsArgv

LEMMA WordsAreAgreed ==
  ASSUME NEW x, IsArgv(x.own), x.own # <<>>, RolesAreWritten(x), NEW binary, binary = Basename(x.own[1]),
         Unsplit(x.own), WordsAgree(x, binary)
  PROVE  Agreeing(x.own, x.roles, binary)
<1>a1. PICK p : p = x.own
  OBVIOUS
<1>a2. PICK r : r = x.roles
  OBVIOUS
<1>1. IsArgv(p) /\ p # <<>> /\ DOMAIN p = 1..Len(p) /\ 1 \in DOMAIN p
  BY <1>a1, ArgvType, ArgvNotEmpty
<1>2. Hits(p) = {}
  BY <1>a1 DEF Hits, Unsplit
<1>3. /\ r[1] = "wrapper" /\ r[Len(p)] # "valued"
      /\ \A i \in 2..Len(p) :
           r[i] \in {"passed", "valued", "value", "positional"} /\ (r[i] = "value" <=> r[i - 1] = "valued")
  BY <1>a1, <1>a2 DEF RolesAreWritten
<1>4. /\ \A i \in 1..Len(p) : TableAgrees(binary, p[i], r[i])
      /\ \A i, j \in 1..Len(p) : r[i] = "positional" /\ r[j] = "positional" => i = j
      /\ binary \in WRAPPERS_WITH_LEADING_POSITIONAL => \E i \in 1..Len(p) : r[i] = "positional"
  BY <1>1, <1>a1, <1>a2, Zenon DEF WordsAgree
<1>5. TableAgrees(binary, p[1], "wrapper")
  BY <1>1, <1>3, <1>4
<1>6. IsProgram(p[1]) /\ binary \in EXEC_WRAPPERS
  BY <1>5 DEF TableAgrees
<1>7. binary = Basename(p[1])
  BY <1>a1
<1>8. Agreeing(p, r, binary)
  BY <1>1, <1>2, <1>3, <1>4, <1>6, <1>7, Zenon DEF Agreeing
<1> QED BY <1>8, <1>a1, <1>a2

LEMMA WrappedIsCommand ==
  ASSUME NEW argv, NEW n \in Nat, NEW d \in BOOLEAN, IsCommand(argv, n, d), NEW w \in Wrappers, ReadAsMeant(w)
  PROVE  IsCommand(WrapWith(w, argv), n + 1, d)
<1>a1. PICK m : m = WrapWith(w, argv)
  OBVIOUS
<1>a2. PICK x : x = Wrapper[w]
  OBVIOUS
<1>a3. PICK p : p = x.own
  OBVIOUS
<1>a4. PICK q : q = x.after
  OBVIOUS
<1>a5. PICK binary : binary = Basename(p[1])
  OBVIOUS
<1>1. IsArgv(p) /\ p # <<>> /\ IsArgv(q) /\ x.how \in {"words", "prefix", "string", "joined"}
      /\ (x.how = "words" => RolesAreWritten(x))
  BY <1>a2, <1>a3, <1>a4, WrapperIs
<1>2. CASE x.how = "words"
  <2>1. m = p \o argv
    BY <1>2, <1>a1, <1>a2, <1>a3 DEF WrapWith
  <2>2. Unsplit(x.own) /\ WordsAgree(x, binary)
    BY <1>2, <1>a2, <1>a3, <1>a5 DEF ReadAsMeant
  <2>3. Agreeing(p, x.roles, binary)
    BY <1>1, <1>2, <2>2, <1>a3, <1>a5, WordsAreAgreed
  <2> QED BY <2>1, <2>3, <1>a1, WordsIsCommand
<1>3. CASE x.how = "prefix"
  <2>1. m = p \o argv
    BY <1>3, <1>a1, <1>a2, <1>a3 DEF WrapWith
  <2>2. IsNamePrefix(p)
    BY <1>1, <1>3, <1>a2, <1>a3 DEF ReadAsMeant, IsNamePrefix
  <2> QED BY <2>1, <2>2, <1>a1, PrefixIsCommand
<1>4. CASE x.how = "string"
  <2>a1. PICK t : t = Quoted(argv)
    OBVIOUS
  <2>1. m = (p \o <<t>>) \o q
    BY <1>4, <1>a1, <1>a2, <1>a3, <1>a4, <2>a1 DEF WrapWith
  <2>2. StringAgrees(x, binary)
    BY <1>4, <1>a2, <1>a3, <1>a5 DEF ReadAsMeant
  <2>3. StringOf(p, t, q, m)
    BY <1>1, <2>1, <2>2, <1>a3 DEF StringOf, StringAgrees
  <2>4. CASE /\ binary \in SHELL_INTERPRETERS \cup {"su"}
             /\ OptionBeforeString(x, {"-c"}) /\ Unsplit(x.own) /\ Unsplit(x.after)
    <3>1. OnlyLast(p, {"-c"}) /\ Unsplit(p) /\ Unsplit(q) /\ Basename(p[1]) \in SHELL_INTERPRETERS \cup {"su"}
      BY <2>4, <1>a3, <1>a4, <1>a5 DEF OnlyLast, OptionBeforeString
    <3> QED BY <3>1, <2>3, <2>a1, <1>a1, ShellIsCommand
  <2>5. CASE /\ binary = "env" /\ x.after = <<>>
             /\ OptionBeforeString(x, SPLIT_OPTIONS) /\ x.own[Len(x.own)].word # "-S'...'"
    <3>1. OnlyLast(p, SPLIT_OPTIONS) /\ p[Len(p)].word # "-S'...'" /\ Basename(p[1]) = "env"
      BY <2>5, <1>a3, <1>a5 DEF OnlyLast, OptionBeforeString
    <3>2. StringOf(p, t, <<>>, m)
      BY <2>3, <2>5, <1>a4
    <3> QED BY <3>1, <3>2, <2>a1, <1>a1, EnvStringIsCommand
  <2> QED BY <2>2, <2>4, <2>5 DEF StringAgrees
<1>5. CASE x.how = "joined"
  <2>a1. PICK t : t = Joined(argv)
    OBVIOUS
  <2>1. m = (p \o <<t>>) \o q
    BY <1>5, <1>a1, <1>a2, <1>a3, <1>a4, <2>a1 DEF WrapWith
  <2>2. binary = "env" /\ IsProgram(p[1]) /\ Unsplit(p) /\ q = <<>>
    BY <1>5, <1>a2, <1>a3, <1>a4, <1>a5 DEF ReadAsMeant
  <2>3. StringOf(p, t, <<>>, m)
    BY <1>1, <2>1, <2>2 DEF StringOf
  <2>4. Basename(p[1]) = "env"
    BY <2>2, <1>a5
  <2> QED BY <2>2, <2>3, <2>4, <2>a1, <1>a1, EnvStringIsCommand
<1> QED BY <1>1, <1>2, <1>3, <1>4, <1>5

(* An innermost command comes to what the list says of it at once.         *)
LEMMA BaseIsCommand ==
  ASSUME NEW b \in Bases
  PROVE  /\ Unsplit(Base[b].argv) => IsCommand(Base[b].argv, 0, Base[b].denied)
         /\ Base[b].denied \in BOOLEAN
<1>a1. PICK argv : argv = Base[b].argv
  OBVIOUS
<1>1. /\ IsArgv(argv) /\ argv # <<>>
      /\ ~IsOptionToken(argv[1]) /\ ~IsEnvAssignment(argv[1]) /\ ~IsNiceNumericPositional(argv[1])
      /\ Basename(argv[1]) \notin EXEC_WRAPPERS \cup SHELL_INTERPRETERS \cup {"su"}
      /\ Base[b].denied = DirectlyDenied(argv)
  BY BaseAssumption, <1>a1, Zenon DEF IsArgv, IsProgram
<1>2. ClassifyLevel(Open(argv)) = ClassifyArgv(argv) /\ Own(argv) # {} /\ Min(Own(argv)) = 1
  BY <1>1, NothingToStrip
<1>3. Runs(argv)
  BY <1>1, <1>2 DEF Runs
<1>a2. PICK binary : binary = Basename(argv[1])
  OBVIOUS
<1>4. binary # "env" /\ binary \notin EXEC_WRAPPERS /\ binary \notin SHELL_INTERPRETERS \cup {"su"}
  BY <1>1, <1>a2 DEF EXEC_WRAPPERS
<1>5. UnwrapExecWrapper(argv, binary) = <<>> /\ UnwrapShellDashC(argv, binary) = NoToken
  BY <1>4 DEF UnwrapExecWrapper, UnwrapShellDashC
<1>6. ClassifyArgv(argv) = Closed(DirectlyDenied(argv))
  BY <1>4, <1>5, <1>a2 DEF ClassifyArgv
<1>7. PICK f : f = [i \in 0..1 |-> IF i = 0 THEN Open(argv) ELSE Closed(DirectlyDenied(argv))]
  OBVIOUS
<1>8. f[0] = Open(argv) /\ f[1] = Closed(DirectlyDenied(argv))
  BY <1>7
<1>9. Levels(f, argv, 1)
  <2>1. \A i \in 1..1 : i = 1 /\ i - 1 = 0
    OBVIOUS
  <2> QED BY <2>1, <1>2, <1>6, <1>8 DEF Levels
<1>10. ComesTo(argv, 1, DirectlyDenied(argv))
  BY <1>8, <1>9 DEF ComesTo
<1>11. Unsplit(argv) => Hits(argv) = {}
  BY DEF Hits, Unsplit
<1>12. Unsplit(argv) => SplitLeads(argv, 0, DirectlyDenied(argv))
  BY <1>11 DEF SplitLeads
<1>13. 0 + 1 = 1
  OBVIOUS
<1>14. Unsplit(argv) => IsCommand(argv, 0, DirectlyDenied(argv))
  BY <1>3, <1>10, <1>12, <1>13 DEF IsCommand
<1>15. DirectlyDenied(argv) \in BOOLEAN
  BY DEF DirectlyDenied
<1> QED BY <1>1, <1>14, <1>15, <1>a1

(* The invariant: a command whose words are read as meant is one that      *)
(* comes to the verdict of its innermost one, in no more levels than it    *)
(* has wrappers and one.                                                   *)
CommandInv ==
  /\ base \in Bases /\ pattern \in Wrappers \X Wrappers /\ wraps \in Nat
  /\ IsReadAsMeant => IsCommand(command, wraps, Base[base].denied)

LEMMA CommandInitially == CommandInit => CommandInv
BY BaseIsCommand DEF CommandInit, CommandInv, IsReadAsMeant

LEMMA CommandStep == CommandInv /\ [CommandNext]_commandVars => CommandInv'
<1> SUFFICES ASSUME CommandInv, [CommandNext]_commandVars PROVE CommandInv'
  OBVIOUS
<1>1. CASE UNCHANGED commandVars
  BY <1>1 DEF commandVars, CommandInv, IsReadAsMeant
<1>2. CASE CommandNext
  <2>1. Wrap
    BY <1>2 DEF CommandNext
  <2>a1. PICK w : w = pattern[IF wraps % 2 = 0 THEN 1 ELSE 2]
    OBVIOUS
  <2>2. w \in Wrappers /\ (IsReadAsMeant => ReadAsMeant(w))
    <3>1. pattern \in Wrappers \X Wrappers /\ w \in {pattern[1], pattern[2]}
      BY <2>a1 DEF CommandInv
    <3>2. IsReadAsMeant => ReadAsMeant(pattern[1]) /\ ReadAsMeant(pattern[2])
      BY DEF IsReadAsMeant
    <3> QED BY <3>1, <3>2
  <2>3. wraps' = wraps + 1 /\ command' = WrapWith(w, command) /\ base' = base /\ pattern' = pattern
    BY <2>1, <2>a1 DEF Wrap
  <2>4. wraps \in Nat /\ (IsReadAsMeant => IsCommand(command, wraps, Base[base].denied)) /\ base \in Bases
        /\ pattern \in Wrappers \X Wrappers
    BY DEF CommandInv
  <2>5. Base[base].denied \in BOOLEAN
    BY <2>4, BaseIsCommand
  <2>6. IsReadAsMeant => IsCommand(WrapWith(w, command), wraps + 1, Base[base].denied)
    BY <2>2, <2>4, <2>5, WrappedIsCommand
  <2>7. IsReadAsMeant' = IsReadAsMeant
    BY <2>3 DEF IsReadAsMeant
  <2>8. IsReadAsMeant' => IsCommand(command', wraps', Base[base'].denied)
    BY <2>3, <2>6, <2>7
  <2> QED BY <2>3, <2>4, <2>8 DEF CommandInv
<1> QED BY <1>1, <1>2

LEMMA SecondStageCounts ==
  ASSUME NEW a, NEW b, ClassifyCommand(b).denied PROVE ClassifyPipeline(<<a, b>>).denied
<1>a1. PICK stages : stages = <<a, b>>
  OBVIOUS
<1>1. 2 \in DOMAIN stages /\ stages[2] = b
  BY <1>a1
<1>2. \E n \in DOMAIN stages : ClassifyCommand(stages[n]).denied
  BY <1>1
<1>3. ClassifyPipeline(stages).denied
  BY <1>2, Zenon DEF ClassifyPipeline
<1> QED BY <1>3, <1>a1

LEMMA JudgedWhenSo == CommandInv => CommandsAreJudged
<1> SUFFICES ASSUME CommandInv, IsReadAsMeant PROVE CommandsAreJudged
  BY DEF CommandsAreJudged, WrappingHidesNothing, DenylistComesFirst
<1>1. base \in Bases /\ wraps \in Nat /\ Base[base].denied \in BOOLEAN
      /\ ComesTo(command, wraps + 1, Base[base].denied)
  BY BaseIsCommand DEF CommandInv, IsCommand
<1>2. wraps + 1 \in Nat
  BY <1>1
<1>3. Base[base].denied => ClassifyCommand(command).denied
  <2> SUFFICES ASSUME Base[base].denied PROVE ClassifyCommand(command).denied
    OBVIOUS
  <2>1. Base[base].denied = TRUE
    BY <1>1
  <2>2. ComesTo(command, wraps + 1, TRUE)
    BY <1>1, <2>1
  <2> QED BY <1>2, <2>2, DeniedAtAnyDepth
<1>4. ~Base[base].denied /\ wraps < MAX_UNWRAP_DEPTH => ~ClassifyCommand(command).denied
  <2> SUFFICES ASSUME ~Base[base].denied, wraps < MAX_UNWRAP_DEPTH PROVE ~ClassifyCommand(command).denied
    OBVIOUS
  <2>1. Base[base].denied = FALSE
    BY <1>1
  <2>2. ComesTo(command, wraps + 1, FALSE)
    BY <1>1, <2>1
  <2>3. wraps + 1 <= MAX_UNWRAP_DEPTH
    BY <1>1 DEF MAX_UNWRAP_DEPTH
  <2> QED BY <1>2, <2>2, <2>3, VerdictWithinLimit
<1>5. WrappingHidesNothing
  BY <1>3, <1>4, SecondStageCounts DEF WrappingHidesNothing
<1>6. DenylistComesFirst
  <2> SUFFICES ASSUME Base[base].denied, NEW head \in {"git", "pytest", "gitk"}
               PROVE  /\ ~Evaluate([kind |-> "command", action |-> "execute", resource |-> command, stages |-> <<>>])
                      /\ ~Evaluate([kind |-> "command", action |-> "execute", resource |-> Words(<<head>>),
                                    stages |-> <<Words(<<head>>), command>>])
    BY Zenon DEF DenylistComesFirst
  <2>1. ClassifyCommand(command).denied
    BY <1>3
  <2>2. ClassifyPipeline(<<Words(<<head>>), command>>).denied
    BY <2>1, SecondStageCounts
  <2>3. ASSUME NEW r, r.kind = "command", r.stages = <<>>, r.resource = command PROVE ~Evaluate(r)
    BY <2>1, <2>3 DEF Evaluate
  <2>4. ASSUME NEW r, NEW stages, r.kind = "command", r.stages = stages, stages # <<>>,
        ClassifyPipeline(stages).denied PROVE ~Evaluate(r)
    BY <2>4 DEF Evaluate
  <2>5. <<Words(<<head>>), command>> # <<>>
    OBVIOUS
  <2>6. ~Evaluate([kind |-> "command", action |-> "execute", resource |-> command, stages |-> <<>>])
    BY <2>3
  <2>7. ~Evaluate([kind |-> "command", action |-> "execute", resource |-> Words(<<head>>),
        stages |-> <<Words(<<head>>), command>>])
    BY <2>2, <2>4, <2>5
  <2> QED BY <2>6, <2>7
<1> QED BY <1>5, <1>6 DEF CommandsAreJudged

(* _classify_argv, classify_pipeline and evaluate: whatever wrappers are   *)
(* put around a command, and however many, as long as the engine's tables  *)
(* of wrappers, options with values and positionals describe their words   *)
(* as their manuals do, a denied command is denied, in a pipeline too and  *)
(* before any rule is asked, and a harmless one is not denied for its      *)
(* wrappers below the limit: for any commands and wrappers.  It says       *)
(* nothing of wrappers the tables get wrong (EveryWrapperIsSeenThrough).   *)
THEOREM CommandsAreAlwaysJudged == CommandSpec => []CommandsAreJudged
<1>1. CommandInit => CommandInv
  BY CommandInitially
<1>2. CommandInv /\ [CommandNext]_commandVars => CommandInv'
  BY CommandStep
<1>3. CommandInv => CommandsAreJudged
  BY JudgedWhenSo
<1> QED BY <1>1, <1>2, <1>3, PTL DEF CommandSpec

-----------------------------------------------------------------------------
(* HookRules: the levels of a command line, written out.                   *)
Level0(line) == {Placed(line, 0, 0)}
Level1(line) == Inner(Level0(line))
Level2(line) == Inner(Level1(line))
Level3(line) == Inner(Level2(line))
Level4(line) == Inner(Level3(line))
Level5(line) == Inner(Level4(line))
AreNested(f, line) == f = [n \in 0..MaxNesting |-> IF n = 0 THEN {Placed(line, 0, 0)} ELSE Inner(f[n - 1])]

LEMMA NestedExists ==
  ASSUME NEW line
  PROVE  \E f : AreNested(f, line)
<1> DEFINE g == [n \in 0..5 |-> IF n = 0 THEN Level0(line) ELSE IF n = 1 THEN Level1(line)
                                 ELSE IF n = 2 THEN Level2(line) ELSE IF n = 3 THEN Level3(line)
                                 ELSE IF n = 4 THEN Level4(line) ELSE Level5(line)]
<1>1. /\ g[0] = Level0(line) /\ g[1] = Level1(line) /\ g[2] = Level2(line)
      /\ g[3] = Level3(line) /\ g[4] = Level4(line) /\ g[5] = Level5(line)
  OBVIOUS
<1>2. /\ Inner(g[0]) = g[1] /\ Inner(g[1]) = g[2] /\ Inner(g[2]) = g[3]
      /\ Inner(g[3]) = g[4] /\ Inner(g[4]) = g[5] /\ g[0] = {Placed(line, 0, 0)}
  BY <1>1, Zenon DEF Level0, Level1, Level2, Level3, Level4, Level5
<1>3. g = [n \in 0..5 |-> g[n]]
  OBVIOUS
<1> HIDE DEF g
<1>4. \A n \in 0..5 : g[n] = IF n = 0 THEN {Placed(line, 0, 0)} ELSE Inner(g[n - 1])
  <2> TAKE n \in 0..5
  <2>1. n = 0 \/ n = 1 \/ n = 2 \/ n = 3 \/ n = 4 \/ n = 5
    OBVIOUS
  <2>2. 1 - 1 = 0 /\ 2 - 1 = 1 /\ 3 - 1 = 2 /\ 4 - 1 = 3 /\ 5 - 1 = 4
    OBVIOUS
  <2> QED
    BY <1>2, <2>1, <2>2
<1>5. g = [n \in 0..5 |-> IF n = 0 THEN {Placed(line, 0, 0)} ELSE Inner(g[n - 1])]
  BY <1>3, <1>4
<1> QED
  BY <1>5, Zenon DEF AreNested, MaxNesting

LEMMA NestedLevels ==
  ASSUME NEW line
  PROVE  /\ Nested(line)[0] = Level0(line) /\ Nested(line)[1] = Level1(line)
         /\ Nested(line)[2] = Level2(line) /\ Nested(line)[3] = Level3(line)
         /\ Nested(line)[4] = Level4(line) /\ Nested(line)[5] = Level5(line)
<1>1. PICK f : f = CHOOSE g : AreNested(g, line)
  OBVIOUS
<1>2. AreNested(f, line)
  BY <1>1, NestedExists, Zenon
<1>3. Nested(line) = f
  BY <1>1, Zenon DEF Nested, AreNested
<1>4. \A n \in 0..5 : f[n] = IF n = 0 THEN {Placed(line, 0, 0)} ELSE Inner(f[n - 1])
  BY <1>2 DEF AreNested, MaxNesting
<1>5. f[0] = Level0(line)
  BY <1>4 DEF Level0
<1>6. f[1] = Level1(line)
  BY <1>4, <1>5 DEF Level1
<1>7. f[2] = Level2(line)
  BY <1>4, <1>6 DEF Level2
<1>8. f[3] = Level3(line)
  BY <1>4, <1>7 DEF Level3
<1>9. f[4] = Level4(line)
  BY <1>4, <1>8 DEF Level4
<1>10. f[5] = Level5(line)
  BY <1>4, <1>9 DEF Level5
<1> QED
  BY <1>3, <1>5, <1>6, <1>7, <1>8, <1>9, <1>10, Zenon

(* normalize_command gives what the levels of a line give.                 *)
SegmentsOf(S) == UNION {SegmentsAt(q) : q \in S}
LEMMA SegmentsByLevel ==
  ASSUME NEW line
  PROVE  NormalizeCommand(line) = SegmentsOf(Level0(line)) \cup SegmentsOf(Level1(line))
                                  \cup SegmentsOf(Level2(line)) \cup SegmentsOf(Level3(line))
                                  \cup SegmentsOf(Level4(line)) \cup SegmentsOf(Level5(line))
<1>1. \A n : n \in 0..MaxNesting <=> n = 0 \/ n = 1 \/ n = 2 \/ n = 3 \/ n = 4 \/ n = 5
  BY DEF MaxNesting
<1>2. NormalizeCommand(line) = UNION {SegmentsOf(Nested(line)[n]) : n \in 0..MaxNesting}
  BY Zenon DEF NormalizeCommand, SegmentsOf
<1>3. PICK f : f = Nested(line)
  OBVIOUS
<1>4. UNION {SegmentsOf(f[n]) : n \in 0..MaxNesting}
      = SegmentsOf(f[0]) \cup SegmentsOf(f[1]) \cup SegmentsOf(f[2]) \cup SegmentsOf(f[3])
        \cup SegmentsOf(f[4]) \cup SegmentsOf(f[5])
  BY <1>1, ZenonT(60)
<1> QED
  BY <1>2, <1>3, <1>4, NestedLevels, Zenon

(* A level is at most one deeper than the one before it.                   *)
IsPlace(q, n) == q.text \in Nat /\ q.wraps \in Nat /\ q.text + q.wraps <= n
LEMMA InnerDepth ==
  ASSUME NEW S, NEW n \in Nat, \A q \in S : IsPlace(q, n)
  PROVE  \A q \in Inner(S) : IsPlace(q, n + 1)
<1> TAKE p \in Inner(S)
<1>1. PICK q \in S : \/ \E k \in DOMAIN q.line : p = Placed(q.line[k].inner, q.text, q.wraps + 1)
                     \/ \E k \in DOMAIN q.line : p = Placed(q.line[k].inner, q.text + 1, 0)
  BY Zenon DEF Inner
<1>2. IsPlace(q, n)
  BY <1>1
<1>3. CASE \E k \in DOMAIN q.line : p = Placed(q.line[k].inner, q.text, q.wraps + 1)
  <2>1. p.text = q.text /\ p.wraps = q.wraps + 1
    BY <1>3 DEF Placed
  <2> QED
    BY <1>2, <2>1 DEF IsPlace
<1>4. CASE \E k \in DOMAIN q.line : p = Placed(q.line[k].inner, q.text + 1, 0)
  <2>1. p.text = q.text + 1 /\ p.wraps = 0
    BY <1>4 DEF Placed
  <2> QED
    BY <1>2, <2>1 DEF IsPlace
<1> QED
  BY <1>1, <1>3, <1>4

LEMMA LevelDepth ==
  ASSUME NEW line, NEW n \in 0..3, NEW q \in Nested(line)[n]
  PROVE  IsPlace(q, 3)
<1>1. \A p \in Level0(line) : IsPlace(p, 0)
  BY DEF Level0, Placed, IsPlace
<1>2. \A p \in Level1(line) : IsPlace(p, 1)
  <2>1. \A p \in Inner(Level0(line)) : IsPlace(p, 0 + 1)
    BY <1>1, InnerDepth
  <2> QED
    BY <2>1 DEF Level1
<1>3. \A p \in Level2(line) : IsPlace(p, 2)
  <2>1. \A p \in Inner(Level1(line)) : IsPlace(p, 1 + 1)
    BY <1>2, InnerDepth
  <2> QED
    BY <2>1 DEF Level2
<1>4. \A p \in Level3(line) : IsPlace(p, 3)
  <2>1. \A p \in Inner(Level2(line)) : IsPlace(p, 2 + 1)
    BY <1>3, InnerDepth
  <2> QED
    BY <2>1 DEF Level3
<1>5. \A p, m : IsPlace(p, m) /\ m \in 0..3 => IsPlace(p, 3)
  BY DEF IsPlace
<1>6. n = 0 \/ n = 1 \/ n = 2 \/ n = 3
  OBVIOUS
<1>7. q \in Level0(line) \/ q \in Level1(line) \/ q \in Level2(line) \/ q \in Level3(line)
  BY <1>6, NestedLevels, Zenon
<1>8. 0 \in 0..3 /\ 1 \in 0..3 /\ 2 \in 0..3 /\ 3 \in 0..3
  OBVIOUS
<1> QED
  BY <1>1, <1>2, <1>3, <1>4, <1>5, <1>7, <1>8, Zenon

(* What the shell runs of a line, normalize_command looks at, unless it is *)
(* too deep for it.                                                        *)
LEMMA CommandsAreSeen ==
  ASSUME NEW line, ~TooDeep(line), NEW ws \in CommandsIn(line)
  PROVE  NormalWords(ws) \subseteq NormalizeCommand(line)
<1>1. PICK n \in 0..MaxNesting : \E q \in Nested(line)[n] : ws \in CommandsOf(q.line)
  BY DEF CommandsIn
<1>2. PICK q \in Nested(line)[n] : ws \in CommandsOf(q.line)
  BY <1>1, Zenon
<1>3. n \in 0..3
  <2>1. \A k \in 4..5 : Nested(line)[k] = {}
    BY DEF TooDeep, MAX_RECURSE_DEPTH, MaxNesting
  <2>2. n \in 0..5
    BY DEF MaxNesting
  <2>3. n \notin 4..5
    BY <2>1, <1>2
  <2> QED
    BY <2>2, <2>3
<1>4. IsPlace(q, 3)
  BY <1>3, LevelDepth
<1>5. PICK k \in DOMAIN q.line : q.line[k].form \in {"words", "substitution"} /\ ws = q.line[k].words
  BY <1>2, Zenon DEF CommandsOf
<1>6. NormalWords(ws) \subseteq NormalizeOneSegment(q.line[k], q.text + q.wraps)
  BY <1>5, Zenon DEF NormalizeOneSegment
<1>7. ~(q.text > 3) /\ ~(q.text + q.wraps > 3)
  BY <1>4 DEF IsPlace
<1>8. NormalizeOneSegment(q.line[k], q.text + q.wraps) \subseteq SegmentsAt(q)
  BY <1>5, <1>7, Zenon DEF SegmentsAt, MAX_RECURSE_DEPTH
<1>9. SegmentsAt(q) \subseteq NormalizeCommand(line)
  BY <1>1, <1>2 DEF NormalizeCommand
<1> QED
  BY <1>6, <1>8, <1>9

(* The values of options: there is such a function, and a word behind one  *)
(* that is no option is no value.                                          *)
IsValue(ws, options, value, i) == i > 2 /\ ~value[i - 1] /\ ws[i - 1] \in options
LEMMA ValuesExist ==
  ASSUME NEW ws, NEW options, NEW n \in Nat
  PROVE  \E f : f = [i \in 1..n |-> IsValue(ws, options, f, i)]
<1> DEFINE P(m) == \E f : f = [i \in 1..m |-> IsValue(ws, options, f, i)]
           T == {m \in Nat : ~P(m)}
<1> SUFFICES ASSUME T # {} PROVE FALSE
  OBVIOUS
<1>1. PICK m \in T : \A y \in T : m <= y
  BY LeastNumber
<1>2. m # 0
  <2> DEFINE g == [i \in 1..0 |-> FALSE]
  <2>1. g = [i \in 1..0 |-> IsValue(ws, options, g, i)]
    OBVIOUS
  <2>2. P(0)
    BY <2>1
  <2> QED BY <2>2
<1>3. m - 1 \in Nat /\ m - 1 \notin T
  BY <1>1, <1>2
<1>4. PICK f : f = [i \in 1..(m - 1) |-> IsValue(ws, options, f, i)]
  BY <1>3
<1> DEFINE g == [i \in 1..m |-> IF i = m THEN IsValue(ws, options, f, i) ELSE f[i]]
<1>5. ASSUME NEW i \in 1..m PROVE g[i] = IsValue(ws, options, g, i)
  <2>1. i > 2 => i - 1 \in 1..m /\ i - 1 # m
    BY <1>3
  <2>2. i > 2 => g[i - 1] = f[i - 1]
    BY <2>1
  <2>3. IsValue(ws, options, g, i) = IsValue(ws, options, f, i)
    <3> HIDE DEF g
    <3> QED BY <2>2, Zenon DEF IsValue
  <2>4. i # m => f[i] = IsValue(ws, options, f, i)
    <3>1. i # m => i \in 1..(m - 1)
      BY <1>3
    <3> QED BY <3>1, <1>4, Zenon
  <2> QED BY <2>3, <2>4, Zenon
<1>6. g = [i \in 1..m |-> g[i]]
  OBVIOUS
<1>7. g = [i \in 1..m |-> IsValue(ws, options, g, i)]
  <2> HIDE DEF g
  <2> QED BY <1>5, <1>6, Zenon
<1>8. P(m)
  BY <1>7
<1> QED BY <1>8

LEMMA ValueBehindOption ==
  ASSUME NEW ws, IsArgv(ws), NEW options, NEW i \in ValuesOf(ws, options)
  PROVE  i \in DOMAIN ws /\ i > 2 /\ ws[i - 1] \in options
<1> DEFINE D(f) == f = [k \in DOMAIN ws |-> IsValue(ws, options, f, k)]
           value == CHOOSE f : D(f)
<1>1. DOMAIN ws = 1..Len(ws) /\ Len(ws) \in Nat
  BY ArgvType
<1>2. \E f : D(f)
  <2>1. PICK f : f = [k \in 1..Len(ws) |-> IsValue(ws, options, f, k)]
    BY <1>1, ValuesExist
  <2>2. D(f)
    BY <1>1, <2>1, Zenon
  <2> QED BY <2>2
<1>3. D(value)
  <2> HIDE DEF D
  <2> QED BY <1>2
<1>4. i \in DOMAIN ws /\ value[i]
  BY Zenon DEF ValuesOf, IsValue
<1>5. IsValue(ws, options, value, i)
  <2> HIDE DEF value
  <2>1. value[i] = IsValue(ws, options, value, i)
    BY <1>3, <1>4, Zenon
  <2> QED BY <2>1, <1>4
<1> QED BY <1>4, <1>5 DEF IsValue

(* A redirection that stands in some words as extract_write_targets reads  *)
(* it, and the word behind it.                                             *)
READ_TOKENS == REDIRECT_TOKENS \cup GLUED_TOKENS
StandsAt(ws, m, w, next) ==
  /\ m \in 1..Len(ws) /\ ws[m] = w
  /\ m > 1 => ws[m - 1] \notin GIT_OPTS_WITH_ARG \cup {"-u"}
  /\ w \in REDIRECT_TOKENS => m < Len(ws) /\ ws[m + 1] = next
Stands(ws, w, next) == IsArgv(ws) /\ \E m \in 1..Len(ws) : StandsAt(ws, m, w, next)

LEMMA StandsInRest ==
  ASSUME NEW ws, IsArgv(ws), NEW places, places \subseteq DOMAIN ws, NEW m \in places,
         NEW w, NEW next, StandsAt(ws, m, w, next)
  PROVE  Stands(RestFrom(ws, places), w, next)
<1>1. PICK k : k = Min(places)
  OBVIOUS
<1>2. k \in places /\ k \in Nat /\ k <= m /\ m \in 1..Len(ws) /\ k >= 1 /\ Len(ws) \in Nat
  <2>0. DOMAIN ws = 1..Len(ws) /\ Len(ws) \in Nat
    BY ArgvType
  <2>1. places \subseteq Nat /\ places # {}
    BY <2>0
  <2>2. k \in places /\ \A j \in places : k <= j
    BY <1>1, <2>1, MinIsLeast
  <2> QED BY <2>0, <2>2
<1>3. RestFrom(ws, places) = SubSeq(ws, k, Len(ws))
  BY <1>1 DEF RestFrom, Rest
<1>4. PICK r : r = SubSeq(ws, k, Len(ws))
  OBVIOUS
<1>5. IsArgv(r) /\ Len(r) = Len(ws) - k + 1 /\ \A j \in 1..Len(r) : r[j] = ws[k + j - 1]
  <2>1. PICK T : ws \in Seq(T)
    BY DEF IsArgv
  <2>2. r \in Seq(T) /\ Len(r) = Len(ws) - k + 1 /\ \A j \in 1..Len(r) : r[j] = ws[k + j - 1]
    BY <1>2, <1>4, <2>1
  <2> QED BY <2>2, SeqIsArgv
<1>6. PICK j : j = m - k + 1
  OBVIOUS
<1>a. PICK n : n = Len(ws)
  OBVIOUS
<1>b. PICK l : l = Len(r)
  OBVIOUS
<1>c. n \in Nat /\ l = n - k + 1 /\ k \in Nat /\ k >= 1 /\ k <= m /\ m \in 1..n
  BY <1>2, <1>5, <1>a, <1>b
<1>d. j \in 1..l /\ k + j - 1 = m /\ l \in Nat
  BY <1>c, <1>6
<1>7. j \in 1..Len(r) /\ r[j] = w
  BY <1>b, <1>d, <1>5 DEF StandsAt
<1>8. ASSUME j > 1 PROVE r[j - 1] \notin GIT_OPTS_WITH_ARG \cup {"-u"}
  <2>1. j - 1 \in 1..l /\ k + (j - 1) - 1 = m - 1 /\ m > 1
    BY <1>c, <1>d, <1>8
  <2>2. r[j - 1] = ws[m - 1]
    BY <1>b, <1>5, <2>1
  <2> QED BY <2>1, <2>2 DEF StandsAt
<1>9. ASSUME w \in REDIRECT_TOKENS PROVE j < Len(r) /\ r[j + 1] = next
  <2>1. m < Len(ws) /\ ws[m + 1] = next
    BY <1>9 DEF StandsAt
  <2>2. m < n
    BY <1>a, <2>1
  <2>3. j + 1 \in 1..l /\ k + (j + 1) - 1 = m + 1 /\ j < l
    BY <1>c, <1>d, <2>2
  <2> QED BY <1>b, <1>5, <2>1, <2>3
<1>10. StandsAt(r, j, w, next)
  BY <1>7, <1>8, <1>9 DEF StandsAt
<1> QED BY <1>3, <1>4, <1>5, <1>7, <1>10 DEF Stands

LEMMA StandsBehindEnv ==
  ASSUME NEW ws, NEW w \in READ_TOKENS, NEW next, Stands(ws, w, next)
  PROVE  Stands(UnwrapEnv(StripLeadingEnvAssignments(ws)), w, next)
<1>1. PICK m \in 1..Len(ws) : StandsAt(ws, m, w, next)
  BY DEF Stands
<1>2. IsArgv(ws) /\ m \in DOMAIN ws /\ ws[m] = w
  BY <1>1 DEF Stands, StandsAt
<1>3. ~IsEnvWord(w) /\ w \notin {"-i", "-u"} /\ w # "env"
  BY DEF READ_TOKENS, REDIRECT_TOKENS, GLUED_TOKENS, IsEnvWord
<1>4. PICK r : r = StripLeadingEnvAssignments(ws)
  OBVIOUS
<1>5. Stands(r, w, next)
  <2>1. m \in {i \in DOMAIN ws : ~IsEnvWord(ws[i])}
    BY <1>2, <1>3
  <2> QED BY <1>1, <1>2, <1>4, <2>1, StandsInRest DEF StripLeadingEnvAssignments
<1>6. PICK n \in 1..Len(r) : StandsAt(r, n, w, next)
  BY <1>5 DEF Stands
<1>7. IsArgv(r) /\ n \in DOMAIN r /\ r[n] = w
  BY <1>5, <1>6 DEF Stands, StandsAt
<1>8. CASE r # <<>> /\ r[1] = "env"
  <2>1. PICK places : places = {i \in 2..Len(r) \ ValuesOf(r, {"-u"}) : r[i] \notin {"-i", "-u"} /\ ~IsEnvWord(r[i])}
    OBVIOUS
  <2>2. n # 1 /\ n \in 2..Len(r)
    BY <1>3, <1>7, <1>8
  <2>3. n \notin ValuesOf(r, {"-u"})
    <3>1. r[n - 1] # "-u"
      BY <1>6, <2>2 DEF StandsAt
    <3> QED BY <1>7, <3>1, ValueBehindOption
  <2>4. n \in places /\ places \subseteq DOMAIN r
    BY <1>3, <1>7, <2>1, <2>2, <2>3
  <2>5. UnwrapEnv(r) = RestFrom(r, places)
    BY <1>8, <2>1, Zenon DEF UnwrapEnv
  <2> QED BY <1>4, <1>6, <1>7, <2>4, <2>5, StandsInRest
<1>9. CASE ~(r # <<>> /\ r[1] = "env")
  BY <1>4, <1>5, <1>9, Zenon DEF UnwrapEnv
<1> QED BY <1>8, <1>9

LEMMA StandsBehindGit ==
  ASSUME NEW r, NEW w \in READ_TOKENS, NEW next, Stands(r, w, next)
  PROVE  Stands(StripGitGlobalOpts(r), w, next)
<1>1. PICK n \in 1..Len(r) : StandsAt(r, n, w, next)
  BY DEF Stands
<1>2. IsArgv(r) /\ n \in DOMAIN r /\ r[n] = w
  BY <1>1 DEF Stands, StandsAt
<1>3. w # "git" /\ w \notin GIT_OPTS_JOINED \cup GIT_BARE_OPTS /\ w \notin GIT_OPTS_WITH_ARG
  BY DEF READ_TOKENS, REDIRECT_TOKENS, GLUED_TOKENS, GIT_OPTS_JOINED, GIT_BARE_OPTS, GIT_OPTS_WITH_ARG
<1>4. CASE r # <<>> /\ r[1] = "git"
  <2>1. PICK places : places = {i \in 2..Len(r) \ ValuesOf(r, GIT_OPTS_WITH_ARG) :
                                 /\ r[i] \notin GIT_OPTS_JOINED \cup GIT_BARE_OPTS
                                 /\ r[i] \in GIT_OPTS_WITH_ARG => i = Len(r)}
    OBVIOUS
  <2>2. n # 1 /\ n \in 2..Len(r)
    BY <1>2, <1>3, <1>4
  <2>3. n \notin ValuesOf(r, GIT_OPTS_WITH_ARG)
    <3>1. r[n - 1] \notin GIT_OPTS_WITH_ARG
      BY <1>1, <2>2 DEF StandsAt
    <3> QED BY <1>2, <3>1, ValueBehindOption
  <2>4. n \in places /\ places \subseteq DOMAIN r
    BY <1>2, <1>3, <2>1, <2>2, <2>3
  <2>5. PICK s : s = RestFrom(r, places)
    OBVIOUS
  <2>6. StripGitGlobalOpts(r) = <<"git">> \o s
    BY <1>4, <2>1, <2>5, Zenon DEF StripGitGlobalOpts
  <2>7. Stands(s, w, next)
    BY <1>1, <1>2, <2>4, <2>5, StandsInRest
  <2>8. PICK m \in 1..Len(s) : StandsAt(s, m, w, next)
    BY <2>7 DEF Stands
  <2>9. PICK t : t = <<"git">> \o s
    OBVIOUS
  <2>10. IsArgv(s) /\ IsArgv(t) /\ Len(s) \in Nat /\ Len(t) = Len(s) + 1 /\ t[1] = "git"
         /\ \A i \in 1..Len(s) : t[i + 1] = s[i]
    <3>1. PICK g : g = <<"git">>
      OBVIOUS
    <3>2. g \in Seq({"git"}) /\ Len(g) = 1 /\ g[1] = "git"
      BY <3>1
    <3>3. IsArgv(s) /\ IsArgv(g) /\ t = g \o s
      BY <2>7, <2>9, <3>1, <3>2, SeqIsArgv DEF Stands
    <3>4. IsJoin(t, g, s)
      BY <3>3, ArgvJoin, Zenon
    <3>5. IsArgv(t) /\ Len(t) = 1 + Len(s) /\ t[1] = "git" /\ Len(s) \in Nat
      BY <3>2, <3>3, <3>4, ArgvType DEF IsJoin
    <3>6. ASSUME NEW i \in 1..Len(s) PROVE t[i + 1] = s[i]
      <4>1. t[1 + i] = s[i] /\ 1 + i = i + 1
        BY <3>2, <3>4, <3>5 DEF IsJoin
      <4> QED BY <4>1
    <3> QED BY <3>3, <3>5, <3>6
  <2>11. m + 1 \in 1..Len(t) /\ t[m + 1] = w
    BY <2>8, <2>10 DEF StandsAt
  <2>12. t[(m + 1) - 1] \notin GIT_OPTS_WITH_ARG \cup {"-u"}
    <3>1. CASE m = 1
      BY <2>10, <3>1 DEF GIT_OPTS_WITH_ARG
    <3>2. CASE m > 1
      <4>1. m - 1 \in 1..Len(s) /\ (m - 1) + 1 = m /\ (m + 1) - 1 = m
        BY <2>8, <2>10, <3>2
      <4>2. t[m] = s[m - 1]
        BY <2>10, <4>1
      <4> QED BY <2>8, <3>2, <4>1, <4>2 DEF StandsAt
    <3> QED BY <2>8, <3>1, <3>2
  <2>13. ASSUME w \in REDIRECT_TOKENS PROVE m + 1 < Len(t) /\ t[(m + 1) + 1] = next
    <3>1. m < Len(s) /\ s[m + 1] = next
      BY <2>8, <2>13 DEF StandsAt
    <3>2. m + 1 \in 1..Len(s)
      BY <2>8, <2>10, <3>1
    <3> QED BY <2>10, <3>1, <3>2
  <2>14. StandsAt(t, m + 1, w, next)
    BY <2>11, <2>12, <2>13 DEF StandsAt
  <2> QED BY <2>6, <2>9, <2>10, <2>11, <2>14 DEF Stands
<1>5. CASE ~(r # <<>> /\ r[1] = "git")
  BY <1>5, Zenon DEF StripGitGlobalOpts
<1> QED BY <1>4, <1>5

LEMMA StandsIsRead ==
  ASSUME NEW ws, NEW w \in READ_TOKENS, NEW next, Stands(ws, w, next)
  PROVE  \E own \in NormalWords(ws) :
           /\ w \in REDIRECT_TOKENS => next \in ExtractWriteTargets(own)
           /\ w \in GLUED_TOKENS => RedirectTarget(w) \in ExtractWriteTargets(own)
<1>1. PICK own : own = StripGitGlobalOpts(UnwrapEnv(StripLeadingEnvAssignments(ws)))
  OBVIOUS
<1>2. Stands(own, w, next)
  BY <1>1, StandsBehindEnv, StandsBehindGit, Zenon
<1>3. PICK m \in 1..Len(own) : StandsAt(own, m, w, next)
  BY <1>2 DEF Stands
<1>4. IsArgv(own) /\ m \in DOMAIN own /\ own[m] = w /\ own # <<>>
  BY <1>2, <1>3 DEF Stands, StandsAt
<1>5. own \in NormalWords(ws)
  BY <1>1, <1>4, Zenon DEF NormalWords
<1>6. ASSUME w \in REDIRECT_TOKENS PROVE next \in ExtractWriteTargets(own)
  <2>1. m < Len(own) /\ own[m + 1] = next
    BY <1>3, <1>6 DEF StandsAt
  <2>2. m \in 1..Len(own) - 1
    BY <1>4, <2>1
  <2> QED BY <1>4, <1>6, <2>1, <2>2 DEF ExtractWriteTargets
<1>7. ASSUME w \in GLUED_TOKENS PROVE RedirectTarget(w) \in ExtractWriteTargets(own)
  <2>1. w \in ToSet(own)
    BY <1>4 DEF ToSet
  <2> QED BY <1>7, <2>1, Zenon DEF ExtractWriteTargets
<1> QED BY <1>5, <1>6, <1>7

(* What a command writes to in a spelling that is read, one of its own     *)
(* words says.                                                             *)
LEMMA WritesAreRead ==
  ASSUME NEW ws, IsArgv(ws), IsSpelledAsRead(ws), NEW p \in WritesOf(ws)
  PROVE  \E own \in NormalWords(ws) : p \in ExtractWriteTargets(own)
<1>1. DOMAIN ws = 1..Len(ws) /\ Len(ws) \in Nat
  BY ArgvType
<1>2. \A i \in DOMAIN ws : ws[i] \notin OTHER_REDIRECT_TOKENS \cup OTHER_GLUED_TOKENS
  BY DEF IsSpelledAsRead
<1>3. ASSUME NEW m \in DOMAIN ws, ws[m] \in READ_TOKENS, m > 1
      PROVE  ws[m - 1] \notin GIT_OPTS_WITH_ARG \cup {"-u"}
  BY <1>3 DEF IsSpelledAsRead, READ_TOKENS
<1>4. ASSUME NEW m \in 1..Len(ws) - 1, ws[m] \in REDIRECT_TOKENS, p = ws[m + 1]
      PROVE  \E own \in NormalWords(ws) : p \in ExtractWriteTargets(own)
  <2>1. m \in DOMAIN ws /\ m < Len(ws) /\ ws[m] \in READ_TOKENS
    BY <1>1, <1>4 DEF READ_TOKENS
  <2>2. StandsAt(ws, m, ws[m], p)
    BY <1>1, <1>3, <1>4, <2>1 DEF StandsAt
  <2>3. Stands(ws, ws[m], p)
    BY <1>1, <2>1, <2>2 DEF Stands
  <2> QED BY <1>4, <2>1, <2>3, StandsIsRead
<1>5. ASSUME NEW w \in ToSet(ws), w \in GLUED_TOKENS, p = RedirectTarget(w)
      PROVE  \E own \in NormalWords(ws) : p \in ExtractWriteTargets(own)
  <2>1. PICK m \in DOMAIN ws : ws[m] = w
    BY DEF ToSet
  <2>2. w \in READ_TOKENS /\ w \notin REDIRECT_TOKENS
    BY <1>5 DEF READ_TOKENS, GLUED_TOKENS, REDIRECT_TOKENS
  <2>3. StandsAt(ws, m, w, p)
    BY <1>1, <1>3, <2>1, <2>2 DEF StandsAt
  <2>4. Stands(ws, w, p)
    BY <1>1, <2>1, <2>3 DEF Stands
  <2> QED BY <1>5, <2>2, <2>4, StandsIsRead
<1>6. ASSUME NEW own \in NormalWords(ws), p \in OperandTargets(own)
      PROVE  \E s \in NormalWords(ws) : p \in ExtractWriteTargets(s)
  BY <1>6, Zenon DEF ExtractWriteTargets
<1>7. \A w \in ToSet(ws) : w \notin OTHER_GLUED_TOKENS
  BY <1>2 DEF ToSet
<1>8. \/ \E m \in 1..Len(ws) - 1 : ws[m] \in REDIRECT_TOKENS \cup OTHER_REDIRECT_TOKENS /\ p = ws[m + 1]
      \/ \E w \in ToSet(ws) \cap (GLUED_TOKENS \cup OTHER_GLUED_TOKENS) : p = RedirectTarget(w)
      \/ \E own \in NormalWords(ws) : p \in OperandTargets(own)
  BY Zenon DEF WritesOf
<1>9. \A m \in 1..Len(ws) - 1 : m \in DOMAIN ws
  BY <1>1
<1> QED BY <1>2, <1>4, <1>5, <1>6, <1>7, <1>8, <1>9

-----------------------------------------------------------------------------
(* HooksSession: the invariant also says that a session that has not begun *)
(* is empty, and that what was handed off is one of the handoffs.          *)
HooksIInv ==
  /\ HooksTypeOK /\ OpenIsExplained /\ HandoffIsEarned
  /\ session = "new" => calls = 0 /\ pending = NoCall /\ changed = {} /\ auditLog = 0
  /\ session = "handed_off" => handoff \in Handoffs

LEMMA HooksStart == HooksInit => HooksIInv
BY CallsAssumption DEF HooksInit, HooksIInv, HooksTypeOK, OpenIsExplained, HandoffIsEarned, NoCall, NoHandoff, Lease

(* What before_handoff lets pass has none of the hard findings.            *)
LEMMA HandoffPasses ==
  ASSUME NEW h, BeforeHandoffDecision(h) \notin BLOCKING
  PROVE  /\ \A g \in REQUIRED_GATES : g \in DOMAIN h.gates /\ h.gates[g] = "PASS"
         /\ h.critic = "independent_approve" /\ h.rollback = "verified"
         /\ \A n \in DOMAIN h.commands :
              /\ ~HasPipeToInterpreter(h.commands[n])
              /\ ~TooDeep(h.commands[n]) => \A ws \in CommandsIn(h.commands[n]) : ~Deploys(ws)
<1>1. PrimaryHardReason(h) = OK
  BY DEF BeforeHandoffDecision, BLOCKING
<1>2. ~RunQualityMatrix(h) /\ ~RequireIndependentCritic(h) /\ ~RequireRollbackManifest(h) /\ ~DeploymentCmdInPatch(h)
  BY <1>1 DEF PrimaryHardReason, OK
<1>3. \A g \in REQUIRED_GATES : g \in DOMAIN h.gates /\ h.gates[g] = "PASS"
  BY <1>2 DEF RunQualityMatrix, StatusOfGate
<1>4. ASSUME NEW n \in DOMAIN h.commands
      PROVE  ~HasPipeToInterpreter(h.commands[n])
             /\ \A s \in NormalizeCommand(h.commands[n]) : ~MatchesDeployPushCmsDns(s)
  BY <1>2, Zenon DEF DeploymentCmdInPatch, DenyDeployPushCmsDns
<1>5. ASSUME NEW n \in DOMAIN h.commands, ~TooDeep(h.commands[n]), NEW ws \in CommandsIn(h.commands[n])
      PROVE  ~Deploys(ws)
  <2>1. NormalWords(ws) \subseteq NormalizeCommand(h.commands[n])
    BY <1>5, CommandsAreSeen, Zenon
  <2> QED
    BY <1>4, <2>1, Zenon DEF Deploys
<1>6. h.critic = "independent_approve" /\ h.rollback = "verified"
  BY <1>2 DEF RequireIndependentCritic, RequireRollbackManifest
<1> QED
  BY <1>3, <1>4, <1>5, <1>6, Zenon

(* Each hook, and a swap of the contract, keeps the invariant.             *)
LEMMA HooksStep ==
  ASSUME HooksIInv, [HooksNext]_hookVars
  PROVE  HooksIInv'
<1> USE DEF NoCall, NoHandoff
<1>1. ASSUME NEW s \in Starts, SessionStart(s) PROVE HooksIInv'
  <2>1. session' \in {"open", "stopped"} /\ session = "new"
    BY <1>1, SMT DEF SessionStart
  <2>2. UNCHANGED <<contract, calls, pending, changed, accounted, auditLog, handoff, roles>>
    BY <1>1, Zenon DEF SessionStart
  <2>3. HooksTypeOK'
    BY <2>1, <2>2, Zenon DEF HooksIInv, HooksTypeOK
  <2>4. OpenIsExplained'
    BY <2>1, <2>2, SMT DEF HooksIInv, OpenIsExplained
  <2> QED
    BY <2>1, <2>2, <2>3, <2>4, SMT DEF HooksIInv, HandoffIsEarned
<1>2. ASSUME NEW n \in ToolCalls, PreToolUse(n) PROVE HooksIInv'
  <2>1. calls' \in 0..MaxCalls /\ auditLog = calls' - 1 /\ pending' # NoCall /\ pending' \in ToolCalls
    BY <1>2, CallsAssumption DEF HooksIInv, HooksTypeOK, OpenIsExplained, PreToolUse
  <2>2. changed' \subseteq STRING /\ changed' \subseteq accounted \cup ToolCall[n].changes
    BY <1>2, ToolCallAssumption DEF HooksIInv, HooksTypeOK, OpenIsExplained, PreToolUse
  <2>3. HooksTypeOK'
    BY <1>2, <2>1, <2>2 DEF HooksIInv, HooksTypeOK, PreToolUse
  <2>4. OpenIsExplained'
    BY <1>2, <2>1, <2>2 DEF OpenIsExplained, PreToolUse
  <2> QED
    BY <1>2, <2>3, <2>4 DEF HooksIInv, HandoffIsEarned, PreToolUse
<1>3. CASE PostToolUse
  <2>1. auditLog = calls - 1 /\ auditLog + 1 = calls /\ auditLog \in 0..MaxCalls /\ pending \in ToolCalls
    BY <1>3, CallsAssumption DEF HooksIInv, HooksTypeOK, OpenIsExplained, PostToolUse
  <2>2. ToolCall[pending].changes \subseteq STRING /\ changed \subseteq accounted \cup ToolCall[pending].changes
    BY <1>3, <2>1, ToolCallAssumption, Zenon DEF HooksIInv, OpenIsExplained, PostToolUse
  <2>3. CASE session' = "stopped" /\ UNCHANGED <<accounted, auditLog>>
    BY <1>3, <2>3, Zenon DEF HooksIInv, HooksTypeOK, OpenIsExplained, HandoffIsEarned, PostToolUse
  <2>4. CASE accounted' = accounted \cup ToolCall[pending].changes /\ auditLog' = auditLog + 1 /\ session' = "open"
    <3>1. HooksTypeOK'
      BY <1>3, <2>1, <2>2, <2>4 DEF HooksIInv, HooksTypeOK, PostToolUse
    <3>2. OpenIsExplained'
      BY <1>3, <2>1, <2>2, <2>4, <3>1 DEF HooksIInv, HooksTypeOK, OpenIsExplained, PostToolUse
    <3> QED
      BY <2>4, <3>1, <3>2 DEF HooksIInv, HandoffIsEarned
  <2> QED
    BY <1>3, <2>3, <2>4 DEF PostToolUse
<1>4. ASSUME NEW l \in Lease, SubagentStart(l) PROVE HooksIInv'
  BY <1>4, Zenon DEF HooksIInv, HooksTypeOK, OpenIsExplained, HandoffIsEarned, SubagentStart
<1>5. ASSUME NEW h \in Handoffs, BeforeHandoff(h) PROVE HooksIInv'
  <2>1. HooksTypeOK'
    BY <1>5, Zenon DEF HooksIInv, HooksTypeOK, BeforeHandoff
  <2>2. OpenIsExplained'
    BY <1>5, Zenon DEF HooksIInv, OpenIsExplained, BeforeHandoff
  <2>3. handoff' = h /\ session' = "handed_off" /\ BeforeHandoffDecision(Handoff[h]) \notin BLOCKING
    BY <1>5 DEF BeforeHandoff
  <2>4. HandoffIsEarned'
    BY <2>3, HandoffPasses, Zenon DEF HandoffIsEarned
  <2> QED
    BY <2>1, <2>2, <2>3, <2>4, Zenon DEF HooksIInv
<1>6. ASSUME NEW c \in Contracts, SwapContract(c) PROVE HooksIInv'
  BY <1>6, Zenon DEF HooksIInv, HooksTypeOK, OpenIsExplained, HandoffIsEarned, SwapContract
<1>7. CASE UNCHANGED hookVars
  BY <1>7, Zenon DEF hookVars, HooksIInv, HooksTypeOK, OpenIsExplained, HandoffIsEarned
<1> QED
  BY <1>1, <1>2, <1>3, <1>4, <1>5, <1>6, <1>7, Zenon DEF HooksNext

(* What pre_tool_use lets through is in scope, if it is read at all.       *)
LEMMA NamedInScope ==
  ASSUME NEW n \in ToolCalls, NEW c, PreToolUseReason(ToolCall[n], c) = OK, NEW p \in ToolCall[n].named,
         IsRead(ToolCall[n])
  PROVE  ValidateContract(c) = OK /\ PathInScope(p, c.scope)
<1> DEFINE t == ToolCall[n]
           segments == IF t.tool = "Bash" THEN NormalizeCommand(t.line) ELSE {}
<1>1. t.tool \in WRITE_CAPABLE_TOOL_NAMES
  BY ToolCallAssumption
<1>2. ValidateContract(c) = OK
  BY <1>1, Zenon DEF PreToolUseReason
<1>3. ~DenyOutOfScopeFileWrite(t, segments, c)
  BY <1>2, Zenon DEF PreToolUseReason, OK
<1>4. \E q \in CandidateWritePaths(t, segments) : NormalizePath(q) = NormalizePath(p)
  <2>1. CASE t.tool = "Bash"
    <3>1. PICK ws \in CommandsIn(t.line) : \E q \in WritesOf(ws) : NormalizePath(q) = NormalizePath(p)
      BY <2>1, ToolCallAssumption
    <3>2. PICK q \in WritesOf(ws) : NormalizePath(q) = NormalizePath(p)
      BY <3>1, Zenon
    <3>3. IsArgv(ws)
      <4>1. ws \in Seq(STRING)
        BY <2>1, ToolCallAssumption, Zenon
      <4> QED
        BY <4>1, SeqIsArgv
    <3>4. ~TooDeep(t.line) /\ IsSpelledAsRead(ws)
      BY <2>1, Zenon DEF IsRead
    <3>5. PICK own \in NormalWords(ws) : q \in ExtractWriteTargets(own)
      BY <3>2, <3>3, <3>4, WritesAreRead, Zenon
    <3>6. own \in NormalizeCommand(t.line)
      BY <3>4, CommandsAreSeen
    <3>7. q \in CandidateWritePaths(t, segments)
      BY <2>1, <3>5, <3>6 DEF CandidateWritePaths, WRITE_TOOL_NAMES
    <3> QED
      BY <3>2, <3>7
  <2>2. CASE t.tool # "Bash"
    <3>1. CandidateWritePaths(t, segments) = t.paths
      BY <1>1, <2>2 DEF CandidateWritePaths, WRITE_CAPABLE_TOOL_NAMES
    <3>2. \E q \in t.paths : NormalizePath(q) = NormalizePath(p)
      BY <2>2, ToolCallAssumption, Zenon
    <3> QED
      BY <3>1, <3>2, Zenon
  <2> QED
    BY <2>1, <2>2
<1>5. PICK q \in CandidateWritePaths(t, segments) : NormalizePath(q) = NormalizePath(p)
  BY <1>4, Zenon
<1>6. PathInScope(q, c.scope)
  BY <1>3, <1>5 DEF DenyOutOfScopeFileWrite
<1> QED
  BY <1>2, <1>5, <1>6 DEF PathInScope

(* What NamedWritesInScope asks of a step.                                 *)
NamedStep ==
  \A p \in (changed' \ changed) :
    (pending' # NoCall /\ p \in ToolCall[pending'].named /\ IsRead(ToolCall[pending'])) =>
      ValidateContract(Contract[contract]) = OK /\ PathInScope(p, Contract[contract].scope)

LEMMA NamedStepHolds ==
  ASSUME [HooksNext]_hookVars
  PROVE  NamedStep \/ UNCHANGED hookVars
<1>1. ASSUME NEW n \in ToolCalls, PreToolUse(n) PROVE NamedStep
  <2>1. PreToolUseReason(ToolCall[n], Contract[contract]) = OK /\ pending' = n
    BY <1>1 DEF PreToolUse
  <2> QED
    BY <2>1, NamedInScope DEF NamedStep
<1>2. ASSUME changed' = changed PROVE NamedStep
  BY <1>2 DEF NamedStep
<1>3. CASE HooksNext
  BY <1>1, <1>2, <1>3, Zenon DEF HooksNext, SessionStart, PostToolUse, SubagentStart, BeforeHandoff, SwapContract
<1> QED
  BY <1>3

(* Of no line there is nothing, and a line of one part is that part.       *)
LEMMA NoLines == Inner({}) = {} /\ SegmentsOf({}) = {}
BY DEF Inner, SegmentsOf

LEMMA OneLine == ASSUME NEW q PROVE SegmentsOf({q}) = SegmentsAt(q)
BY DEF SegmentsOf

LEMMA OnePartWrapped ==
  ASSUME NEW l, DOMAIN l = {1}, l[1].form \in WRAPPING, NEW text, NEW layers
  PROVE  Inner({Placed(l, text, layers)}) = {Placed(l[1].inner, text, layers + 1)}
<1>1. PICK q : q = Placed(l, text, layers)
  OBVIOUS
<1>2. q.line = l /\ q.text = text /\ q.wraps = layers
  BY <1>1 DEF Placed
<1>3. l[1].form # "substitution"
  BY DEF WRAPPING
<1>4. {k \in DOMAIN q.line : q.line[k].form \in WRAPPING} = {1}
      /\ {k \in DOMAIN q.line : q.line[k].form = "substitution"} = {}
  BY <1>2, <1>3
<1>5. Inner({q}) = {Placed(q.line[n].inner, q.text, q.wraps + 1) :
                      n \in {k \in DOMAIN q.line : q.line[k].form \in WRAPPING}}
                   \cup {Placed(q.line[n].inner, q.text + 1, 0) :
                           n \in {k \in DOMAIN q.line : q.line[k].form = "substitution"}}
  BY ZenonT(30) DEF Inner
<1> QED
  BY <1>1, <1>2, <1>4, <1>5

LEMMA OnePartSubstituted ==
  ASSUME NEW l, DOMAIN l = {1}, l[1].form = "substitution", NEW text, NEW layers
  PROVE  Inner({Placed(l, text, layers)}) = {Placed(l[1].inner, text + 1, 0)}
<1>1. PICK q : q = Placed(l, text, layers)
  OBVIOUS
<1>2. q.line = l /\ q.text = text /\ q.wraps = layers
  BY <1>1 DEF Placed
<1>3. l[1].form \notin WRAPPING
  BY DEF WRAPPING
<1>4. {k \in DOMAIN q.line : q.line[k].form \in WRAPPING} = {}
      /\ {k \in DOMAIN q.line : q.line[k].form = "substitution"} = {1}
  BY <1>2, <1>3
<1>5. Inner({q}) = {Placed(q.line[n].inner, q.text, q.wraps + 1) :
                      n \in {k \in DOMAIN q.line : q.line[k].form \in WRAPPING}}
                   \cup {Placed(q.line[n].inner, q.text + 1, 0) :
                           n \in {k \in DOMAIN q.line : q.line[k].form = "substitution"}}
  BY ZenonT(30) DEF Inner
<1> QED
  BY <1>1, <1>2, <1>4, <1>5

LEMMA OnePartSegments ==
  ASSUME NEW l, DOMAIN l = {1}, NEW text \in Nat, NEW layers \in Nat, text + layers <= 3
  PROVE  SegmentsOf({Placed(l, text, layers)}) = NormalizeOneSegment(l[1], text + layers)
<1>1. PICK q : q = Placed(l, text, layers)
  OBVIOUS
<1>2. q.line = l /\ q.text = text /\ q.wraps = layers
  BY <1>1 DEF Placed
<1>3. ~(text > MAX_RECURSE_DEPTH) /\ ~(text + layers > MAX_RECURSE_DEPTH)
  BY DEF MAX_RECURSE_DEPTH
<1>4. SegmentsAt(q) = UNION {NormalizeOneSegment(l[n], text + layers) : n \in {1}}
  BY <1>2, <1>3, Zenon DEF SegmentsAt
<1>5. UNION {NormalizeOneSegment(l[n], text + layers) : n \in {1}} = NormalizeOneSegment(l[1], text + layers)
  BY Zenon
<1> QED
  BY <1>1, <1>4, <1>5, OneLine, Zenon

(* A line around a line.                                                   *)
IsAround(l, line) ==
  /\ DOMAIN l = {1} /\ l[1].form \in {"subshell", "dash_c", "env_s"} /\ l[1].inner = line
  /\ HasPipeToInterpreter(l) <=> HasPipeToInterpreter(line)

LEMMA AroundIs ==
  ASSUME NEW line, NEW k \in 0..2
  PROVE  IsAround(Around(k, line), line)
<1>1. PICK p : p = IF k = 0 THEN Subshell(line) ELSE IF k = 1 THEN DashC(line) ELSE EnvS(line)
  OBVIOUS
<1>2. Around(k, line) = <<p>>
  BY <1>1 DEF Around
<1>3. p.form \in {"subshell", "dash_c", "env_s"} /\ p.inner = line /\ p.feeds = HasPipeToInterpreter(line)
  BY <1>1 DEF Subshell, DashC, EnvS, Part
<1>4. DOMAIN <<p>> = {1} /\ <<p>>[1] = p
  OBVIOUS
<1>5. HasPipeToInterpreter(<<p>>) <=> p.feeds
  BY <1>4, Zenon DEF HasPipeToInterpreter
<1> QED
  BY <1>2, <1>3, <1>4, <1>5, Zenon DEF IsAround

(* A line around a line gives nothing by itself, or "too deep" at the limit. *)
LEMMA AroundLevel ==
  ASSUME NEW l, NEW line, IsAround(l, line), NEW text \in Nat, NEW layers \in Nat, text + layers <= 3
  PROVE  /\ Inner({Placed(l, text, layers)}) = {Placed(line, text, layers + 1)}
         /\ SegmentsOf({Placed(l, text, layers)}) = IF text + layers = 3 THEN {UNPARSEABLE} ELSE {}
<1>1. DOMAIN l = {1} /\ l[1].form \in {"subshell", "dash_c", "env_s"} /\ l[1].inner = line
  BY DEF IsAround
<1>2. l[1].form \in WRAPPING /\ l[1].form \notin {"words", "substitution"} /\ l[1].form # "garbled"
  BY <1>1 DEF WRAPPING
<1>3. Inner({Placed(l, text, layers)}) = {Placed(line, text, layers + 1)}
  BY <1>1, <1>2, OnePartWrapped, Zenon
<1>4. text + layers >= MAX_RECURSE_DEPTH <=> text + layers = 3
  BY DEF MAX_RECURSE_DEPTH
<1>5. NormalizeOneSegment(l[1], text + layers) = IF text + layers = 3 THEN {UNPARSEABLE} ELSE {}
  BY <1>2, <1>4 DEF NormalizeOneSegment
<1> QED
  BY <1>1, <1>3, <1>5, OnePartSegments, Zenon

(* A line of plain words has its words at whatever depth, and nothing in it. *)
IsWords(l) == DOMAIN l = {1} /\ l[1].form = "words"

LEMMA WordsInner ==
  ASSUME NEW l, IsWords(l), NEW text, NEW layers
  PROVE  Inner({Placed(l, text, layers)}) = {}
<1>1. PICK q : q = Placed(l, text, layers)
  OBVIOUS
<1>2. q.line = l
  BY <1>1 DEF Placed
<1>3. {k \in DOMAIN q.line : q.line[k].form \in WRAPPING} = {}
      /\ {k \in DOMAIN q.line : q.line[k].form = "substitution"} = {}
  BY <1>2 DEF IsWords, WRAPPING
<1> QED
  BY <1>1, <1>3 DEF Inner

LEMMA WordsLevel ==
  ASSUME NEW l, IsWords(l), NEW text \in Nat, NEW layers \in Nat, text + layers <= 3
  PROVE  SegmentsOf({Placed(l, text, layers)}) = NormalWords(l[1].words)
<1>1. DOMAIN l = {1} /\ l[1].form = "words" /\ l[1].form \notin WRAPPING
  BY DEF IsWords, WRAPPING
<1>2. NormalizeOneSegment(l[1], text + layers) = NormalWords(l[1].words)
  BY <1>1, Zenon DEF NormalizeOneSegment
<1> QED
  BY <1>1, <1>2, OnePartSegments, Zenon

LEMMA WordsSegments ==
  ASSUME NEW l, IsWords(l)
  PROVE  NormalizeCommand(l) = NormalWords(l[1].words)
<1>1. Level1(l) = {} /\ Level2(l) = {} /\ Level3(l) = {} /\ Level4(l) = {} /\ Level5(l) = {}
  BY WordsInner, NoLines, Zenon DEF Level0, Level1, Level2, Level3, Level4, Level5
<1>2. 0 \in Nat /\ 0 + 0 <= 3
  OBVIOUS
<1>3. SegmentsOf(Level0(l)) = NormalWords(l[1].words)
  BY <1>2, WordsLevel, Zenon DEF Level0
<1> QED
  BY <1>1, <1>3, NoLines, SegmentsByLevel

(* Numbers of the levels.                                                  *)
LEMMA Depths ==
  /\ 0 \in Nat /\ 1 \in Nat /\ 2 \in Nat /\ 3 \in Nat
  /\ 0 + 0 = 0 /\ 0 + 1 = 1 /\ 1 + 1 = 2 /\ 2 + 1 = 3 /\ 3 + 1 = 4 /\ 0 + 2 = 2 /\ 0 + 3 = 3 /\ 1 + 0 = 1
  /\ 1 + 2 = 3
  /\ 0 <= 3 /\ 1 <= 3 /\ 2 <= 3 /\ 3 <= 3 /\ 0 # 3 /\ 1 # 3 /\ 2 # 3
OBVIOUS

(* Up to the limit, the words inside of the nesting are what is left of it. *)
LEMMA NestedSegments ==
  ASSUME NEW l, IsWords(l), NEW l1, IsAround(l1, l), NEW l2, IsAround(l2, l1), NEW l3, IsAround(l3, l2)
  PROVE  NormalizeCommand(l3) = NormalWords(l[1].words)
<1>1. Level1(l3) = {Placed(l2, 0, 1)} /\ SegmentsOf(Level0(l3)) = {}
  <2>1. /\ Inner({Placed(l3, 0, 0)}) = {Placed(l2, 0, 0 + 1)}
        /\ SegmentsOf({Placed(l3, 0, 0)}) = IF 0 + 0 = 3 THEN {UNPARSEABLE} ELSE {}
    BY AroundLevel, Depths
  <2> QED
    BY <2>1, Depths, Zenon DEF Level0, Level1
<1>2. Level2(l3) = {Placed(l1, 0, 2)} /\ SegmentsOf(Level1(l3)) = {}
  <2>1. /\ Inner({Placed(l2, 0, 1)}) = {Placed(l1, 0, 1 + 1)}
        /\ SegmentsOf({Placed(l2, 0, 1)}) = IF 0 + 1 = 3 THEN {UNPARSEABLE} ELSE {}
    BY AroundLevel, Depths
  <2> QED
    BY <1>1, <2>1, Depths, Zenon DEF Level2
<1>3. Level3(l3) = {Placed(l, 0, 3)} /\ SegmentsOf(Level2(l3)) = {}
  <2>1. /\ Inner({Placed(l1, 0, 2)}) = {Placed(l, 0, 2 + 1)}
        /\ SegmentsOf({Placed(l1, 0, 2)}) = IF 0 + 2 = 3 THEN {UNPARSEABLE} ELSE {}
    BY AroundLevel, Depths
  <2> QED
    BY <1>2, <2>1, Depths, Zenon DEF Level3
<1>4. SegmentsOf(Level3(l3)) = NormalWords(l[1].words)
  BY <1>3, WordsLevel, Depths
<1>5. Level4(l3) = {} /\ Level5(l3) = {}
  BY <1>3, WordsInner, NoLines, Zenon DEF Level4, Level5
<1> QED
  BY <1>1, <1>2, <1>3, <1>4, <1>5, NoLines, SegmentsByLevel

(* Beyond the limit nothing is left but the mark of a line not understood. *)
LEMMA TooDeepSegments ==
  ASSUME NEW l, IsWords(l), NEW l1, IsAround(l1, l), NEW l2, IsAround(l2, l1), NEW l3, IsAround(l3, l2),
         NEW l4, IsAround(l4, l3)
  PROVE  NormalizeCommand(l4) = {UNPARSEABLE}
<1>1. Level1(l4) = {Placed(l3, 0, 1)} /\ SegmentsOf(Level0(l4)) = {}
  <2>1. /\ Inner({Placed(l4, 0, 0)}) = {Placed(l3, 0, 0 + 1)}
        /\ SegmentsOf({Placed(l4, 0, 0)}) = IF 0 + 0 = 3 THEN {UNPARSEABLE} ELSE {}
    BY AroundLevel, Depths
  <2> QED
    BY <2>1, Depths, Zenon DEF Level0, Level1
<1>2. Level2(l4) = {Placed(l2, 0, 2)} /\ SegmentsOf(Level1(l4)) = {}
  <2>1. /\ Inner({Placed(l3, 0, 1)}) = {Placed(l2, 0, 1 + 1)}
        /\ SegmentsOf({Placed(l3, 0, 1)}) = IF 0 + 1 = 3 THEN {UNPARSEABLE} ELSE {}
    BY AroundLevel, Depths
  <2> QED
    BY <1>1, <2>1, Depths, Zenon DEF Level2
<1>3. Level3(l4) = {Placed(l1, 0, 3)} /\ SegmentsOf(Level2(l4)) = {}
  <2>1. /\ Inner({Placed(l2, 0, 2)}) = {Placed(l1, 0, 2 + 1)}
        /\ SegmentsOf({Placed(l2, 0, 2)}) = IF 0 + 2 = 3 THEN {UNPARSEABLE} ELSE {}
    BY AroundLevel, Depths
  <2> QED
    BY <1>2, <2>1, Depths, Zenon DEF Level3
<1>4. Level4(l4) = {Placed(l, 0, 4)} /\ SegmentsOf(Level3(l4)) = {UNPARSEABLE}
  <2>1. /\ Inner({Placed(l1, 0, 3)}) = {Placed(l, 0, 3 + 1)}
        /\ SegmentsOf({Placed(l1, 0, 3)}) = IF 0 + 3 = 3 THEN {UNPARSEABLE} ELSE {}
    BY AroundLevel, Depths
  <2> QED
    BY <1>3, <2>1, Depths, Zenon DEF Level4
<1>5. SegmentsOf(Level4(l4)) = {}
  <2>1. PICK q : q = Placed(l, 0, 4)
    OBVIOUS
  <2>2. q.text = 0 /\ q.wraps = 4
    BY <2>1 DEF Placed
  <2>3. SegmentsAt(q) = {}
    BY <2>2 DEF SegmentsAt, MAX_RECURSE_DEPTH
  <2> QED
    BY <1>4, <2>1, <2>3, OneLine, Zenon
<1>6. Level5(l4) = {}
  BY <1>4, WordsInner, Zenon DEF Level5
<1> QED
  BY <1>1, <1>2, <1>3, <1>4, <1>5, <1>6, NoLines, SegmentsByLevel

ECHO == <<"echo">>

LEMMA EchoWords == NormalWords(ECHO) = {ECHO}
<1>1. Len(ECHO) = 1 /\ ECHO[1] = "echo" /\ DOMAIN ECHO = {1} /\ ECHO # <<>>
  BY DEF ECHO
<1>2. {i \in DOMAIN ECHO : ~IsEnvWord(ECHO[i])} = {1}
  BY <1>1 DEF IsEnvWord
<1>3. Min({1}) = 1
  <2>1. 1 <= 1
    OBVIOUS
  <2> QED
    BY <2>1 DEF Min
<1>4. SubSeq(ECHO, 1, 1) = ECHO
  <2>1. ECHO \in Seq({"echo"})
    BY DEF ECHO
  <2> QED
    BY <1>1, <2>1, SubSeqFull
<1>5. StripLeadingEnvAssignments(ECHO) = ECHO
  BY <1>1, <1>2, <1>3, <1>4 DEF StripLeadingEnvAssignments, RestFrom, Rest
<1>6. UnwrapEnv(ECHO) = ECHO /\ StripGitGlobalOpts(ECHO) = ECHO
  BY <1>1 DEF UnwrapEnv, StripGitGlobalOpts
<1> QED
  BY <1>1, <1>5, <1>6, Zenon DEF NormalWords

(* A substitution gives the words around it and the words in it.           *)
LEMMA SubstitutedSegments ==
  ASSUME NEW l, IsWords(l), NEW l1, IsAround(l1, l), NEW l2, IsAround(l2, l1)
  PROVE  /\ NormalizeCommand(<<Substituting(ECHO, l2)>>) = {ECHO} \cup NormalWords(l[1].words)
         /\ HasPipeToInterpreter(<<Substituting(ECHO, l2)>>) <=> HasPipeToInterpreter(l)
<1>a. PICK p : p = Substituting(ECHO, l2)
  OBVIOUS
<1>b. PICK l3 : l3 = <<p>>
  OBVIOUS
<1>1. p.form = "substitution" /\ p.words = ECHO /\ p.inner = l2 /\ p.feeds = HasPipeToInterpreter(l2)
  BY <1>a DEF Substituting, Part
<1>2. DOMAIN l3 = {1} /\ l3[1] = p
  BY <1>b
<1>3. p.form \notin WRAPPING /\ p.form # "garbled"
  BY <1>1 DEF WRAPPING
<1>4. Level1(l3) = {Placed(l2, 1, 0)}
  <2>1. Inner({Placed(l3, 0, 0)}) = {Placed(l2, 0 + 1, 0)}
    BY <1>1, <1>2, OnePartSubstituted, Zenon
  <2> QED
    BY <2>1, Depths, Zenon DEF Level0, Level1
<1>5. SegmentsOf(Level0(l3)) = {ECHO}
  <2>1. NormalizeOneSegment(p, 0 + 0) = {ECHO}
    BY <1>1, <1>3, EchoWords, Zenon DEF NormalizeOneSegment
  <2>2. SegmentsOf({Placed(l3, 0, 0)}) = NormalizeOneSegment(p, 0 + 0)
    BY <1>2, OnePartSegments, Depths
  <2> QED
    BY <2>1, <2>2, Zenon DEF Level0
<1>6. Level2(l3) = {Placed(l1, 1, 1)} /\ SegmentsOf(Level1(l3)) = {}
  <2>1. /\ Inner({Placed(l2, 1, 0)}) = {Placed(l1, 1, 0 + 1)}
        /\ SegmentsOf({Placed(l2, 1, 0)}) = IF 1 + 0 = 3 THEN {UNPARSEABLE} ELSE {}
    BY AroundLevel, Depths
  <2> QED
    BY <1>4, <2>1, Depths, Zenon DEF Level2
<1>7. Level3(l3) = {Placed(l, 1, 2)} /\ SegmentsOf(Level2(l3)) = {}
  <2>1. /\ Inner({Placed(l1, 1, 1)}) = {Placed(l, 1, 1 + 1)}
        /\ SegmentsOf({Placed(l1, 1, 1)}) = IF 1 + 1 = 3 THEN {UNPARSEABLE} ELSE {}
    BY AroundLevel, Depths
  <2> QED
    BY <1>6, <2>1, Depths, Zenon DEF Level3
<1>8. SegmentsOf(Level3(l3)) = NormalWords(l[1].words)
  BY <1>7, WordsLevel, Depths
<1>9. Level4(l3) = {} /\ Level5(l3) = {}
  BY <1>7, WordsInner, NoLines, Zenon DEF Level4, Level5
<1>10. NormalizeCommand(l3) = {ECHO} \cup NormalWords(l[1].words)
  BY <1>5, <1>6, <1>7, <1>8, <1>9, NoLines, SegmentsByLevel
<1>11. HasPipeToInterpreter(l3) <=> p.feeds
  BY <1>2, Zenon DEF HasPipeToInterpreter
<1>12. HasPipeToInterpreter(l2) <=> HasPipeToInterpreter(l)
  BY Zenon DEF IsAround
<1> QED
  BY <1>a, <1>b, <1>1, <1>10, <1>11, <1>12, Zenon

(* The rules say nothing of echo.                                          *)
LEMMA EchoIsHarmless ==
  /\ ~MatchesDeployPushCmsDns(ECHO) /\ ~MatchesUnpinnedInstall(ECHO)
  /\ ~MatchesUnapprovedEgress(ECHO, {"good"}) /\ ExtractWriteTargets(ECHO) = {} /\ ECHO # UNPARSEABLE
<1>1. Len(ECHO) = 1 /\ ECHO[1] = "echo" /\ ToSet(ECHO) = {"echo"}
  BY DEF ECHO, ToSet
<1>2. ~LooksLikeDnsOrRobotsMutation(ECHO)
  BY <1>1 DEF LooksLikeDnsOrRobotsMutation
<1>3. ~LooksLikeCmsPublish(ECHO)
  BY <1>1 DEF LooksLikeCmsPublish, CMS_BINARIES
<1>4. ~MatchesDeployPushCmsDns(ECHO)
  BY <1>1, <1>2, <1>3 DEF MatchesDeployPushCmsDns
<1>5. ~PipFamilyMatch(ECHO) /\ ~GemMatch(ECHO) /\ ~GoMatch(ECHO)
  BY <1>1 DEF PipFamilyMatch, GemMatch, GoMatch
<1>6. ~NpmFamilyMatch(ECHO)
  BY <1>1 DEF NpmFamilyMatch
<1>7. ~MatchesUnpinnedInstall(ECHO)
  BY <1>5, <1>6, Zenon DEF MatchesUnpinnedInstall
<1>8. ~MatchesUnapprovedEgress(ECHO, {"good"})
  BY <1>1 DEF MatchesUnapprovedEgress
<1>9. {ECHO[n + 1] : n \in {m \in 1..Len(ECHO) - 1 : ECHO[m] \in REDIRECT_TOKENS}} = {}
  BY <1>1
<1>10. ToSet(ECHO) \cap GLUED_TOKENS = {} /\ OperandTargets(ECHO) = {}
  BY <1>1 DEF GLUED_TOKENS, OperandTargets
<1>11. ExtractWriteTargets(ECHO) = {}
  BY <1>9, <1>10 DEF ExtractWriteTargets
<1>12. ECHO # UNPARSEABLE
  BY DEF ECHO, UNPARSEABLE
<1> QED
  BY <1>4, <1>7, <1>8, <1>11, <1>12

(* What pre_tool_use says depends on the segments and the pipes only.      *)
LEMMA SaysBySegments ==
  ASSUME NEW t, t.tool = "Bash", NEW l, NEW m, NormalizeCommand(l) = NormalizeCommand(m),
         HasPipeToInterpreter(l) <=> HasPipeToInterpreter(m)
  PROVE  SaysOf(t, l) = SaysOf(t, m)
<1> DEFINE a == [tool |-> t.tool, paths |-> t.paths, line |-> l]
           b == [tool |-> t.tool, paths |-> t.paths, line |-> m]
<1>1. a.tool = "Bash" /\ a.line = l /\ b.tool = "Bash" /\ b.line = m
  OBVIOUS
<1> HIDE DEF a, b
<1> QED
  BY <1>1 DEF SaysOf, PreToolUseReason, DenyDeployPushCmsDns, DenyOutOfScopeFileWrite, CandidateWritePaths,
     WRITE_TOOL_NAMES, a, b

(* A line that was not understood is refused.                              *)
LEMMA TooDeepIsRefused ==
  ASSUME NEW t, t.tool = "Bash", NEW l, NormalizeCommand(l) = {UNPARSEABLE}
  PROVE  SaysOf(t, l) # OK
<1> DEFINE a == [tool |-> t.tool, paths |-> t.paths, line |-> l]
<1>1. a.tool = "Bash" /\ a.line = l
  OBVIOUS
<1> HIDE DEF a
<1>2. \A s \in NormalizeCommand(l) : s = UNPARSEABLE
  OBVIOUS
<1>3. PreToolUseReason(a, Contract[contract])
      \in {ValidateContract(Contract[contract]), "COMMAND_NORMALIZE_FAILURE"}
  BY <1>1, <1>2 DEF PreToolUseReason
<1>4. PreToolUseReason(a, Contract[contract]) # OK
  BY <1>1, <1>2 DEF PreToolUseReason, WRITE_CAPABLE_TOOL_NAMES, OK
<1> QED
  BY <1>4 DEF SaysOf, a

(* One more segment that no rule is about changes nothing, unless there is *)
(* no segment to look at without it.                                       *)
LEMMA SaysWithEcho ==
  ASSUME NEW t, t.tool = "Bash", NEW l, NEW m, NormalizeCommand(m) = {ECHO} \cup NormalizeCommand(l),
         HasPipeToInterpreter(l) <=> HasPipeToInterpreter(m),
         \E s \in NormalizeCommand(l) : s # UNPARSEABLE
  PROVE  SaysOf(t, m) = SaysOf(t, l)
<1> DEFINE a == [tool |-> t.tool, paths |-> t.paths, line |-> l]
           b == [tool |-> t.tool, paths |-> t.paths, line |-> m]
<1>a. PICK A : A = NormalizeCommand(l)
  OBVIOUS
<1>b. PICK B : B = NormalizeCommand(m)
  OBVIOUS
<1>1. a.tool = "Bash" /\ a.line = l /\ b.tool = "Bash" /\ b.line = m
  OBVIOUS
<1> HIDE DEF a, b
<1>2. B = {ECHO} \cup A
  BY <1>a, <1>b
<1>3. (~\A s \in A : s = UNPARSEABLE) /\ (~\A s \in B : s = UNPARSEABLE)
  BY <1>a, <1>2
<1>4. DenyDeployPushCmsDns(A, l) <=> DenyDeployPushCmsDns(B, m)
  BY <1>2, EchoIsHarmless, Zenon DEF DenyDeployPushCmsDns
<1>5. DenyUnpinnedDependencyInstall(A) <=> DenyUnpinnedDependencyInstall(B)
  BY <1>2, EchoIsHarmless, Zenon DEF DenyUnpinnedDependencyInstall
<1>6. DenyUnapprovedNetworkEgress(A) <=> DenyUnapprovedNetworkEgress(B)
  BY <1>2, EchoIsHarmless, Zenon DEF DenyUnapprovedNetworkEgress
<1>7. CandidateWritePaths(a, A) = CandidateWritePaths(b, B)
  <2>1. UNION {ExtractWriteTargets(s) : s \in A} = UNION {ExtractWriteTargets(s) : s \in B}
    BY <1>2, EchoIsHarmless
  <2> QED
    BY <1>1, <2>1 DEF CandidateWritePaths, WRITE_TOOL_NAMES
<1>8. ASSUME NEW c PROVE DenyOutOfScopeFileWrite(a, A, c) <=> DenyOutOfScopeFileWrite(b, B, c)
  BY <1>7, Zenon DEF DenyOutOfScopeFileWrite
<1>9. PreToolUseReason(a, Contract[contract]) = PreToolUseReason(b, Contract[contract])
  BY <1>a, <1>b, <1>1, <1>3, <1>4, <1>5, <1>6, <1>8 DEF PreToolUseReason
<1> QED
  BY <1>9, Zenon DEF SaysOf, a, b

(* With no segment to look at the hook refuses.                            *)
LEMMA NothingToLookAt ==
  ASSUME NEW t, t.tool = "Bash", NEW l, NEW m, \A s \in NormalizeCommand(l) : s = UNPARSEABLE
  PROVE  SaysOf(t, m) = SaysOf(t, l) \/ SaysOf(t, l) = "COMMAND_NORMALIZE_FAILURE"
<1> DEFINE a == [tool |-> t.tool, paths |-> t.paths, line |-> l]
           b == [tool |-> t.tool, paths |-> t.paths, line |-> m]
<1>1. a.tool = "Bash" /\ a.line = l /\ b.tool = "Bash" /\ b.line = m
  OBVIOUS
<1> HIDE DEF a, b
<1>2. CASE ValidateContract(Contract[contract]) = OK
  <2>1. PreToolUseReason(a, Contract[contract]) = "COMMAND_NORMALIZE_FAILURE"
    BY <1>1, <1>2 DEF PreToolUseReason
  <2> QED
    BY <2>1, Zenon DEF SaysOf, a
<1>3. CASE ValidateContract(Contract[contract]) # OK
  <2>1. /\ PreToolUseReason(a, Contract[contract]) = ValidateContract(Contract[contract])
        /\ PreToolUseReason(b, Contract[contract]) = ValidateContract(Contract[contract])
    BY <1>1, <1>3 DEF PreToolUseReason, WRITE_CAPABLE_TOOL_NAMES
  <2> QED
    BY <2>1, Zenon DEF SaysOf, a, b
<1> QED
  BY <1>2, <1>3

(* Nesting a command hides no rule, whatever the command and the contract. *)
LEMMA NestingHolds == NestingHidesNoRule
<1> SUFFICES ASSUME NEW n \in ToolCalls, ToolCall[n].tool = "Bash", IsWords(ToolCall[n].line),
                    NEW a \in 0..2, NEW b \in 0..2, NEW c \in 0..2
             PROVE  LET t == ToolCall[n] IN
                    /\ SaysOf(t, Around(a, Around(b, Around(c, t.line)))) = SaysOf(t, t.line)
                    /\ SaysOf(t, Around(a, Around(b, Around(c, Around(a, t.line))))) # OK
                    /\ \/ SaysOf(t, <<Substituting(ECHO, Around(a, Around(b, t.line)))>>) = SaysOf(t, t.line)
                       \/ SaysOf(t, t.line) = "COMMAND_NORMALIZE_FAILURE"
  BY Zenon DEF NestingHidesNoRule, IsWords, ECHO
<1>a. PICK t : t = ToolCall[n]
  OBVIOUS
<1>b. PICK l : l = t.line
  OBVIOUS
<1>0. t.tool = "Bash" /\ IsWords(l) /\ NormalizeCommand(l) = NormalWords(l[1].words)
  BY <1>a, <1>b, WordsSegments, Zenon
<1>1. SaysOf(t, Around(a, Around(b, Around(c, l)))) = SaysOf(t, l)
  <2>1. PICK l1 : l1 = Around(c, l)
    OBVIOUS
  <2>2. PICK l2 : l2 = Around(b, l1)
    OBVIOUS
  <2>3. PICK l3 : l3 = Around(a, l2)
    OBVIOUS
  <2>4. IsAround(l1, l) /\ IsAround(l2, l1) /\ IsAround(l3, l2)
    BY <2>1, <2>2, <2>3, AroundIs, Zenon
  <2>5. NormalizeCommand(l3) = NormalizeCommand(l)
    BY <1>0, <2>4, NestedSegments, Zenon
  <2>6. HasPipeToInterpreter(l3) <=> HasPipeToInterpreter(l)
    BY <2>4, Zenon DEF IsAround
  <2> QED
    BY <1>0, <2>1, <2>2, <2>3, <2>5, <2>6, SaysBySegments, Zenon
<1>2. SaysOf(t, Around(a, Around(b, Around(c, Around(a, l))))) # OK
  <2>1. PICK l1 : l1 = Around(a, l)
    OBVIOUS
  <2>2. PICK l2 : l2 = Around(c, l1)
    OBVIOUS
  <2>3. PICK l3 : l3 = Around(b, l2)
    OBVIOUS
  <2>4. PICK l4 : l4 = Around(a, l3)
    OBVIOUS
  <2>5. IsAround(l1, l) /\ IsAround(l2, l1) /\ IsAround(l3, l2) /\ IsAround(l4, l3)
    BY <2>1, <2>2, <2>3, <2>4, AroundIs, Zenon
  <2>6. NormalizeCommand(l4) = {UNPARSEABLE}
    BY <1>0, <2>5, TooDeepSegments, Zenon
  <2> QED
    BY <1>0, <2>1, <2>2, <2>3, <2>4, <2>6, TooDeepIsRefused, Zenon
<1>3. \/ SaysOf(t, <<Substituting(ECHO, Around(a, Around(b, l)))>>) = SaysOf(t, l)
      \/ SaysOf(t, l) = "COMMAND_NORMALIZE_FAILURE"
  <2>1. PICK l1 : l1 = Around(b, l)
    OBVIOUS
  <2>2. PICK l2 : l2 = Around(a, l1)
    OBVIOUS
  <2>3. PICK m : m = <<Substituting(ECHO, l2)>>
    OBVIOUS
  <2>4. IsAround(l1, l) /\ IsAround(l2, l1)
    BY <2>1, <2>2, AroundIs, Zenon
  <2>5. NormalizeCommand(m) = {ECHO} \cup NormalizeCommand(l)
    BY <1>0, <2>3, <2>4, SubstitutedSegments, Zenon
  <2>6. HasPipeToInterpreter(l) <=> HasPipeToInterpreter(m)
    BY <1>0, <2>3, <2>4, SubstitutedSegments, Zenon
  <2>7. SaysOf(t, m) = SaysOf(t, l) \/ SaysOf(t, l) = "COMMAND_NORMALIZE_FAILURE"
    BY <1>0, <2>5, <2>6, SaysWithEcho, NothingToLookAt, Zenon
  <2> QED
    BY <2>1, <2>2, <2>3, <2>7, Zenon
<1> QED
  BY <1>a, <1>b, <1>1, <1>2, <1>3, Zenon

(* A session that goes on has explained its changes and is audited, a      *)
(* handoff has passed its gates and, as far as normalize_command looks,    *)
(* deploys nothing, nesting a command up to the limit hides no rule from   *)
(* pre_tool_use, and a call writes the files it names in a spelling that   *)
(* extract_write_targets reads only in the scope of an intact contract:    *)
(* for every set of calls, contracts and handoffs and however long the     *)
(* session is.                                                             *)
THEOREM HooksAlwaysHold == HooksSpec => HooksHold
<1>1. HooksInit => HooksIInv
  BY HooksStart
<1>2. HooksIInv /\ [HooksNext]_hookVars => HooksIInv'
  BY HooksStep
<1>3. HooksIInv => HooksTypeOK /\ OpenIsExplained /\ HandoffIsEarned /\ NestingHidesNoRule
  BY NestingHolds, Zenon DEF HooksIInv
<1>4. [HooksNext]_hookVars => [NamedStep]_hookVars
  BY NamedStepHolds, Zenon
<1>5. HooksSpec => [](HooksTypeOK /\ OpenIsExplained /\ HandoffIsEarned /\ NestingHidesNoRule)
  BY <1>1, <1>2, <1>3, PTL DEF HooksSpec
<1>6. HooksSpec => [][NamedStep]_hookVars
  BY <1>4, PTL DEF HooksSpec
<1>7. HooksSpec => NamedWritesInScope
  BY <1>6, Zenon DEF NamedStep, NamedWritesInScope
<1> QED
  BY <1>5, <1>7, PTL DEF HooksHold
=============================================================================
