---------------------------- MODULE AgentRunner ----------------------------
(***************************************************************************)
(* PatchUnitRunner.run: one job executes the patch units it is asked for,  *)
(* one after the other, each in a worktree of its own.  Every call to the  *)
(* worktree, the command executor, the artifact gateway and the audit      *)
(* chain is a step; cancellation and the deadline are looked at before     *)
(* each write and each command only.  The calls may raise: the runner's    *)
(* own errors are handled, any other exception ends run() where it is.     *)
(*                                                                         *)
(* Paths and commands are names; what the guards ask of them is constant.  *)
(***************************************************************************)
EXTENDS JobKinds, Sequences, FiniteSets, SequencesExt

CONSTANTS
  Jobs,            \* names of the jobs that may be run
  Job,             \* the arguments of run() for each
  Path,            \* per path: well_formed, protected, in_scope, inside, lines
  Command,         \* per command: forbidden and the files it may change
  Unit,            \* the contract's patch units: files and allowed commands
  MaxFiles, MaxLines,      \* the contract's diff budget
  Deadline,        \* active_deadline_seconds of an agent-runner job
  MaxClock         \* bound: the clock

Paths == DOMAIN Path
Commands == DOMAIN Command
Units == DOMAIN Unit

(* What the guards ask of a path: no empty, absolute or ".." path, under a *)
(* protected prefix, matched by a glob of the approved scope, resolved to  *)
(* a place inside of the worktree.                                         *)
PathFacts == [well_formed : BOOLEAN, protected : BOOLEAN, in_scope : BOOLEAN,
              inside : BOOLEAN, lines : Nat]
(* A command: on the absolute denylist, and the files it may change.       *)
CommandFacts == [forbidden : BOOLEAN, changes : SUBSET Paths]
(* A patch unit of the contract: its files and allowed_transformations.    *)
UnitFacts == [files : SUBSET Paths, allowed : SUBSET Commands]
ApprovalFacts == [same_contract : BOOLEAN, same_run : BOOLEAN, approved : BOOLEAN,
                  units : SUBSET STRING]
(* The pinned hash, whether a source is wired and what it loads.           *)
BundleFacts == [pin : {"none", "malformed", "good"}, source : BOOLEAN,
                content : {"none", "unreadable", "other", "pinned"}]
(* A request, and the worktree the factory hands out for it.               *)
WorktreeFacts == {"right", "other_tenant", "other_base"}
RequestFacts == [unit : STRING, writes : Seq(Paths), commands : Seq(Commands),
                 worktree : WorktreeFacts]

ASSUME RunnerAssumption ==
  /\ {MaxFiles, MaxLines, Deadline, MaxClock} \subseteq Nat
  /\ \A p \in Paths : Path[p] \in PathFacts
  /\ \A c \in Commands : Command[c] \in CommandFacts
  /\ \A u \in Units : Unit[u] \in UnitFacts
  /\ \A j \in Jobs :
       /\ Job[j].approval \in ApprovalFacts /\ Job[j].bundle \in BundleFacts
       /\ Job[j].requests \in Seq(RequestFacts)

VARIABLES
  job,             \* the job that is run, None before
  step,            \* the next step of run()
  unitIndex,       \* which request _run_one is at
  workIndex,       \* which write or command of it
  written,         \* files write_file wrote in the worktree of the request
  touched,         \* files its commands changed
  commits,         \* worktree commits: unit, files written, files touched
  registered,      \* units the artifact gateway registered
  trail,           \* the audit chain: unit and decision, in order
  outcomes,        \* unit and decision of each request that has an outcome
  error,           \* the runner error being handled
  now,             \* monotonic seconds since the start
  cancelled,       \* the cancellation signal is set
  overdue          \* writes and commands done after it was set or too late

runnerVars == <<job, step, unitIndex, workIndex, written, touched, commits, registered, trail,
                outcomes, error, now, cancelled, overdue>>
worktree == <<written, touched>>
records == <<commits, registered>>

NoJob == "none"
NoError == "none"

(* The runner's errors: before a unit, for a unit, in its worktree.        *)
JobErrors ==
  {"approval_contract_hash_mismatch", "approval_identity_mismatch", "approval_rejected",
   "skill_bundle_missing", "skill_bundle_hash_missing", "skill_bundle_hash_malformed",
   "skill_bundle_unreadable", "skill_bundle_hash_mismatch"}
UnitErrors ==
  {"refused_not_approved", "refused_not_in_contract", "denied_cross_tenant",
   "denied_base_commit_mismatch"}
WorkErrors ==
  {"path_traversal", "protected_path_write", "out_of_scope_write", "diff_budget_exceeded",
   "forbidden_command", "command_not_allowlisted", "error", "cancelled", "timed_out"}

(* _job_error: the category of the error an outcome reports, and whether   *)
(* the job may be tried again.                                             *)
JobErrorOf(e) ==
  IF e \in {"timed_out", "cancelled"} THEN [category |-> "unavailable", retryable |-> TRUE]
  ELSE [category |-> "policy_denied", retryable |-> FALSE]
-----------------------------------------------------------------------------
(* The guards.                                                             *)

(* verify_approval: contract hash, then identity, then the decision.       *)
ApprovalRefused(a) ==
  CASE ~a.same_contract -> "approval_contract_hash_mismatch"
    [] a.same_contract /\ ~a.same_run -> "approval_identity_mismatch"
    [] a.same_contract /\ a.same_run /\ ~a.approved -> "approval_rejected"
    [] OTHER -> NoError

(* enforce_skill_bundle_integrity and verify_skill_bundle: no source, no   *)
(* pin, a malformed pin, no bundle, an unreadable one, another content.    *)
BundleRefused(b) ==
  CASE ~b.source -> "skill_bundle_missing"
    [] b.source /\ b.pin = "none" -> "skill_bundle_hash_missing"
    [] b.source /\ b.pin = "malformed" -> "skill_bundle_hash_malformed"
    [] b.source /\ b.pin = "good" /\ b.content = "none" -> "skill_bundle_missing"
    [] b.source /\ b.pin = "good" /\ b.content = "unreadable" -> "skill_bundle_unreadable"
    [] b.source /\ b.pin = "good" /\ b.content = "other" -> "skill_bundle_hash_mismatch"
    [] OTHER -> NoError

(* guard_protected_path, guard_scope and resolve_within_worktree.          *)
WriteRefused(u, p) ==
  IF ~Path[p].well_formed THEN "path_traversal"
  ELSE IF Path[p].protected THEN "protected_path_write"
  ELSE IF p \notin Unit[u].files \/ ~Path[p].in_scope THEN "out_of_scope_write"
  ELSE IF ~Path[p].inside THEN "path_traversal"
  ELSE NoError

(* guard_command: the absolute denylist comes before the allowlist.        *)
CommandRefused(u, c) ==
  IF Command[c].forbidden THEN "forbidden_command"
  ELSE IF c \notin Unit[u].allowed THEN "command_not_allowlisted"
  ELSE NoError

(* diff_stat against the contract's budget.                                *)
LinesOf(files) == FoldSet(LAMBDA p, n : n + Path[p].lines, 0, files)
OverBudget(files) == Cardinality(files) > MaxFiles \/ LinesOf(files) > MaxLines

(* _check_liveness: cancellation before the deadline.                      *)
LivenessError ==
  IF cancelled THEN "cancelled" ELSE IF now > Deadline THEN "timed_out" ELSE NoError

(* _decision_for names the decision by the error; _terminal_status_for and *)
(* _aggregate_status make the status of a unit and of the job of it.       *)
StatusOf(decision) ==
  AdvanceTo(CASE decision = "executed" -> "succeeded"
              [] decision \in {"timed_out", "cancelled"} -> decision
              [] OTHER -> "failed")

(* Mutant: the last outcome decides.                                       *)
AggregateStatusLast(decisions) ==
  IF decisions = <<>> THEN "succeeded" ELSE StatusOf(decisions[Len(decisions)][2])

AggregateStatus(decisions) ==
  LET statuses == {StatusOf(d[2]) : d \in ToSet(decisions)} IN
  IF statuses \subseteq {"succeeded"} THEN "succeeded"
  ELSE IF "cancelled" \in statuses THEN "cancelled"
  ELSE IF "timed_out" \in statuses THEN "timed_out"
  ELSE "failed"

Request == Job[job].requests[unitIndex]
-----------------------------------------------------------------------------
RunnerInit ==
  /\ job = NoJob /\ step = "idle" /\ unitIndex = 0 /\ workIndex = 0
  /\ written = {} /\ touched = {} /\ commits = {} /\ registered = {}
  /\ trail = <<>> /\ outcomes = <<>> /\ error = NoError
  /\ now = 0 /\ cancelled = FALSE /\ overdue = 0

(* audit.record_approval_refused, record_skill_bundle_refused and          *)
(* record_patch_unit_decision.                                             *)
RecordRefused(e) == Append(trail, <<"job", e>>)
RecordDecision(decision) == Append(trail, <<Request.unit, decision>>)

(* run(): approval and skill bundle are verified before anything else; a   *)
(* refusal is audited and raised.                                          *)
StartJob(j) ==
  LET approval == ApprovalRefused(Job[j].approval)
      bundle == BundleRefused(Job[j].bundle)
      refused == IF approval # NoError THEN approval ELSE bundle
  IN /\ step = "idle" /\ job' = j
     /\ IF refused # NoError
        THEN step' = "raised" /\ trail' = RecordRefused(refused) /\ unitIndex' = 0
        ELSE /\ UNCHANGED trail
             /\ unitIndex' = 1
             /\ step' = IF Job[j].requests = <<>> THEN "done" ELSE "unit"
     /\ UNCHANGED <<workIndex, worktree, records, outcomes, error, now, cancelled, overdue>>

(* _run_one up to the worktree: a unit that was not approved or that is    *)
(* not in the contract is refused without one.                             *)
BeginUnit ==
  LET u == Request.unit IN
  /\ step = "unit"
  /\ workIndex' = 1 /\ written' = {} /\ touched' = {}
  /\ IF u \notin Job[job].approval.units
     THEN error' = "refused_not_approved" /\ step' = "deny"
     ELSE IF u \notin Units
     THEN error' = "refused_not_in_contract" /\ step' = "deny"
     ELSE CASE Request.worktree = "other_tenant" ->
                 error' = "denied_cross_tenant" /\ step' = "deny"
            [] Request.worktree = "other_base" ->
                 error' = "denied_base_commit_mismatch" /\ step' = "deny"
            [] OTHER -> UNCHANGED error /\ step' = "check_write"
  /\ UNCHANGED <<job, unitIndex, records, trail, outcomes, now, cancelled, overdue>>

(* A runner error inside the try block: roll back, then deny.              *)
Fail(e) == error' = e /\ step' = "rollback"

(* Mutant: the first write checks for all.                                 *)
CheckWriteOnce ==
  LET e == IF workIndex = 1 /\ LivenessError # NoError THEN LivenessError
           ELSE WriteRefused(Request.unit, Request.writes[workIndex])
  IN /\ step = "check_write" /\ workIndex \in DOMAIN Request.writes
     /\ IF e = NoError THEN step' = "write" /\ UNCHANGED error ELSE Fail(e)
     /\ UNCHANGED <<job, unitIndex, workIndex, worktree, records, trail, outcomes, now,
                    cancelled, overdue>>

(* Before each write: liveness, then the path.                             *)
CheckWrite ==
  LET e == IF LivenessError # NoError THEN LivenessError
           ELSE WriteRefused(Request.unit, Request.writes[workIndex])
  IN /\ step = "check_write" /\ workIndex \in DOMAIN Request.writes
     /\ IF e = NoError THEN step' = "write" /\ UNCHANGED error ELSE Fail(e)
     /\ UNCHANGED <<job, unitIndex, workIndex, worktree, records, trail, outcomes, now,
                    cancelled, overdue>>

Late == IF cancelled \/ now > Deadline THEN 1 ELSE 0

(* write_file.                                                             *)
Write ==
  /\ step = "write"
  /\ written' = written \cup {Request.writes[workIndex]}
  /\ workIndex' = workIndex + 1 /\ step' = "check_write"
  /\ overdue' = overdue + Late
  /\ UNCHANGED <<job, unitIndex, touched, records, trail, outcomes, error, now, cancelled>>

(* All writes are done: the diff is compared with the budget, once.        *)
CheckBudget ==
  /\ step = "check_write" /\ workIndex \notin DOMAIN Request.writes
  /\ workIndex' = 1
  /\ IF OverBudget(written) THEN Fail("diff_budget_exceeded")
     ELSE step' = "check_command" /\ UNCHANGED error
  /\ UNCHANGED <<job, unitIndex, worktree, records, trail, outcomes, now, cancelled, overdue>>

(* Before each command: liveness, then the guard.                          *)
CheckCommand ==
  LET e == IF LivenessError # NoError THEN LivenessError
           ELSE CommandRefused(Request.unit, Request.commands[workIndex])
  IN /\ step = "check_command" /\ workIndex \in DOMAIN Request.commands
     /\ IF e = NoError THEN step' = "command" /\ UNCHANGED error ELSE Fail(e)
     /\ UNCHANGED <<job, unitIndex, workIndex, worktree, records, trail, outcomes, now,
                    cancelled, overdue>>

(* command_executor.run: the command changes files of the worktree and     *)
(* returns; a nonzero return code is a runner error.                       *)
RunCommand ==
  /\ step = "command"
  /\ \E files \in SUBSET Command[Request.commands[workIndex]].changes :
       touched' = touched \cup files
  /\ overdue' = overdue + Late
  /\ \/ step' = "check_command" /\ workIndex' = workIndex + 1 /\ UNCHANGED error
     \/ Fail("error") /\ UNCHANGED workIndex
  /\ UNCHANGED <<job, unitIndex, written, records, trail, outcomes, now, cancelled>>

(* What commit() and rollback() leave of the changes: nothing pending.     *)
CleanWorktree == written' = {} /\ touched' = {}

(* changed_files and commit; neither liveness nor the budget is looked at  *)
(* again.                                                                  *)
Commit ==
  /\ step = "check_command" /\ workIndex \notin DOMAIN Request.commands
  /\ commits' = commits \cup {<<Request.unit, written, touched>>}
  /\ CleanWorktree
  /\ step' = "register"
  /\ UNCHANGED <<job, unitIndex, workIndex, registered, trail, outcomes, error, now,
                 cancelled, overdue>>

(* worktree.rollback().                                                    *)
Rollback ==
  /\ step = "rollback" /\ step' = "deny"
  /\ CleanWorktree
  /\ UNCHANGED <<job, unitIndex, workIndex, records, trail, outcomes, error, now, cancelled,
                 overdue>>

Conclude(decision) ==
  /\ outcomes' = Append(outcomes, <<Request.unit, decision>>)
  /\ unitIndex' = unitIndex + 1
  /\ step' = IF unitIndex = Len(Job[job].requests) THEN "done" ELSE "unit"
  /\ error' = NoError

(* _deny: the decision is audited and becomes the outcome of the unit.     *)
Deny ==
  /\ step = "deny"
  /\ trail' = RecordDecision(error)
  /\ Conclude(error)
  /\ UNCHANGED <<job, workIndex, worktree, records, now, cancelled, overdue>>

(* artifact_gateway.register.                                              *)
Register ==
  /\ step = "register" /\ step' = "audit"
  /\ registered' = registered \cup {Request.unit}
  /\ UNCHANGED <<job, unitIndex, workIndex, worktree, commits, trail, outcomes, error, now,
                 cancelled, overdue>>

(* The artifact and the event payload are built, the execution is audited. *)
AuditExecuted ==
  /\ step = "audit"
  /\ trail' = RecordDecision("executed")
  /\ Conclude("executed")
  /\ UNCHANGED <<job, workIndex, worktree, records, now, cancelled, overdue>>

(* A call raises something that is not a runner error, or any error after  *)
(* the commit: run() ends.                                                 *)
RaiseOther ==
  /\ step \notin {"idle", "done", "raised"}
  /\ step' = "raised"
  /\ UNCHANGED <<job, unitIndex, workIndex, worktree, records, trail, outcomes, error, now,
                 cancelled, overdue>>

RunnerStep ==
  \/ \E j \in Jobs : StartJob(j)
  \/ BeginUnit \/ CheckWrite \/ Write \/ CheckBudget \/ CheckCommand \/ RunCommand \/ Commit
  \/ Rollback \/ Deny \/ Register \/ AuditExecuted

(* Somebody asks for cancellation; time passes while a call runs.          *)
Cancel ==
  /\ step \notin {"idle", "done", "raised"} /\ ~cancelled /\ cancelled' = TRUE
  /\ UNCHANGED <<job, step, unitIndex, workIndex, worktree, records, trail, outcomes, error,
                 now, overdue>>
Tick ==
  /\ step \notin {"idle", "done", "raised"} /\ now < MaxClock /\ now' = now + 1
  /\ UNCHANGED <<job, step, unitIndex, workIndex, worktree, records, trail, outcomes, error,
                 cancelled, overdue>>

RunnerNext == RunnerStep \/ RaiseOther \/ Cancel \/ Tick

RunnerSpec == RunnerInit /\ [][RunnerNext]_runnerVars /\ WF_runnerVars(RunnerStep)

-----------------------------------------------------------------------------
RunnerTypeOK ==
  /\ job \in Jobs \cup {NoJob}
  /\ step \in {"idle", "unit", "check_write", "write", "check_command", "command", "register",
               "audit", "rollback", "deny", "done", "raised"}
  /\ written \subseteq Paths /\ touched \subseteq Paths
  /\ \A c \in commits : c[1] \in Units /\ c[2] \subseteq Paths /\ c[3] \subseteq Paths
  /\ now \in 0..MaxClock /\ cancelled \in BOOLEAN
  /\ error \in UnitErrors \cup WorkErrors \cup {NoError}
  /\ \A n \in DOMAIN trail : trail[n][2] \in JobErrors \cup UnitErrors \cup WorkErrors \cup {"executed"}
  /\ JobErrorOf(error).category \in KNOWN_ERROR_CATEGORIES
  /\ job # NoJob => unitIndex \in 0..(Len(Job[job].requests) + 1)

(* What the runner commits was approved: the unit by the approval of this  *)
(* job, every file it wrote by the unit's own list and by the approved     *)
(* scope, none of them protected or outside of the worktree, and all of    *)
(* them together within the diff budget.                                   *)
CommitsAreApproved ==
  \A c \in commits :
    /\ c[1] \in Job[job].approval.units \cap Units
    /\ Job[job].approval.same_contract /\ Job[job].approval.same_run
    /\ Job[job].bundle.content = "pinned"
    /\ \A p \in c[2] : /\ p \in Unit[c[1]].files /\ Path[p].in_scope
                       /\ ~Path[p].protected /\ Path[p].inside
    /\ Cardinality(c[2]) <= MaxFiles /\ ~(LinesOf(c[2]) > MaxLines)

(* Every outcome is audited exactly once, in order and with its decision,  *)
(* unless the job as a whole was refused: then the trail holds that        *)
(* refusal and nothing else, and there is no outcome.  An executed unit    *)
(* was committed and registered before.                                    *)
OutcomesAreAudited ==
  /\ \/ trail = outcomes
     \/ outcomes = <<>> /\ \E e \in JobErrors : trail = <<<<"job", e>>>>
  /\ \A n \in DOMAIN outcomes :
       outcomes[n][2] = "executed" =>
         outcomes[n][1] \in registered /\ \E c \in commits : c[1] = outcomes[n][1]

(* A unit that ends, with a refusal or a commit, leaves a clean worktree   *)
(* behind for the next one, whatever call it was refused at (_rollback,    *)
(* _commit).  What becomes of its artifact is SuccessIsComplete's matter.  *)
RefusedLeavesNothing ==
  step \in {"deny", "unit", "done"} => written = {} /\ touched = {}

(* After a cancellation or past the deadline at most the write or command  *)
(* that was already let through is carried out, however many are left.     *)
StopsPromptly == overdue <= 1

(* A job that reports success has an artifact for every unit it was asked  *)
(* for, and one that reports a failure that may be tried again was         *)
(* cancelled or late.                                                      *)
SuccessIsComplete ==
  step = "done" =>
    /\ AggregateStatus(outcomes) = "succeeded" =>
         \A n \in DOMAIN Job[job].requests : Job[job].requests[n].unit \in registered
    /\ AggregateStatus(outcomes) \in {"cancelled", "timed_out"} =>
         (cancelled \/ now > Deadline)
         /\ \E n \in DOMAIN outcomes : JobErrorOf(outcomes[n][2]).retryable

(* A job that was started ends.                                            *)
JobEnds == (step # "idle") ~> (step \in {"done", "raised"})

(* The runner commits approved changes only, leaves nothing behind a       *)
(* refusal, and makes at most one more call once the time is over.         *)
RunnerKeepsApproval ==
  /\ RunnerTypeOK
  /\ CommitsAreApproved
  /\ RefusedLeavesNothing
  /\ StopsPromptly

(* What the runner reports is what its audit trail says and what it        *)
(* stored.                                                                 *)
RunnerReportsTruth ==
  /\ OutcomesAreAudited
  /\ SuccessIsComplete
=============================================================================
