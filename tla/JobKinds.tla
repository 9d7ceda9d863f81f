------------------------------ MODULE JobKinds ------------------------------
(***************************************************************************)
(* The job kinds of saena_domain.execution with their limits, the status   *)
(* machine every job follows, and the deadlines the execution workflow     *)
(* derives from them.                                                      *)
(***************************************************************************)
EXTENDS Naturals

ExecutionPool == {"runner", "browser"}

Profile(pool, readOnly) == [pool |-> pool, read_only |-> readOnly]
JOB_KIND_PROFILES ==
  [agent_runner |-> Profile("runner", FALSE),
   repository_intake |-> Profile("runner", TRUE),
   quality_eval |-> Profile("runner", TRUE),
   chatgpt_observer |-> Profile("browser", TRUE),
   site_discovery |-> Profile("browser", TRUE)]

JobKind == DOMAIN JOB_KIND_PROFILES

ResourceLimits(seconds, retries, mib, usd) ==
  [active_deadline_seconds |-> seconds, max_retries |-> retries,
   max_artifact_mib |-> mib, max_cost_usd |-> usd]
DEFAULT_RESOURCE_LIMITS ==
  [agent_runner |-> ResourceLimits(7200, 3, 1024, 100),
   repository_intake |-> ResourceLimits(1800, 3, 256, 10),
   quality_eval |-> ResourceLimits(3600, 2, 512, 25),
   chatgpt_observer |-> ResourceLimits(900, 3, 64, 5),
   site_discovery |-> ResourceLimits(1800, 3, 128, 5)]

RUNNER_JOB_ACTIVE_DEADLINE_SECONDS == 7200
BUFFER_SECONDS == 600
ACTIVITY_START_TO_CLOSE_TIMEOUT_SECONDS == RUNNER_JOB_ACTIVE_DEADLINE_SECONDS + BUFFER_SECONDS
HEARTBEAT_TIMEOUT_SECONDS == 30

(* validate_timeout_heartbeat_coherence, and that the two places that know *)
(* the deadline of a runner job agree; only the runner may write.          *)
ASSUME TimeoutsCohere ==
  /\ \A k \in JobKind : \A f \in DOMAIN DEFAULT_RESOURCE_LIMITS[k] : DEFAULT_RESOURCE_LIMITS[k][f] > 0
  /\ RUNNER_JOB_ACTIVE_DEADLINE_SECONDS =
       DEFAULT_RESOURCE_LIMITS["agent_runner"].active_deadline_seconds
  /\ ACTIVITY_START_TO_CLOSE_TIMEOUT_SECONDS >= RUNNER_JOB_ACTIVE_DEADLINE_SECONDS + BUFFER_SECONDS
  /\ HEARTBEAT_TIMEOUT_SECONDS < ACTIVITY_START_TO_CLOSE_TIMEOUT_SECONDS
  /\ {k \in JobKind : ~JOB_KIND_PROFILES[k].read_only} = {"agent_runner"}
  /\ \A k \in JobKind : JOB_KIND_PROFILES[k].pool \in ExecutionPool

-----------------------------------------------------------------------------
JobStatus == {"pending", "running", "succeeded", "failed", "cancelled", "timed_out"}
AllowedJobTransitions ==
  [s \in JobStatus |->
     CASE s = "pending" -> {"running", "cancelled"}
       [] s = "running" -> {"succeeded", "failed", "cancelled", "timed_out"}
       [] OTHER -> {}]
IllegalTransition == "illegal"

(* transition(): staying is no change, anything else needs an edge.        *)
JobTransition(current, target) ==
  IF target = current \/ target \in AllowedJobTransitions[current] THEN target
  ELSE IllegalTransition

(* A job's status once it has run to `terminal`.                           *)
AdvanceTo(terminal) == JobTransition(JobTransition("pending", "running"), terminal)

KNOWN_ERROR_CATEGORIES ==
  {"validation", "auth", "policy_denied", "conflict", "not_found", "rate_limited",
   "upstream_engine", "unavailable", "internal"}
=============================================================================
