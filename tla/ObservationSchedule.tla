------------------------ MODULE ObservationSchedule ------------------------
(***************************************************************************)
(* chatgpt-observer: the schedule of a measurement cell under a rate       *)
(* policy, the replay of a schedule by the approved fixture observer, and  *)
(* the sequential capture run with its budget, deadline and retries.       *)
(***************************************************************************)
EXTENDS JobKinds, Integers, Sequences, FiniteSets

CONSTANTS
  ScheduleRequests,  \* the cells, windows and policies asked for
  SECONDS_PER_DAY,   \* 86400 in the code; any length of a day will do
  Fixtures,          \* <<query cluster, locale>> pairs with an approved fixture
  CaptureBudgets,    \* per run: queries, retries and deadline that are allowed
  MaxCaptureQueries, \* bound: queries of a capture run
  MaxCaptureClock    \* bound: how far the clock of a capture run is followed

(* Policies, windows and budgets are whole numbers; validate() looks at    *)
(* their sizes.  Powers of a positive number are positive.                 *)
ASSUME ScheduleAssumption ==
  /\ SECONDS_PER_DAY \in Nat \ {0} /\ {MaxCaptureQueries, MaxCaptureClock} \subseteq Nat
  /\ \A r \in ScheduleRequests :
       /\ {r.cell.repeat_count, r.window.start, r.window.end} \subseteq Int
       /\ \A f \in {"max_per_day", "max_concurrent", "min_gap", "base", "factor", "cap", "max_retries"} :
            r.policy[f] \in Int
       /\ r.policy.factor >= 1 => \A n \in 0..r.policy.max_retries : r.policy.factor ^ n \in Nat \ {0}
  /\ \A b \in CaptureBudgets : {b.max_queries, b.max_retries, b.deadline} \subseteq Nat

(* _ARM_ROTATION.  There are three arms.                                   *)
ArmRotation == <<"baseline", "control", "treatment">>
AssignArms(total) == [i \in 1..total |-> ArmRotation[((i - 1) % Len(ArmRotation)) + 1]]
ArmCount(arms, arm) == Cardinality({i \in DOMAIN arms : arms[i] = arm})
ArmCounts(arms) == {ArmCount(arms, ArmRotation[a]) : a \in DOMAIN ArmRotation}

(* validate() of a cell, a window and a policy.                            *)
CellOk(cell) == cell.complete /\ cell.repeat_count >= 1
WindowOk(w) == w.end > w.start
PolicyOk(p) ==
  /\ \A f \in {"max_per_day", "max_concurrent", "min_gap", "base", "factor", "cap"} : p[f] >= 1
  /\ p.max_retries >= 0 /\ p.cap >= p.base /\ p.ratio_cap >= 1

CeilDiv(a, b) == -((-a) \div b)
(* Mutant: the day is divided rounding down.                               *)
SlotStrideSecondsFloor(p) ==
  LET day == SECONDS_PER_DAY \div p.max_per_day IN IF p.min_gap > day THEN p.min_gap ELSE day

SlotStrideSeconds(p) ==
  LET day == CeilDiv(SECONDS_PER_DAY, p.max_per_day) IN IF p.min_gap > day THEN p.min_gap ELSE day
BackoffStaggerFor(p, i) ==
  LET raw == p.base * p.factor ^ (i % (p.max_retries + 1)) IN IF raw < p.cap THEN raw ELSE p.cap

(* The guards, in the order build() runs them.                             *)
GuardProductionApproval(provenance, token) == provenance = "production" => token = "human-approval:x"
GuardImbalance(arms, p) ==
  LET populated == ArmCounts(arms) \ {0} IN
  \A hi, lo \in populated : hi <= p.ratio_cap * lo
GuardRateLimits(total, w, p) == total <= (w.end - w.start) \div SlotStrideSeconds(p) + 1

LayOutSlots(req, arms) ==
  [n \in DOMAIN arms |->
     LET i == n - 1 IN
     [arm |-> arms[n], provenance |-> req.provenance, slot_index |-> i,
      lane |-> i % req.policy.max_concurrent,
      at |-> req.window.start + i * SlotStrideSeconds(req.policy),
      stagger |-> BackoffStaggerFor(req.policy, i),
      query_cluster_ref |-> req.cell.query_cluster_ref, locale |-> req.cell.locale]]

(* ObservationCellSchedule.build: an error code or the slots.              *)
BuildSchedule(req) ==
  LET total == req.cell.repeat_count * Len(ArmRotation)
      arms == AssignArms(total)
      refuse(why) == [outcome |-> why, slots |-> <<>>] IN
  IF ~GuardProductionApproval(req.provenance, req.token) THEN refuse("not_approved")
  ELSE IF ~CellOk(req.cell) THEN refuse("cell_incomplete")
  ELSE IF ~WindowOk(req.window) THEN refuse("window_invalid")
  ELSE IF ~PolicyOk(req.policy) THEN refuse("policy_out_of_range")
  ELSE IF ~GuardImbalance(arms, req.policy) THEN refuse("imbalanced")
  ELSE IF ~GuardRateLimits(total, req.window, req.policy) THEN refuse("over_capacity")
  ELSE [outcome |-> "built", slots |-> LayOutSlots(req, arms)]

VARIABLES
  request, schedule,   \* what is asked for, what build() made of it
  replayed,            \* replay_schedule: the observations so far
  observe_calls,
  capture              \* the capture run
scheduleVars == <<request, schedule, replayed, observe_calls>>
captureVars == <<capture>>

Unbuilt == [outcome |-> "none", slots |-> <<>>]
Outcomes == {"none", "built", "not_approved", "cell_incomplete", "window_invalid",
             "policy_out_of_range", "imbalanced", "over_capacity"}
ScheduleInit ==
  /\ request \in ScheduleRequests /\ schedule = Unbuilt
  /\ replayed = <<>> /\ observe_calls = <<>>

Build == schedule = Unbuilt /\ schedule' = BuildSchedule(request) /\ UNCHANGED <<request, replayed, observe_calls>>

(* observe_slot, for the next slot of a fixture schedule: a slot without   *)
(* an approved fixture ends the replay, and nothing is handed out.         *)
ObserveSlot ==
  LET n == Len(observe_calls) + 1  slot == schedule.slots[n] IN
  /\ schedule.outcome = "built" /\ request.provenance = "fixture"
  /\ n <= Len(schedule.slots) /\ Len(replayed) = n - 1
  /\ observe_calls' = Append(observe_calls, slot.slot_index)
  /\ replayed' = IF <<slot.query_cluster_ref, slot.locale>> \in Fixtures
                 THEN Append(replayed, [slot_index |-> slot.slot_index, arm |-> slot.arm,
                                        provenance |-> "fixture"])
                 ELSE replayed
  /\ UNCHANGED <<request, schedule>>

-----------------------------------------------------------------------------
(* run_chatgpt_observation, with observation_budget_for's numbers.         *)
ObservationBudgetFor(kind) ==
  LET limits == DEFAULT_RESOURCE_LIMITS[kind] IN
  [max_queries |-> limits.max_artifact_mib, max_retries |-> limits.max_retries,
   deadline |-> limits.active_deadline_seconds]
ASSUME ObserverBudgetIsPositive ==
  \A f \in {"max_queries", "max_retries", "deadline"} : ObservationBudgetFor("chatgpt_observer")[f] > 0

CaptureInit ==
  \E b \in CaptureBudgets, n \in 0..MaxCaptureQueries, e \in {"chatgpt-search", "gemini"} :
    capture = [engine |-> e, budget |-> b, queries |-> n, at |-> "start", clock |-> 0, attempt |-> 0,
               status |-> "pending", observations |-> <<>>, audit |-> <<>>, begun |-> 0]

(* guard_engine_id, and only then the budget.                              *)
BeginCapture ==
  /\ capture.at = "start"
  /\ capture' = IF capture.engine # "chatgpt-search" THEN [capture EXCEPT !.at = "engine_refused"]
                ELSE IF capture.queries > capture.budget.max_queries
                THEN [capture EXCEPT !.at = "over_budget"]
                ELSE [capture EXCEPT !.at = "query", !.status = JobTransition("pending", "running")]

(* The top of the loop: the deadline is looked at before each query only.  *)
NextQuery ==
  /\ capture.at = "query"
  /\ capture' =
       IF Len(capture.observations) = capture.queries
       THEN [capture EXCEPT !.at = "done", !.status = JobTransition(@, "succeeded")]
       ELSE IF capture.clock > capture.budget.deadline
       THEN [capture EXCEPT !.at = "deadline", !.status = JobTransition(@, "failed")]
       ELSE [capture EXCEPT !.at = "capturing", !.attempt = 0, !.begun = capture.clock]

(* _capture_with_retries: one call of the source.  It answers, fails for   *)
(* the moment, or knows no such query (which nothing catches).             *)
CaptureObservation ==
  /\ capture.at = "capturing"
  /\ \/ capture' = [capture EXCEPT !.at = "query",
                                   !.observations = Append(@, [query |-> Len(@) + 1, begun |-> capture.begun]),
                                   !.audit = Append(@, Len(capture.observations) + 1)]
     \/ capture' = IF capture.attempt + 1 > capture.budget.max_retries
                   THEN [capture EXCEPT !.attempt = @ + 1, !.at = "retries_exhausted",
                                        !.status = JobTransition(@, "failed")]
                   ELSE [capture EXCEPT !.attempt = @ + 1]
     \/ capture' = [capture EXCEPT !.at = "unknown_query"]

CaptureTick ==
  /\ capture.at \in {"query", "capturing"} /\ capture.clock < MaxCaptureClock
  /\ capture' = [capture EXCEPT !.clock = @ + 1]

ScheduleNext == Build \/ ObserveSlot
CaptureNext == BeginCapture \/ NextQuery \/ CaptureObservation \/ CaptureTick

(* Schedules are built and captures run apart from each other.             *)
ScheduleSpec ==
  /\ ScheduleInit /\ CaptureInit
  /\ [][\/ ScheduleNext /\ UNCHANGED captureVars
        \/ CaptureNext /\ UNCHANGED scheduleVars]_<<scheduleVars, captureVars>>

-----------------------------------------------------------------------------
ScheduleTypeOK ==
  /\ schedule.outcome \in Outcomes /\ Len(replayed) <= Len(observe_calls)
  /\ capture.status \in JobStatus /\ capture.attempt \in 0..(capture.budget.max_retries + 1)

(* Slots keep a policy at every anchor: no sliding day holds more than     *)
(* max_per_day of them, neighbours are min_gap apart, each starts inside   *)
(* the window, and the arms have equally many.                             *)
PolicyKept(req, s) ==
  LET p == req.policy IN
  /\ \A i \in DOMAIN s :
       /\ s[i].at \in req.window.start..req.window.end
       /\ Cardinality({j \in DOMAIN s : s[j].at \in s[i].at..(s[i].at + SECONDS_PER_DAY - 1)}) <= p.max_per_day
       /\ s[i].stagger \in 1..p.cap
       /\ \A j \in DOMAIN s : i < j => /\ s[j].at - s[i].at >= p.min_gap
                                       /\ s[i].lane = s[j].lane => s[j].at - s[i].at >= p.max_concurrent * p.min_gap
  /\ \A a, b \in DOMAIN ArmRotation :
       Cardinality({i \in DOMAIN s : s[i].arm = ArmRotation[a]}) = Cardinality({i \in DOMAIN s : s[i].arm = ArmRotation[b]})

(* A built schedule keeps its policy (ObservationCellSchedule.build).      *)
ScheduleKeepsPolicy == schedule.outcome = "built" => PolicyKept(request, schedule.slots)

(* A request is refused for capacity only if its slots would not fit: the  *)
(* last one, a stride apart from each other, would start after the window  *)
(* has ended (_guard_rate_limits).                                         *)
RefusedOnlyWhenFull ==
  schedule.outcome = "over_capacity" =>
    request.window.start + (3 * request.cell.repeat_count - 1) * SlotStrideSeconds(request.policy) > request.window.end

(* A capture run stays inside its budget: it asks no other engine and no   *)
(* more queries than allowed, tries each at most max_retries + 1 times,    *)
(* begins none after its deadline, and reports success only with every     *)
(* query captured and audited in order (run_chatgpt_observation).          *)
CaptureKeepsBudget ==
  /\ capture.at \notin {"start", "engine_refused", "over_budget"} =>
       capture.engine = "chatgpt-search" /\ capture.queries <= capture.budget.max_queries
  /\ capture.attempt <= capture.budget.max_retries + 1
  /\ capture.at = "capturing" => capture.begun <= capture.budget.deadline
  /\ \A i \in DOMAIN capture.observations :
       /\ capture.observations[i].begun <= capture.budget.deadline
       /\ capture.observations[i].query = i /\ capture.audit[i] = i
  /\ capture.status = "succeeded" <=> capture.at = "done"
  /\ capture.at = "done" => Len(capture.observations) = capture.queries
  /\ capture.status = "failed" <=> capture.at \in {"deadline", "retries_exhausted"}

(* A schedule keeps its policy and is refused only when it does not fit; a *)
(* capture keeps its budget.                                               *)
ScheduleIsKept ==
  /\ ScheduleTypeOK
  /\ ScheduleKeepsPolicy
  /\ RefusedOnlyWhenFull
  /\ CaptureKeepsBudget
=============================================================================
