----------------------------- MODULE PolicyGate -----------------------------
(***************************************************************************)
(* policy-gate-service and its callers: HttpPolicyGateClient of the plan   *)
(* contract service, and whoever asks for the authorization of a command.  *)
(* A handler of the gate runs without a pause, but its answer may be lost, *)
(* damaged or late, the evaluation and the decision store may raise, and a *)
(* caller that was told nothing asks again.                                *)
(***************************************************************************)
EXTENDS Naturals, Sequences, FiniteSets

CONSTANTS
  Authorizes(_),   \* evaluate of engine.py, which CommandPolicy models: is the command allowed
  GateRequests,    \* names of the requests that are made
  GateRequest,     \* per request: route, header, key, approver and body
  GateCallers,
  ServedTenant,    \* SAENA_TENANT_ID of the gate's process
  MaxAsks          \* bound: how often a caller asks

(* A spelling of an actor id: case and blanks do not count.                *)
CanonicalActorId(a) == IF a \in {"Ann", "ann "} THEN "ann" ELSE a
DecisionKey(r) == <<r.header, r.hash, CanonicalActorId(r.approver)>>
GateKeys == {DecisionKey(GateRequest[r]) : r \in GateRequests}

(* What evaluate_h3_evidence_policy reads of a plan; a glob that leaves    *)
(* its root is absolute, a URI, not trimmed or has a ".." segment.         *)
PlanFacts == [evidence : BOOLEAN, globs : Seq({"relative", "absolute", "uri", "blank", "dotdot"}),
              max_globs : Nat, files : Nat, max_files : Nat, lines : Nat, max_lines : Nat,
              measured : BOOLEAN, risks : SUBSET {"low", "medium", "high"}]
ASSUME MaxAsksAssumption == MaxAsks \in Nat
ASSUME PlanFactsAssumption ==
  \A r \in GateRequests : GateRequest[r].route = "plan_check" => GateRequest[r].plan \in PlanFacts
IsGlobEscape(g) == g \in {"absolute", "uri", "blank", "dotdot"}
H3Ok(plan) ==
  /\ plan.evidence
  /\ Len(plan.globs) <= plan.max_globs
  /\ \A n \in DOMAIN plan.globs : ~IsGlobEscape(plan.globs[n])
  /\ plan.measured => plan.files <= plan.max_files /\ plan.lines <= plan.max_lines
IsHighRiskPlan(plan) == "high" \in plan.risks

(* The pydantic bodies: at least one glob and positive limits.             *)
BodyIsValid(r) ==
  r.route = "plan_check" => /\ r.plan.globs # <<>> /\ r.plan.max_globs >= 1
                            /\ r.plan.max_files >= 1 /\ r.plan.max_lines >= 1

VARIABLES
  asks,            \* what each caller asks for
  asked,           \* how often it did
  wire,            \* per caller and attempt: what is on the way, "none" if nothing
  heard,           \* what the caller made of its last attempt
  decided          \* the decision store: by tenant, contract hash and approver
gateVars == <<asks, asked, wire, heard, decided>>

Attempts == GateCallers \X (1..MaxAsks)
NoDecision == "none"
Answer == [status : {200, 403, 409, 422}, decision : {"allow", "deny", "none"},
           two_person : BOOLEAN, unavailable : BOOLEAN]
Failure(status) ==
  [status |-> status, decision |-> "none", two_person |-> FALSE, unavailable |-> FALSE]
OnTheWire == [at : {"none", "sent", "answered"}, answer : Answer]
Quiet == [at |-> "none", answer |-> Failure(422)]

GateTypeOK ==
  /\ asks \in [GateCallers -> GateRequests] /\ asked \in [GateCallers -> 0..MaxAsks]
  /\ wire \in [Attempts -> OnTheWire]
  /\ heard \in [GateCallers -> {"idle", "waiting", "unavailable", "allow", "deny"}]
  /\ decided \in [GateKeys -> {NoDecision, "approved", "rejected"}]

GateInit ==
  /\ asks \in [GateCallers -> GateRequests] /\ asked = [c \in GateCallers |-> 0]
  /\ wire = [t \in Attempts |-> Quiet] /\ heard = [c \in GateCallers |-> "idle"]
  /\ decided = [k \in GateKeys |-> NoDecision]

(* _build_plan_check_body: a request with a missing field is never sent.   *)
BuildPlanCheckBody(r) == r.route = "plan_check" => r.complete

(* plan_check up to the wait for the answer.                               *)
PlanCheck(c) ==
  LET r == GateRequest[asks[c]]  n == asked[c] + 1 IN
  /\ heard[c] \in {"idle", "unavailable"} /\ n <= MaxAsks
  /\ asked' = [asked EXCEPT ![c] = n]
  /\ IF BuildPlanCheckBody(r)
     THEN /\ wire' = [wire EXCEPT ![<<c, n>>].at = "sent"]
          /\ heard' = [heard EXCEPT ![c] = "waiting"]
     ELSE heard' = [heard EXCEPT ![c] = "unavailable"] /\ UNCHANGED wire
  /\ UNCHANGED <<asks, decided>>

(* TenantHeaderMiddleware: the header must name the tenant of the process. *)
ReconcileTenant(r) == r.header = ServedTenant

(* InMemoryDecisionRecordStore.record: the first decision stays; the same  *)
(* one again is answered with it, another one is a conflict.               *)
RecordOverwrites(key, decision) ==        \* mutant: the last decision stays
  /\ decided' = [decided EXCEPT ![key] = decision]
RecordGateDecision(key, decision) ==
  /\ decided[key] \in {NoDecision, decision}
  /\ decided' = [decided EXCEPT ![key] = decision]
Conflicts(key, decision) == decided[key] \notin {NoDecision, decision}

Reply(t, answer) == wire' = [wire EXCEPT ![t] = [at |-> "answered", answer |-> answer]]
GateResult(decision, highRisk, unavailable) ==
  [status |-> 200, decision |-> decision, two_person |-> highRisk, unavailable |-> unavailable]

(* authorize_command and check_plan: what is evaluated, and its risk.      *)
AuthorizeCommand(r) == r.route = "authorize" /\ Authorizes(r.request)
CheckPlan(r) == r.route = "plan_check" /\ H3Ok(r.plan)
HighRisk(r) == r.route = "plan_check" /\ IsHighRiskPlan(r.plan)

(* _evaluate_and_record when neither the evaluation nor the store raises.  *)
EvaluateAndRecord(t, r) ==
  LET allow == AuthorizeCommand(r) \/ CheckPlan(r)
      decision == IF allow THEN "approved" ELSE "rejected"
  IN \/ /\ RecordGateDecision(DecisionKey(r), decision)
        /\ Reply(t, GateResult(IF allow THEN "allow" ELSE "deny", HighRisk(r), FALSE))
     \/ Conflicts(DecisionKey(r), decision) /\ Reply(t, Failure(409)) /\ UNCHANGED decided

(* Its choke point: something raised, a deny is recorded if that works and *)
(* is not in conflict with an earlier decision, and a deny is answered.    *)
FailClosed(t, r) ==
  /\ \/ RecordGateDecision(DecisionKey(r), "rejected")
     \/ UNCHANGED decided
  /\ Reply(t, GateResult("deny", HighRisk(r), TRUE))

(* The routes of the gate.                                                 *)
Serve(t) ==
  LET r == GateRequest[asks[t[1]]] IN
  /\ wire[t].at = "sent"
  /\ IF ~ReconcileTenant(r) THEN Reply(t, Failure(403)) /\ UNCHANGED decided
     ELSE IF ~BodyIsValid(r) THEN Reply(t, Failure(422)) /\ UNCHANGED decided
     ELSE EvaluateAndRecord(t, r) \/ FailClosed(t, r)
  /\ UNCHANGED <<asks, asked, heard>>

(* plan_check from the answer on; it is waited for by the last attempt.    *)
Hear(t) ==
  LET a == wire[t].answer IN
  /\ wire[t].at = "answered" /\ heard[t[1]] = "waiting" /\ t[2] = asked[t[1]]
  /\ heard' = [heard EXCEPT ![t[1]] = IF a.status = 200 THEN a.decision ELSE "unavailable"]
  /\ wire' = [wire EXCEPT ![t] = Quiet]
  /\ UNCHANGED <<asks, asked, decided>>

(* No answer in time, a transport error or an answer that is not JSON; the *)
(* gate may still come to the request later.                               *)
GiveUp(c) ==
  /\ heard[c] = "waiting"
  /\ heard' = [heard EXCEPT ![c] = "unavailable"]
  /\ UNCHANGED <<asks, asked, wire, decided>>

GateNext ==
  \/ \E c \in GateCallers : PlanCheck(c) \/ GiveUp(c)
  \/ \E t \in Attempts : Serve(t) \/ Hear(t)
GateFairness == \A c \in GateCallers : WF_gateVars(GiveUp(c))
GateSpec == GateInit /\ [][GateNext]_gateVars /\ GateFairness

(* A caller acts on allow only where the gate has an approval on record    *)
(* for this contract and approver: no failure, retry, lost answer or other *)
(* spelling of the approver makes an allow out of anything else.           *)
AllowIsOnRecord ==
  \A c \in GateCallers :
    heard[c] = "allow" =>
      LET r == GateRequest[asks[c]] IN
      /\ decided[DecisionKey(r)] = "approved" /\ ReconcileTenant(r) /\ BodyIsValid(r)
      /\ AuthorizeCommand(r) \/ CheckPlan(r)

(* A decision on record is never replaced, whatever is asked later with    *)
(* the same key: a plan that has changed, or a failing evaluation.         *)
DecisionsStick ==
  [][\A k \in GateKeys : decided[k] # NoDecision => decided'[k] = decided[k]]_gateVars

(* A caller does not wait for the gate forever.                            *)
CallersGetAnAnswer == \A c \in GateCallers : heard[c] = "waiting" ~> heard[c] # "waiting"

(* A caller that heard "allow" finds the decision on record, decisions     *)
(* stay, and every caller gets an answer.                                  *)
GateHolds == [](GateTypeOK /\ AllowIsOnRecord) /\ DecisionsStick
GateIsOnRecord == GateHolds /\ CallersGetAnAnswer
=============================================================================
