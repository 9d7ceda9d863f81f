--------------------------- MODULE TenantControl ---------------------------
(***************************************************************************)
(* tenant-control-service: tenants are created, suspended, reactivated and *)
(* terminated over HTTP.  The handlers do not await, so each is one step.  *)
(* Header and environment of a pod name the tenant it serves; the context  *)
(* of a tenant that is not active is never handed out, its record is.      *)
(***************************************************************************)
EXTENDS Naturals, FiniteSets

CONSTANT
  TenantIds        \* tenant ids in paths and bodies

(* TenantId: the slug pattern; Engine: those a request may name.           *)
WellFormedIds == TenantIds \ {"Bad_Id"}
ALLOWED_ENGINE_SCOPE == {"chatgpt-search"}
Engines == ALLOWED_ENGINE_SCOPE \cup {"gemini"}
StatusActions == {"suspend", "reactivate", "terminate"}
NoName == "none"
NoContext == [tenant_id |-> NoName, namespace |-> <<>>, engine_scope |-> {}, status |-> "none"]

ASSUME TenantAssumption == NoName \notin TenantIds

VARIABLES
  contexts,        \* the stored payload of every tenant, or none
  replied,         \* the last reply: what was asked, of whom, the status
  handedOut,       \* statuses of the tenant when its context was handed out
  endedOnce        \* tenants that were ever terminating

tenantVars == <<contexts, replied, handedOut, endedOnce>>

-----------------------------------------------------------------------------
ALLOWED_TRANSITIONS ==
  [active |-> [suspend |-> "suspended", terminate |-> "terminating"],
   suspended |-> [reactivate |-> "active", terminate |-> "terminating"],
   terminating |-> <<>>]

(* Mutant: a terminating tenant may be reactivated.                        *)
NextStatusAnywhere(status, action) ==
  IF action = "reactivate" THEN "active"
  ELSE IF action \in DOMAIN ALLOWED_TRANSITIONS[status] THEN ALLOWED_TRANSITIONS[status][action]
  ELSE "illegal"

NextStatus(status, action) ==
  IF action \in DOMAIN ALLOWED_TRANSITIONS[status] THEN ALLOWED_TRANSITIONS[status][action]
  ELSE "illegal"

(* derive_namespace: one namespace per tenant id.                          *)
DeriveNamespace(t) == <<"saena-tenant-", t>>

(* The statuses the problems of this service are reported with.            *)
ProblemStatus ==
  [schema |-> 400, namespace_supplied |-> 400, bad_id |-> 400, engine_scope |-> 403,
   mismatch |-> 403, not_active |-> 403, exists |-> 409, transition |-> 409, missing |-> 404,
   terminating |-> 500]

(* reconcile_tenant: both must be there and agree.                         *)
Reconcile(header, env) == IF header # NoName /\ header = env THEN header ELSE NoName

TenantInit ==
  /\ contexts = [t \in TenantIds |-> NoContext]
  /\ replied = <<>> /\ handedOut = {} /\ endedOnce = {}

Answered(what, t, status) ==
  /\ replied' = <<what, t, status>>
  /\ endedOnce' = endedOnce \cup {u \in TenantIds : contexts'[u] # NoContext
                                                    /\ contexts'[u].status = "terminating"}

(* create_tenant: engines, id, then the record; the namespace is derived,  *)
(* never taken from the request.                                           *)
CreateTenant(reconciled, t, engines) ==
  /\ IF reconciled = NoName
     THEN UNCHANGED contexts /\ Answered("create", t, ProblemStatus.mismatch)
     ELSE IF engines = {}
     THEN UNCHANGED contexts /\ Answered("create", t, ProblemStatus.schema)
     ELSE IF ~(engines \subseteq ALLOWED_ENGINE_SCOPE)
     THEN UNCHANGED contexts /\ Answered("create", t, ProblemStatus.engine_scope)
     ELSE IF t \notin WellFormedIds
     THEN UNCHANGED contexts /\ Answered("create", t, ProblemStatus.bad_id)
     ELSE IF contexts[t] # NoContext
     THEN UNCHANGED contexts /\ Answered("create", t, ProblemStatus.exists)
     ELSE /\ contexts' = [contexts EXCEPT ![t] =
               [tenant_id |-> t, namespace |-> DeriveNamespace(t), engine_scope |-> engines,
                status |-> "active"]]
          /\ Answered("create", t, 201)
  /\ UNCHANGED handedOut

(* What the routes with a tenant in their path refuse.                     *)
PathProblem(reconciled, t) ==
  IF reconciled = NoName \/ reconciled # t THEN ProblemStatus.mismatch
  ELSE IF t \notin WellFormedIds THEN ProblemStatus.bad_id
  ELSE IF contexts[t] = NoContext THEN ProblemStatus.missing
  ELSE 0

(* get_tenant: TenantContext refuses a suspended tenant, and a terminating *)
(* one with an error the status table does not know.                       *)
GetTenant(reconciled, t) ==
  /\ UNCHANGED contexts
  /\ IF PathProblem(reconciled, t) # 0
     THEN Answered("get", t, PathProblem(reconciled, t)) /\ UNCHANGED handedOut
     ELSE IF contexts[t].status = "terminating"
     THEN Answered("get", t, ProblemStatus.terminating) /\ UNCHANGED handedOut
     ELSE IF contexts[t].status = "suspended"
     THEN Answered("get", t, ProblemStatus.not_active) /\ UNCHANGED handedOut
     ELSE handedOut' = handedOut \cup {contexts[t].status} /\ Answered("get", t, 200)

(* get_tenant_record: without the gate.                                    *)
GetTenantRecord(reconciled, t) ==
  /\ UNCHANGED <<contexts, handedOut>>
  /\ Answered("record", t,
              IF PathProblem(reconciled, t) # 0 THEN PathProblem(reconciled, t) ELSE 200)

(* update_tenant_status: the record, the transition, the update.           *)
UpdateTenantStatus(reconciled, t, action) ==
  LET problem == PathProblem(reconciled, t)
      next == NextStatus(contexts[t].status, action)
  IN /\ IF problem # 0
        THEN UNCHANGED contexts /\ Answered("status", t, problem)
        ELSE IF next = "illegal"
        THEN UNCHANGED contexts /\ Answered("status", t, ProblemStatus.transition)
        ELSE /\ contexts' = [contexts EXCEPT ![t].status = next]
             /\ Answered("status", t, 200)
     /\ UNCHANGED handedOut

TenantNext ==
  \E header, env \in TenantIds \cup {NoName}, t \in TenantIds :
    LET reconciled == Reconcile(header, env) IN
    \/ \E engines \in SUBSET Engines : CreateTenant(reconciled, t, engines)
    \/ GetTenant(reconciled, t)
    \/ GetTenantRecord(reconciled, t)
    \/ \E action \in StatusActions : UpdateTenantStatus(reconciled, t, action)

TenantSpec == TenantInit /\ [][TenantNext]_tenantVars

-----------------------------------------------------------------------------
(* A tenant that was once terminating stays so: no sequence of creations   *)
(* and status changes brings it back.                                      *)
TerminatingIsFinal == \A t \in endedOnce : contexts[t].status = "terminating"

(* The context of a tenant was only handed out while it was active, and a  *)
(* stored tenant has its own namespace and no engine outside of v1.        *)
OnlyActiveHandedOut ==
  /\ handedOut \subseteq {"active"}
  /\ \A t \in TenantIds : contexts[t] # NoContext =>
       /\ contexts[t].namespace = DeriveNamespace(t)
       /\ contexts[t].engine_scope \subseteq ALLOWED_ENGINE_SCOPE

(* A tenant that is terminating stays so, and only active ones are handed  *)
(* out.                                                                    *)
TenantsAreGated ==
  /\ TerminatingIsFinal
  /\ OnlyActiveHandedOut
=============================================================================
