------------------------------ MODULE MCStores ------------------------------
(***************************************************************************)
(* Instances of the services that keep records: the audit ledger, the      *)
(* stores over PostgreSQL, the artifact registry and tenant control.  They *)
(* share no state here, so a behaviour exercises one of them.              *)
(***************************************************************************)
EXTENDS AuditLedger, PostgresStores, ArtifactRegistry, TenantControl

VARIABLE part

(* Two tenants and the system, equal bodies for all of them, and requests  *)
(* that are refused for one reason each.                                   *)
App(scope, tenant) ==
  [permitted |-> TRUE, scope |-> scope, tenant_id |-> tenant, action |-> "a",
   keys |-> {"plain", "source_hash"}, leaves |-> {"text"}, error_code |-> "none",
   actor |-> "id"]
MCAppendRequest ==
  [t |-> App("tenant", "t1"), u |-> App("tenant", "t2"),
   sys |-> [App("system", NoTenant) EXCEPT !.actor = "none", !.error_code = "text"],
   denied |-> [App("tenant", "t1") EXCEPT !.permitted = FALSE],
   secret |-> [App("tenant", "t1") EXCEPT !.keys = {"credential"}],
   trace |-> [App("system", NoTenant) EXCEPT !.leaves = {"text", "stack_trace"}],
   code |-> [App("tenant", "t1") EXCEPT !.error_code = "email"],
   nobody |-> [App("tenant", "t1") EXCEPT !.actor = "empty"],
   mixed |-> App("system", "t1"), lost |-> App("tenant", NoTenant)]
MCAppendLoads == {{"t"}, {"t", "u"}, {"sys", "trace", "mixed"},
                  {"t", "denied", "secret", "code", "nobody", "lost"}}

(* Transactions that meet in a row, with equal and with other values, that *)
(* pair a decision with its event, and that lock two rows in either order. *)
Do(op, tenant, key, value) == [op |-> op, tenant |-> tenant, key |-> key, value |-> value]
MCScript ==
  [tenant |-> <<Do("put_tenant", "t1", "t1", "n1")>>,
   rename |-> <<Do("put_tenant", "t1", "t1", "n2")>>,
   suspend |-> <<Do("update_status", "t1", "t1", "suspended")>>,
   plan |-> <<Do("put_plan", "t1", "h", "f")>>,
   other_plan |-> <<Do("put_plan", "t2", "h", "f")>>,
   approve |-> <<Do("record_event", "t1", "e", "v"), Do("record_decision", "t1", "h_a", "approved")>>,
   reject |-> <<Do("record_decision", "t1", "h_a", "rejected")>>,
   gate_yes |-> <<Do("record", "t1", "h_a", "approved")>>,
   gate_no |-> <<Do("record", "t1", "h_a", "rejected")>>,
   manifest |-> <<Do("put_manifest", "t1", "u_c", "m1")>>,
   manifest2 |-> <<Do("put_manifest", "t1", "u_c", "m2")>>,
   event |-> <<Do("record_event", "t1", "f", "v")>>,
   event2 |-> <<Do("record_event", "t2", "f", "w")>>,
   publish |-> <<Do("mark_published", "t1", "f", "x")>>,
   steal |-> <<Do("mark_published", "t2", "f", "x")>>,
   seen |-> <<Do("mark", "t1", "k", "seen")>>,
   ab |-> <<Do("set_state", "t1", "a", "approved"), Do("set_state", "t1", "b", "approved")>>,
   ba |-> <<Do("set_state", "t1", "b", "rejected"), Do("set_state", "t1", "a", "rejected")>>]
MCWorkloads == {{"tenant", "rename", "suspend"}, {"plan", "other_plan", "ab", "ba"},
                {"approve", "reject"}, {"gate_yes", "gate_no"}, {"manifest", "manifest2"},
                {"event", "event2", "publish", "steal", "seen"}}

(* Two tenants, one key, equal and other contents, and malformed requests. *)
Reg(caller, content) ==
  [caller |-> caller, named |-> caller, key |-> "u_c", fields |-> "f", content |-> content,
   well_formed |-> TRUE, base64 |-> TRUE, contract |-> TRUE, uris |-> TRUE]
MCRegistration ==
  [one |-> Reg("t1", "x"), two |-> Reg("t1", "y"), fields |-> [Reg("t1", "x") EXCEPT !.fields = "g"],
   foreign |-> Reg("t2", "x"), anonymous |-> Reg("none", "x"),
   posing |-> [Reg("t2", "x") EXCEPT !.named = "t1"],
   shape |-> [Reg("t1", "x") EXCEPT !.well_formed = FALSE],
   coded |-> [Reg("t1", "x") EXCEPT !.base64 = FALSE],
   broken |-> [Reg("t1", "w") EXCEPT !.contract = FALSE],
   link |-> [Reg("t1", "z") EXCEPT !.uris = FALSE]]

mcVars == <<part, ledgerVars, storesVars, registryVars, tenantVars>>
MCInit ==
  /\ part \in {"ledger", "stores", "registry", "tenants"}
  /\ IF part = "ledger" THEN LedgerInit
     ELSE LedgerInit /\ appends = {"t"}
  /\ IF part = "stores" THEN StoresInit
     ELSE StoresInit /\ workload = {"gate_yes", "gate_no"}
  /\ RegistryInit /\ TenantInit
MCNext ==
  \/ part = "ledger" /\ LedgerNext /\ UNCHANGED <<part, storesVars, registryVars, tenantVars>>
  \/ part = "stores" /\ StoresNext /\ UNCHANGED <<part, ledgerVars, registryVars, tenantVars>>
  \/ part = "registry" /\ RegistryNext /\ UNCHANGED <<part, ledgerVars, storesVars, tenantVars>>
  \/ part = "tenants" /\ TenantNext /\ UNCHANGED <<part, ledgerVars, storesVars, registryVars>>
MCSpec == MCInit /\ [][MCNext]_mcVars /\ StoresFairness
=============================================================================
