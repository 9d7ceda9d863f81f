---------------------------- MODULE AuditLedger ----------------------------
(***************************************************************************)
(* The audit ledger: POST /v1/audit/entries reads the tail of the chain it *)
(* appends to, builds an entry linked to it and hands it to the ledger,    *)
(* which reads the tail again and inserts the row behind it.  The four     *)
(* steps of several writers interleave; there is one chain per tenant and  *)
(* one for the system.  A hash is the tuple of what is hashed, so two      *)
(* hashes are equal only when all of it is.                                *)
(***************************************************************************)
EXTENDS Naturals, Sequences, FiniteSets

CONSTANTS
  Writers,         \* request handlers that run at the same time
  AuditTenants,    \* tenants
  AppendLoads,     \* sets of requests that arrive side by side
  AppendRequest,   \* what each of them carries
  MaxEntries,      \* bound: entries per chain
  MaxDamage        \* bound: rows damaged from outside

NoTenant == "none"
SYSTEM_SCOPE_KEY == "__system__"
GENESIS == <<>>
Appends == UNION AppendLoads
ScopeKeys == AuditTenants \cup {SYSTEM_SCOPE_KEY}

(* The guard visits every key and every leaf of a payload, so a payload is *)
(* the sets of their kinds; extra_error_key stands for a key of an error   *)
(* object that is not of the error-detail shape.  Altered stands for what  *)
(* damage makes of an action: something that was not there.                *)
KeyKinds == {"plain", "credential", "pii", "source", "source_hash", "extra_error_key"}
Altered == "altered"
LeafKinds == {"text", "stack_trace", "exception_frame", "email", "bytes"}

ASSUME LedgerAssumption ==
  /\ SYSTEM_SCOPE_KEY \notin AuditTenants /\ NoTenant \notin AuditTenants
  /\ MaxEntries \in Nat /\ MaxDamage \in Nat
  /\ AppendRequest \in
       [Appends -> [permitted : BOOLEAN, scope : {"tenant", "system"},
                    tenant_id : AuditTenants \cup {NoTenant}, action : STRING \ {Altered},
                    keys : SUBSET KeyKinds, leaves : SUBSET LeafKinds,
                    error_code : LeafKinds \cup {"none"}, actor : {"none", "id", "empty"}]]

VARIABLES
  appends,         \* the requests of this behaviour
  chains,          \* the committed rows, per scope in the order of seq
  writer,          \* per handler: its step, request, the tails it read
  answered,        \* entries a handler answered 201 for
  damage           \* positions of rows damaged from outside, per scope

ledgerVars == <<appends, chains, writer, answered, damage>>

-----------------------------------------------------------------------------
(* _guard_key: credential and PII names, and source content unless the     *)
(* name goes on behind it.                                                 *)
GuardKeys(keys) == keys \cap {"credential", "pii", "source", "extra_error_key"} = {}
(* _guard_string_value, and bytes.                                         *)
GuardLeaves(leaves) == leaves \subseteq {"text"}

GuardPayload(keys, leaves) == GuardKeys(keys) /\ GuardLeaves(leaves)

GuardActor(actor) == actor # "empty"

(* compute_entry_hash over the fields of an entry and the hash before it.  *)
EntryHash(r, prev) ==
  <<r.scope, r.tenant_id, r.action, r.keys, r.leaves, r.error_code, r.actor, prev>>

(* AuditEntry: the scope decides whether there is a tenant.                *)
ValidScope(r) == (r.scope = "tenant") <=> (r.tenant_id # NoTenant)

(* build_entry, once the guards have passed.                               *)
BuildEntry(r, prev) == [fields |-> r, prev |-> prev, hash |-> EntryHash(r, prev)]

(* InMemoryAuditLedger._chain_for, and scope_key in the table.             *)
ScopeKeyOf(r) == IF r.tenant_id = NoTenant THEN SYSTEM_SCOPE_KEY ELSE r.tenant_id
(* _resolve_scope_tenant: which chain the handler reads.                   *)
ReadScope(r) == IF r.scope = "system" THEN SYSTEM_SCOPE_KEY ELSE ScopeKeyOf(r)

TailHash(chain) == IF chain = <<>> THEN GENESIS ELSE chain[Len(chain)].hash

BrokenAt(chain, n) ==
  \/ chain[n].prev # (IF n = 1 THEN GENESIS ELSE chain[n - 1].hash)
  \/ chain[n].hash # EntryHash(chain[n].fields, chain[n].prev)

(* verify_chain: the position of the first entry that does not fit, or 0.  *)
VerifyChain(chain) ==
  LET broken == {n \in DOMAIN chain : BrokenAt(chain, n)} IN
  IF broken = {} THEN 0 ELSE CHOOSE n \in broken : \A m \in broken : n <= m

(* resolve_lineage: the entries of a scope that a reference stands for.    *)
ResolveLineage(scope, hash) == {n \in DOMAIN chains[scope] : chains[scope][n].hash = hash}

-----------------------------------------------------------------------------
IdleWriter == [step |-> "idle", request |-> "none", tail |-> GENESIS, entry |-> "none",
               seq |-> 0, result |-> "none"]

LedgerInit ==
  /\ appends \in AppendLoads
  /\ chains = [s \in ScopeKeys |-> <<>>]
  /\ writer = [w \in Writers |-> IdleWriter]
  /\ answered = {}
  /\ damage = {}

Answer(w, result) == writer' = [writer EXCEPT ![w].step = "answered", ![w].result = result]

(* append_entry up to read_range: permission, the error code, the tail.    *)
StartAppend(w, q) ==
  LET r == AppendRequest[q] IN
  /\ writer[w].step = "idle"
  /\ IF ~r.permitted
     THEN writer' = [writer EXCEPT ![w].step = "answered", ![w].request = q,
                                   ![w].result = "forbidden_rbac"]
     ELSE IF r.error_code # "none" /\ ~GuardPayload({"plain"}, {r.error_code})
     THEN writer' = [writer EXCEPT ![w].step = "answered", ![w].request = q,
                                   ![w].result = "forbidden_audit_data"]
     ELSE writer' = [writer EXCEPT ![w].step = "build", ![w].request = q,
                                   ![w].tail = TailHash(chains[ReadScope(r)])]
  /\ UNCHANGED <<chains, answered, damage>>

(* build_entry: guards before validation.                                  *)
Build(w) ==
  LET r == AppendRequest[writer[w].request] IN
  /\ writer[w].step = "build"
  /\ IF ~GuardPayload(r.keys, r.leaves) \/ ~GuardActor(r.actor)
     THEN Answer(w, "forbidden_audit_data")
     ELSE IF ~ValidScope(r)
     THEN Answer(w, "validation_error")
     ELSE writer' = [writer EXCEPT ![w].step = "tail",
                                   ![w].entry = BuildEntry(r, writer[w].tail)]
  /\ UNCHANGED <<chains, answered, damage>>

(* ledger.append: guard_payload, _tail and the two comparisons with it.    *)
ReadTail(w) ==
  LET entry == writer[w].entry
      chain == chains[ScopeKeyOf(entry.fields)]
  IN /\ writer[w].step = "tail"
     /\ IF ~GuardPayload(entry.fields.keys, entry.fields.leaves)
        THEN Answer(w, "forbidden_audit_data")
        ELSE IF \/ entry.prev # TailHash(chain)
                \/ entry.hash # EntryHash(entry.fields, entry.prev)
        THEN Answer(w, "chain_link_rejected")
        ELSE writer' = [writer EXCEPT ![w].step = "insert", ![w].seq = Len(chain) + 1]
     /\ UNCHANGED <<chains, answered, damage>>

(* Mutant: the row is put behind whatever is there now.                    *)
InsertBehind(w) ==
  LET entry == writer[w].entry
      s == ScopeKeyOf(entry.fields)
  IN /\ writer[w].step = "insert" /\ Len(chains[s]) < MaxEntries
     /\ chains' = [chains EXCEPT ![s] = Append(@, entry)]
     /\ answered' = answered \cup {entry}
     /\ Answer(w, "created")
     /\ UNCHANGED damage

(* The insert and the commit: (scope_key, seq) is the primary key, so the  *)
(* row of the writer that was second is refused.                           *)
InsertRow(w) ==
  LET entry == writer[w].entry
      s == ScopeKeyOf(entry.fields)
  IN /\ writer[w].step = "insert" /\ Len(chains[s]) < MaxEntries
     /\ IF writer[w].seq = Len(chains[s]) + 1
        THEN /\ chains' = [chains EXCEPT ![s] = Append(@, entry)]
             /\ answered' = answered \cup {entry}
             /\ Answer(w, "created")
        ELSE Answer(w, "integrity_error") /\ UNCHANGED <<chains, answered>>
     /\ UNCHANGED damage

(* The handler is free for the next request; it may also die before the    *)
(* commit.                                                                 *)
NextRequest(w) ==
  /\ writer[w].step = "answered"
  /\ writer' = [writer EXCEPT ![w] = IdleWriter]
  /\ UNCHANGED <<chains, answered, damage>>
CrashWriter(w) ==
  /\ writer[w].step \in {"build", "tail", "insert"}
  /\ writer' = [writer EXCEPT ![w] = IdleWriter]
  /\ UNCHANGED <<chains, answered, damage>>

(* Somebody with access to the database changes the contents of a row or   *)
(* removes one that has others behind it.                                  *)
Damage(s, n) ==
  /\ Cardinality(damage) < MaxDamage /\ n \in DOMAIN chains[s]
  /\ ~\E d \in damage : d[1] = s
  /\ \/ chains' = [chains EXCEPT ![s][n].fields.action = Altered]
     \/ /\ n < Len(chains[s])
        /\ chains' = [chains EXCEPT ![s] =
                        [m \in 1..(Len(chains[s]) - 1) |-> chains[s][IF m < n THEN m ELSE m + 1]]]
  /\ damage' = damage \cup {<<s, n>>}
  /\ UNCHANGED <<writer, answered>>

LedgerNext ==
  /\ \/ \E w \in Writers :
          \/ \E q \in appends : StartAppend(w, q)
          \/ Build(w) \/ ReadTail(w) \/ InsertRow(w) \/ NextRequest(w) \/ CrashWriter(w)
     \/ \E s \in ScopeKeys, n \in 1..MaxEntries : Damage(s, n)
  /\ UNCHANGED appends

LedgerSpec == LedgerInit /\ [][LedgerNext]_ledgerVars

-----------------------------------------------------------------------------
LedgerTypeOK ==
  /\ appends \in AppendLoads
  /\ \A s \in ScopeKeys : /\ Len(chains[s]) <= MaxEntries
                          /\ \A n \in DOMAIN chains[s] : (s = SYSTEM_SCOPE_KEY) <=> (chains[s][n].fields.scope = "system")
  /\ \A w \in Writers : /\ writer[w].step \in {"idle", "build", "tail", "insert", "answered"}
                        /\ writer[w].request \in Appends \cup {"none"}
  /\ \A d \in damage : d[1] \in ScopeKeys /\ d[2] \in Nat

(* Every chain that was not damaged verifies, whatever the order in which  *)
(* the writers read the tail, build on it and insert.                      *)
ChainsVerify ==
  \A s \in ScopeKeys : ~(\E d \in damage : d[1] = s) => VerifyChain(chains[s]) = 0

(* An entry that was answered with 201 is in its own chain exactly once,   *)
(* its reference resolves there, and it resolves in no other scope.        *)
AnsweredIsStoredOnce ==
  \A e \in answered, s \in ScopeKeys :
    ~(\E d \in damage : d[1] = s) =>
      Cardinality(ResolveLineage(s, e.hash)) = (IF s = ScopeKeyOf(e.fields) THEN 1 ELSE 0)

(* verify names the first damaged position of a chain, whatever the        *)
(* writers append behind it.                                               *)
DamageIsLocated == \A d \in damage : VerifyChain(chains[d[1]]) = d[2]

(* Nothing the guard forbids is stored, in payload, error code or actor.   *)
NothingForbiddenStored ==
  \A s \in ScopeKeys : \A n \in DOMAIN chains[s] :
    LET f == chains[s][n].fields IN
    /\ f.keys \subseteq {"plain", "source_hash"} /\ f.leaves \subseteq {"text"}
    /\ f.error_code \in {"none", "text"} /\ f.actor # "empty" /\ f.permitted

(* Every chain verifies and holds each answered entry once, damage is      *)
(* reported where it is, and nothing forbidden is stored.                  *)
ChainsAreTrue ==
  /\ LedgerTypeOK
  /\ ChainsVerify
  /\ AnsweredIsStoredOnce
  /\ DamageIsLocated
  /\ NothingForbiddenStored
=============================================================================
