---------------------------- MODULE StoresProofs ----------------------------
(***************************************************************************)
(* Proofs about the services that keep records and pass them on: a         *)
(* terminating tenant stays so (TenantControl), a registered artifact      *)
(* stays what it was and has its blob (ArtifactRegistry), the chains of    *)
(* the audit ledger verify and hold what was answered (AuditLedger), the   *)
(* tables keep what a caller was told (PostgresStores), and the outbox     *)
(* loses nothing on its way to the handlers (OutboxBus).                   *)
(***************************************************************************)
EXTENDS AuditLedger, PostgresStores, ArtifactRegistry, TenantControl, OutboxBus, FiniteSetTheorems, TLAPS

-----------------------------------------------------------------------------
(* Tenant control.                                                         *)

StoredContext(t) ==
  [tenant_id : {t}, namespace : {DeriveNamespace(t)},
   engine_scope : SUBSET ALLOWED_ENGINE_SCOPE,
   status : {"active", "suspended", "terminating"}]

(* A stored tenant has its own id and namespace; one that ever was         *)
(* terminating is stored and still is.                                     *)
TenantInv ==
  /\ DOMAIN contexts = TenantIds
  /\ contexts = [t \in TenantIds |-> contexts[t]]
  /\ \A t \in TenantIds : contexts[t] \in StoredContext(t) \cup {NoContext}
  /\ handedOut \subseteq {"active"}
  /\ endedOnce \subseteq TenantIds
  /\ \A t \in endedOnce : contexts[t] # NoContext /\ contexts[t].status = "terminating"

(* The transition table: it has no edge out of terminating and leads to    *)
(* the three statuses only.                                                *)
LEMMA TransitionTable ==
  ASSUME NEW action \in StatusActions,
         NEW status \in {"active", "suspended", "terminating"}
  PROVE  /\ NextStatus(status, action) \in {"active", "suspended", "terminating", "illegal"}
         /\ NextStatus("terminating", action) = "illegal"
BY DEF NextStatus, ALLOWED_TRANSITIONS, StatusActions

(* Answered records who is terminating now; together with a step that      *)
(* moves no terminating tenant it keeps the invariant.                     *)
LEMMA TenantAnswered ==
  ASSUME TenantInv, handedOut' \subseteq {"active"},
         NEW what, NEW u, NEW status, Answered(what, u, status),
         \/ contexts' = contexts
         \/ \E t \in TenantIds : \E c \in StoredContext(t) :
              /\ contexts' = [contexts EXCEPT ![t] = c]
              /\ contexts[t] # NoContext /\ contexts[t].status = "terminating" =>
                   c.status = "terminating"
  PROVE  TenantInv'
<1>1. endedOnce' = endedOnce \cup {t \in TenantIds : contexts'[t] # NoContext
                                                     /\ contexts'[t].status = "terminating"}
  BY DEF Answered
<1>2. CASE contexts' = contexts
  BY <1>1, <1>2 DEF TenantInv
<1>3. ASSUME NEW t \in TenantIds, NEW c \in StoredContext(t),
             contexts' = [contexts EXCEPT ![t] = c],
             contexts[t] # NoContext /\ contexts[t].status = "terminating" =>
               c.status = "terminating"
      PROVE  TenantInv'
  <2>1. c # NoContext
    BY DEF StoredContext, NoContext
  <2>2. /\ DOMAIN contexts' = TenantIds /\ contexts' = [x \in TenantIds |-> contexts'[x]]
        /\ contexts'[t] = c /\ \A x \in TenantIds \ {t} : contexts'[x] = contexts[x]
    BY <1>3 DEF TenantInv
  <2> QED BY <1>1, <1>3, <2>1, <2>2 DEF TenantInv
<1> QED BY <1>2, <1>3

LEMMA TenantStep == TenantInv /\ [TenantNext]_tenantVars => TenantInv'
<1> SUFFICES ASSUME TenantInv, [TenantNext]_tenantVars PROVE TenantInv'
  OBVIOUS
<1>1. CASE UNCHANGED tenantVars
  BY <1>1 DEF TenantInv, tenantVars
<1>2. ASSUME NEW r, NEW t \in TenantIds, NEW engines \in SUBSET Engines,
             CreateTenant(r, t, engines)
      PROVE  TenantInv'
  <2> DEFINE c == [tenant_id |-> t, namespace |-> DeriveNamespace(t),
                   engine_scope |-> engines, status |-> "active"]
  <2>1. PICK status : Answered("create", t, status)
    BY <1>2 DEF CreateTenant
  <2>2. handedOut' \subseteq {"active"}
    BY <1>2 DEF CreateTenant, TenantInv
  <2>3. \/ contexts' = contexts
        \/ /\ contexts' = [contexts EXCEPT ![t] = c] /\ contexts[t] = NoContext
           /\ engines \subseteq ALLOWED_ENGINE_SCOPE
    BY <1>2 DEF CreateTenant
  <2>4. engines \subseteq ALLOWED_ENGINE_SCOPE => c \in StoredContext(t)
    BY DEF StoredContext
  <2> HIDE DEF c
  <2> QED BY <2>1, <2>2, <2>3, <2>4, TenantAnswered
<1>3. ASSUME NEW r, NEW t \in TenantIds, GetTenant(r, t) PROVE TenantInv'
  <2>1. PICK status : Answered("get", t, status)
    BY <1>3 DEF GetTenant
  <2>2. handedOut' \subseteq {"active"}
    <3>1. PathProblem(r, t) = 0 => contexts[t] # NoContext
      BY DEF PathProblem, ProblemStatus
    <3> QED BY <3>1, <1>3 DEF GetTenant, TenantInv, StoredContext
  <2> QED BY <2>1, <2>2, <1>3, TenantAnswered DEF GetTenant
<1>4. ASSUME NEW r, NEW t \in TenantIds, GetTenantRecord(r, t) PROVE TenantInv'
  <2>1. handedOut' \subseteq {"active"}
    BY <1>4 DEF GetTenantRecord, TenantInv
  <2> QED BY <2>1, <1>4, TenantAnswered DEF GetTenantRecord
<1>5. ASSUME NEW r, NEW t \in TenantIds, NEW action \in StatusActions,
             UpdateTenantStatus(r, t, action)
      PROVE  TenantInv'
  <2> DEFINE next == NextStatus(contexts[t].status, action)
             c == [contexts[t] EXCEPT !.status = next]
  <2>1. PICK status : Answered("status", t, status)
    BY <1>5 DEF UpdateTenantStatus
  <2>2. handedOut' \subseteq {"active"}
    BY <1>5 DEF UpdateTenantStatus, TenantInv
  <2>3. \/ contexts' = contexts
        \/ /\ PathProblem(r, t) = 0 /\ next # "illegal"
           /\ contexts' = [contexts EXCEPT ![t] = c]
    BY <1>5 DEF UpdateTenantStatus
  <2>4. PathProblem(r, t) = 0 => contexts[t] # NoContext
    BY DEF PathProblem, ProblemStatus
  <2>5. ASSUME PathProblem(r, t) = 0, next # "illegal"
        PROVE  c \in StoredContext(t) /\ contexts[t].status # "terminating"
    <3>1. contexts[t] \in StoredContext(t)
      BY <2>4, <2>5 DEF TenantInv
    <3>2. contexts[t].status \in {"active", "suspended", "terminating"}
      BY <3>1 DEF StoredContext
    <3>3. /\ next \in {"active", "suspended", "terminating"}
          /\ contexts[t].status # "terminating"
      BY <3>2, <2>5, TransitionTable
    <3> HIDE DEF next
    <3> QED BY <3>1, <3>3 DEF StoredContext
  <2> HIDE DEF next, c
  <2> QED BY <2>1, <2>2, <2>3, <2>5, TenantAnswered
<1> QED BY <1>1, <1>2, <1>3, <1>4, <1>5 DEF TenantNext

(* A tenant that was ever terminating stays so, contexts are handed out of *)
(* active tenants only, and a tenant has its own namespace: for every set  *)
(* of tenants and every sequence of requests.                              *)
THEOREM TenantsAreAlwaysGated == TenantSpec => []TenantsAreGated
<1>1. TenantInit => TenantInv
  BY DEF TenantInit, TenantInv
<1>2. TenantInv => TenantsAreGated
  BY DEF TenantInv, TenantsAreGated, TerminatingIsFinal, OnlyActiveHandedOut, StoredContext
<1> QED BY <1>1, <1>2, TenantStep, PTL DEF TenantSpec

-----------------------------------------------------------------------------
(* The artifact registry.                                                  *)

Requested == Registration[handling.request]

(* The handler works on a request; past put_blob its blob is stored.       *)
HandlingInv ==
  /\ handling = [request |-> handling.request, step |-> handling.step,
                 existed |-> handling.existed]
  /\ handling.step # "idle" => handling.request \in Registrations
  /\ handling.step \in {"check", "put"} => <<Requested.caller, Requested.content>> \in blobs

(* One manifest per key, whoever asks; what was accepted or served is one. *)
ManifestInv ==
  /\ \A l, m \in manifests : l.key = m.key => l = m
  /\ accepted \subseteq Registrations
  /\ \A q \in accepted : ManifestFor(Registration[q]) \in manifests
  /\ \A s \in served : \E m \in manifests : m.tenant = s[1] /\ m.key = s[2] /\ m.content = s[3]

RegistryInv == HandlingInv /\ ManifestInv /\ ManifestHasBlob

LEMMA RegistryStep == RegistryInv /\ [RegistryNext]_registryVars => RegistryInv'
<1> SUFFICES ASSUME RegistryInv, [RegistryNext]_registryVars PROVE RegistryInv'
  OBVIOUS
<1> USE DEF RegistryInv
<1>1. CASE UNCHANGED registryVars
  BY <1>1 DEF registryVars, HandlingInv, ManifestInv, ManifestHasBlob, Requested
<1>2. ASSUME NEW q \in Registrations, Receive(q) PROVE RegistryInv'
  <2>1. /\ accepted' = accepted /\ UNCHANGED <<blobs, manifests, served>>
        /\ \/ handling' = NoHandling
           \/ handling' = [request |-> q, step |-> "put_blob", existed |-> FALSE]
    BY <1>2 DEF Receive, Reply, StatusOfError, answers
  <2>2. HandlingInv'
    BY <2>1 DEF HandlingInv, NoHandling
  <2> QED BY <2>1, <2>2 DEF ManifestInv, ManifestHasBlob
<1>3. CASE PutBlob
  <2>1. /\ handling.step = "put_blob"
        /\ accepted' = accepted /\ UNCHANGED <<manifests, served>>
        /\ \/ /\ blobs' = blobs \cup {<<Requested.caller, Requested.content>>}
              /\ handling' = [handling EXCEPT !.step = "check"]
           \/ blobs' = blobs /\ handling' = NoHandling
    BY <1>3 DEF PutBlob, Reply, StatusOfError, answers, Requested
  <2>2. HandlingInv'
    BY <2>1 DEF HandlingInv, NoHandling, Requested
  <2> QED BY <2>1, <2>2 DEF ManifestInv, ManifestHasBlob
<1>4. CASE CheckManifest
  <2> DEFINE existed == ManifestsOf(Requested.caller, Requested.key) # {}
  <2>1. /\ handling.step = "check"
        /\ accepted' = accepted /\ UNCHANGED <<blobs, manifests, served>>
        /\ \/ handling' = [handling EXCEPT !.step = "put", !.existed = existed]
           \/ handling' = NoHandling
    BY <1>4 DEF CheckManifest, Reply, StatusOfError, answers, Requested
  <2> HIDE DEF existed
  <2>2. HandlingInv'
    <3>1. CASE handling' = NoHandling
      BY <3>1 DEF HandlingInv, NoHandling
    <3>2. CASE handling' = [handling EXCEPT !.step = "put", !.existed = existed]
      <4>1. handling' = [request |-> handling.request, step |-> "put", existed |-> existed]
        BY <3>2 DEF HandlingInv
      <4> QED BY <4>1, <2>1 DEF HandlingInv, Requested
    <3> QED BY <2>1, <3>1, <3>2
  <2> QED BY <2>1, <2>2 DEF ManifestInv, ManifestHasBlob
<1>5. CASE PutManifest
  <2> DEFINE M == ManifestFor(Requested)
  <2>1. /\ handling.step = "put" /\ handling' = NoHandling /\ UNCHANGED <<blobs, served>>
        /\ \/ manifests' = manifests /\ accepted' = accepted
           \/ /\ manifests' = manifests \cup {M} /\ accepted' = accepted \cup {handling.request}
              /\ ~Foreign(Requested.caller, Requested.key)
              /\ ManifestsOf(Requested.caller, Requested.key) \in {{}, {M}}
    BY <1>5 DEF PutManifest, Reply, StatusOfError, Requested
  <2>2. M.tenant = Requested.caller /\ M.key = Requested.key /\ M.content = Requested.content
    BY DEF ManifestFor
  <2>3. HandlingInv'
    BY <2>1 DEF HandlingInv, NoHandling
  <2>4. CASE manifests' = manifests /\ accepted' = accepted
    BY <2>1, <2>3, <2>4 DEF ManifestInv, ManifestHasBlob
  <2>5. CASE /\ manifests' = manifests \cup {M} /\ accepted' = accepted \cup {handling.request}
             /\ ~Foreign(Requested.caller, Requested.key)
             /\ ManifestsOf(Requested.caller, Requested.key) \in {{}, {M}}
    <3>1. \A m \in manifests : m.key = M.key => m = M
      BY <2>2, <2>5 DEF Foreign, ManifestsOf
    <3>2. handling.request \in Registrations /\ <<M.tenant, M.content>> \in blobs
      BY <2>1, <2>2 DEF HandlingInv
    <3>3. M = ManifestFor(Registration[handling.request])
      BY DEF Requested
    <3> HIDE DEF M
    <3>4. ManifestInv'
      BY <2>1, <2>5, <3>1, <3>2, <3>3 DEF ManifestInv
    <3> QED BY <2>1, <2>3, <2>5, <3>2, <3>4 DEF ManifestHasBlob
  <2> QED BY <2>1, <2>4, <2>5
<1>6. ASSUME NEW t \in RegistryTenants, NEW k \in ArtifactKeys, GetBlob(t, k)
      PROVE  RegistryInv'
  BY <1>6 DEF GetBlob, answers, ManifestsOf, HandlingInv, ManifestInv, ManifestHasBlob, Requested
<1>7. CASE DropRequest
  BY <1>7 DEF DropRequest, answers, NoHandling, HandlingInv, ManifestInv, ManifestHasBlob
<1> QED BY <1>1, <1>2, <1>3, <1>4, <1>5, <1>6, <1>7 DEF RegistryNext

(* A manifest has its blob, an accepted registration stays what is stored  *)
(* under its key, a tenant is served its own content and a key belongs to  *)
(* one tenant: for every set of requests, failures and repeats.            *)
THEOREM RegistryIsAlwaysTrue == RegistrySpec => []RegistryIsTrue
<1>1. RegistryInit => RegistryInv
  BY DEF RegistryInit, RegistryInv, HandlingInv, ManifestInv, ManifestHasBlob, NoHandling
<1>2. RegistryInv => RegistryIsTrue
  <2> SUFFICES ASSUME RegistryInv PROVE RegisteredSticks /\ ServedIsOwn
    BY DEF RegistryInv, RegistryIsTrue
  <2>1. RegisteredSticks
    <3> SUFFICES ASSUME NEW q \in accepted
                 PROVE  ManifestsOf(Registration[q].caller, Registration[q].key)
                          = {ManifestFor(Registration[q])}
      BY DEF RegisteredSticks
    <3> DEFINE M == ManifestFor(Registration[q])
    <3>1. M.tenant = Registration[q].caller /\ M.key = Registration[q].key
      BY DEF ManifestFor
    <3>2. M \in manifests /\ \A m \in manifests : m.key = M.key => m = M
      BY DEF RegistryInv, ManifestInv
    <3> HIDE DEF M
    <3> QED BY <3>1, <3>2 DEF ManifestsOf, M
  <2>2. ServedIsOwn
    BY DEF RegistryInv, ManifestInv, ServedIsOwn, ManifestsOf
  <2> QED BY <2>1, <2>2
<1> QED BY <1>1, <1>2, RegistryStep, PTL DEF RegistrySpec

-----------------------------------------------------------------------------
(* The audit ledger.                                                       *)

(* What a row may hold: a request, or one whose action was altered.        *)
Fields ==
  [permitted : BOOLEAN, scope : {"tenant", "system"}, tenant_id : AuditTenants \cup {NoTenant},
   action : STRING \cup {Altered}, keys : SUBSET KeyKinds, leaves : SUBSET LeafKinds,
   error_code : LeafKinds \cup {"none"}, actor : {"none", "id", "empty"}]

(* What passed the guards of append_entry, of build_entry, or both.        *)
Admitted(f) == f.permitted /\ f.error_code \in {"none", "text"}
Guarded(f) == GuardPayload(f.keys, f.leaves) /\ GuardActor(f.actor) /\ ValidScope(f)

IsDamaged(s) == \E d \in damage : d[1] = s
IsChain(c) == c \in Seq({c[n] : n \in DOMAIN c})

(* Every row is an entry of its own chain that passed the guards.          *)
RowOK(s, e) ==
  /\ DOMAIN e = {"fields", "prev", "hash"}
  /\ e.fields \in Fields /\ Admitted(e.fields) /\ Guarded(e.fields)
  /\ ScopeKeyOf(e.fields) = s
RowInv ==
  \A s \in ScopeKeys :
    /\ IsChain(chains[s]) /\ Len(chains[s]) <= MaxEntries
    /\ \A n \in 1..Len(chains[s]) : RowOK(s, chains[s][n])

(* A chain that was not damaged is linked, and no two hashes in it are     *)
(* equal.                                                                  *)
Linked(c) ==
  /\ \A n \in 1..Len(c) : ~BrokenAt(c, n)
  /\ \A n \in 1..Len(c) : c[n].fields.action # Altered
  /\ \A m, n \in 1..Len(c) : c[m].hash = c[n].hash => m = n
LinkInv == \A s \in ScopeKeys : ~IsDamaged(s) => Linked(chains[s])

(* In a damaged chain, the damaged position is the first that is broken.   *)
DamageInv ==
  \A d \in damage :
    /\ d[1] \in ScopeKeys /\ d[2] \in 1..Len(chains[d[1]])
    /\ BrokenAt(chains[d[1]], d[2])
    /\ \A m \in 1..(d[2] - 1) : ~BrokenAt(chains[d[1]], m)

(* A handler's entry is its request linked to some tail; when the insert   *)
(* finds its position still free, that tail is the one the chain has.      *)
WriterOK(x) ==
  /\ DOMAIN x = {"step", "request", "tail", "entry", "seq", "result"}
  /\ x.step \in {"idle", "build", "tail", "insert", "answered"}
  /\ x.request \in Appends \cup {"none"}
  /\ x.step \in {"build", "tail", "insert"} =>
       x.request \in Appends /\ Admitted(AppendRequest[x.request])
  /\ x.step \in {"tail", "insert"} =>
       /\ Guarded(AppendRequest[x.request])
       /\ x.entry = BuildEntry(AppendRequest[x.request], x.entry.prev)
  /\ x.step = "insert" =>
       LET s == ScopeKeyOf(x.entry.fields) IN
       /\ x.seq \in Nat
       /\ ~IsDamaged(s) =>
            /\ x.seq <= Len(chains[s]) + 1
            /\ x.seq = Len(chains[s]) + 1 => x.entry.prev = TailHash(chains[s])
WriterInv == \A w \in Writers : WriterOK(writer[w])

(* An answered entry is in its chain, unless that was damaged since.       *)
AnsweredInv ==
  \A e \in answered :
    /\ e.fields \in Fields /\ ScopeKeyOf(e.fields) \in ScopeKeys /\ Guarded(e.fields)
    /\ e.hash = EntryHash(e.fields, e.prev)
    /\ ~IsDamaged(ScopeKeyOf(e.fields)) =>
         \E n \in 1..Len(chains[ScopeKeyOf(e.fields)]) : chains[ScopeKeyOf(e.fields)][n] = e

LedgerInv ==
  /\ appends \in AppendLoads
  /\ DOMAIN chains = ScopeKeys /\ DOMAIN writer = Writers
  /\ RowInv /\ LinkInv /\ DamageInv /\ WriterInv /\ AnsweredInv

-----------------------------------------------------------------------------
(* Facts about chains and hashes.                                          *)

LEMMA ChainType ==
  ASSUME NEW c, IsChain(c)
  PROVE  Len(c) \in Nat /\ DOMAIN c = 1..Len(c)
BY DEF IsChain

LEMMA AppendChain ==
  ASSUME NEW c, IsChain(c), NEW e
  PROVE  /\ IsChain(Append(c, e)) /\ Len(Append(c, e)) = Len(c) + 1
         /\ Append(c, e)[Len(c) + 1] = e
         /\ \A n \in 1..Len(c) : Append(c, e)[n] = c[n]
<1> DEFINE T == {c[n] : n \in DOMAIN c} \cup {e}
           a == Append(c, e)
<1>1. c \in Seq(T) /\ e \in T
  BY DEF IsChain
<1>2. /\ a \in Seq(T) /\ Len(a) = Len(c) + 1 /\ a[Len(c) + 1] = e
      /\ \A n \in 1..Len(c) : a[n] = c[n]
  BY <1>1
<1>3. IsChain(a)
  BY <1>2 DEF IsChain
<1> QED BY <1>2, <1>3

LEMMA FunctionChain ==
  ASSUME NEW k \in Nat, NEW b, b = [m \in 1..k |-> b[m]]
  PROVE  IsChain(b) /\ Len(b) = k
<1> DEFINE T == {b[m] : m \in 1..k}
<1>1. b \in [1..k -> T]
  OBVIOUS
<1>2. b \in Seq(T) /\ Len(b) = k
  BY <1>1
<1> QED BY <1>2 DEF IsChain

(* A hash determines what is hashed, and none is the genesis value.        *)
LEMMA HashMeans ==
  ASSUME NEW f, NEW p, NEW g, NEW q
  PROVE  /\ EntryHash(f, p) # GENESIS
         /\ EntryHash(f, p) = EntryHash(g, q) =>
              /\ p = q /\ f.action = g.action
              /\ f.scope = g.scope /\ f.tenant_id = g.tenant_id
BY DEF EntryHash, GENESIS

(* Whether a row is broken depends on it and the one before.               *)
LEMMA BrokenIsLocal ==
  ASSUME NEW c, NEW b, NEW k \in Nat, NEW n \in 1..k, \A m \in 1..k : b[m] = c[m]
  PROVE  BrokenAt(b, n) <=> BrokenAt(c, n)
<1>1. b[n] = c[n] /\ (n # 1 => n - 1 \in 1..k /\ b[n - 1] = c[n - 1])
  OBVIOUS
<1> QED BY <1>1 DEF BrokenAt

(* verify_chain returns the first broken position.                         *)
LEMMA VerifyFindsFirst ==
  ASSUME NEW c, IsChain(c)
  PROVE  /\ (\A n \in 1..Len(c) : ~BrokenAt(c, n)) => VerifyChain(c) = 0
         /\ \A n \in 1..Len(c) :
              BrokenAt(c, n) /\ (\A m \in 1..(n - 1) : ~BrokenAt(c, m)) => VerifyChain(c) = n
<1> DEFINE broken == {n \in DOMAIN c : BrokenAt(c, n)}
<1>0. Len(c) \in Nat /\ DOMAIN c = 1..Len(c)
  BY ChainType
<1>1. (\A n \in 1..Len(c) : ~BrokenAt(c, n)) => broken = {}
  BY <1>0
<1>2. ASSUME NEW n \in 1..Len(c), BrokenAt(c, n), \A m \in 1..(n - 1) : ~BrokenAt(c, m)
      PROVE  VerifyChain(c) = n
  <2>1. n \in broken /\ broken # {}
    BY <1>0, <1>2
  <2>2. \A m \in broken : m \in Nat /\ n <= m
    BY <1>0, <1>2
  <2> DEFINE k == CHOOSE k \in broken : \A m \in broken : k <= m
  <2>3. VerifyChain(c) = k
    BY <2>1 DEF VerifyChain
  <2> HIDE DEF broken
  <2>4. k \in broken /\ \A m \in broken : k <= m
    BY <2>1, <2>2
  <2> HIDE DEF k
  <2>5. k = n
    BY <2>1, <2>2, <2>4
  <2> QED BY <2>3, <2>5
<1> QED BY <1>1, <1>2 DEF VerifyChain

LEMMA RequestFields ==
  ASSUME NEW q \in Appends
  PROVE  AppendRequest[q] \in Fields /\ AppendRequest[q].action # Altered
BY LedgerAssumption DEF Fields

LEMMA ScopeOfFields ==
  ASSUME NEW f \in Fields
  PROVE  ScopeKeyOf(f) \in ScopeKeys
BY DEF Fields, ScopeKeyOf, ScopeKeys

(* A guarded row lies in the system chain exactly when it says so.         *)
LEMMA ScopeMatches ==
  ASSUME NEW f \in Fields, Guarded(f)
  PROVE  (ScopeKeyOf(f) = SYSTEM_SCOPE_KEY) <=> (f.scope = "system")
BY LedgerAssumption DEF Fields, Guarded, ValidScope, ScopeKeyOf

LEMMA LedgerInitIsGood == LedgerInit => LedgerInv
<1> SUFFICES ASSUME LedgerInit PROVE LedgerInv
  OBVIOUS
<1>1. \A s \in ScopeKeys : chains[s] = <<>> /\ Len(chains[s]) = 0 /\ IsChain(chains[s])
  BY DEF LedgerInit, IsChain
<1>2. RowInv
  BY <1>1, LedgerAssumption DEF RowInv
<1>3. LinkInv /\ DamageInv /\ AnsweredInv
  BY <1>1 DEF LedgerInit, LinkInv, Linked, DamageInv, AnsweredInv
<1>4. WriterInv
  BY DEF LedgerInit, WriterInv, WriterOK, IdleWriter
<1> QED BY <1>2, <1>3, <1>4 DEF LedgerInit, LedgerInv

-----------------------------------------------------------------------------
(* The steps of a handler before the insert, and after it.                 *)

LEMMA WriterMoves ==
  ASSUME LedgerInv, NEW w \in Writers, WriterOK(writer'[w]),
         DOMAIN writer' = Writers, \A v \in Writers \ {w} : writer'[v] = writer[v],
         UNCHANGED <<appends, chains, answered, damage>>
  PROVE  LedgerInv'
<1> USE DEF LedgerInv
<1>1. RowInv' /\ LinkInv' /\ DamageInv' /\ AnsweredInv'
  BY DEF RowInv, LinkInv, DamageInv, AnsweredInv, IsDamaged
<1>2. WriterInv'
  <2> SUFFICES ASSUME NEW v \in Writers PROVE WriterOK(writer[v])'
    BY DEF WriterInv
  <2>1. WriterOK(writer'[v])
    BY DEF WriterInv
  <2> QED BY <2>1 DEF WriterOK, IsDamaged
<1> QED BY <1>1, <1>2

(* An answer leaves the ledger alone.                                      *)
LEMMA WriterAnswers ==
  ASSUME LedgerInv, NEW w \in Writers, NEW q \in Appends \cup {"none"}, NEW result,
         \/ writer' = [writer EXCEPT ![w].step = "answered", ![w].request = q,
                                     ![w].result = result]
         \/ Answer(w, result)
         \/ writer' = [writer EXCEPT ![w] = IdleWriter],
         UNCHANGED <<appends, chains, answered, damage>>
  PROVE  LedgerInv'
<1>1. /\ DOMAIN writer' = Writers /\ \A v \in Writers \ {w} : writer'[v] = writer[v]
      /\ DOMAIN writer'[w] = {"step", "request", "tail", "entry", "seq", "result"}
      /\ writer'[w].step \in {"answered", "idle"}
      /\ writer'[w].request \in Appends \cup {"none"}
  BY DEF Answer, IdleWriter, LedgerInv, WriterInv, WriterOK
<1>2. WriterOK(writer'[w])
  BY <1>1 DEF WriterOK
<1> QED BY <1>1, <1>2, WriterMoves

LEMMA StartAppendStep ==
  ASSUME LedgerInv, NEW w \in Writers, NEW q \in appends, StartAppend(w, q), UNCHANGED appends
  PROVE  LedgerInv'
<1> DEFINE r == AppendRequest[q]
           tail == TailHash(chains[ReadScope(r)])
<1>0. q \in Appends /\ UNCHANGED <<chains, answered, damage>>
  BY DEF LedgerInv, Appends, StartAppend
<1>1. CASE \E result : writer' = [writer EXCEPT ![w].step = "answered", ![w].request = q,
                                                ![w].result = result]
  BY <1>0, <1>1, WriterAnswers
<1>2. CASE /\ r.permitted /\ (r.error_code = "none" \/ GuardPayload({"plain"}, {r.error_code}))
           /\ writer' = [writer EXCEPT ![w].step = "build", ![w].request = q, ![w].tail = tail]
  <2>1. Admitted(r)
    BY <1>2 DEF Admitted, GuardPayload, GuardLeaves
  <2> HIDE DEF tail
  <2>2. /\ DOMAIN writer' = Writers /\ \A v \in Writers \ {w} : writer'[v] = writer[v]
        /\ DOMAIN writer'[w] = {"step", "request", "tail", "entry", "seq", "result"}
        /\ writer'[w].step = "build" /\ writer'[w].request = q
    BY <1>2 DEF LedgerInv, WriterInv, WriterOK
  <2>3. WriterOK(writer'[w])
    BY <2>1, <2>2, <1>0 DEF WriterOK
  <2> QED BY <2>2, <2>3, <1>0, WriterMoves
<1>3. QED BY <1>1, <1>2 DEF StartAppend

LEMMA BuildStep ==
  ASSUME LedgerInv, NEW w \in Writers, Build(w), UNCHANGED appends
  PROVE  LedgerInv'
<1> DEFINE r == AppendRequest[writer[w].request]
           entry == BuildEntry(r, writer[w].tail)
<1>0. /\ writer[w].step = "build" /\ writer[w].request \in Appends /\ Admitted(r)
      /\ DOMAIN writer = Writers
      /\ DOMAIN writer[w] = {"step", "request", "tail", "entry", "seq", "result"}
      /\ UNCHANGED <<chains, answered, damage>>
  BY DEF Build, LedgerInv, WriterInv, WriterOK
<1>1. CASE \E result : Answer(w, result)
  BY <1>0, <1>1, WriterAnswers
<1>2. CASE /\ Guarded(r)
           /\ writer' = [writer EXCEPT ![w].step = "tail", ![w].entry = entry]
  <2>1. entry = BuildEntry(r, entry.prev)
    BY DEF BuildEntry
  <2> HIDE DEF entry
  <2>2. /\ DOMAIN writer' = Writers /\ \A v \in Writers \ {w} : writer'[v] = writer[v]
        /\ DOMAIN writer'[w] = {"step", "request", "tail", "entry", "seq", "result"}
        /\ writer'[w].step = "tail" /\ writer'[w].request = writer[w].request
        /\ writer'[w].entry = entry
    BY <1>0, <1>2
  <2>3. WriterOK(writer'[w])
    BY <2>1, <2>2, <1>0, <1>2 DEF WriterOK
  <2> QED BY <2>2, <2>3, <1>0, WriterMoves
<1> QED BY <1>1, <1>2 DEF Build, Guarded

LEMMA ReadTailStep ==
  ASSUME LedgerInv, NEW w \in Writers, ReadTail(w), UNCHANGED appends
  PROVE  LedgerInv'
<1> DEFINE x == writer[w]
           s == ScopeKeyOf(x.entry.fields)
<1>0. /\ x.step = "tail" /\ WriterOK(x) /\ x.request \in Appends
      /\ DOMAIN writer = Writers
      /\ UNCHANGED <<chains, answered, damage>>
  BY DEF ReadTail, LedgerInv, WriterInv, WriterOK
<1>1. CASE \E result : Answer(w, result)
  BY <1>0, <1>1, WriterAnswers
<1>2. CASE /\ x.entry.prev = TailHash(chains[s])
           /\ writer' = [writer EXCEPT ![w].step = "insert", ![w].seq = Len(chains[s]) + 1]
  <2>1. x.entry.fields = AppendRequest[x.request] /\ s \in ScopeKeys
    BY <1>0, RequestFields, ScopeOfFields DEF WriterOK, BuildEntry
  <2>2. Len(chains[s]) \in Nat
    BY <2>1, ChainType DEF LedgerInv, RowInv
  <2> HIDE DEF s
  <2>3. /\ DOMAIN writer' = Writers /\ \A v \in Writers \ {w} : writer'[v] = writer[v]
        /\ DOMAIN writer'[w] = {"step", "request", "tail", "entry", "seq", "result"}
        /\ writer'[w].step = "insert" /\ writer'[w].request = x.request
        /\ writer'[w].entry = x.entry /\ writer'[w].seq = Len(chains[s]) + 1
    BY <1>0, <1>2 DEF WriterOK
  <2>4. WriterOK(writer'[w])
    BY <2>2, <2>3, <1>0, <1>2 DEF WriterOK, s
  <2> QED BY <2>3, <2>4, <1>0, WriterMoves
<1> QED BY <1>1, <1>2 DEF ReadTail

LEMMA RestartStep ==
  ASSUME LedgerInv, NEW w \in Writers, NextRequest(w) \/ CrashWriter(w), UNCHANGED appends
  PROVE  LedgerInv'
BY WriterAnswers DEF NextRequest, CrashWriter

-----------------------------------------------------------------------------
(* The insert.                                                             *)

(* An entry that is linked to the tail of a linked chain makes a longer    *)
(* linked chain: were its hash in it already, the row before that one      *)
(* would have the hash of the tail.                                        *)
LEMMA AppendLinked ==
  ASSUME NEW c, IsChain(c), Linked(c),
         NEW e, e.prev = TailHash(c), e.hash = EntryHash(e.fields, e.prev),
         e.fields.action # Altered
  PROVE  Linked(Append(c, e))
<1> DEFINE a == Append(c, e)
           k == Len(c)
<1>0. k \in Nat /\ DOMAIN c = 1..k /\ (c = <<>> <=> k = 0)
  BY ChainType DEF IsChain
<1>1. Len(a) = k + 1 /\ a[k + 1] = e /\ \A n \in 1..k : a[n] = c[n]
  BY AppendChain
<1> HIDE DEF a, k
<1>2. TailHash(c) = IF k = 0 THEN GENESIS ELSE c[k].hash
  BY <1>0 DEF TailHash, k
<1>3. ~BrokenAt(a, k + 1)
  <2>1. (k + 1 = 1 <=> k = 0) /\ (k # 0 => k \in 1..k /\ k + 1 - 1 = k)
    BY <1>0
  <2> QED BY <2>1, <1>1, <1>2 DEF BrokenAt
<1>4. \A n \in 1..k : ~BrokenAt(a, n)
  BY <1>0, <1>1, BrokenIsLocal DEF Linked, k
<1>5. ASSUME NEW m \in 1..k PROVE c[m].hash # e.hash
  <2>1. /\ c[m].hash = EntryHash(c[m].fields, c[m].prev)
        /\ c[m].prev = (IF m = 1 THEN GENESIS ELSE c[m - 1].hash)
        /\ c[k].hash = EntryHash(c[k].fields, c[k].prev) /\ k # 0
    <3>1. k \in 1..k /\ k # 0
      BY <1>0
    <3> QED BY <3>1 DEF Linked, BrokenAt, k
  <2>2. SUFFICES ASSUME c[m].hash = e.hash PROVE FALSE
    OBVIOUS
  <2>3. c[m].prev = c[k].hash
    BY <2>1, <2>2, <1>2, HashMeans
  <2>4. m # 1
    BY <2>1, <2>3, HashMeans
  <2>5. m - 1 \in 1..k /\ k \in 1..k /\ m - 1 # k
    BY <2>4, <1>0
  <2> QED BY <2>1, <2>3, <2>4, <2>5 DEF Linked, k
<1>6. 1..Len(a) = 1..k \cup {k + 1}
  BY <1>0, <1>1
<1>7. \A m, n \in 1..Len(a) : a[m].hash = a[n].hash => m = n
  BY <1>1, <1>5, <1>6 DEF Linked, k
<1> QED BY <1>1, <1>3, <1>4, <1>6, <1>7 DEF Linked, a, k

LEMMA InsertRowStep ==
  ASSUME LedgerInv, NEW w \in Writers, InsertRow(w), UNCHANGED appends
  PROVE  LedgerInv'
<1> DEFINE x == writer[w]
           e == x.entry
           s == ScopeKeyOf(e.fields)
           c == chains[s]
           a == Append(c, e)
<1>0. /\ x.step = "insert" /\ WriterOK(x) /\ x.request \in Appends
      /\ e = BuildEntry(AppendRequest[x.request], e.prev)
      /\ Admitted(AppendRequest[x.request]) /\ Guarded(AppendRequest[x.request])
      /\ Len(c) < MaxEntries /\ damage' = damage
  BY DEF InsertRow, LedgerInv, WriterInv, WriterOK
<1>1. /\ e.fields = AppendRequest[x.request] /\ e.hash = EntryHash(e.fields, e.prev)
      /\ e.fields.action # Altered /\ RowOK(s, e) /\ s \in ScopeKeys
  BY <1>0, RequestFields, ScopeOfFields DEF BuildEntry, RowOK
<1>2. IsChain(c) /\ Len(c) \in Nat
  BY <1>1, ChainType DEF LedgerInv, RowInv
<1>3. CASE x.seq # Len(c) + 1
  BY <1>0, <1>3, WriterAnswers DEF InsertRow
<1>4. CASE x.seq = Len(c) + 1
  <2>1. /\ chains' = [chains EXCEPT ![s] = a] /\ answered' = answered \cup {e}
        /\ Answer(w, "created")
    BY <1>4 DEF InsertRow
  <2>2. /\ IsChain(a) /\ Len(a) = Len(c) + 1 /\ a[Len(c) + 1] = e
        /\ \A n \in 1..Len(c) : a[n] = c[n]
    BY <1>2, AppendChain
  <2>3. ~IsDamaged(s) => e.prev = TailHash(c) /\ Linked(c)
    BY <1>0, <1>1, <1>4 DEF WriterOK, LedgerInv, LinkInv
  <2>4. ~IsDamaged(s) => Linked(a)
    BY <2>3, <1>1, <1>2, AppendLinked
  <2>5. /\ DOMAIN chains' = ScopeKeys /\ chains'[s] = a
        /\ \A t \in ScopeKeys \ {s} : chains'[t] = chains[t]
    BY <2>1, <1>1 DEF LedgerInv
  <2>6. /\ DOMAIN writer' = Writers /\ \A v \in Writers \ {w} : writer'[v] = writer[v]
        /\ DOMAIN writer'[w] = {"step", "request", "tail", "entry", "seq", "result"}
        /\ writer'[w].step = "answered" /\ writer'[w].request = x.request
    BY <2>1, <1>0 DEF Answer, LedgerInv, WriterOK
  <2>7. \A t : IsDamaged(t)' <=> IsDamaged(t)
    BY <1>0 DEF IsDamaged
  <2>8. 1..Len(a) = 1..Len(c) \cup {Len(c) + 1}
    BY <2>2, <1>2
  <2> HIDE DEF a
  <2>9. RowInv'
    <3> SUFFICES ASSUME NEW t \in ScopeKeys
                 PROVE  /\ IsChain(chains'[t]) /\ Len(chains'[t]) <= MaxEntries
                        /\ \A n \in 1..Len(chains'[t]) : RowOK(t, chains'[t][n])
      BY DEF RowInv
    <3>1. CASE t # s
      BY <3>1, <2>5 DEF LedgerInv, RowInv
    <3>2. CASE t = s
      <4>1. Len(a) <= MaxEntries
        BY <2>2, <1>0, <1>2, LedgerAssumption
      <4>2. \A n \in 1..Len(c) : RowOK(s, c[n])
        BY <1>1 DEF LedgerInv, RowInv
      <4> QED BY <4>1, <4>2, <3>2, <2>2, <2>5, <2>8, <1>1
    <3> QED BY <3>1, <3>2
  <2>10. LinkInv'
    BY <2>4, <2>5, <2>7 DEF LedgerInv, LinkInv
  <2>11. DamageInv'
    <3> SUFFICES ASSUME NEW d \in damage
                 PROVE  /\ d[1] \in ScopeKeys /\ d[2] \in 1..Len(chains'[d[1]])
                        /\ BrokenAt(chains'[d[1]], d[2])
                        /\ \A m \in 1..(d[2] - 1) : ~BrokenAt(chains'[d[1]], m)
      BY <1>0 DEF DamageInv
    <3>1. /\ d[1] \in ScopeKeys /\ d[2] \in 1..Len(chains[d[1]])
          /\ BrokenAt(chains[d[1]], d[2])
          /\ \A m \in 1..(d[2] - 1) : ~BrokenAt(chains[d[1]], m)
      BY DEF LedgerInv, DamageInv
    <3>2. CASE d[1] # s
      BY <3>1, <3>2, <2>5
    <3>3. CASE d[1] = s
      <4>1. d[2] \in 1..Len(a) /\ \A m \in 1..(d[2] - 1) : m \in 1..Len(c)
        BY <3>1, <3>3, <2>2, <1>2
      <4>2. \A m \in 1..Len(c) : BrokenAt(a, m) <=> BrokenAt(c, m)
        BY <2>2, <1>2, BrokenIsLocal
      <4> QED BY <4>1, <4>2, <3>1, <3>3, <2>5
    <3> QED BY <3>2, <3>3
  <2>12. WriterInv'
    <3> SUFFICES ASSUME NEW v \in Writers PROVE WriterOK(writer[v])'
      BY DEF WriterInv
    <3>1. CASE v = w
      BY <3>1, <2>6, <1>0 DEF WriterOK
    <3>2. CASE v # w
      <4> DEFINE y == writer[v]
                 t == ScopeKeyOf(y.entry.fields)
      <4>1. writer'[v] = y /\ WriterOK(y)
        BY <3>2, <2>6 DEF LedgerInv, WriterInv
      <4>2. ASSUME y.step = "insert", ~IsDamaged(t)
            PROVE  /\ y.seq <= Len(chains'[t]) + 1
                   /\ y.seq = Len(chains'[t]) + 1 => y.entry.prev = TailHash(chains'[t])
        <5>0. y.seq \in Nat /\ y.seq <= Len(chains[t]) + 1 /\ t \in ScopeKeys
          BY <4>1, <4>2, RequestFields, ScopeOfFields DEF WriterOK, BuildEntry
        <5>1. CASE t = s
          BY <5>0, <5>1, <2>2, <2>5, <1>2
        <5>2. CASE t # s
          BY <5>0, <5>2, <4>1, <4>2, <2>5 DEF WriterOK
        <5> QED BY <5>1, <5>2
      <4> QED BY <4>1, <4>2, <2>7 DEF WriterOK
    <3> QED BY <3>1, <3>2
  <2>13. AnsweredInv'
    <3> SUFFICES ASSUME NEW b \in answered'
                 PROVE  /\ b.fields \in Fields /\ ScopeKeyOf(b.fields) \in ScopeKeys
                        /\ Guarded(b.fields) /\ b.hash = EntryHash(b.fields, b.prev)
                        /\ ~IsDamaged(ScopeKeyOf(b.fields)) =>
                             \E n \in 1..Len(chains'[ScopeKeyOf(b.fields)]) :
                               chains'[ScopeKeyOf(b.fields)][n] = b
      BY <2>7 DEF AnsweredInv
    <3>1. CASE b = e
      BY <3>1, <1>1, <2>2, <2>5, <2>8 DEF RowOK
    <3>2. CASE b \in answered
      <4> DEFINE t == ScopeKeyOf(b.fields)
      <4>1. /\ b.fields \in Fields /\ t \in ScopeKeys
            /\ Guarded(b.fields) /\ b.hash = EntryHash(b.fields, b.prev)
            /\ ~IsDamaged(t) => \E n \in 1..Len(chains[t]) : chains[t][n] = b
        BY <3>2 DEF LedgerInv, AnsweredInv
      <4> HIDE DEF t
      <4>2. ~IsDamaged(t) => \E n \in 1..Len(chains'[t]) : chains'[t][n] = b
        BY <4>1, <2>2, <2>5, <2>8
      <4> QED BY <4>1, <4>2 DEF t
    <3> QED BY <3>1, <3>2, <2>1
  <2> QED BY <2>5, <2>6, <2>9, <2>10, <2>11, <2>12, <2>13 DEF LedgerInv
<1> QED BY <1>3, <1>4

-----------------------------------------------------------------------------
(* Damage from outside.                                                    *)

(* A chain is replaced by one that is broken at n and nowhere before.      *)
LEMMA ChainDamaged ==
  ASSUME LedgerInv, NEW s \in ScopeKeys, NEW n, ~IsDamaged(s), NEW b,
         IsChain(b), Len(b) <= MaxEntries, \A m \in 1..Len(b) : RowOK(s, b[m]),
         n \in 1..Len(b), BrokenAt(b, n), \A m \in 1..(n - 1) : ~BrokenAt(b, m),
         chains' = [chains EXCEPT ![s] = b], damage' = damage \cup {<<s, n>>},
         UNCHANGED <<appends, writer, answered>>
  PROVE  LedgerInv'
<1>1. /\ DOMAIN chains' = ScopeKeys /\ chains'[s] = b
      /\ \A t \in ScopeKeys \ {s} : chains'[t] = chains[t]
  BY DEF LedgerInv
<1>2. IsDamaged(s)' /\ \A t : t # s => (IsDamaged(t)' <=> IsDamaged(t))
  <2>1. <<s, n>>[1] = s /\ <<s, n>> \in damage'
    OBVIOUS
  <2>2. IsDamaged(s)'
    BY <2>1 DEF IsDamaged
  <2>3. \A t : t # s => ((\E d \in damage' : d[1] = t) <=> \E d \in damage : d[1] = t)
    BY <2>1
  <2> QED BY <2>2, <2>3 DEF IsDamaged
<1>3. RowInv'
  BY <1>1 DEF LedgerInv, RowInv
<1>4. LinkInv'
  BY <1>1, <1>2 DEF LedgerInv, LinkInv
<1>5. DamageInv'
  <2>1. \A d \in damage : d[1] # s
    BY DEF IsDamaged
  <2>2. <<s, n>>[1] = s /\ <<s, n>>[2] = n
    OBVIOUS
  <2> QED BY <1>1, <2>1, <2>2 DEF LedgerInv, DamageInv
<1>6. WriterInv'
  <2> SUFFICES ASSUME NEW w \in Writers PROVE WriterOK(writer[w])'
    BY DEF WriterInv
  <2> DEFINE y == writer[w]
             t == ScopeKeyOf(y.entry.fields)
  <2>1. writer'[w] = y /\ WriterOK(y)
    BY DEF LedgerInv, WriterInv
  <2>2. y.step = "insert" => t \in ScopeKeys
    BY <2>1, RequestFields, ScopeOfFields DEF WriterOK, BuildEntry
  <2> QED BY <2>1, <2>2, <1>1, <1>2 DEF WriterOK
<1>7. AnsweredInv'
  BY <1>1, <1>2 DEF LedgerInv, AnsweredInv
<1> QED BY <1>1, <1>3, <1>4, <1>5, <1>6, <1>7 DEF LedgerInv

(* A row whose contents were changed no longer has its hash.               *)
LEMMA AlterBreaks ==
  ASSUME NEW s, NEW c, IsChain(c), Linked(c), \A m \in 1..Len(c) : RowOK(s, c[m]),
         NEW n \in 1..Len(c)
  PROVE  LET b == [c EXCEPT ![n].fields.action = Altered] IN
         /\ IsChain(b) /\ Len(b) = Len(c) /\ \A m \in 1..Len(b) : RowOK(s, b[m])
         /\ BrokenAt(b, n) /\ \A m \in 1..(n - 1) : ~BrokenAt(b, m)
<1> DEFINE b == [c EXCEPT ![n].fields.action = Altered]
           k == Len(c)
<1>0. k \in Nat /\ DOMAIN c = 1..k
  BY ChainType
<1>1. c[n].fields \in Fields /\ DOMAIN c[n] = {"fields", "prev", "hash"} /\ RowOK(s, c[n])
  BY DEF RowOK
<1>2. /\ DOMAIN b = 1..k /\ \A m \in 1..k : m # n => b[m] = c[m]
      /\ b[n].fields = [c[n].fields EXCEPT !.action = Altered]
      /\ b[n].prev = c[n].prev /\ b[n].hash = c[n].hash
      /\ DOMAIN b[n] = {"fields", "prev", "hash"}
  BY <1>0, <1>1
<1>3. IsChain(b) /\ Len(b) = k
  BY <1>0, <1>2, FunctionChain
<1> HIDE DEF b, k
<1>4. /\ b[n].fields \in Fields /\ b[n].fields.action = Altered
      /\ b[n].fields.permitted = c[n].fields.permitted
      /\ b[n].fields.scope = c[n].fields.scope
      /\ b[n].fields.tenant_id = c[n].fields.tenant_id
      /\ b[n].fields.keys = c[n].fields.keys
      /\ b[n].fields.leaves = c[n].fields.leaves
      /\ b[n].fields.error_code = c[n].fields.error_code
      /\ b[n].fields.actor = c[n].fields.actor
  BY <1>1, <1>2 DEF Fields
<1>5. RowOK(s, b[n])
  BY <1>1, <1>2, <1>4 DEF RowOK, Admitted, Guarded, ValidScope, ScopeKeyOf
<1>6. \A m \in 1..k : RowOK(s, b[m])
  BY <1>2, <1>5 DEF k
<1>7. BrokenAt(b, n)
  <2>1. c[n].hash = EntryHash(c[n].fields, c[n].prev) /\ c[n].fields.action # Altered
    BY DEF Linked, BrokenAt
  <2>2. EntryHash(c[n].fields, c[n].prev) # EntryHash(b[n].fields, b[n].prev)
    BY <2>1, <1>4, HashMeans
  <2>3. b[n].hash # EntryHash(b[n].fields, b[n].prev)
    BY <2>1, <2>2, <1>2
  <2> QED BY <2>3 DEF BrokenAt
<1>8. ASSUME NEW m \in 1..(n - 1) PROVE ~BrokenAt(b, m)
  <2>1. n - 1 \in Nat /\ \A j \in 1..(n - 1) : j \in 1..k /\ b[j] = c[j]
    BY <1>0, <1>2 DEF k
  <2>2. ~BrokenAt(c, m)
    BY <2>1 DEF Linked, k
  <2> QED BY <2>1, <2>2, BrokenIsLocal
<1> QED BY <1>3, <1>6, <1>7, <1>8 DEF b, k

(* The row behind one that was removed is linked to a hash that is gone.   *)
LEMMA RemoveBreaks ==
  ASSUME NEW s, NEW c, IsChain(c), Linked(c), \A m \in 1..Len(c) : RowOK(s, c[m]),
         NEW n \in 1..Len(c), n < Len(c),
         NEW b, IsChain(b), Len(b) = Len(c) - 1,
         \A m \in 1..(Len(c) - 1) : b[m] = c[IF m < n THEN m ELSE m + 1]
  PROVE  /\ n \in 1..Len(b)
         /\ \A m \in 1..Len(b) : RowOK(s, b[m])
         /\ BrokenAt(b, n) /\ \A m \in 1..(n - 1) : ~BrokenAt(b, m)
<1> DEFINE k == Len(c)
<1>0. k \in Nat /\ DOMAIN c = 1..k /\ n \in Nat /\ k - 1 \in Nat
  BY ChainType
<1>2. Len(b) = k - 1 /\ \A m \in 1..(k - 1) : b[m] = c[IF m < n THEN m ELSE m + 1]
  OBVIOUS
<1>3. /\ n \in 1..(k - 1) /\ n + 1 \in 1..k /\ b[n] = c[n + 1]
      /\ \A m \in 1..(n - 1) : m \in 1..(k - 1) /\ m \in 1..k /\ b[m] = c[m]
      /\ \A m \in 1..(k - 1) : (IF m < n THEN m ELSE m + 1) \in 1..k
  BY <1>0, <1>2
<1> HIDE DEF k
<1>4. \A m \in 1..(k - 1) : RowOK(s, b[m])
  BY <1>2, <1>3 DEF k
<1>5. BrokenAt(b, n)
  <2>1. /\ c[n + 1].prev = c[n].hash /\ c[n].hash = EntryHash(c[n].fields, c[n].prev)
    <3>1. n + 1 # 1 /\ n + 1 - 1 = n
      BY <1>0
    <3> QED BY <3>1, <1>3 DEF Linked, BrokenAt, k
  <2>2. c[n].hash # (IF n = 1 THEN GENESIS ELSE b[n - 1].hash)
    <3>1. CASE n = 1
      BY <3>1, <2>1, HashMeans
    <3>2. CASE n # 1
      <4>1. n - 1 \in 1..(n - 1) /\ n - 1 # n
        BY <3>2, <1>0
      <4> QED BY <4>1, <3>2, <1>3 DEF Linked, k
    <3> QED BY <3>1, <3>2
  <2> QED BY <2>1, <2>2, <1>3 DEF BrokenAt
<1>6. ASSUME NEW m \in 1..(n - 1) PROVE ~BrokenAt(b, m)
  <2>1. n - 1 \in Nat
    BY <1>0
  <2>2. ~BrokenAt(c, m)
    BY <1>3 DEF Linked, k
  <2> QED BY <2>1, <2>2, <1>3, BrokenIsLocal
<1> QED BY <1>2, <1>3, <1>4, <1>5, <1>6 DEF k

LEMMA DamageStep ==
  ASSUME LedgerInv, NEW s \in ScopeKeys, NEW n \in 1..MaxEntries, Damage(s, n), UNCHANGED appends
  PROVE  LedgerInv'
<1> DEFINE c == chains[s]
           altered == [c EXCEPT ![n].fields.action = Altered]
           shorter == [m \in 1..(Len(c) - 1) |-> c[IF m < n THEN m ELSE m + 1]]
<1>0. /\ ~IsDamaged(s) /\ n \in DOMAIN c /\ damage' = damage \cup {<<s, n>>}
      /\ UNCHANGED <<appends, writer, answered>>
  BY DEF Damage, IsDamaged
<1>1. /\ IsChain(c) /\ Linked(c) /\ \A m \in 1..Len(c) : RowOK(s, c[m])
      /\ Len(c) <= MaxEntries /\ Len(c) \in Nat /\ n \in 1..Len(c)
  BY <1>0, ChainType DEF LedgerInv, RowInv, LinkInv
<1>2. CASE chains' = [chains EXCEPT ![s] = altered]
  <2>1. /\ IsChain(altered) /\ Len(altered) = Len(c)
        /\ \A m \in 1..Len(altered) : RowOK(s, altered[m])
        /\ BrokenAt(altered, n) /\ \A m \in 1..(n - 1) : ~BrokenAt(altered, m)
    BY <1>1, AlterBreaks
  <2> HIDE DEF altered, c
  <2> QED BY <1>0, <1>1, <1>2, <2>1, ChainDamaged
<1>3. CASE n < Len(c) /\ chains' = [chains EXCEPT ![s] = shorter]
  <2>1. /\ IsChain(shorter) /\ Len(shorter) = Len(c) - 1 /\ n \in 1..Len(shorter)
        /\ \A m \in 1..Len(shorter) : RowOK(s, shorter[m])
        /\ BrokenAt(shorter, n) /\ \A m \in 1..(n - 1) : ~BrokenAt(shorter, m)
    <3>1. Len(c) - 1 \in Nat
      BY <1>1, <1>3
    <3>2. IsChain(shorter) /\ Len(shorter) = Len(c) - 1
      BY <3>1, FunctionChain
    <3>3. \A m \in 1..(Len(c) - 1) : shorter[m] = c[IF m < n THEN m ELSE m + 1]
      OBVIOUS
    <3> HIDE DEF c, shorter
    <3> QED BY <3>2, <3>3, <1>1, <1>3, RemoveBreaks
  <2>2. Len(shorter) <= MaxEntries
    BY <2>1, <1>1, LedgerAssumption
  <2> HIDE DEF shorter, c
  <2> QED BY <1>0, <1>1, <1>3, <2>1, <2>2, ChainDamaged
<1>4. \/ chains' = [chains EXCEPT ![s] = altered]
      \/ n < Len(c) /\ chains' = [chains EXCEPT ![s] = shorter]
  <2>1. chains' = [chains EXCEPT ![s][n].fields.action = Altered] =>
          chains' = [chains EXCEPT ![s] = altered]
    BY DEF LedgerInv
  <2> QED BY <2>1 DEF Damage
<1> QED BY <1>2, <1>3, <1>4

LEMMA LedgerStep == LedgerInv /\ [LedgerNext]_ledgerVars => LedgerInv'
<1> SUFFICES ASSUME LedgerInv, [LedgerNext]_ledgerVars PROVE LedgerInv'
  OBVIOUS
<1>1. CASE UNCHANGED ledgerVars
  BY <1>1 DEF ledgerVars, LedgerInv, RowInv, LinkInv, DamageInv, WriterInv, WriterOK,
              AnsweredInv, IsDamaged
<1> QED BY <1>1, StartAppendStep, BuildStep, ReadTailStep, InsertRowStep, RestartStep, DamageStep
        DEF LedgerNext

-----------------------------------------------------------------------------
(* What the ledger promises.                                               *)

(* An answered entry's hash is in its own undamaged chain once, and in no  *)
(* other.                                                                  *)
LEMMA StoredOnce == LedgerInv => AnsweredIsStoredOnce
<1> SUFFICES ASSUME LedgerInv, NEW e \in answered, NEW s \in ScopeKeys, ~IsDamaged(s)
             PROVE  Cardinality(ResolveLineage(s, e.hash))
                      = (IF s = ScopeKeyOf(e.fields) THEN 1 ELSE 0)
  BY DEF AnsweredIsStoredOnce, IsDamaged
<1> DEFINE c == chains[s]
<1>0. DOMAIN c = 1..Len(c) /\ Linked(c) /\ \A n \in 1..Len(c) : RowOK(s, c[n])
  BY ChainType DEF LedgerInv, RowInv, LinkInv
<1>1. e.hash = EntryHash(e.fields, e.prev)
  BY DEF LedgerInv, AnsweredInv
<1>2. CASE s = ScopeKeyOf(e.fields)
  <2>1. PICK n \in 1..Len(c) : c[n] = e
    BY <1>2 DEF LedgerInv, AnsweredInv
  <2>2. ResolveLineage(s, e.hash) = {n}
    BY <2>1, <1>0 DEF ResolveLineage, Linked
  <2> QED BY <2>2, <1>2, FS_Singleton
<1>3. CASE s # ScopeKeyOf(e.fields)
  <2>1. \A n \in 1..Len(c) : c[n].hash # e.hash
    <3>1. SUFFICES ASSUME NEW n \in 1..Len(c), c[n].hash = e.hash PROVE FALSE
      OBVIOUS
    <3>2. c[n].hash = EntryHash(c[n].fields, c[n].prev) /\ ScopeKeyOf(c[n].fields) = s
      BY <1>0 DEF Linked, BrokenAt, RowOK
    <3>3. EntryHash(c[n].fields, c[n].prev) = EntryHash(e.fields, e.prev)
      BY <3>1, <3>2, <1>1
    <3>4. c[n].fields.tenant_id = e.fields.tenant_id
      BY <3>3, HashMeans
    <3> QED BY <3>2, <3>4, <1>3 DEF ScopeKeyOf
  <2>2. ResolveLineage(s, e.hash) = {}
    BY <2>1, <1>0 DEF ResolveLineage
  <2> QED BY <2>2, <1>3, FS_EmptySet
<1> QED BY <1>2, <1>3

LEMMA NothingForbidden == LedgerInv => NothingForbiddenStored
<1> SUFFICES ASSUME LedgerInv, NEW s \in ScopeKeys, NEW n \in DOMAIN chains[s]
             PROVE  LET f == chains[s][n].fields IN
                    /\ f.keys \subseteq {"plain", "source_hash"} /\ f.leaves \subseteq {"text"}
                    /\ f.error_code \in {"none", "text"} /\ f.actor # "empty" /\ f.permitted
  BY DEF NothingForbiddenStored
<1> DEFINE f == chains[s][n].fields
<1>1. f \in Fields /\ Admitted(f) /\ Guarded(f)
  BY ChainType DEF LedgerInv, RowInv, RowOK
<1> HIDE DEF f
<1>2. f.keys \subseteq {"plain", "source_hash"}
  BY <1>1 DEF Fields, KeyKinds, Guarded, GuardPayload, GuardKeys
<1>3. /\ f.leaves \subseteq {"text"} /\ f.error_code \in {"none", "text"} /\ f.actor # "empty"
      /\ f.permitted
  BY <1>1 DEF Guarded, Admitted, GuardPayload, GuardLeaves, GuardActor
<1> QED BY <1>2, <1>3 DEF f

(* Whatever the order in which handlers read tails, build, insert and      *)
(* crash: every chain that nobody damaged verifies and holds each answered *)
(* entry exactly once, verify reports damage where it is, and nothing the  *)
(* guards forbid is stored.  For any number of writers, tenants, requests, *)
(* entries and damaged rows.                                               *)
THEOREM ChainsAreAlwaysTrue == LedgerSpec => []ChainsAreTrue
<1>1. LedgerInv => LedgerTypeOK
  <2> SUFFICES ASSUME LedgerInv PROVE LedgerTypeOK
    OBVIOUS
  <2>1. \A s \in ScopeKeys : \A n \in DOMAIN chains[s] :
          (s = SYSTEM_SCOPE_KEY) <=> (chains[s][n].fields.scope = "system")
    BY ChainType, ScopeMatches DEF LedgerInv, RowInv, RowOK
  <2>2. \A d \in damage : d[1] \in ScopeKeys /\ d[2] \in Nat
    BY ChainType DEF LedgerInv, DamageInv, RowInv
  <2> QED BY <2>1, <2>2 DEF LedgerTypeOK, LedgerInv, RowInv, WriterInv, WriterOK
<1>2. LedgerInv => ChainsVerify
  BY VerifyFindsFirst DEF LedgerInv, RowInv, LinkInv, Linked, ChainsVerify, IsDamaged
<1>3. LedgerInv => DamageIsLocated
  BY VerifyFindsFirst DEF LedgerInv, RowInv, DamageInv, DamageIsLocated
<1>4. LedgerInv => ChainsAreTrue
  BY <1>1, <1>2, <1>3, StoredOnce, NothingForbidden DEF ChainsAreTrue
<1> QED BY <1>4, LedgerInitIsGood, LedgerStep, PTL DEF LedgerSpec
-----------------------------------------------------------------------------
(* The stores over PostgreSQL.                                             *)

KeyOfCall(q) ==
  <<StoreOps[q.op].table, IF StoreOps[q.op].table = "outbox" THEN "any" ELSE q.tenant, q.key>>

KeyOK(k) == k[2] \in StoreTenants \cup {"any"} /\ (k[1] = "outbox" <=> k[2] = "any")

StoreRowOK(k, v) ==
  /\ k[1] = "tenants" => /\ DOMAIN v = {"status", "payload"}
                         /\ DOMAIN v.payload = {"status", "name"} /\ v.status = v.payload.status
  /\ k[1] = "outbox" => DOMAIN v = {"owner", "body", "published"}

(* What may become of an outbox row.                                       *)
Continues(old, new) ==
  new.owner = old.owner /\ new.body = old.body /\ (old.published => new.published)

(* The uncommitted writes of a transaction over the committed rows: what   *)
(* is put once is not there yet, an event goes on being the same event.    *)
WriteOK(k, v, rs) ==
  /\ KeyOK(k) /\ StoreRowOK(k, v)
  /\ k[1] \in PutOnceTables => k \notin DOMAIN rs
  /\ k[1] = "outbox" /\ k \in DOMAIN rs => Continues(rs[k], v)
WritesOK(ws, rs) == \A k \in DOMAIN ws : WriteOK(k, ws[k], rs)

(* What its calls have answered is what the transaction sees.              *)
SeenAs(k, v, ws, rs) == k[1] \in PutOnceTables => k \in DOMAIN Over(ws, rs) /\ Over(ws, rs)[k] = v
AnswersOK(results, ws, rs) == \A r \in results : SeenAs(r[1], r[2], ws, rs)

(* What a call has read is, as far as the call relies on it, still so.     *)
ReadOK(step, q, read, ws, rs) ==
  LET k == KeyOfCall(q) IN
  /\ step = "select" => q.op \in {"put_manifest", "record_event", "mark_published", "update_status"}
  /\ step = "prior" => q.op \in {"record_decision", "record"} /\ k \in DOMAIN Over(ws, rs)
  /\ step = "write" /\ q.op = "mark_published" =>
       /\ k \in DOMAIN Over(ws, rs) /\ DOMAIN read = {"owner", "body", "published"}
       /\ read.owner = Over(ws, rs)[k].owner /\ read.body = Over(ws, rs)[k].body
  /\ step = "write" /\ q.op = "update_status" => DOMAIN read.payload = {"status", "name"}

(* A new event in the writes was recorded by a call of the script.         *)
RecordsEvent(calls, key) == \E n \in DOMAIN calls : calls[n].op = "record_event" /\ calls[n].key = key
EventsOK(calls, ws, rs) ==
  \A k \in DOMAIN ws : k[1] = "outbox" /\ k \notin DOMAIN rs => RecordsEvent(calls, k[3])

(* The calls that have returned have an answer.                            *)
ReturnedOK(t) ==
  \A n \in DOMAIN Script[t.script] : n < t.index \/ t.step = "commit" =>
    \E r \in t.results : r[1] = KeyOfCall(Script[t.script][n])

TxOK(t, rs) ==
  /\ DOMAIN t = {"script", "index", "step", "writes", "read", "results"}
  /\ t.step \in {"idle", "owned", "select", "write", "prior", "commit"}
  /\ t.step = "idle" => DOMAIN t.writes = {} /\ t.results = {}
  /\ t.step # "idle" =>
       /\ t.script \in Scripts /\ t.index \in 1..Len(Script[t.script])
       /\ ReadOK(t.step, Script[t.script][t.index], t.read, t.writes, rs)
       /\ EventsOK(Script[t.script], t.writes, rs)
       /\ ReturnedOK(t)
  /\ WritesOK(t.writes, rs)
  /\ AnswersOK(t.results, t.writes, rs)

RowsOK(rs) == \A k \in DOMAIN rs : KeyOK(k) /\ StoreRowOK(k, rs[k])

(* No row is written by two transactions that are under way.               *)
LocksHold == \A c, d \in Clients : c # d => DOMAIN tx[c].writes \cap DOMAIN tx[d].writes = {}

StoresInv ==
  /\ DOMAIN tx = Clients /\ workload \in Workloads /\ begun \in 0..MaxTransactions
  /\ RowsOK(rows) /\ ToldIsStored /\ EventHasDecision
  /\ \A c \in Clients : TxOK(tx[c], rows)
  /\ LocksHold

LEMMA OverFacts ==
  ASSUME NEW ws, NEW rs
  PROVE  /\ DOMAIN Over(ws, rs) = DOMAIN ws \cup DOMAIN rs
         /\ \A k \in DOMAIN ws : Over(ws, rs)[k] = ws[k]
         /\ \A k \in DOMAIN rs : k \notin DOMAIN ws => Over(ws, rs)[k] = rs[k]
BY DEF Over

(* What the table of operations says about each.                           *)
LEMMA OpFacts ==
  ASSUME NEW op \in DOMAIN StoreOps
  PROVE  /\ op \in {"put_tenant", "update_status", "put_plan", "set_state", "record_decision",
                    "record", "put_manifest", "record_event", "mark_published", "mark"}
         /\ StoreOps[op].table = "tenants" <=> op \in {"put_tenant", "update_status"}
         /\ StoreOps[op].table = "outbox" <=> op \in {"record_event", "mark_published"}
         /\ StoreOps[op].table \in PutOnceTables <=> op \in {"record_decision", "record", "put_manifest"}
         /\ StoreOps[op].select <=> op \in {"put_manifest", "record_event", "mark_published", "update_status"}
         /\ StoreOps[op].owned => op \notin {"mark_published", "update_status"}
         /\ StoreOps[op].write \in {"upsert", "update"} <=>
              op \in {"put_tenant", "update_status", "put_plan", "set_state", "mark_published"}
         /\ StoreOps[op].write = "insert" <=> op \in {"put_manifest", "record_event"}
         /\ StoreOps[op].write = "do_nothing" <=> op \in {"record_decision", "record", "mark"}
BY DEF StoreOps, Op, PutTenantOp, UpdateStatusOp, PutPlanOp, SetStateOp, RecordDecisionOp, RecordOp,
       PutManifestOp, RecordEventOp, MarkPublishedOp, MarkOp, PutOnceTables

LEMMA DecisionTable == StoreOps["record_decision"].table = "plan_decisions"
BY DEF StoreOps, Op, RecordDecisionOp

LEMMA CallFacts ==
  ASSUME NEW s \in Scripts, NEW n \in 1..Len(Script[s]), NEW q, q = Script[s][n]
  PROVE  /\ q.op \in DOMAIN StoreOps /\ q.tenant \in StoreTenants /\ KeyOK(KeyOfCall(q))
         /\ KeyOfCall(q)[1] = StoreOps[q.op].table /\ KeyOfCall(q)[3] = q.key
<1>1. q.op \in DOMAIN StoreOps /\ q.tenant \in StoreTenants /\ "any" \notin StoreTenants
  BY StoresAssumption
<1>2. /\ KeyOfCall(q)[1] = StoreOps[q.op].table /\ KeyOfCall(q)[3] = q.key
      /\ KeyOfCall(q)[2] = IF StoreOps[q.op].table = "outbox" THEN "any" ELSE q.tenant
  BY DEF KeyOfCall
<1> QED BY <1>1, <1>2 DEF KeyOK


LEMMA StoresInitIsGood == StoresInit => StoresInv
<1> SUFFICES ASSUME StoresInit PROVE StoresInv
  OBVIOUS
<1>1. DOMAIN rows = {} /\ told = {} /\ begun = 0 /\ workload \in Workloads /\ DOMAIN tx = Clients
  BY DEF StoresInit
<1>2. TxOK(NoTx, rows)
  BY DEF TxOK, NoTx, WritesOK, AnswersOK
<1>3. \A c \in Clients : tx[c] = NoTx
  BY DEF StoresInit
<1>4. LocksHold
  BY <1>3 DEF LocksHold, NoTx
<1>5. RowsOK(rows) /\ ToldIsStored /\ EventHasDecision
  BY <1>1 DEF RowsOK, ToldIsStored, EventHasDecision
<1>6. begun \in 0..MaxTransactions
  BY <1>1, StoresAssumption
<1> QED BY <1>1, <1>2, <1>3, <1>4, <1>5, <1>6 DEF StoresInv

(* A client goes on with its transaction; it may have written one row that *)
(* no other transaction holds.                                             *)
LEMMA ClientMoves ==
  ASSUME StoresInv, NEW c \in Clients, NEW t, tx' = [tx EXCEPT ![c] = t], TxOK(t, rows),
         \A k \in DOMAIN t.writes : k \in DOMAIN tx[c].writes
           \/ \A d \in Clients \ {c} : k \notin DOMAIN tx[d].writes,
         UNCHANGED <<rows, told, workload>>, begun' \in 0..MaxTransactions
  PROVE  StoresInv'
<1>1. DOMAIN tx' = Clients /\ tx'[c] = t /\ \A d \in Clients \ {c} : tx'[d] = tx[d]
  BY DEF StoresInv
<1>2. \A d \in Clients : TxOK(tx'[d], rows')
  <2>1. \A d \in Clients : TxOK(tx'[d], rows)
    BY <1>1 DEF StoresInv
  <2> QED BY <2>1
<1>3. LocksHold'
  BY <1>1 DEF LocksHold, StoresInv
<1>4. RowsOK(rows)' /\ ToldIsStored' /\ EventHasDecision' /\ (workload \in Workloads)'
  BY DEF StoresInv, RowsOK, ToldIsStored, EventHasDecision
<1> QED BY <1>1, <1>2, <1>3, <1>4 DEF StoresInv

LEMMA RollBackStep ==
  ASSUME StoresInv, NEW c \in Clients, RollBack(c), UNCHANGED workload
  PROVE  StoresInv'
<1>1. TxOK(NoTx, rows) /\ DOMAIN NoTx.writes = {}
  BY DEF TxOK, NoTx, WritesOK, AnswersOK
<1>2. tx' = [tx EXCEPT ![c] = NoTx] /\ UNCHANGED <<rows, told, workload>> /\ begun' \in 0..MaxTransactions
  BY DEF RollBack, StoresInv
<1> QED BY <1>1, <1>2, ClientMoves

(* The transaction after a call has returned v with the writes ws.         *)
Returned(t, ws, v) ==
  LET calls == Script[t.script]
      results == t.results \cup {<<KeyOfCall(calls[t.index]), v>>}
  IN IF t.index = Len(calls)
     THEN [t EXCEPT !.step = "commit", !.writes = ws, !.results = results]
     ELSE [t EXCEPT !.index = t.index + 1, !.writes = ws, !.read = "none",
                    !.step = FirstStep(calls[t.index + 1].op), !.results = results]

(* The first step of a call relies on nothing that was read.               *)
LEMMA FirstStepFacts ==
  ASSUME NEW op \in DOMAIN StoreOps
  PROVE  /\ FirstStep(op) \in {"owned", "select", "write"} /\ AfterOwned(op) \in {"select", "write"}
         /\ FirstStep(op) = "select" \/ AfterOwned(op) = "select" =>
              op \in {"put_manifest", "record_event", "mark_published", "update_status"}
         /\ FirstStep(op) = "write" \/ AfterOwned(op) = "write" =>
              op \notin {"mark_published", "update_status"}
BY OpFacts DEF FirstStep, AfterOwned

LEMMA ReturnedTx ==
  ASSUME NEW rs, NEW t, NEW ws, NEW v, NEW q, q = Script[t.script][t.index],
         TxOK(t, rs), t.step \notin {"idle", "commit"}, WritesOK(ws, rs),
         AnswersOK(t.results, ws, rs), SeenAs(KeyOfCall(q), v, ws, rs),
         EventsOK(Script[t.script], ws, rs)
  PROVE  TxOK(Returned(t, ws, v), rs) /\ Returned(t, ws, v).writes = ws
<1> DEFINE u == Returned(t, ws, v)
           calls == Script[t.script]
           results == t.results \cup {<<KeyOfCall(q), v>>}
<1>1. /\ DOMAIN t = {"script", "index", "step", "writes", "read", "results"}
      /\ t.script \in Scripts /\ t.index \in 1..Len(calls) /\ ReturnedOK(t)
  BY DEF TxOK
<1>2. Len(calls) \in Nat /\ DOMAIN calls = 1..Len(calls)
  BY <1>1, StoresAssumption
<1>3. AnswersOK(results, ws, rs)
  BY DEF AnswersOK
<1>4. /\ DOMAIN u = DOMAIN t /\ u.script = t.script /\ u.writes = ws /\ u.results = results
      /\ t.index = Len(calls) => u.step = "commit" /\ u.index = t.index
      /\ t.index # Len(calls) => u.step = FirstStep(calls[t.index + 1].op) /\ u.index = t.index + 1
  BY <1>1 DEF Returned
<1>5. u.index \in 1..Len(calls)
  BY <1>1, <1>2, <1>4
<1>6. /\ u.step \in {"owned", "select", "write", "commit"}
      /\ ReadOK(u.step, calls[u.index], u.read, u.writes, rs)
  <2>1. calls[u.index].op \in DOMAIN StoreOps
    BY <1>1, <1>5, CallFacts
  <2>2. CASE t.index = Len(calls)
    BY <2>2, <1>4 DEF ReadOK
  <2>3. CASE t.index # Len(calls)
    BY <2>1, <2>3, <1>4, FirstStepFacts DEF ReadOK
  <2> QED BY <2>2, <2>3
<1>7. ReturnedOK(u)
  <2> SUFFICES ASSUME NEW n \in 1..Len(calls), n < u.index \/ u.step = "commit"
               PROVE  \E r \in results : r[1] = KeyOfCall(calls[n])
    BY <1>2, <1>4 DEF ReturnedOK
  <2>1. n < t.index \/ n = t.index
    <3>1. CASE t.index = Len(calls)
      BY <3>1, <1>1, <1>2
    <3>2. CASE t.index # Len(calls)
      <4>1. calls[u.index].op \in DOMAIN StoreOps
        BY <1>1, <1>5, CallFacts
      <4>2. u.step # "commit"
        BY <4>1, <3>2, <1>4, FirstStepFacts
      <4> QED BY <4>2, <3>2, <1>4, <1>1, <1>2
    <3> QED BY <3>1, <3>2
  <2>2. CASE n = t.index
    <3>1. <<KeyOfCall(q), v>> \in results /\ <<KeyOfCall(q), v>>[1] = KeyOfCall(calls[n])
      BY <2>2
    <3> QED BY <3>1
  <2>3. CASE n < t.index
    BY <2>3, <1>1, <1>2 DEF ReturnedOK
  <2> QED BY <2>1, <2>2, <2>3
<1> HIDE DEF u, results
<1> QED BY <1>1, <1>3, <1>4, <1>5, <1>6, <1>7 DEF TxOK, u


(* The row that call q of the transaction t writes.                        *)
Written(t, q) ==
  CASE q.op = "put_tenant" ->
         [status |-> "active", payload |-> [status |-> "active", name |-> q.value]]
    [] q.op = "update_status" ->
         [status |-> q.value, payload |-> [t.read.payload EXCEPT !.status = q.value]]
    [] q.op = "record_event" -> [owner |-> q.tenant, body |-> q.value, published |-> FALSE]
    [] q.op = "mark_published" -> [t.read EXCEPT !.published = TRUE]
    [] OTHER -> q.value

LEMMA WrittenFacts ==
  ASSUME NEW rs, NEW t, NEW q, q.op \in DOMAIN StoreOps, t.step = "write",
         ReadOK(t.step, q, t.read, t.writes, rs)
  PROVE  /\ StoreRowOK(KeyOfCall(q), Written(t, q))
         /\ StoreOps[q.op].table \in PutOnceTables => Written(t, q) = q.value
         /\ q.op = "mark_published" =>
              /\ KeyOfCall(q) \in DOMAIN Over(t.writes, rs)
              /\ Continues(Over(t.writes, rs)[KeyOfCall(q)], Written(t, q))
<1>1. KeyOfCall(q)[1] = StoreOps[q.op].table
  BY DEF KeyOfCall
<1>2. CASE q.op = "put_tenant"
  BY <1>1, <1>2, OpFacts DEF Written, StoreRowOK
<1>3. CASE q.op = "update_status"
  BY <1>1, <1>3, OpFacts DEF Written, StoreRowOK, ReadOK
<1>4. CASE q.op = "record_event"
  BY <1>1, <1>4, OpFacts DEF Written, StoreRowOK
<1>5. CASE q.op = "mark_published"
  <2>1. /\ Written(t, q) = [t.read EXCEPT !.published = TRUE]
        /\ DOMAIN t.read = {"owner", "body", "published"}
        /\ KeyOfCall(q) \in DOMAIN Over(t.writes, rs)
        /\ t.read.owner = Over(t.writes, rs)[KeyOfCall(q)].owner
        /\ t.read.body = Over(t.writes, rs)[KeyOfCall(q)].body
    BY <1>5 DEF Written, ReadOK
  <2>2. DOMAIN Written(t, q) = {"owner", "body", "published"}
    BY <2>1
  <2>3. Continues(Over(t.writes, rs)[KeyOfCall(q)], Written(t, q))
    BY <2>1 DEF Continues
  <2> QED BY <1>1, <1>5, <2>1, <2>2, <2>3, OpFacts DEF StoreRowOK
<1>6. CASE q.op \notin {"put_tenant", "update_status", "record_event", "mark_published"}
  BY <1>1, <1>6, OpFacts DEF Written, StoreRowOK
<1> QED BY <1>2, <1>3, <1>4, <1>5, <1>6

(* A statement stores the row of its call: an insert only where its        *)
(* transaction sees no row.                                                *)
LEMMA StoredTx ==
  ASSUME NEW rs, RowsOK(rs), NEW t, NEW q, q = Script[t.script][t.index], TxOK(t, rs),
         t.step = "write",
         StoreOps[q.op].write \in {"upsert", "update"} \/ KeyOfCall(q) \notin DOMAIN Over(t.writes, rs)
  PROVE  \E ws : /\ ws = With(t.writes, KeyOfCall(q), Written(t, q))
                 /\ TxOK(Returned(t, ws, q.value), rs) /\ Returned(t, ws, q.value).writes = ws
<1>0. PICK ws : ws = With(t.writes, KeyOfCall(q), Written(t, q))
  OBVIOUS
<1> DEFINE key == KeyOfCall(q)
           row == Written(t, q)
           calls == Script[t.script]
<1>1. /\ t.script \in Scripts /\ t.index \in 1..Len(calls) /\ EventsOK(calls, t.writes, rs)
      /\ ReadOK(t.step, q, t.read, t.writes, rs) /\ WritesOK(t.writes, rs)
      /\ AnswersOK(t.results, t.writes, rs)
  BY DEF TxOK
<1>2. /\ q.op \in DOMAIN StoreOps /\ KeyOK(key) /\ key[1] = StoreOps[q.op].table /\ key[3] = q.key
  BY <1>1, CallFacts
<1>3. /\ StoreRowOK(key, row)
      /\ StoreOps[q.op].table \in PutOnceTables => row = q.value
      /\ q.op = "mark_published" =>
           key \in DOMAIN Over(t.writes, rs) /\ Continues(Over(t.writes, rs)[key], row)
  BY <1>1, <1>2, WrittenFacts
<1>4. /\ DOMAIN ws = DOMAIN t.writes \cup {key} /\ ws[key] = row
      /\ \A k \in DOMAIN t.writes : k # key => ws[k] = t.writes[k]
  BY <1>0 DEF With
<1>5. /\ DOMAIN Over(t.writes, rs) = DOMAIN t.writes \cup DOMAIN rs
      /\ \A k \in DOMAIN t.writes : Over(t.writes, rs)[k] = t.writes[k]
      /\ \A k \in DOMAIN rs : k \notin DOMAIN t.writes => Over(t.writes, rs)[k] = rs[k]
  BY OverFacts
<1>6. /\ DOMAIN Over(ws, rs) = DOMAIN ws \cup DOMAIN rs
      /\ \A k \in DOMAIN ws : Over(ws, rs)[k] = ws[k]
      /\ \A k \in DOMAIN rs : k \notin DOMAIN ws => Over(ws, rs)[k] = rs[k]
  BY DEF Over
<1>7. /\ key[1] \in PutOnceTables => key \notin DOMAIN Over(t.writes, rs)
      /\ key[1] = "outbox" /\ key \in DOMAIN Over(t.writes, rs) => q.op = "mark_published"
  BY <1>2, OpFacts
<1> HIDE DEF key, row
<1>8. WriteOK(key, row, rs)
  <2>1. ASSUME key[1] = "outbox", key \in DOMAIN rs PROVE Continues(rs[key], row)
    <3>1. q.op = "mark_published"
      BY <2>1, <1>5, <1>7
    <3>2. Continues(Over(t.writes, rs)[key], row)
      BY <3>1, <1>3
    <3>3. CASE key \notin DOMAIN t.writes
      BY <3>2, <3>3, <2>1, <1>5
    <3>4. CASE key \in DOMAIN t.writes
      <4>1. Continues(rs[key], t.writes[key])
        BY <3>4, <2>1, <1>1 DEF WritesOK, WriteOK
      <4>2. /\ StoreRowOK(key, rs[key]) /\ StoreRowOK(key, t.writes[key])
        BY <3>4, <2>1, <1>1 DEF RowsOK, WritesOK, WriteOK
      <4> QED BY <4>1, <3>2, <3>4, <1>5 DEF Continues
    <3> QED BY <3>3, <3>4
  <2> QED BY <2>1, <1>2, <1>3, <1>7, <1>5 DEF WriteOK
<1>9. WritesOK(ws, rs)
  BY <1>8, <1>4, <1>1 DEF WritesOK
<1>10. AnswersOK(t.results, ws, rs)
  <2> SUFFICES ASSUME NEW r \in t.results, r[1][1] \in PutOnceTables
               PROVE  r[1] \in DOMAIN Over(ws, rs) /\ Over(ws, rs)[r[1]] = r[2]
    BY DEF AnswersOK, SeenAs
  <2>1. r[1] \in DOMAIN Over(t.writes, rs) /\ Over(t.writes, rs)[r[1]] = r[2]
    BY <1>1 DEF AnswersOK, SeenAs
  <2>2. r[1] # key
    BY <2>1, <1>7
  <2>3. CASE r[1] \in DOMAIN t.writes
    <3>1. r[1] \in DOMAIN ws /\ ws[r[1]] = t.writes[r[1]]
      BY <2>2, <2>3, <1>4
    <3> QED BY <3>1, <2>1, <2>3, <1>5, <1>6
  <2>4. CASE r[1] \notin DOMAIN t.writes
    <3>1. r[1] \in DOMAIN rs /\ r[1] \notin DOMAIN ws
      BY <2>1, <2>2, <2>4, <1>4, <1>5
    <3> QED BY <3>1, <2>1, <2>4, <1>5, <1>6
  <2> QED BY <2>3, <2>4
<1>11. SeenAs(key, q.value, ws, rs)
  BY <1>2, <1>3, <1>4, <1>6 DEF SeenAs
<1>12. EventsOK(calls, ws, rs)
  <2> SUFFICES ASSUME NEW k \in DOMAIN ws, k[1] = "outbox", k \notin DOMAIN rs
               PROVE  RecordsEvent(calls, k[3])
    BY DEF EventsOK
  <2>1. CASE k \in DOMAIN t.writes
    BY <2>1, <1>1 DEF EventsOK
  <2>2. CASE k \notin DOMAIN t.writes
    <3>1. k = key /\ k \notin DOMAIN Over(t.writes, rs)
      BY <2>2, <1>4, <1>5
    <3>2. q.op = "record_event" /\ k[3] = q.key
      BY <3>1, <1>2, <1>3, OpFacts
    <3>3. t.index \in DOMAIN calls
      BY <1>1, StoresAssumption
    <3> QED BY <3>2, <3>3 DEF RecordsEvent
  <2> QED BY <2>1, <2>2
<1>13. TxOK(Returned(t, ws, q.value), rs) /\ Returned(t, ws, q.value).writes = ws
  BY <1>9, <1>10, <1>11, <1>12, ReturnedTx DEF key
<1> QED BY <1>0, <1>13


(* The definitions of the model, in terms of a transaction and its call.   *)
LEMMA ReturnMeans ==
  ASSUME NEW c \in Clients, NEW t, t = tx[c], TxOK(t, rows), NEW ws, NEW v, Return(c, ws, v)
  PROVE  tx' = [tx EXCEPT ![c] = Returned(t, ws, v)] /\ UNCHANGED <<rows, told, begun>>
<1>1. RowKey(c) = KeyOfCall(Script[t.script][t.index])
  BY DEF RowKey, KeyOfCall, OpOf, Call
<1>2. DOMAIN t = {"script", "index", "step", "writes", "read", "results"}
  BY DEF TxOK
<1> QED BY <1>1, <1>2 DEF Return, Returned

LEMMA ReturnStep ==
  ASSUME StoresInv, NEW c \in Clients, NEW t, t = tx[c], NEW ws, NEW v, Return(c, ws, v),
         TxOK(Returned(t, ws, v), rows), Returned(t, ws, v).writes = ws,
         \A k \in DOMAIN ws : k \in DOMAIN t.writes
           \/ \A d \in Clients \ {c} : k \notin DOMAIN tx[d].writes,
         UNCHANGED workload
  PROVE  StoresInv'
<1>1. TxOK(t, rows)
  BY DEF StoresInv
<1>2. tx' = [tx EXCEPT ![c] = Returned(t, ws, v)] /\ UNCHANGED <<rows, told, begun>>
  BY <1>1, ReturnMeans
<1>3. begun' \in 0..MaxTransactions
  BY <1>2 DEF StoresInv
<1> QED BY <1>2, <1>3, ClientMoves

LEMMA BeginStep ==
  ASSUME StoresInv, NEW c \in Clients, NEW s \in workload, Begin(c, s), UNCHANGED workload
  PROVE  StoresInv'
<1> DEFINE t == [NoTx EXCEPT !.script = s, !.index = 1, !.step = FirstStep(Script[s][1].op)]
<1>1. s \in Scripts
  BY DEF StoresInv, Scripts
<1>2. 1 \in 1..Len(Script[s]) /\ Script[s][1].op \in DOMAIN StoreOps
  BY <1>1, StoresAssumption
<1>3. /\ DOMAIN t = {"script", "index", "step", "writes", "read", "results"}
      /\ t.script = s /\ t.index = 1 /\ t.step = FirstStep(Script[s][1].op)
      /\ DOMAIN t.writes = {} /\ t.results = {}
  BY DEF NoTx
<1> HIDE DEF t
<1>4. t.step \in {"owned", "select", "write"} /\ ReadOK(t.step, Script[s][1], t.read, t.writes, rows)
  BY <1>2, <1>3, FirstStepFacts DEF ReadOK
<1>5. ReturnedOK(t)
  <2>1. \A n \in DOMAIN Script[s] : ~(n < 1)
    BY <1>1, StoresAssumption
  <2> QED BY <2>1, <1>3, <1>4 DEF ReturnedOK
<1>6. TxOK(t, rows)
  BY <1>1, <1>2, <1>3, <1>4, <1>5 DEF TxOK, EventsOK, WritesOK, AnswersOK
<1>7. tx' = [tx EXCEPT ![c] = t] /\ UNCHANGED <<rows, told>> /\ begun' \in 0..MaxTransactions
  BY StoresAssumption DEF Begin, t, StoresInv
<1> QED BY <1>3, <1>6, <1>7, ClientMoves

(* A transaction that goes from one step of a call to another.             *)
LEMMA StepMoves ==
  ASSUME NEW rs, NEW t, TxOK(t, rs), t.step \notin {"idle", "commit"}, NEW u,
         DOMAIN u = DOMAIN t, u.script = t.script, u.index = t.index, u.writes = t.writes,
         u.results = t.results, u.step \in {"owned", "select", "write", "prior"},
         ReadOK(u.step, Script[t.script][t.index], u.read, t.writes, rs)
  PROVE  TxOK(u, rs)
<1>1. ReturnedOK(u)
  BY DEF ReturnedOK, TxOK
<1> QED BY <1>1 DEF TxOK

LEMMA AssertOwnedStep ==
  ASSUME StoresInv, NEW c \in Clients, AssertOwned(c), UNCHANGED workload
  PROVE  StoresInv'
<1>1. CASE RollBack(c)
  BY <1>1, RollBackStep
<1>2. CASE /\ tx' = [tx EXCEPT ![c].step = AfterOwned(Call(c).op)]
           /\ UNCHANGED <<rows, told, begun>>
  <2>1. PICK t : t = tx[c]
    OBVIOUS
  <2>2. PICK q : q = Script[t.script][t.index]
    OBVIOUS
  <2>3. TxOK(t, rows) /\ t.step = "owned" /\ q = Call(c) /\ begun' \in 0..MaxTransactions
    BY <2>1, <2>2, <1>2 DEF StoresInv, AssertOwned, Call
  <2>4. q.op \in DOMAIN StoreOps
    BY <2>2, <2>3, CallFacts DEF TxOK
  <2>5. DOMAIN t = {"script", "index", "step", "writes", "read", "results"}
    BY <2>3 DEF TxOK
  <2>6. PICK u : u = [t EXCEPT !.step = AfterOwned(q.op)]
    OBVIOUS
  <2>7. /\ DOMAIN u = DOMAIN t /\ u.script = t.script /\ u.index = t.index /\ u.writes = t.writes
        /\ u.results = t.results /\ u.step = AfterOwned(q.op) /\ u.read = t.read
    BY <2>5, <2>6
  <2>8. u.step \in {"select", "write"} /\ ReadOK(u.step, q, u.read, t.writes, rows)
    BY <2>4, <2>7, FirstStepFacts DEF ReadOK
  <2>9. TxOK(u, rows)
    BY <2>2, <2>3, <2>7, <2>8, StepMoves
  <2>10. tx' = [tx EXCEPT ![c] = u]
    BY <1>2, <2>1, <2>3, <2>6
  <2> QED BY <1>2, <2>1, <2>3, <2>7, <2>9, <2>10, ClientMoves
<1> QED BY <1>1, <1>2 DEF AssertOwned


(* A call that writes nothing answers with what its transaction sees.      *)
LEMMA SeenStep ==
  ASSUME StoresInv, NEW c \in Clients, NEW t, t = tx[c], NEW q, q = Script[t.script][t.index],
         t.step \notin {"idle", "commit"}, NEW v, Return(c, t.writes, v),
         SeenAs(KeyOfCall(q), v, t.writes, rows), UNCHANGED workload
  PROVE  StoresInv'
<1>1. TxOK(t, rows)
  BY DEF StoresInv
<1>2. WritesOK(t.writes, rows) /\ AnswersOK(t.results, t.writes, rows) /\ EventsOK(Script[t.script], t.writes, rows)
  BY <1>1 DEF TxOK
<1>3. TxOK(Returned(t, t.writes, v), rows) /\ Returned(t, t.writes, v).writes = t.writes
  BY <1>1, <1>2, ReturnedTx
<1> QED BY <1>3, ReturnStep

LEMMA SelectRowStep ==
  ASSUME StoresInv, NEW c \in Clients, SelectRow(c), UNCHANGED workload
  PROVE  StoresInv'
<1>1. PICK t : t = tx[c]
  OBVIOUS
<1>2. PICK q : q = Script[t.script][t.index]
  OBVIOUS
<1>3. PICK key : key = KeyOfCall(q)
  OBVIOUS
<1>4. PICK kept : kept = Over(t.writes, rows)
  OBVIOUS
<1>5. /\ TxOK(t, rows) /\ t.step = "select" /\ q = Call(c) /\ begun \in 0..MaxTransactions
      /\ RowsOK(rows) /\ RowKey(c) = key /\ Visible(c) = kept
  BY <1>1, <1>2, <1>3, <1>4 DEF StoresInv, SelectRow, Call, RowKey, KeyOfCall, OpOf, Visible
<1>6. /\ DOMAIN t = {"script", "index", "step", "writes", "read", "results"}
      /\ t.script \in Scripts /\ t.index \in 1..Len(Script[t.script]) /\ WritesOK(t.writes, rows)
      /\ ReadOK("select", q, t.read, t.writes, rows)
  BY <1>2, <1>5 DEF TxOK
<1>7. q.op \in {"put_manifest", "record_event", "mark_published", "update_status"}
  BY <1>6 DEF ReadOK
<1>8. /\ q.op \in DOMAIN StoreOps /\ key[1] = StoreOps[q.op].table
  BY <1>2, <1>3, <1>6, CallFacts
<1>9. \A k \in DOMAIN kept : StoreRowOK(k, kept[k])
  <2>1. \A k \in DOMAIN t.writes : StoreRowOK(k, t.writes[k])
    BY <1>6 DEF WritesOK, WriteOK
  <2>2. \A k \in DOMAIN rows : StoreRowOK(k, rows[k])
    BY <1>5 DEF RowsOK
  <2> QED BY <1>4, <2>1, <2>2 DEF Over
<1> DEFINE known == key \in DOMAIN kept
           read == IF known THEN kept[key] ELSE "none"
           Proceed == tx' = [tx EXCEPT ![c].step = "write", ![c].read = read] /\ UNCHANGED <<rows, told, begun>>
<1>10. CASE RollBack(c)
  BY <1>10, RollBackStep
<1>11. ASSUME Proceed,
              q.op = "mark_published" => known,
              q.op = "update_status" => known
       PROVE  StoresInv'
  <2>1. PICK u : u = [t EXCEPT !.step = "write", !.read = read]
    OBVIOUS
  <2>2. /\ DOMAIN u = DOMAIN t /\ u.script = t.script /\ u.index = t.index /\ u.writes = t.writes
        /\ u.results = t.results /\ u.step = "write" /\ u.read = read
    BY <1>6, <2>1
  <2>3. q.op = "mark_published" => DOMAIN read = {"owner", "body", "published"} /\ read = kept[key]
    BY <1>8, <1>9, <1>11, OpFacts DEF StoreRowOK
  <2>4. q.op = "update_status" => DOMAIN read.payload = {"status", "name"}
    BY <1>8, <1>9, <1>11, OpFacts DEF StoreRowOK
  <2>5. ReadOK(u.step, q, u.read, t.writes, rows)
    <3> HIDE DEF read
    <3> QED BY <1>3, <1>4, <1>11, <2>2, <2>3, <2>4 DEF ReadOK
  <2>6. TxOK(u, rows)
    BY <1>2, <1>5, <2>2, <2>5, StepMoves
  <2>7. tx' = [tx EXCEPT ![c] = u] /\ UNCHANGED <<rows, told, begun>>
    BY <1>1, <1>11, <2>1
  <2> QED BY <1>1, <1>5, <2>2, <2>6, <2>7, ClientMoves
<1>12. ASSUME known, Return(c, t.writes, kept[key]) PROVE StoresInv'
  <2>1. PICK v : v = kept[key]
    OBVIOUS
  <2>2. SeenAs(KeyOfCall(q), v, t.writes, rows)
    BY <1>3, <1>4, <1>12, <2>1 DEF SeenAs
  <2> QED BY <1>1, <1>2, <1>5, <1>12, <2>1, <2>2, SeenStep
<1>13. ASSUME q.op = "record_event", NEW v, Return(c, t.writes, v) PROVE StoresInv'
  <2>1. SeenAs(KeyOfCall(q), v, t.writes, rows)
    BY <1>3, <1>8, <1>13, OpFacts DEF SeenAs, PutOnceTables
  <2> QED BY <1>1, <1>2, <1>5, <1>13, <2>1, SeenStep
<1>14. CASE q.op = "put_manifest"
  BY <1>14, <1>1, <1>5, <1>10, <1>11, <1>12 DEF SelectRow
<1>15. CASE q.op = "record_event"
  BY <1>15, <1>1, <1>5, <1>10, <1>11, <1>13 DEF SelectRow
<1>16. CASE q.op = "mark_published"
  BY <1>16, <1>1, <1>5, <1>10, <1>11 DEF SelectRow
<1>17. CASE q.op = "update_status"
  BY <1>17, <1>1, <1>5, <1>10, <1>11 DEF SelectRow
<1> QED BY <1>7, <1>14, <1>15, <1>16, <1>17

LEMMA WriteRowStep ==
  ASSUME StoresInv, NEW c \in Clients, WriteRow(c), UNCHANGED workload
  PROVE  StoresInv'
<1>1. PICK t : t = tx[c]
  OBVIOUS
<1>2. PICK q : q = Script[t.script][t.index]
  OBVIOUS
<1>3. PICK key : key = KeyOfCall(q)
  OBVIOUS
<1>4. PICK ws : ws = With(t.writes, key, Written(t, q))
  OBVIOUS
<1>5. /\ TxOK(t, rows) /\ t.step = "write" /\ q = Call(c) /\ begun \in 0..MaxTransactions
      /\ RowsOK(rows) /\ RowKey(c) = key /\ Visible(c) = Over(t.writes, rows)
  BY <1>1, <1>2, <1>3 DEF StoresInv, WriteRow, Call, RowKey, KeyOfCall, OpOf, Visible
<1>6. NewRow(c) = Written(t, q) /\ OpOf(c) = StoreOps[q.op]
  BY <1>1, <1>5 DEF NewRow, Written, OpOf
<1>7. /\ DOMAIN t = {"script", "index", "step", "writes", "read", "results"}
      /\ t.script \in Scripts /\ t.index \in 1..Len(Script[t.script])
  BY <1>5 DEF TxOK
<1>8. /\ q.op \in DOMAIN StoreOps /\ key[1] = StoreOps[q.op].table
  BY <1>2, <1>3, <1>7, CallFacts
<1>9. \A d \in Clients \ {c} : key \notin DOMAIN tx[d].writes
  BY <1>5 DEF WriteRow, Locked
<1> DEFINE known == key \in DOMAIN Over(t.writes, rows)
<1>10. CASE RollBack(c)
  BY <1>10, RollBackStep
<1>11. ASSUME StoreOps[q.op].write \in {"upsert", "update"} \/ ~known, Return(c, ws, q.value)
       PROVE  StoresInv'
  <2>1. TxOK(Returned(t, ws, q.value), rows) /\ Returned(t, ws, q.value).writes = ws
    <3>1. StoreOps[q.op].write \in {"upsert", "update"} \/ KeyOfCall(q) \notin DOMAIN Over(t.writes, rows)
      BY <1>3, <1>11
    <3>2. RowsOK(rows) /\ q = Script[t.script][t.index] /\ TxOK(t, rows) /\ t.step = "write"
      BY <1>2, <1>5
    <3>3. \E w : /\ w = With(t.writes, KeyOfCall(q), Written(t, q))
                 /\ TxOK(Returned(t, w, q.value), rows) /\ Returned(t, w, q.value).writes = w
      BY ONLY <3>1, <3>2, StoredTx, SMTT(120)
    <3> QED BY <3>3, <1>3, <1>4
  <2>2. DOMAIN ws = DOMAIN t.writes \cup {key}
    BY <1>4 DEF With
  <2>3. PICK v : v = q.value
    OBVIOUS
  <2> QED BY <1>1, <1>9, <1>11, <2>1, <2>2, <2>3, ReturnStep
<1>12. ASSUME q.op = "mark", Return(c, t.writes, q.value) PROVE StoresInv'
  <2>1. PICK v : v = q.value
    OBVIOUS
  <2>2. SeenAs(KeyOfCall(q), v, t.writes, rows)
    BY <1>3, <1>8, <1>12, OpFacts DEF SeenAs
  <2> QED BY <1>1, <1>2, <1>5, <1>12, <2>1, <2>2, SeenStep
<1>13. ASSUME q.op \in {"record_decision", "record"}, known, tx' = [tx EXCEPT ![c].step = "prior"],
              UNCHANGED <<rows, told, begun>>
       PROVE  StoresInv'
  <2>1. PICK u : u = [t EXCEPT !.step = "prior"]
    OBVIOUS
  <2>2. /\ DOMAIN u = DOMAIN t /\ u.script = t.script /\ u.index = t.index /\ u.writes = t.writes
        /\ u.results = t.results /\ u.step = "prior" /\ u.read = t.read
    BY <1>7, <2>1
  <2>3. ReadOK(u.step, q, u.read, t.writes, rows)
    BY <1>3, <1>13, <2>2 DEF ReadOK
  <2>4. TxOK(u, rows)
    BY <1>2, <1>5, <2>2, <2>3, StepMoves
  <2>5. tx' = [tx EXCEPT ![c] = u]
    BY <1>1, <1>13, <2>1
  <2> QED BY <1>1, <1>5, <1>13, <2>2, <2>4, <2>5, ClientMoves
<1>14. CASE StoreOps[q.op].write \in {"upsert", "update"}
  BY <1>14, <1>1, <1>4, <1>5, <1>6, <1>11 DEF WriteRow
<1>15. CASE StoreOps[q.op].write = "insert"
  BY <1>15, <1>1, <1>4, <1>5, <1>6, <1>10, <1>11 DEF WriteRow
<1>16. CASE StoreOps[q.op].write = "do_nothing"
  <2>1. q.op \in {"record_decision", "record", "mark"}
    BY <1>8, <1>16, OpFacts
  <2> QED BY <2>1, <1>16, <1>1, <1>4, <1>5, <1>6, <1>11, <1>12, <1>13 DEF WriteRow
<1> QED BY <1>8, <1>14, <1>15, <1>16, OpFacts

LEMMA ReadPriorStep ==
  ASSUME StoresInv, NEW c \in Clients, ReadPrior(c), UNCHANGED workload
  PROVE  StoresInv'
<1>1. PICK t : t = tx[c]
  OBVIOUS
<1>2. PICK q : q = Script[t.script][t.index]
  OBVIOUS
<1>3. PICK v : v = Over(t.writes, rows)[KeyOfCall(q)]
  OBVIOUS
<1>4. /\ TxOK(t, rows) /\ t.step = "prior" /\ Visible(c)[RowKey(c)] = v
  BY <1>1, <1>2, <1>3 DEF StoresInv, ReadPrior, Call, RowKey, KeyOfCall, OpOf, Visible
<1>5. KeyOfCall(q) \in DOMAIN Over(t.writes, rows)
  BY <1>2, <1>4 DEF TxOK, ReadOK
<1>6. SeenAs(KeyOfCall(q), v, t.writes, rows)
  BY <1>3, <1>5 DEF SeenAs
<1>7. CASE RollBack(c)
  BY <1>7, RollBackStep
<1>8. CASE Return(c, t.writes, v)
  BY <1>1, <1>2, <1>4, <1>6, <1>8, SeenStep
<1> QED BY <1>1, <1>4, <1>7, <1>8 DEF ReadPrior


(* What may become of the committed rows.                                  *)
Sticks(old, new) ==
  \A k \in DOMAIN old : /\ k \in DOMAIN new
                        /\ k[1] \in PutOnceTables => new[k] = old[k]
                        /\ k[1] = "outbox" => Continues(old[k], new[k])

LEMMA CommittedRows ==
  ASSUME NEW rs, RowsOK(rs), NEW ws, WritesOK(ws, rs)
  PROVE  RowsOK(Over(ws, rs)) /\ Sticks(rs, Over(ws, rs))
<1>0. PICK new : new = Over(ws, rs)
  OBVIOUS
<1>1. /\ DOMAIN new = DOMAIN ws \cup DOMAIN rs
      /\ \A k \in DOMAIN ws : new[k] = ws[k]
      /\ \A k \in DOMAIN rs : k \notin DOMAIN ws => new[k] = rs[k]
  BY <1>0 DEF Over
<1>2. \A k \in DOMAIN ws : WriteOK(k, ws[k], rs)
  BY DEF WritesOK
<1>3. RowsOK(new)
  BY <1>1, <1>2 DEF RowsOK, WriteOK
<1>4. Sticks(rs, new)
  <2> SUFFICES ASSUME NEW k \in DOMAIN rs
               PROVE  /\ k \in DOMAIN new
                      /\ k[1] \in PutOnceTables => new[k] = rs[k]
                      /\ k[1] = "outbox" => Continues(rs[k], new[k])
    BY DEF Sticks
  <2>1. CASE k \in DOMAIN ws
    BY <2>1, <1>1, <1>2 DEF WriteOK
  <2>2. CASE k \notin DOMAIN ws
    BY <2>2, <1>1 DEF Continues
  <2> QED BY <2>1, <2>2
<1> QED BY <1>0, <1>3, <1>4

(* A commit leaves the transactions that are under way as good as they     *)
(* were: they hold other rows, and what they have read sticks.             *)
LEMMA OthersStand ==
  ASSUME NEW rs, NEW u, TxOK(u, rs), NEW new, Sticks(rs, new),
         \A k \in DOMAIN u.writes : /\ k \in DOMAIN new <=> k \in DOMAIN rs
                                    /\ k \in DOMAIN rs => new[k] = rs[k]
  PROVE  TxOK(u, new)
<1>1. WritesOK(u.writes, new)
  <2>1. \A k \in DOMAIN u.writes : WriteOK(k, u.writes[k], rs)
    BY DEF TxOK, WritesOK
  <2> QED BY <2>1 DEF WritesOK, WriteOK
<1>2. /\ DOMAIN Over(u.writes, rs) = DOMAIN u.writes \cup DOMAIN rs
      /\ DOMAIN Over(u.writes, new) = DOMAIN u.writes \cup DOMAIN new
      /\ \A k \in DOMAIN u.writes : Over(u.writes, new)[k] = Over(u.writes, rs)[k]
      /\ \A k \in DOMAIN rs : k \notin DOMAIN u.writes => Over(u.writes, rs)[k] = rs[k]
      /\ \A k \in DOMAIN new : k \notin DOMAIN u.writes => Over(u.writes, new)[k] = new[k]
  BY DEF Over
<1>3. \A k \in DOMAIN Over(u.writes, rs) :
        /\ k \in DOMAIN Over(u.writes, new)
        /\ k[1] \in PutOnceTables => Over(u.writes, new)[k] = Over(u.writes, rs)[k]
        /\ k[1] = "outbox" => Continues(Over(u.writes, rs)[k], Over(u.writes, new)[k])
  <2> SUFFICES ASSUME NEW k \in DOMAIN Over(u.writes, rs)
               PROVE  /\ k \in DOMAIN Over(u.writes, new)
                      /\ k[1] \in PutOnceTables => Over(u.writes, new)[k] = Over(u.writes, rs)[k]
                      /\ k[1] = "outbox" => Continues(Over(u.writes, rs)[k], Over(u.writes, new)[k])
    OBVIOUS
  <2>1. CASE k \in DOMAIN u.writes
    BY <2>1, <1>2 DEF Continues
  <2>2. CASE k \notin DOMAIN u.writes
    BY <2>2, <1>2 DEF Sticks
  <2> QED BY <2>1, <2>2
<1>4. AnswersOK(u.results, u.writes, new)
  <2>1. AnswersOK(u.results, u.writes, rs)
    BY DEF TxOK
  <2> QED BY <2>1, <1>3 DEF AnswersOK, SeenAs
<1>5. ASSUME u.step # "idle"
      PROVE  /\ ReadOK(u.step, Script[u.script][u.index], u.read, u.writes, new)
             /\ EventsOK(Script[u.script], u.writes, new)
  <2>1. PICK q : q = Script[u.script][u.index]
    OBVIOUS
  <2>2. PICK key : key = KeyOfCall(q)
    OBVIOUS
  <2>3. /\ u.script \in Scripts /\ u.index \in 1..Len(Script[u.script])
        /\ ReadOK(u.step, q, u.read, u.writes, rs) /\ EventsOK(Script[u.script], u.writes, rs)
    BY <1>5, <2>1 DEF TxOK
  <2>4. q.op \in DOMAIN StoreOps /\ key[1] = StoreOps[q.op].table
    BY <2>1, <2>2, <2>3, CallFacts
  <2>5. q.op = "mark_published" => key[1] = "outbox"
    BY <2>4, OpFacts
  <2>6. ReadOK(u.step, q, u.read, u.writes, new)
    <3>1. /\ u.step = "select" => q.op \in {"put_manifest", "record_event", "mark_published", "update_status"}
          /\ u.step = "write" /\ q.op = "update_status" => DOMAIN u.read.payload = {"status", "name"}
      BY <2>3 DEF ReadOK
    <3>2. u.step = "prior" => q.op \in {"record_decision", "record"} /\ key \in DOMAIN Over(u.writes, new)
      BY <2>2, <2>3, <1>3 DEF ReadOK
    <3>3. ASSUME u.step = "write", q.op = "mark_published"
          PROVE  /\ key \in DOMAIN Over(u.writes, new) /\ DOMAIN u.read = {"owner", "body", "published"}
                 /\ u.read.owner = Over(u.writes, new)[key].owner
                 /\ u.read.body = Over(u.writes, new)[key].body
      <4>1. /\ key \in DOMAIN Over(u.writes, rs) /\ DOMAIN u.read = {"owner", "body", "published"}
            /\ u.read.owner = Over(u.writes, rs)[key].owner
            /\ u.read.body = Over(u.writes, rs)[key].body
        BY <3>3, <2>2, <2>3 DEF ReadOK
      <4>2. key \in DOMAIN Over(u.writes, new) /\ Continues(Over(u.writes, rs)[key], Over(u.writes, new)[key])
        BY <4>1, <3>3, <2>5, <1>3
      <4> QED BY <4>1, <4>2 DEF Continues
    <3> QED BY <3>1, <3>2, <3>3, <2>2 DEF ReadOK
  <2>7. EventsOK(Script[u.script], u.writes, new)
    BY <2>3 DEF EventsOK
  <2> QED BY <2>1, <2>6, <2>7
<1> QED BY <1>1, <1>4, <1>5 DEF TxOK

LEMMA CommitStep ==
  ASSUME StoresInv, NEW c \in Clients, Commit(c), UNCHANGED workload
  PROVE  StoresInv' /\ Sticks(rows, rows')
<1>1. PICK t : t = tx[c]
  OBVIOUS
<1>2. /\ TxOK(t, rows) /\ t.step = "commit" /\ RowsOK(rows) /\ rows' = Over(t.writes, rows)
      /\ told' = told \cup t.results
  BY <1>1 DEF StoresInv, Commit, Visible
<1>3. /\ RowsOK(rows') /\ Sticks(rows, rows') /\ DOMAIN rows' = DOMAIN t.writes \cup DOMAIN rows
      /\ \A k \in DOMAIN rows : k \notin DOMAIN t.writes => rows'[k] = rows[k]
  <2>1. WritesOK(t.writes, rows)
    BY <1>2 DEF TxOK
  <2>2. RowsOK(Over(t.writes, rows)) /\ Sticks(rows, Over(t.writes, rows))
    BY <2>1, <1>2, CommittedRows
  <2> QED BY <2>2, <1>2 DEF Over
<1>4. /\ DOMAIN tx' = Clients /\ tx'[c] = NoTx /\ \A d \in Clients \ {c} : tx'[d] = tx[d]
  BY DEF StoresInv, Commit
<1>5. \A d \in Clients : TxOK(tx'[d], rows')
  <2> SUFFICES ASSUME NEW d \in Clients PROVE TxOK(tx'[d], rows')
    OBVIOUS
  <2>1. CASE d = c
    BY <2>1, <1>4 DEF TxOK, NoTx, WritesOK, AnswersOK
  <2>2. CASE d # c
    <3>1. PICK u : u = tx[d]
      OBVIOUS
    <3>2. TxOK(u, rows) /\ DOMAIN u.writes \cap DOMAIN t.writes = {}
      BY <2>2, <3>1, <1>1 DEF StoresInv, LocksHold
    <3>3. \A k \in DOMAIN u.writes : /\ k \in DOMAIN rows' <=> k \in DOMAIN rows
                                     /\ k \in DOMAIN rows => rows'[k] = rows[k]
      BY <3>2, <1>3
    <3>4. TxOK(u, rows')
      BY <3>2, <3>3, <1>3, OthersStand
    <3> QED BY <3>1, <3>4, <2>2, <1>4
  <2> QED BY <2>1, <2>2
<1>6. (\A d \in Clients : TxOK(tx[d], rows))'
  BY <1>5 DEF TxOK, ReadOK, EventsOK, ReturnedOK, WritesOK, WriteOK, AnswersOK, SeenAs
<1>7. LocksHold'
  BY <1>4 DEF StoresInv, LocksHold, NoTx
<1>8. ToldIsStored'
  <2> SUFFICES ASSUME NEW r \in told', r[1][1] \in PutOnceTables
               PROVE  r[1] \in DOMAIN rows' /\ rows'[r[1]] = r[2]
    BY DEF ToldIsStored
  <2>1. CASE r \in told
    BY <2>1, <1>3 DEF StoresInv, ToldIsStored, Sticks
  <2>2. CASE r \in t.results
    BY <2>2, <1>2 DEF TxOK, AnswersOK, SeenAs
  <2> QED BY <1>2, <2>1, <2>2
<1>9. EventHasDecision'
  <2> SUFFICES ASSUME NEW s \in Scripts, IsPair(Script[s]),
                      <<"outbox", "any", Script[s][1].key>> \in DOMAIN rows'
               PROVE  <<"plan_decisions", Script[s][2].tenant, Script[s][2].key>> \in DOMAIN rows'
    BY DEF EventHasDecision
  <2>1. PICK event : event = <<"outbox", "any", Script[s][1].key>>
    OBVIOUS
  <2>2. CASE event \in DOMAIN rows
    BY <2>1, <2>2, <1>3 DEF StoresInv, EventHasDecision
  <2>3. CASE event \notin DOMAIN rows
    <3>1. event \in DOMAIN t.writes /\ event[1] = "outbox" /\ event[3] = Script[s][1].key
      BY <2>1, <2>3, <1>3
    <3>2. t.script \in Scripts /\ EventsOK(Script[t.script], t.writes, rows) /\ ReturnedOK(t)
      BY <1>2 DEF TxOK
    <3>3. PICK n \in DOMAIN Script[t.script] :
            Script[t.script][n].op = "record_event" /\ Script[t.script][n].key = Script[s][1].key
      BY <3>1, <3>2, <2>3 DEF EventsOK, RecordsEvent
    <3>4. PICK q : q = Script[t.script][2]
      OBVIOUS
    <3>5. IsPair(Script[t.script]) /\ q.tenant = Script[s][2].tenant /\ q.key = Script[s][2].key
      BY <3>2, <3>3, <3>4, StoresAssumption
    <3>6. 2 \in DOMAIN Script[t.script] /\ q.op = "record_decision"
      BY <3>2, <3>4, <3>5, StoresAssumption DEF IsPair
    <3>7. KeyOfCall(q) = <<"plan_decisions", Script[s][2].tenant, Script[s][2].key>>
      BY <3>5, <3>6, DecisionTable DEF KeyOfCall
    <3>8. PICK r \in t.results : r[1] = KeyOfCall(q)
      BY <3>2, <3>4, <3>6, <1>2 DEF ReturnedOK
    <3>9. r[1][1] \in PutOnceTables
      BY <3>7, <3>8 DEF PutOnceTables
    <3>10. r[1] \in DOMAIN rows'
      BY <3>9, <1>2 DEF TxOK, AnswersOK, SeenAs
    <3> QED BY <3>7, <3>8, <3>10
  <2> QED BY <2>2, <2>3
<1>10. RowsOK(rows)' /\ (workload \in Workloads)' /\ (begun \in 0..MaxTransactions)'
  BY <1>3 DEF RowsOK, StoresInv, Commit
<1> QED BY <1>3, <1>4, <1>6, <1>7, <1>8, <1>9, <1>10 DEF StoresInv


LEMMA StoresStep == StoresInv /\ [StoresNext]_storesVars => StoresInv' /\ Sticks(rows, rows')
<1> SUFFICES ASSUME StoresInv, [StoresNext]_storesVars PROVE StoresInv' /\ Sticks(rows, rows')
  OBVIOUS
<1>1. Sticks(rows, rows)
  BY DEF Sticks, Continues
<1>2. CASE UNCHANGED storesVars
  <2>1. StoresInv'
    <3>1. \A c \in Clients : TxOK(tx'[c], rows')
      BY <1>2 DEF storesVars, StoresInv
    <3>2. RowsOK(rows)' /\ ToldIsStored' /\ EventHasDecision' /\ LocksHold'
      BY <1>2 DEF storesVars, StoresInv, RowsOK, ToldIsStored, EventHasDecision, LocksHold
    <3> QED BY <1>2, <3>1, <3>2 DEF storesVars, StoresInv
  <2> QED BY <2>1, <1>1, <1>2 DEF storesVars
<1>3. CASE StoresNext
  <2>1. PICK c \in Clients : (\E s \in workload : Begin(c, s)) \/ ClientStep(c) \/ AbortTx(c)
    BY <1>3 DEF StoresNext
  <2>2. UNCHANGED workload
    BY <1>3 DEF StoresNext
  <2>3. CASE Commit(c)
    BY <2>2, <2>3, CommitStep
  <2>4. CASE \E s \in workload : Begin(c, s)
    BY <2>2, <2>4, <1>1, BeginStep DEF Begin
  <2>5. CASE AssertOwned(c)
    BY <2>2, <2>5, <1>1, AssertOwnedStep DEF AssertOwned, RollBack
  <2>6. CASE SelectRow(c)
    <3>1. rows' = rows
      <4>1. Call(c).op \in {"put_manifest", "record_event", "mark_published", "update_status"}
        BY <2>6 DEF StoresInv, TxOK, ReadOK, SelectRow, Call
      <4> QED BY <2>6, <4>1 DEF SelectRow, RollBack, Return
    <3> QED BY <2>2, <2>6, <3>1, <1>1, SelectRowStep
  <2>7. CASE WriteRow(c)
    <3>1. rows' = rows
      <4>1. PICK t : t = tx[c]
        OBVIOUS
      <4>2. TxOK(t, rows) /\ t.step = "write" /\ Call(c) = Script[t.script][t.index]
        BY <2>7, <4>1 DEF StoresInv, WriteRow, Call
      <4>3. Call(c).op \in DOMAIN StoreOps
        BY <4>2, CallFacts DEF TxOK
      <4>4. OpOf(c).write \in {"upsert", "update", "insert", "do_nothing"}
        BY <4>3, OpFacts DEF OpOf
      <4> QED BY <2>7, <4>4 DEF WriteRow, RollBack, Return
    <3> QED BY <2>2, <2>7, <3>1, <1>1, WriteRowStep
  <2>8. CASE ReadPrior(c)
    BY <2>2, <2>8, <1>1, ReadPriorStep DEF ReadPrior, RollBack, Return
  <2>9. CASE DeadlockVictim(c) \/ AbortTx(c)
    BY <2>2, <2>9, <1>1, RollBackStep DEF DeadlockVictim, AbortTx, RollBack
  <2> QED BY <2>1, <2>3, <2>4, <2>5, <2>6, <2>7, <2>8, <2>9 DEF ClientStep
<1> QED BY <1>2, <1>3

(* Whatever clients do side by side, and wherever one of them dies: what   *)
(* the callers of committed calls were told about put-once rows is what    *)
(* the tables hold, a tenant's status column agrees with its payload, an   *)
(* event recorded beside a decision is there only with that decision, and  *)
(* no commit changes a put-once row or the owner or envelope of an event.  *)
THEOREM RowsAlwaysHold == StoresSpec => RowsHold
<1>1. StoresInv => StoresTypeOK /\ ToldIsStored /\ StatusMatchesPayload /\ EventHasDecision
  <2> SUFFICES ASSUME StoresInv
               PROVE  StoresTypeOK /\ ToldIsStored /\ StatusMatchesPayload /\ EventHasDecision
    OBVIOUS
  <2>1. StatusMatchesPayload
    BY DEF StoresInv, RowsOK, StoreRowOK, StatusMatchesPayload
  <2>2. \A c \in Clients : /\ tx[c].step \in {"idle", "owned", "select", "write", "prior", "commit"}
                           /\ tx[c].step # "idle" => tx[c].index \in DOMAIN Script[tx[c].script]
    BY StoresAssumption DEF StoresInv, TxOK
  <2>3. StoresTypeOK
    BY <2>2 DEF StoresInv, RowsOK, KeyOK, StoresTypeOK
  <2> QED BY <2>1, <2>3 DEF StoresInv
<1>2. Sticks(rows, rows') =>
        \A k \in DOMAIN rows :
          /\ k \in DOMAIN rows'
          /\ k[1] \in PutOnceTables => rows'[k] = rows[k]
          /\ k[1] = "outbox" => /\ rows'[k].owner = rows[k].owner /\ rows'[k].body = rows[k].body
                                /\ rows[k].published => rows'[k].published
  BY DEF Sticks, Continues
<1> QED BY <1>1, <1>2, StoresInitIsGood, StoresStep, PTL DEF StoresSpec, RowsHold, PutOnceSticks

-----------------------------------------------------------------------------
(* Outbox and bus, for every set of events, drainers, consumers and keys,  *)
(* any number of crashes, and every content of the envelopes.              *)
(*                                                                         *)
(* NothingLost is not inductive: a drainer marks a row on the strength of  *)
(* what it did a step earlier.  ToMarkIsSettled carries that over: while   *)
(* the mark of an envelope is outstanding, the envelope is already in its  *)
(* topic, or is one that may not be published.  In the same way            *)
(* MarkFollowsRun carries the completed handler run over to mark_seen, and *)
(* RunsCounted says which consumers stand for the runs of a key.           *)

Settled(e) == IF Publishable(e)
              THEN e \in IF Envelope[e].declared THEN main ELSE dlq
              ELSE e \notin main \cup dlq

ToMarkIsSettled == \A d \in Drainers : \A e \in toMark[d] : Settled(e)

RoutingInv ==
  /\ TypeOK
  /\ SuppressedGoesNowhere
  /\ PoisonStaysOffMain
  /\ ToMarkIsSettled
  /\ NothingLost

MarkFollowsRun ==
  \A c \in Consumers :
    inHand[c].step = "mark" => runs[DedupKey[inHand[c].event]] >= 1

InHandIsEvent == \A c \in Consumers : inHand[c].step # "idle" => inHand[c].event \in Events

HandledInv == TypeOK /\ InHandIsEvent /\ SeenWasHandled /\ MarkFollowsRun

(* The consumers at step s of an envelope with key k.                      *)
At(s, k) == {c \in Consumers : inHand[c].step = s /\ DedupKey[inHand[c].event] = k}

(* Before the first mark of a key its completed runs are those whose mark  *)
(* is outstanding and those a crash cut short; after it, no further        *)
(* consumer enters the handler.                                            *)
RunsCounted ==
  \A k \in Keys :
    /\ k \notin seen => runs[k] <= Cardinality(At("mark", k)) + crashes
    /\ k \in seen =>
         runs[k] + Cardinality(At("handler", k)) <= Cardinality(Consumers) + crashes

CountInv == TypeOK /\ InHandIsEvent /\ RunsCounted
-----------------------------------------------------------------------------
(* The guard's answers: what passes may be published, what is suppressed   *)
(* may not.                                                                *)
LEMMA GuardIsSound ==
  ASSUME NEW e \in Events
  PROVE  /\ Guard(Envelope[e]) = "pass" => Publishable(e)
         /\ Guard(Envelope[e]) = "suppress" => ~Publishable(e)
  BY OutboxBusAssumption DEF Guard, Publishable, Anonymous, Envelopes

(* Every step keeps the state well-typed.                                  *)
LEMMA TypePreserved == TypeOK /\ [Next]_vars => TypeOK'
<1> SUFFICES ASSUME TypeOK, [Next]_vars PROVE TypeOK'
  OBVIOUS
<1> USE OutboxBusAssumption
        DEF TypeOK, outboxVars, topicVars, drainVars, consumerVars, ConsumerStep, Idle
<1>1. ASSUME NEW e \in Events, Record(e) PROVE TypeOK'
  BY <1>1 DEF Record
<1>2. ASSUME NEW d \in Drainers, Drain(d) PROVE TypeOK'
  <2>1. ASSUME NEW scope \in Tenants \cup {System}, ListPending(d, scope) PROVE TypeOK'
    BY <2>1 DEF ListPending, RecordedSet
  <2>2. ASSUME NEW e \in Events, Suppress(d, e) PROVE TypeOK'
    BY <2>2 DEF Suppress
  <2>3. ASSUME NEW e \in Events, AbortDrain(d, e) PROVE TypeOK'
    BY <2>3 DEF AbortDrain
  <2>4. ASSUME NEW e \in Events, Publish(d, e) PROVE TypeOK'
    BY <2>4 DEF Publish, AppendTopic
  <2>5. ASSUME NEW e \in Events, PublishFail(d, e) PROVE TypeOK'
    BY <2>5 DEF PublishFail, AppendTopic, Advance
  <2>6. ASSUME NEW e \in Events, MarkPublished(d, e) PROVE TypeOK'
    BY <2>6 DEF MarkPublished, Advance
  <2>7. CASE CrashDrainer(d)
    BY <2>7 DEF CrashDrainer
  <2> QED BY <1>2, <2>1, <2>2, <2>3, <2>4, <2>5, <2>6, <2>7 DEF Drain
<1>3. ASSUME NEW c \in Consumers, Consume(c) PROVE TypeOK'
  <2>1. ASSUME NEW e \in Events, Deliver(c, e) PROVE TypeOK'
    BY <2>1 DEF Deliver
  <2>2. ASSUME NEW e \in Events, HandlerDone(c, e) PROVE TypeOK'
    BY <2>2 DEF HandlerDone
  <2>3. ASSUME NEW e \in Events, MarkSeen(c, e) PROVE TypeOK'
    BY <2>3 DEF MarkSeen
  <2>4. CASE HandlerRaises(c)
    BY <2>4 DEF HandlerRaises
  <2>5. CASE CrashConsumer(c)
    BY <2>5 DEF CrashConsumer
  <2> QED BY <1>3, <2>1, <2>2, <2>3, <2>4, <2>5 DEF Consume
<1>4. CASE UNCHANGED vars
  BY <1>4 DEF vars
<1> QED BY <1>1, <1>2, <1>3, <1>4 DEF Next

(* Every reachable state of the pipeline is well-typed.                    *)
THEOREM OutboxTypeCorrect == Spec => []TypeOK
<1>1. Init => TypeOK
  BY DEF Init, TypeOK, ConsumerStep, Idle
<1> QED BY <1>1, TypePreserved, PTL DEF Spec
-----------------------------------------------------------------------------
(* A step that appends one publishable envelope to its topic, or none,     *)
(* keeps what holds of the topics and of everything settled before.        *)
LEMMA AppendKeepsSettled ==
  ASSUME NEW e \in Events, Publishable(e), AppendTopic(e),
         SuppressedGoesNowhere, PoisonStaysOffMain
  PROVE  /\ SuppressedGoesNowhere' /\ PoisonStaysOffMain'
         /\ Settled(e)'
         /\ \A f : Settled(f) => Settled(f)'
<1>1. \A f : Publishable(f) <=> Publishable(f)'
  BY DEF Publishable
<1>2. main' \subseteq main \cup {e} /\ main \subseteq main'
  BY DEF AppendTopic
<1>3. dlq' \subseteq dlq \cup {e} /\ dlq \subseteq dlq'
  BY DEF AppendTopic
<1>4. SuppressedGoesNowhere'
  BY <1>1, <1>2, <1>3 DEF SuppressedGoesNowhere
<1>5. PoisonStaysOffMain'
  BY DEF AppendTopic, PoisonStaysOffMain
<1>6. Settled(e)'
  BY <1>1 DEF AppendTopic, Settled
<1>7. ASSUME NEW f, Settled(f) PROVE Settled(f)'
  BY <1>1, <1>2, <1>3, <1>7 DEF Settled
<1> QED BY <1>4, <1>5, <1>6, <1>7

LEMMA RoutingPreserved == RoutingInv /\ [Next]_vars => RoutingInv'
<1> SUFFICES ASSUME RoutingInv, [Next]_vars PROVE RoutingInv'
  OBVIOUS
<1>t. TypeOK'
  BY TypePreserved DEF RoutingInv
<1>s. ASSUME NEW x PROVE x \in marked => Settled(x)
  BY DEF RoutingInv, NothingLost, Settled
<1>l. NothingLost' <=> \A x \in marked' : Settled(x)'
  BY DEF NothingLost, Settled
<1>q. ASSUME UNCHANGED topicVars, marked' = marked,
             \A d \in Drainers : \A x \in toMark'[d] : x \in toMark[d] \/ Settled(x)
      PROVE  RoutingInv'
  <2>1. SuppressedGoesNowhere' /\ PoisonStaysOffMain'
    BY <1>q DEF RoutingInv, SuppressedGoesNowhere, PoisonStaysOffMain, Publishable, topicVars
  <2>2. \A x : Settled(x) => Settled(x)'
    BY <1>q DEF Settled, Publishable, topicVars
  <2>3. ToMarkIsSettled'
    BY <1>q, <2>2 DEF RoutingInv, ToMarkIsSettled
  <2>4. NothingLost'
    BY <1>q, <1>s, <1>l, <2>2
  <2> QED BY <1>t, <2>1, <2>3, <2>4 DEF RoutingInv
<1>1. ASSUME NEW e \in Events, Record(e) PROVE RoutingInv'
  BY <1>1, <1>q DEF Record, drainVars
<1>2. ASSUME NEW d \in Drainers, Drain(d) PROVE RoutingInv'
  <2> USE DEF RoutingInv, TypeOK
  <2>1. ASSUME NEW scope \in Tenants \cup {System}, ListPending(d, scope) PROVE RoutingInv'
    BY <2>1, <1>q DEF ListPending, outboxVars
  <2>2. ASSUME NEW e \in Events, Suppress(d, e) PROVE RoutingInv'
    <3>1. ~Publishable(e)
      BY <2>2, GuardIsSound DEF Suppress
    <3>2. Settled(e)
      BY <3>1 DEF Settled, SuppressedGoesNowhere
    <3> QED BY <2>2, <3>2, <1>q DEF Suppress, outboxVars
  <2>3. ASSUME NEW e \in Events, AbortDrain(d, e) PROVE RoutingInv'
    BY <2>3, <1>q DEF AbortDrain, outboxVars
  <2>4. ASSUME NEW e \in Events, Publish(d, e) PROVE RoutingInv'
    <3>1. Publishable(e)
      BY <2>4, GuardIsSound DEF Publish
    <3>2. AppendTopic(e) /\ marked' = marked /\ toMark' = [toMark EXCEPT ![d] = {e}]
      BY <2>4 DEF Publish, outboxVars
    <3>3. /\ SuppressedGoesNowhere' /\ PoisonStaysOffMain' /\ Settled(e)'
          /\ \A f : Settled(f) => Settled(f)'
      BY <3>1, <3>2, AppendKeepsSettled
    <3>4. ToMarkIsSettled'
      BY <3>2, <3>3 DEF ToMarkIsSettled
    <3>5. NothingLost'
      BY <3>2, <3>3, <1>s, <1>l
    <3> QED BY <1>t, <3>3, <3>4, <3>5
  <2>5. ASSUME NEW e \in Events, PublishFail(d, e) PROVE RoutingInv'
    <3>1. Publishable(e)
      BY <2>5, GuardIsSound DEF PublishFail
    <3>2. marked' = marked /\ toMark' = [toMark EXCEPT ![d] = {}]
      BY <2>5 DEF PublishFail, Advance, outboxVars
    <3>3. CASE AppendTopic(e)
      <4>1. /\ SuppressedGoesNowhere' /\ PoisonStaysOffMain'
            /\ \A f : Settled(f) => Settled(f)'
        BY <3>1, <3>3, AppendKeepsSettled
      <4>2. ToMarkIsSettled'
        BY <3>2, <4>1 DEF ToMarkIsSettled
      <4>3. NothingLost'
        BY <3>2, <4>1, <1>s, <1>l
      <4> QED BY <1>t, <4>1, <4>2, <4>3
    <3>4. CASE UNCHANGED topicVars
      BY <3>2, <3>4, <1>q
    <3> QED BY <2>5, <3>3, <3>4 DEF PublishFail
  <2>6. ASSUME NEW e \in Events, MarkPublished(d, e) PROVE RoutingInv'
    <3>1. /\ e \in toMark[d] /\ marked' = marked \cup {e}
          /\ toMark' = [toMark EXCEPT ![d] = {}] /\ UNCHANGED topicVars
      BY <2>6 DEF MarkPublished, Advance
    <3>2. Settled(e)
      BY <3>1 DEF ToMarkIsSettled
    <3>3. \A x : Settled(x) => Settled(x)'
      BY <3>1 DEF Settled, Publishable, topicVars
    <3>4. SuppressedGoesNowhere' /\ PoisonStaysOffMain'
      BY <3>1 DEF SuppressedGoesNowhere, PoisonStaysOffMain, Publishable, topicVars
    <3>5. ToMarkIsSettled'
      BY <3>1, <3>3 DEF ToMarkIsSettled
    <3>6. NothingLost'
      BY <3>1, <3>2, <3>3, <1>s, <1>l
    <3> QED BY <1>t, <3>4, <3>5, <3>6
  <2>7. CASE CrashDrainer(d)
    BY <2>7, <1>q DEF CrashDrainer, outboxVars
  <2> QED BY <1>2, <2>1, <2>2, <2>3, <2>4, <2>5, <2>6, <2>7 DEF Drain
<1>3. ASSUME NEW c \in Consumers, Consume(c) PROVE RoutingInv'
  BY <1>3, <1>q DEF Consume, Deliver, HandlerDone, MarkSeen, HandlerRaises, CrashConsumer,
                    outboxVars, drainVars
<1>4. CASE UNCHANGED vars
  BY <1>4, <1>q DEF vars, outboxVars, drainVars
<1> QED BY <1>1, <1>2, <1>3, <1>4 DEF Next

LEMMA RoutingAlways == Spec => []RoutingInv
<1>1. Init => RoutingInv
  BY DEF Init, RoutingInv, TypeOK, ConsumerStep, Idle, SuppressedGoesNowhere,
         PoisonStaysOffMain, ToMarkIsSettled, NothingLost
<1> QED BY <1>1, RoutingPreserved, PTL DEF Spec

(* The privacy guard of drain_once holds for every mix of drainers and     *)
(* failures: no suppressed aggregate reaches a topic.                      *)
THEOREM SuppressedStaysHome == Spec => []SuppressedGoesNowhere
BY RoutingAlways, PTL DEF RoutingInv

(* No consumer ever meets an undeclared envelope.                          *)
THEOREM MainIsDeclared == Spec => []PoisonStaysOffMain
BY RoutingAlways, PTL DEF RoutingInv

(* mark_published after publish loses nothing, whoever else drains, and    *)
(* whatever the broker reports.                                            *)
THEOREM NoEnvelopeLost == Spec => []NothingLost
BY RoutingAlways, PTL DEF RoutingInv
-----------------------------------------------------------------------------
(* The steps other than a consumer's leave the consumers alone.           *)
LEMMA ConsumerSteps ==
  ASSUME TypeOK, [Next]_vars
  PROVE  \/ /\ UNCHANGED consumerVars
            /\ crashes' \in {crashes, crashes + 1}
         \/ \E c \in Consumers : Consume(c)
<1>1. ASSUME NEW e \in Events, Record(e) PROVE UNCHANGED consumerVars /\ crashes' = crashes
  BY <1>1 DEF Record
<1>2. ASSUME NEW d \in Drainers, Drain(d)
      PROVE  UNCHANGED consumerVars /\ crashes' \in {crashes, crashes + 1}
  BY <1>2 DEF Drain, ListPending, Suppress, AbortDrain, Publish, PublishFail,
              MarkPublished, CrashDrainer
<1> QED BY <1>1, <1>2 DEF Next, vars

LEMMA HandledPreserved == HandledInv /\ [Next]_vars => HandledInv'
<1> SUFFICES ASSUME HandledInv, [Next]_vars PROVE HandledInv'
  OBVIOUS
<1>t. TypeOK /\ TypeOK'
  BY TypePreserved DEF HandledInv
<1> USE OutboxBusAssumption, <1>t
        DEF HandledInv, InHandIsEvent, SeenWasHandled, MarkFollowsRun, TypeOK, ConsumerStep
<1>1. CASE UNCHANGED consumerVars
  BY <1>1 DEF consumerVars
<1>2. ASSUME NEW c \in Consumers, Consume(c) PROVE HandledInv'
  <2>1. ASSUME NEW e \in Events, Deliver(c, e) PROVE HandledInv'
    BY <2>1 DEF Deliver
  <2>2. ASSUME NEW e \in Events, HandlerDone(c, e) PROVE HandledInv'
    BY <2>2 DEF HandlerDone
  <2>3. ASSUME NEW e \in Events, MarkSeen(c, e) PROVE HandledInv'
    <3>1. /\ inHand[c].step = "mark" /\ inHand[c].event = e
          /\ inHand'[c].step = "idle" /\ \A x \in Consumers \ {c} : inHand'[x] = inHand[x]
          /\ seen' = seen \cup {DedupKey[e]} /\ runs' = runs
      BY <2>3 DEF MarkSeen, Idle
    <3> QED BY <3>1
  <2>4. CASE HandlerRaises(c) \/ CrashConsumer(c)
    <3>1. /\ inHand'[c].step = "idle" /\ \A x \in Consumers \ {c} : inHand'[x] = inHand[x]
          /\ seen' = seen /\ runs' = runs
      BY <2>4 DEF HandlerRaises, CrashConsumer, Idle
    <3> QED BY <3>1
  <2> QED BY <1>2, <2>1, <2>2, <2>3, <2>4 DEF Consume
<1> QED BY <1>1, <1>2, ConsumerSteps

LEMMA HandledAlways == Spec => []HandledInv
<1>1. Init => HandledInv
  BY DEF Init, HandledInv, TypeOK, ConsumerStep, Idle, InHandIsEvent, SeenWasHandled,
         MarkFollowsRun
<1> QED BY <1>1, HandledPreserved, PTL DEF Spec

(* The dedup store never claims a key whose handler did not complete.      *)
THEOREM SeenKeysWereHandled == Spec => []SeenWasHandled
BY HandledAlways, PTL DEF HandledInv
-----------------------------------------------------------------------------
(* The consumers at a step are finitely many, and no consumer is at two.   *)
LEMMA AtIsFinite ==
  ASSUME NEW k
  PROVE  /\ \A s : IsFiniteSet(At(s, k)) /\ Cardinality(At(s, k)) \in Nat
         /\ Cardinality(Consumers) \in Nat
         /\ Cardinality(At("mark", k)) + Cardinality(At("handler", k))
              <= Cardinality(Consumers)
<1>1. \A s : At(s, k) \subseteq Consumers
  BY DEF At
<1>2. \A s : IsFiniteSet(At(s, k)) /\ Cardinality(At(s, k)) \in Nat
  BY <1>1, FS_Subset, FS_CardinalityType, OutboxBusAssumption
<1>3. Cardinality(Consumers) \in Nat
  BY FS_CardinalityType, OutboxBusAssumption
<1>4. At("mark", k) \cap At("handler", k) = {}
  BY DEF At
<1>5. Cardinality(At("mark", k) \cup At("handler", k))
        = Cardinality(At("mark", k)) + Cardinality(At("handler", k))
  <2>1. Cardinality(At("mark", k) \cup At("handler", k))
          = Cardinality(At("mark", k)) + Cardinality(At("handler", k)) - Cardinality({})
    BY <1>2, <1>4, FS_Union
  <2> QED BY <2>1, <1>2, FS_EmptySet
<1>6. Cardinality(At("mark", k) \cup At("handler", k)) <= Cardinality(Consumers)
  BY <1>1, FS_Subset, OutboxBusAssumption
<1> QED BY <1>2, <1>3, <1>5, <1>6

(* What a step of consumer c does to the number of consumers at a step.    *)
StepTo(c, t, e) == inHand' = [inHand EXCEPT ![c] = [step |-> t, event |-> e]]

Recount(c, t, e, s, k) ==
  Cardinality(At(s, k)') =
    Cardinality(At(s, k)) + (IF t = s /\ DedupKey[e] = k THEN 1 ELSE 0)
                          - (IF c \in At(s, k) THEN 1 ELSE 0)

LEMMA AtMoves ==
  ASSUME TypeOK, NEW c \in Consumers, NEW t, NEW e, NEW s, NEW k, StepTo(c, t, e)
  PROVE  Recount(c, t, e, s, k)
<1>0. IsFiniteSet(At(s, k)) /\ Cardinality(At(s, k)) \in Nat
  BY AtIsFinite
<1>1. CASE t = s /\ DedupKey[e] = k
  <2>1. At(s, k)' = At(s, k) \cup {c}
    BY <1>1 DEF TypeOK, At, StepTo
  <2>2. Cardinality(At(s, k) \cup {c}) =
          IF c \in At(s, k) THEN Cardinality(At(s, k)) ELSE Cardinality(At(s, k)) + 1
    BY <1>0, FS_AddElement
  <2> QED BY <1>0, <1>1, <2>1, <2>2 DEF Recount
<1>2. CASE ~(t = s /\ DedupKey[e] = k)
  <2>1. At(s, k)' = At(s, k) \ {c}
    BY <1>2 DEF TypeOK, At, StepTo
  <2>2. Cardinality(At(s, k) \ {c}) =
          IF c \in At(s, k) THEN Cardinality(At(s, k)) - 1 ELSE Cardinality(At(s, k))
    BY <1>0, FS_RemoveElement
  <2> QED BY <1>0, <1>2, <2>1, <2>2 DEF Recount
<1> QED BY <1>1, <1>2

LEMMA CountPreserved == CountInv /\ [Next]_vars => CountInv'
<1> SUFFICES ASSUME CountInv, [Next]_vars PROVE CountInv'
  OBVIOUS
<1>t. TypeOK /\ TypeOK'
  BY TypePreserved DEF CountInv
<1>0. /\ runs \in [Keys -> Nat] /\ runs' \in [Keys -> Nat]
      /\ crashes \in Nat /\ crashes' \in Nat /\ seen \subseteq Keys
      /\ inHand \in [Consumers -> ConsumerStep]
  BY <1>t DEF TypeOK
<1>1. CASE UNCHANGED consumerVars /\ crashes' \in {crashes, crashes + 1}
  <2>1. \A s, k : At(s, k)' = At(s, k)
    BY <1>1 DEF consumerVars, At
  <2>2. InHandIsEvent'
    BY <1>1 DEF consumerVars, CountInv, InHandIsEvent
  <2>3. ASSUME NEW k \in Keys
        PROVE  /\ k \notin seen' => runs'[k] <= Cardinality(At("mark", k)') + crashes'
               /\ k \in seen' => runs'[k] + Cardinality(At("handler", k)')
                                   <= Cardinality(Consumers) + crashes'
    BY <1>0, <1>1, <2>1, AtIsFinite DEF consumerVars, CountInv, RunsCounted
  <2> QED BY <1>t, <2>2, <2>3 DEF CountInv, RunsCounted
<1>2. ASSUME NEW c \in Consumers, Consume(c) PROVE CountInv'
  <2>1. InHandIsEvent'
    BY <1>0, <1>2 DEF Consume, Deliver, HandlerDone, MarkSeen, HandlerRaises, CrashConsumer,
                      Idle, CountInv, InHandIsEvent
  <2>2. ASSUME NEW k \in Keys
        PROVE  /\ k \notin seen' => runs'[k] <= Cardinality(At("mark", k)') + crashes'
               /\ k \in seen' => runs'[k] + Cardinality(At("handler", k)')
                                   <= Cardinality(Consumers) + crashes'
    <3> DEFINE M == Cardinality(At("mark", k))
               H == Cardinality(At("handler", k))
               C == Cardinality(Consumers)
               mine(e) == DedupKey[e] = k
               Moved(t, e) == Recount(c, t, e, "mark", k) /\ Recount(c, t, e, "handler", k)
               Goal == /\ k \notin seen' => runs'[k] <= M' + crashes'
                       /\ k \in seen' => runs'[k] + H' <= C + crashes'
    <3>0. /\ M \in Nat /\ H \in Nat /\ C \in Nat /\ M + H <= C
          /\ k \notin seen => runs[k] <= M + crashes
          /\ k \in seen => runs[k] + H <= C + crashes
          /\ runs[k] \in Nat
      BY <1>0, AtIsFinite DEF CountInv, RunsCounted
    <3>1. ASSUME NEW e \in Events, Deliver(c, e) PROVE Goal
      <4>1. /\ inHand[c] = Idle /\ DedupKey[e] \notin seen
            /\ StepTo(c, "handler", e)
            /\ seen' = seen /\ runs' = runs /\ crashes' = crashes
        BY <3>1 DEF Deliver, StepTo
      <4>2. c \notin At("mark", k) /\ c \notin At("handler", k)
        BY <4>1 DEF At, Idle
      <4>3. Moved("handler", e)
        BY <1>t, <4>1, AtMoves
      <4>4. M' = M /\ (H' = H \/ (H' = H + 1 /\ mine(e)))
        BY <3>0, <4>2, <4>3 DEF Recount
      <4> HIDE DEF M, H, C
      <4> QED BY <1>0, <3>0, <4>1, <4>4
    <3>2. ASSUME NEW e \in Events, HandlerDone(c, e) PROVE Goal
      <4>1. /\ inHand[c] = [step |-> "handler", event |-> e]
            /\ StepTo(c, "mark", e)
            /\ seen' = seen /\ crashes' = crashes
            /\ runs' = [runs EXCEPT ![DedupKey[e]] = @ + 1]
        BY <3>2 DEF HandlerDone, StepTo
      <4>2. c \notin At("mark", k) /\ (c \in At("handler", k) <=> mine(e))
        BY <4>1 DEF At
      <4>3. Moved("mark", e)
        BY <1>t, <4>1, AtMoves
      <4>4. runs'[k] = IF mine(e) THEN runs[k] + 1 ELSE runs[k]
        BY <1>0, <4>1, OutboxBusAssumption
      <4>5. IF mine(e) THEN M' = M + 1 /\ H' = H - 1 ELSE M' = M /\ H' = H
        BY <3>0, <4>2, <4>3 DEF Recount
      <4> HIDE DEF M, H, C, mine
      <4> QED BY <1>0, <3>0, <4>1, <4>4, <4>5
    <3>3. ASSUME NEW e \in Events, MarkSeen(c, e) PROVE Goal
      <4>1. /\ inHand[c] = [step |-> "mark", event |-> e]
            /\ StepTo(c, "idle", System)
            /\ seen' = seen \cup {DedupKey[e]} /\ runs' = runs /\ crashes' = crashes
        BY <3>3 DEF MarkSeen, Idle, StepTo
      <4>2. c \notin At("handler", k) /\ (c \in At("mark", k) <=> mine(e))
        BY <4>1 DEF At
      <4>3. Moved("idle", System)
        BY <1>t, <4>1, AtMoves
      <4>4. k \in seen' <=> k \in seen \/ mine(e)
        BY <4>1
      <4>5. H' = H /\ (~mine(e) => M' = M)
        BY <3>0, <4>2, <4>3 DEF Recount
      <4> HIDE DEF M, H, C, mine
      <4> QED BY <1>0, <3>0, <4>1, <4>4, <4>5
    <3>4. ASSUME HandlerRaises(c) PROVE Goal
      <4>1. /\ inHand[c].step = "handler"
            /\ StepTo(c, "idle", System)
            /\ seen' = seen /\ runs' = runs /\ crashes' = crashes
        BY <3>4 DEF HandlerRaises, Idle, StepTo
      <4>2. c \notin At("mark", k)
        BY <4>1 DEF At
      <4>3. Moved("idle", System)
        BY <1>t, <4>1, AtMoves
      <4>4. M' = M /\ (H' = H \/ H' = H - 1)
        BY <3>0, <4>2, <4>3 DEF Recount
      <4> HIDE DEF M, H, C
      <4> QED BY <1>0, <3>0, <4>1, <4>4
    <3>5. ASSUME CrashConsumer(c) PROVE Goal
      <4>1. /\ StepTo(c, "idle", System)
            /\ seen' = seen /\ runs' = runs /\ crashes' = crashes + 1
        BY <3>5 DEF CrashConsumer, Idle, StepTo
      <4>2. Moved("idle", System)
        BY <1>t, <4>1, AtMoves
      <4>3. (M' = M \/ M' = M - 1) /\ (H' = H \/ H' = H - 1)
        BY <3>0, <4>2 DEF Recount
      <4> HIDE DEF M, H, C
      <4> QED BY <1>0, <3>0, <4>1, <4>3
    <3> QED BY <1>2, <3>1, <3>2, <3>3, <3>4, <3>5 DEF Consume
  <2> QED BY <1>t, <2>1, <2>2 DEF CountInv, RunsCounted
<1> QED BY <1>1, <1>2, <1>t, ConsumerSteps

LEMMA CountAlways == Spec => []CountInv
<1>1. ASSUME Init PROVE CountInv
  <2>1. TypeOK /\ InHandIsEvent
    BY <1>1 DEF Init, TypeOK, ConsumerStep, Idle, InHandIsEvent
  <2>2. ASSUME NEW k \in Keys PROVE runs[k] <= Cardinality(At("mark", k)) + crashes
    <3>1. runs[k] = 0 /\ crashes = 0
      BY <1>1 DEF Init
    <3> QED BY <3>1, AtIsFinite
  <2>3. seen = {}
    BY <1>1 DEF Init
  <2> QED BY <2>1, <2>2, <2>3 DEF CountInv, RunsCounted
<1> QED BY <1>1, CountPreserved, PTL DEF Spec

(* However often an envelope is redelivered, its handler runs at most once *)
(* per consumer and once more per crash.                                   *)
THEOREM HandlerRunsBounded == Spec => []RunsBounded
<1>1. ASSUME CountInv PROVE RunsBounded
  <2> SUFFICES ASSUME NEW k \in Keys
               PROVE  runs[k] <= Cardinality(Consumers) + crashes
    BY DEF RunsBounded
  <2>1. runs[k] \in Nat /\ crashes \in Nat
    BY <1>1 DEF CountInv, TypeOK
  <2>2. /\ Cardinality(At("mark", k)) \in Nat /\ Cardinality(At("handler", k)) \in Nat
        /\ Cardinality(Consumers) \in Nat
        /\ Cardinality(At("mark", k)) + Cardinality(At("handler", k)) <= Cardinality(Consumers)
    BY AtIsFinite
  <2> QED BY <1>1, <2>1, <2>2 DEF CountInv, RunsCounted
<1> QED BY <1>1, CountAlways, PTL

(* However drainers interleave and crash, no topic gets an aggregate below *)
(* its threshold and no main topic an envelope it does not declare.        *)
THEOREM RoutingIsAlwaysSafe == Spec => []RoutingIsSafe
<1>1. SuppressedGoesNowhere /\ PoisonStaysOffMain => RoutingIsSafe
  BY DEF RoutingIsSafe
<1> QED BY <1>1, SuppressedStaysHome, MainIsDeclared, PTL

(* A key that is marked was handled, and it was not handled more often     *)
(* than consumers and crashes account for.                                 *)
THEOREM HandlingIsAlwaysBounded == Spec => []HandlingIsBounded
<1>1. SeenWasHandled /\ RunsBounded => HandlingIsBounded
  BY DEF HandlingIsBounded
<1> QED BY <1>1, SeenKeysWereHandled, HandlerRunsBounded, PTL
=============================================================================
