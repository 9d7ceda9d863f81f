------------------------- MODULE RepositoryIntake -------------------------
(***************************************************************************)
(* repository-intake: perform_intake, the request that carries it, and the *)
(* stores it uses.  Jobs of several replicas share the manifest store, the *)
(* audit sink and the workspaces; they interleave at every call they make. *)
(* A call of a verifier, scanner or store may raise something else.        *)
(***************************************************************************)
EXTENDS Naturals, Sequences, FiniteSets

CONSTANTS
  Jobs,            \* intake jobs
  IntakeLoads,     \* workloads: per job its request
  ContentAt,       \* per snapshot uri: the hash of what is there
  Leaky            \* snapshots the secret scanner flags

VARIABLES
  asked,           \* the workload
  job,             \* per job: where it is and how it was answered
  manifests,       \* the manifest store
  intake_audit,    \* events of the audit sink, per job
  leased           \* workspaces that are out
intakeVars == <<asked, job, manifests, intake_audit, leased>>

NoManifest == [tenant |-> "none", content_hash |-> "none", identity |-> <<>>, writer |-> "none"]
Answer(decision, manifest) == [decision |-> decision, manifest |-> manifest]
Refusals == {"malformed_intake_request", "inline_content_forbidden", "unsupported_source_type",
             "forbidden_source_uri", "cross_tenant_source", "content_hash_mismatch",
             "secret_scan_failed", "duplicate_intake"}
JobAt == {"new", "look_up", "check", "verify", "scan", "put", "record", "release", "end"}

(* parse_snapshot_reference: the first thing wrong with the payload, in    *)
(* the order it is looked for.                                             *)
PayloadFaults ==
  << <<"inline", "inline_content_forbidden">>, <<"extra_field", "malformed_intake_request">>,
     <<"missing_field", "malformed_intake_request">>, <<"source_type", "unsupported_source_type">>,
     <<"repo_commit", "malformed_intake_request">>, <<"content_hash", "malformed_intake_request">> >>
ParseSnapshotReference(payload) ==
  LET wrong == {i \in DOMAIN PayloadFaults : PayloadFaults[i][1] \in payload.faults} IN
  IF wrong = {} THEN "ok" ELSE PayloadFaults[CHOOSE i \in wrong : \A k \in wrong : i <= k][2]

ALLOWED_SNAPSHOT_URI_SCHEMES == {"git", "https", "blob"}
ValidateSourceUri(uri) == uri.scheme \in ALLOWED_SNAPSHOT_URI_SCHEMES /\ ~uri.has_query
IdentifyingFields(p) == <<p.repo_commit, p.content_hash, p.snapshot_uri, p.source_type, p.sbom_uri>>

ManifestOf(j) ==
  [tenant |-> asked[j].job_tenant, content_hash |-> asked[j].payload.content_hash,
   identity |-> IdentifyingFields(asked[j].payload), writer |-> asked[j].run_id]

(* The manifest store: put once, an equal manifest may be put again.       *)
Stored(tenant, hash) == {m \in manifests : m.tenant = tenant /\ m.content_hash = hash}
PutManifest(m) ==
  LET existing == Stored(m.tenant, m.content_hash) IN
  IF existing = {} THEN [store |-> manifests \cup {m}, ok |-> TRUE]
  ELSE [store |-> manifests, ok |-> m \in existing]

RepositoryIntakeTypeOK ==
  \A j \in Jobs :
    /\ job[j].at \in JobAt
    /\ job[j].answer.decision \in Refusals \cup {"none", "accepted", "replayed", "request_body_invalid", "tenant_mismatch", "error"}
    /\ job[j].at = "end" <=> job[j].answered

IntakeInit ==
  /\ asked \in IntakeLoads
  /\ job = [j \in Jobs |-> [at |-> "new", answer |-> Answer("none", NoManifest), answered |-> FALSE]]
  /\ manifests = {} /\ intake_audit = [j \in Jobs |-> <<>>] /\ leased = {}

At(j, at) == job[j].at = at
Settle(j, decision, manifest) == [job EXCEPT ![j].at = "release", ![j].answer = Answer(decision, manifest)]
AuditDecision(j, decision) == intake_audit' = [intake_audit EXCEPT ![j] = Append(@, decision)]

-----------------------------------------------------------------------------
(* SnapshotIntakeRequest refuses a body with other fields than its own; a  *)
(* caller of perform_intake (direct) does not pass through it.             *)
BodyRefused(r) == ~r.direct /\ r.payload.faults \cap {"inline", "extra_field", "missing_field"} # {}

(* The body must have its fields, and the tenant of the header must be     *)
(* that of the job (a direct call has no header, its job's tenant stands   *)
(* for it).  Neither refusal is audited.                                   *)
IntakeRequest(j) ==
  /\ At(j, "new") /\ (BodyRefused(asked[j]) \/ asked[j].header # asked[j].job_tenant)
  /\ LET refusal == IF BodyRefused(asked[j]) THEN "request_body_invalid" ELSE "tenant_mismatch" IN
     job' = [job EXCEPT ![j] = [at |-> "end", answer |-> Answer(refusal, NoManifest), answered |-> TRUE]]
  /\ UNCHANGED <<asked, manifests, intake_audit, leased>>

(* perform_intake: a workspace, then the payload.                          *)
AcquireWorkspace(j) ==
  LET parsed == ParseSnapshotReference(asked[j].payload) IN
  /\ At(j, "new") /\ ~BodyRefused(asked[j]) /\ asked[j].header = asked[j].job_tenant
  /\ leased' = leased \cup {j}
  /\ IF parsed = "ok" THEN job' = [job EXCEPT ![j].at = "look_up"] /\ UNCHANGED intake_audit
     ELSE job' = Settle(j, parsed, NoManifest) /\ AuditDecision(j, parsed)
  /\ UNCHANGED <<asked, manifests>>

(* Mutant: whatever is stored for the hash is a replay.                    *)
LookUpManifestByHash(j) ==
  LET existing == Stored(asked[j].job_tenant, asked[j].payload.content_hash) IN
  /\ At(j, "look_up")
  /\ \/ existing = {} /\ job' = [job EXCEPT ![j].at = "check"] /\ UNCHANGED intake_audit
     \/ \E m \in existing : job' = Settle(j, "replayed", m) /\ AuditDecision(j, "replayed")
  /\ UNCHANGED <<asked, manifests, leased>>

(* A stored manifest of this tenant and hash answers the request.          *)
LookUpManifest(j) ==
  LET existing == Stored(asked[j].job_tenant, asked[j].payload.content_hash) IN
  /\ At(j, "look_up")
  /\ \/ existing = {} /\ job' = [job EXCEPT ![j].at = "check"] /\ UNCHANGED intake_audit
     \/ \E m \in existing :
          LET decision == IF m.identity = IdentifyingFields(asked[j].payload) THEN "replayed" ELSE "duplicate_intake" IN
          /\ job' = Settle(j, decision, IF decision = "replayed" THEN m ELSE NoManifest)
          /\ AuditDecision(j, decision)
  /\ UNCHANGED <<asked, manifests, leased>>

Refuse(j, decision) == job' = Settle(j, decision, NoManifest) /\ AuditDecision(j, decision)
Proceed(j, at) == job' = [job EXCEPT ![j].at = at] /\ UNCHANGED intake_audit

CheckSource(j) ==
  LET p == asked[j].payload IN
  /\ At(j, "check")
  /\ IF p.tenant # asked[j].job_tenant THEN Refuse(j, "cross_tenant_source")
     ELSE IF ~ValidateSourceUri(p.snapshot_uri) \/ ~ValidateSourceUri(p.sbom_uri)
     THEN Refuse(j, "forbidden_source_uri") ELSE Proceed(j, "verify")
  /\ UNCHANGED <<asked, manifests, leased>>

VerifyContentHash(j) ==
  /\ At(j, "verify")
  /\ IF ContentAt[asked[j].payload.snapshot_uri.name] # asked[j].payload.content_hash
     THEN Refuse(j, "content_hash_mismatch") ELSE Proceed(j, "scan")
  /\ UNCHANGED <<asked, manifests, leased>>

ScanForSecrets(j) ==
  /\ At(j, "scan")
  /\ IF asked[j].payload.snapshot_uri.name \in Leaky THEN Refuse(j, "secret_scan_failed") ELSE Proceed(j, "put")
  /\ UNCHANGED <<asked, manifests, leased>>

(* The put that loses to another writer of the hash raises, outside the    *)
(* part that is audited.                                                   *)
StoreManifest(j) ==
  LET result == PutManifest(ManifestOf(j)) IN
  /\ At(j, "put") /\ manifests' = result.store
  /\ job' = IF result.ok THEN [job EXCEPT ![j].at = "record"] ELSE Settle(j, "duplicate_intake", NoManifest)
  /\ UNCHANGED <<asked, intake_audit, leased>>

RecordAccepted(j) ==
  /\ At(j, "record")
  /\ job' = Settle(j, "accepted", ManifestOf(j)) /\ AuditDecision(j, "accepted")
  /\ UNCHANGED <<asked, manifests, leased>>

(* Anything else a call raises ends the job through the same finally.      *)
CallRaises(j) ==
  /\ job[j].at \in {"look_up", "verify", "scan", "put", "record"}
  /\ job' = Settle(j, "error", NoManifest)
  /\ UNCHANGED <<asked, manifests, intake_audit, leased>>

ReleaseWorkspace(j) ==
  /\ At(j, "release")
  /\ leased' = leased \ {j} /\ job' = [job EXCEPT ![j].at = "end", ![j].answered = TRUE]
  /\ UNCHANGED <<asked, manifests, intake_audit>>

IntakeNext ==
  \E j \in Jobs :
    \/ IntakeRequest(j) \/ AcquireWorkspace(j) \/ LookUpManifest(j) \/ CheckSource(j)
    \/ VerifyContentHash(j) \/ ScanForSecrets(j) \/ StoreManifest(j) \/ RecordAccepted(j)
    \/ CallRaises(j) \/ ReleaseWorkspace(j)

IntakeSpec == IntakeInit /\ [][IntakeNext]_intakeVars

-----------------------------------------------------------------------------
(* A manifest in the store is one per tenant and hash, and describes a     *)
(* snapshot of that very content that was scanned clean and lies where     *)
(* snapshots may lie, whichever of several racing jobs stored it           *)
(* (perform_intake).                                                       *)
StoredIsVerified ==
  \A m \in manifests :
    LET uri == m.identity[3] IN
    /\ Stored(m.tenant, m.content_hash) = {m}
    /\ ContentAt[uri.name] = m.content_hash /\ uri.name \notin Leaky
    /\ uri.scheme \in ALLOWED_SNAPSHOT_URI_SCHEMES /\ ~uri.has_query

(* Whoever was told accepted or replayed was given the manifest that is    *)
(* stored, and it has the fields the request named: a retry and a race     *)
(* never leave two callers with different manifests of a hash.             *)
ToldIsOnFile ==
  \A j \in Jobs : job[j].answer.decision \in {"accepted", "replayed"} =>
    /\ job[j].answer.manifest \in manifests
    /\ job[j].answer.manifest.identity = IdentifyingFields(asked[j].payload)
    /\ job[j].answer.manifest.tenant = asked[j].header

(* A job that has ended holds no workspace, and its decision is audited    *)
(* exactly once; only a request turned away at the door, an unexpected     *)
(* error and a put that lost a race to another manifest of the hash go     *)
(* unaudited (perform_intake).                                             *)
EndedIsSettled ==
  \A j \in Jobs : job[j].answered =>
    LET d == job[j].answer.decision IN
    /\ j \notin leased /\ Len(intake_audit[j]) <= 1
    /\ d \notin {"request_body_invalid", "tenant_mismatch", "error", "duplicate_intake"} => intake_audit[j] = <<d>>
    /\ d = "duplicate_intake" /\ intake_audit[j] = <<>> =>
         \E m \in Stored(asked[j].job_tenant, asked[j].payload.content_hash) : m # ManifestOf(j)

(* What is stored was verified, what a job was told is on file, and a job  *)
(* that ended left no workspace and no open audit record.                  *)
IntakeIsVerified ==
  /\ RepositoryIntakeTypeOK
  /\ StoredIsVerified
  /\ ToldIsOnFile
  /\ EndedIsSettled
=============================================================================
