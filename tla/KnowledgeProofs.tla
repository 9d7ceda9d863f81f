-------------------------- MODULE KnowledgeProofs --------------------------
(***************************************************************************)
(* Proofs about what the acquisition services take in and how they go      *)
(* about it: manifests of repository snapshots (RepositoryIntake),         *)
(* inventories of sites (SiteDiscovery), the pool of browser sessions      *)
(* (BrowserPool), and schedules and captures (ObservationSchedule), for    *)
(* every number of jobs, runs and sessions and any requests; and about the *)
(* graphs built from it (IntelligenceGraphs), for any aliases and material.*)
(***************************************************************************)
EXTENDS RepositoryIntake, SiteDiscovery, BrowserPool, ObservationSchedule, IntelligenceGraphs, TupleLemmas

(***************************************************************************)
(* Repository intake.                                                      *)
(***************************************************************************)
Decisions == Refusals \cup {"none", "accepted", "replayed", "request_body_invalid", "tenant_mismatch", "error"}

(* The state of a job, without what its answer holds.                      *)
IntakeShape ==
  /\ DOMAIN job = Jobs /\ DOMAIN intake_audit = Jobs
  /\ \A j \in Jobs :
       /\ DOMAIN job[j] = {"at", "answer", "answered"}
       /\ job[j].at \in JobAt /\ job[j].answer.decision \in Decisions
       /\ job[j].at = "end" <=> job[j].answered
       /\ intake_audit[j] \in Seq(Decisions)

(* What a job has established of its request by the time it is at a step.  *)
Working == {"look_up", "check", "verify", "scan", "put", "record"}
ProgressInv ==
  \A j \in Jobs :
    LET p == asked[j].payload IN
    /\ job[j].at \in {"new"} \cup Working =>
         job[j].answer.decision = "none" /\ intake_audit[j] = <<>>
    /\ job[j].at \in Working => asked[j].header = asked[j].job_tenant
    /\ job[j].at \in {"verify", "scan", "put", "record"} => ValidateSourceUri(p.snapshot_uri)
    /\ job[j].at \in {"scan", "put", "record"} => ContentAt[p.snapshot_uri.name] = p.content_hash
    /\ job[j].at \in {"put", "record"} => p.snapshot_uri.name \notin Leaky
    /\ job[j].at = "record" => ManifestOf(j) \in manifests
    /\ job[j].at \in {"new", "end"} => j \notin leased

(* How a decision is audited, already before the workspace is given back.  *)
AuditedAs(j) ==
  LET d == job[j].answer.decision IN
  /\ Len(intake_audit[j]) <= 1
  /\ d \notin {"request_body_invalid", "tenant_mismatch", "error", "duplicate_intake"} => intake_audit[j] = <<d>>
  /\ d = "duplicate_intake" /\ intake_audit[j] = <<>> =>
       \E m \in Stored(asked[j].job_tenant, asked[j].payload.content_hash) : m # ManifestOf(j)
DecidedInv == \A j \in Jobs : job[j].at \in {"release", "end"} => AuditedAs(j)

(* The inductive invariant of the intake.                                  *)
IntakeInv ==
  /\ IntakeShape
  /\ ProgressInv
  /\ DecidedInv
  /\ StoredIsVerified
  /\ ToldIsOnFile

(* The first fault of a payload is one of those a request is refused for:  *)
(* the search over the table of faults ends (parse_snapshot_reference).    *)
LEMMA FirstFaultRefuses ==
  ASSUME NEW payload, ParseSnapshotReference(payload) # "ok"
  PROVE  ParseSnapshotReference(payload) \in Refusals \ {"duplicate_intake"}
<1> DEFINE wrong == {i \in DOMAIN PayloadFaults : PayloadFaults[i][1] \in payload.faults}
           first == CHOOSE i \in wrong : \A k \in wrong : i <= k
<1>1. DOMAIN PayloadFaults = 1..6
  BY DEF PayloadFaults
<1>2. wrong \subseteq 1..6 /\ wrong # {}
  BY <1>1 DEF ParseSnapshotReference
<1>3. \E i \in wrong : \A k \in wrong : i <= k
  <2> HIDE DEF wrong
  <2>1. CASE 1 \in wrong
    BY <1>2, <2>1
  <2>2. CASE 1 \notin wrong /\ 2 \in wrong
    BY <1>2, <2>2
  <2>3. CASE {1, 2} \cap wrong = {} /\ 3 \in wrong
    BY <1>2, <2>3
  <2>4. CASE {1, 2, 3} \cap wrong = {} /\ 4 \in wrong
    BY <1>2, <2>4
  <2>5. CASE {1, 2, 3, 4} \cap wrong = {} /\ 5 \in wrong
    BY <1>2, <2>5
  <2>6. CASE {1, 2, 3, 4, 5} \cap wrong = {}
    <3>1. \A k \in wrong : k = 6
      BY <1>2, <2>6
    <3>2. 6 \in wrong
      BY <1>2, <3>1
    <3>3. \A k \in wrong : 6 <= k
      BY <3>1
    <3> QED BY <3>2, <3>3
  <2> QED BY <2>1, <2>2, <2>3, <2>4, <2>5, <2>6
<1>4. first \in wrong
  <2> HIDE DEF wrong
  <2> QED BY <1>3
<1>5. ParseSnapshotReference(payload) = PayloadFaults[first][2]
  BY <1>2 DEF ParseSnapshotReference
<1>6. \A i \in 1..6 : PayloadFaults[i][2] \in Refusals \ {"duplicate_intake"}
  BY DEF PayloadFaults, Refusals
<1> HIDE DEF first, wrong
<1> QED BY <1>2, <1>4, <1>5, <1>6

LEMMA IntakeInitOK == IntakeInit => IntakeInv
<1> SUFFICES ASSUME IntakeInit PROVE IntakeInv
  OBVIOUS
<1>1. \A j \in Jobs : /\ job[j] = [at |-> "new", answer |-> Answer("none", NoManifest), answered |-> FALSE]
                      /\ intake_audit[j] = <<>>
  BY DEF IntakeInit
<1>2. IntakeShape
  BY <1>1 DEF IntakeInit, IntakeShape, JobAt, Decisions, Answer
<1>3. ProgressInv
  BY <1>1 DEF IntakeInit, ProgressInv, Working, Answer
<1>4. DecidedInv /\ ToldIsOnFile
  BY <1>1 DEF DecidedInv, ToldIsOnFile, Answer
<1>5. StoredIsVerified
  BY DEF IntakeInit, StoredIsVerified
<1> QED BY <1>2, <1>3, <1>4, <1>5 DEF IntakeInv

(* A job that only walks on to another step it has earned.                 *)
LEMMA WalkOn ==
  ASSUME IntakeInv, NEW j \in Jobs, NEW next \in Working,
         job[j].at \in {"new"} \cup Working,
         job' = [job EXCEPT ![j].at = next],
         UNCHANGED <<asked, manifests, intake_audit>>,
         leased' \in {leased, leased \cup {j}},
         asked[j].header = asked[j].job_tenant,
         next \in {"verify", "scan", "put", "record"} => ValidateSourceUri(asked[j].payload.snapshot_uri),
         next \in {"scan", "put", "record"} =>
           ContentAt[asked[j].payload.snapshot_uri.name] = asked[j].payload.content_hash,
         next \in {"put", "record"} => asked[j].payload.snapshot_uri.name \notin Leaky,
         next = "record" => ManifestOf(j) \in manifests
  PROVE  IntakeInv'
<1> USE DEF IntakeInv
<1>1. /\ job'[j].at = next /\ job'[j].answer = job[j].answer /\ job'[j].answered = job[j].answered
      /\ DOMAIN job'[j] = DOMAIN job[j]
      /\ \A k \in Jobs \ {j} : job'[k] = job[k]
      /\ DOMAIN job' = Jobs
  BY DEF IntakeShape
<1>2. IntakeShape'
  BY <1>1 DEF IntakeShape, Working, JobAt
<1>3. ProgressInv'
  BY <1>1 DEF IntakeShape, ProgressInv, Working, ManifestOf
<1>4. DecidedInv'
  BY <1>1 DEF IntakeShape, DecidedInv, AuditedAs, Working, Stored, ManifestOf
<1>5. StoredIsVerified'
  BY DEF StoredIsVerified, Stored
<1>6. ToldIsOnFile'
  BY <1>1 DEF ToldIsOnFile, IntakeShape
<1> QED BY <1>2, <1>3, <1>4, <1>5, <1>6

(* A job that settles: its answer is fixed, and audited or excused.        *)
LEMMA SettleOK ==
  ASSUME IntakeInv, NEW j \in Jobs, NEW decision \in Decisions \ {"none"}, NEW manifest,
         job[j].at \in {"new"} \cup Working,
         job' = Settle(j, decision, manifest),
         UNCHANGED <<asked, manifests>>,
         leased' \in {leased, leased \cup {j}},
         intake_audit' \in {intake_audit, [intake_audit EXCEPT ![j] = Append(@, decision)]},
         decision \notin {"request_body_invalid", "tenant_mismatch", "error", "duplicate_intake"} => intake_audit' # intake_audit,
         decision = "duplicate_intake" =>
           \/ intake_audit' # intake_audit
           \/ \E m \in Stored(asked[j].job_tenant, asked[j].payload.content_hash) : m # ManifestOf(j),
         decision \in {"accepted", "replayed"} =>
           /\ manifest \in manifests
           /\ manifest.identity = IdentifyingFields(asked[j].payload)
           /\ manifest.tenant = asked[j].header
  PROVE  IntakeInv'
<1> USE DEF IntakeInv
<1>1. /\ job'[j].at = "release" /\ job'[j].answer = Answer(decision, manifest)
      /\ job'[j].answered = job[j].answered
      /\ DOMAIN job'[j] = DOMAIN job[j]
      /\ \A k \in Jobs \ {j} : job'[k] = job[k]
      /\ DOMAIN job' = Jobs
  BY DEF IntakeShape, Settle
<1>2. intake_audit[j] = <<>>
  BY DEF ProgressInv
<1>3. /\ DOMAIN intake_audit' = Jobs
      /\ \A k \in Jobs \ {j} : intake_audit'[k] = intake_audit[k]
      /\ intake_audit'[j] = <<>> \/ intake_audit'[j] = <<decision>>
      /\ intake_audit' # intake_audit => intake_audit'[j] = <<decision>>
  BY <1>2 DEF IntakeShape
<1>4. job'[j].answer.decision = decision /\ job'[j].answer.manifest = manifest
  BY <1>1 DEF Answer
<1>5. IntakeShape'
  BY <1>1, <1>3, <1>4 DEF IntakeShape, JobAt, Working
<1>6. ProgressInv'
  BY <1>1, <1>3 DEF IntakeShape, ProgressInv, Working, ManifestOf
<1>7. AuditedAs(j)'
  <2>1. Len(intake_audit'[j]) <= 1
    <3>1. Len(<<>>) = 0 /\ Len(<<decision>>) = 1
      OBVIOUS
    <3>2. CASE intake_audit'[j] = <<>>
      BY <3>1, <3>2
    <3>3. CASE intake_audit'[j] = <<decision>>
      BY <3>1, <3>3
    <3> QED BY <1>3, <3>2, <3>3
  <2>2. decision \notin {"request_body_invalid", "tenant_mismatch", "error", "duplicate_intake"} => intake_audit'[j] = <<decision>>
    BY <1>3
  <2>3. decision = "duplicate_intake" /\ intake_audit'[j] = <<>> =>
          (\E m \in Stored(asked[j].job_tenant, asked[j].payload.content_hash) : m # ManifestOf(j))'
    <3>1. <<decision>> # <<>>
      OBVIOUS
    <3> QED BY <1>3, <3>1 DEF Stored, ManifestOf
  <2> QED BY <1>4, <2>1, <2>2, <2>3 DEF AuditedAs
<1>8. DecidedInv'
  BY <1>1, <1>3, <1>7 DEF DecidedInv, AuditedAs, Stored, ManifestOf
<1>9. StoredIsVerified'
  BY DEF StoredIsVerified, Stored
<1>10. ToldIsOnFile'
  <2> SUFFICES ASSUME NEW k \in Jobs, job'[k].answer.decision \in {"accepted", "replayed"}
               PROVE  /\ job'[k].answer.manifest \in manifests
                      /\ job'[k].answer.manifest.identity = IdentifyingFields(asked[k].payload)
                      /\ job'[k].answer.manifest.tenant = asked[k].header
    BY DEF ToldIsOnFile
  <2>1. CASE k = j
    BY <1>4, <2>1
  <2>2. CASE k # j
    BY <1>1, <2>2 DEF ToldIsOnFile
  <2> QED BY <2>1, <2>2
<1> QED BY <1>5, <1>6, <1>8, <1>9, <1>10

LEMMA AuditGrows ==
  ASSUME IntakeInv, NEW j \in Jobs, NEW decision \in Decisions,
         intake_audit[j] = <<>>
  PROVE  [intake_audit EXCEPT ![j] = Append(@, decision)] # intake_audit
BY DEF IntakeInv, IntakeShape

(* The refusals of the steps that follow the parse.                        *)
LEMMA RefuseOK ==
  ASSUME IntakeInv, NEW j \in Jobs, NEW decision \in Refusals,
         job[j].at \in {"new"} \cup Working,
         Refuse(j, decision), UNCHANGED <<asked, manifests>>,
         leased' \in {leased, leased \cup {j}}
  PROVE  IntakeInv'
<1>1. decision \in Decisions \ {"none"} /\ decision \notin {"accepted", "replayed"}
  BY DEF Refusals, Decisions
<1>2. intake_audit' # intake_audit
  BY <1>1, AuditGrows DEF Refuse, AuditDecision, IntakeInv, ProgressInv
<1> QED BY <1>1, <1>2, SettleOK DEF Refuse, AuditDecision

(* A manifest that is put has been verified by the job that puts it.       *)
LEMMA StoreManifestOK ==
  ASSUME IntakeInv, NEW j \in Jobs, StoreManifest(j)
  PROVE  IntakeInv'
<1> DEFINE m == ManifestOf(j)
           existing == Stored(m.tenant, m.content_hash)
<1>1. /\ m.tenant = asked[j].job_tenant /\ m.content_hash = asked[j].payload.content_hash
      /\ m.identity = IdentifyingFields(asked[j].payload)
      /\ m.identity[3] = asked[j].payload.snapshot_uri
  BY DEF ManifestOf, IdentifyingFields
<1>2. job[j].at = "put" /\ UNCHANGED <<asked, intake_audit, leased>>
  BY DEF StoreManifest, At
<1>3. CASE existing # {} /\ m \notin existing
  <2>1. job' = Settle(j, "duplicate_intake", NoManifest) /\ manifests' = manifests
    BY <1>3 DEF StoreManifest, PutManifest
  <2>2. \E n \in Stored(asked[j].job_tenant, asked[j].payload.content_hash) : n # ManifestOf(j)
    BY <1>1, <1>3
  <2> HIDE DEF m, existing
  <2>3. "duplicate_intake" \in Decisions \ {"none"}
    BY DEF Decisions, Refusals
  <2> QED BY <1>2, <2>1, <2>2, <2>3, SettleOK DEF Working
<1>4. CASE existing = {} \/ m \in existing
  <2>1. manifests' = manifests \cup {m} /\ job' = [job EXCEPT ![j].at = "record"]
    BY <1>4 DEF StoreManifest, PutManifest, Stored
  <2>2. \A n \in manifests : n.tenant = m.tenant /\ n.content_hash = m.content_hash => n = m
    <3>1. CASE existing = {}
      BY <3>1 DEF Stored
    <3>2. CASE m \in existing
      BY <3>2 DEF Stored, IntakeInv, StoredIsVerified
    <3> QED BY <1>4, <3>1, <3>2
  <2>3. /\ ContentAt[m.identity[3].name] = m.content_hash /\ m.identity[3].name \notin Leaky
        /\ m.identity[3].scheme \in ALLOWED_SNAPSHOT_URI_SCHEMES /\ ~m.identity[3].has_query
    BY <1>1, <1>2 DEF IntakeInv, ProgressInv, ValidateSourceUri
  <2> HIDE DEF m
  <2>4. StoredIsVerified'
    <3> SUFFICES ASSUME NEW n \in manifests'
                 PROVE  /\ {x \in manifests' : x.tenant = n.tenant /\ x.content_hash = n.content_hash} = {n}
                        /\ ContentAt[n.identity[3].name] = n.content_hash /\ n.identity[3].name \notin Leaky
                        /\ n.identity[3].scheme \in ALLOWED_SNAPSHOT_URI_SCHEMES /\ ~n.identity[3].has_query
      BY DEF StoredIsVerified, Stored
    <3>1. CASE n = m
      BY <2>1, <2>2, <2>3, <3>1
    <3>2. CASE n # m
      <4>1. n \in manifests
        BY <2>1, <3>2
      <4>2. {x \in manifests : x.tenant = n.tenant /\ x.content_hash = n.content_hash} = {n}
        BY <4>1 DEF IntakeInv, StoredIsVerified, Stored
      <4>3. ~(m.tenant = n.tenant /\ m.content_hash = n.content_hash)
        BY <2>2, <3>2, <4>1
      <4>4. {x \in manifests' : x.tenant = n.tenant /\ x.content_hash = n.content_hash} = {n}
        BY <2>1, <4>2, <4>3
      <4> QED BY <4>1, <4>4 DEF IntakeInv, StoredIsVerified
    <3> QED BY <3>1, <3>2
  <2>5. /\ job'[j].at = "record" /\ job'[j].answer = job[j].answer /\ job'[j].answered = job[j].answered
        /\ DOMAIN job'[j] = DOMAIN job[j]
        /\ \A k \in Jobs \ {j} : job'[k] = job[k]
        /\ DOMAIN job' = Jobs
    BY <2>1 DEF IntakeInv, IntakeShape
  <2>6. IntakeShape'
    BY <1>2, <2>5 DEF IntakeInv, IntakeShape, JobAt
  <2>7. ProgressInv'
    <3>1. ManifestOf(j)' \in manifests'
      BY <1>2, <2>1 DEF ManifestOf, m
    <3> QED BY <1>2, <2>1, <2>5, <3>1 DEF IntakeInv, ProgressInv, Working, ManifestOf
  <2>8. \A t, h : Stored(t, h) \subseteq {x \in manifests' : x.tenant = t /\ x.content_hash = h}
    BY <2>1 DEF Stored
  <2>9. DecidedInv'
    BY <1>2, <2>5, <2>8 DEF IntakeInv, DecidedInv, AuditedAs, Stored, ManifestOf
  <2>10. ToldIsOnFile'
    BY <1>2, <2>1, <2>5 DEF IntakeInv, IntakeShape, ToldIsOnFile
  <2> QED BY <2>4, <2>6, <2>7, <2>9, <2>10 DEF IntakeInv
<1> QED BY <1>3, <1>4

LEMMA IntakeStep == IntakeInv /\ [IntakeNext]_intakeVars => IntakeInv'
<1> SUFFICES ASSUME IntakeInv, [IntakeNext]_intakeVars PROVE IntakeInv'
  OBVIOUS
<1>1. ASSUME NEW j \in Jobs, IntakeRequest(j) PROVE IntakeInv'
  <2> DEFINE refusal == IF BodyRefused(asked[j]) THEN "request_body_invalid" ELSE "tenant_mismatch"
  <2>1. /\ job[j].at = "new" /\ UNCHANGED <<asked, manifests, intake_audit, leased>>
        /\ job'[j] = [at |-> "end", answer |-> Answer(refusal, NoManifest), answered |-> TRUE]
        /\ \A k \in Jobs \ {j} : job'[k] = job[k]
        /\ DOMAIN job' = Jobs
    BY <1>1 DEF IntakeRequest, At, IntakeInv, IntakeShape
  <2>2. job'[j].answer.decision \in {"request_body_invalid", "tenant_mismatch"}
    BY <2>1 DEF Answer
  <2> HIDE DEF refusal
  <2>3. IntakeShape'
    BY <2>1, <2>2 DEF IntakeInv, IntakeShape, JobAt, Decisions
  <2>4. ProgressInv'
    BY <2>1 DEF IntakeInv, ProgressInv, Working, ManifestOf
  <2>5. Len(intake_audit'[j]) <= 1
    <3>1. intake_audit[j] = <<>> /\ Len(<<>>) = 0
      BY <2>1 DEF IntakeInv, ProgressInv
    <3> QED BY <2>1, <3>1
  <2>6. DecidedInv'
    BY <2>1, <2>2, <2>5 DEF IntakeInv, DecidedInv, AuditedAs, Stored, ManifestOf
  <2>7. StoredIsVerified' /\ ToldIsOnFile'
    BY <2>1, <2>2 DEF IntakeInv, StoredIsVerified, ToldIsOnFile, Stored
  <2> QED BY <2>3, <2>4, <2>6, <2>7 DEF IntakeInv
<1>2. ASSUME NEW j \in Jobs, AcquireWorkspace(j) PROVE IntakeInv'
  <2> DEFINE parsed == ParseSnapshotReference(asked[j].payload)
  <2>1. /\ job[j].at = "new" /\ asked[j].header = asked[j].job_tenant
        /\ leased' = leased \cup {j} /\ UNCHANGED <<asked, manifests>>
    BY <1>2 DEF AcquireWorkspace, At
  <2>2. CASE parsed = "ok"
    <3>1. job' = [job EXCEPT ![j].at = "look_up"] /\ UNCHANGED intake_audit
      BY <1>2, <2>2 DEF AcquireWorkspace
    <3> QED BY <2>1, <3>1, WalkOn DEF Working
  <2>3. CASE parsed # "ok"
    <3>1. parsed \in Refusals
      BY <2>3, FirstFaultRefuses
    <3>2. Refuse(j, parsed)
      BY <1>2, <2>3 DEF AcquireWorkspace, Refuse
    <3> HIDE DEF parsed
    <3> QED BY <2>1, <3>1, <3>2, RefuseOK
  <2> QED BY <2>2, <2>3
<1>3. ASSUME NEW j \in Jobs, LookUpManifest(j) PROVE IntakeInv'
  <2> DEFINE existing == Stored(asked[j].job_tenant, asked[j].payload.content_hash)
  <2>1. job[j].at = "look_up" /\ UNCHANGED <<asked, manifests, leased>>
    BY <1>3 DEF LookUpManifest, At
  <2>2. asked[j].header = asked[j].job_tenant /\ intake_audit[j] = <<>>
    BY <2>1 DEF IntakeInv, ProgressInv, Working
  <2>3. CASE existing = {} /\ job' = [job EXCEPT ![j].at = "check"] /\ UNCHANGED intake_audit
    BY <2>1, <2>2, <2>3, WalkOn DEF Working
  <2>4. ASSUME NEW m \in existing, m.identity = IdentifyingFields(asked[j].payload),
               job' = Settle(j, "replayed", m), AuditDecision(j, "replayed")
        PROVE  IntakeInv'
    <3>1. m \in manifests /\ m.tenant = asked[j].header
      BY <2>2, <2>4 DEF Stored
    <3>2. "replayed" \in Decisions \ {"none"} /\ job[j].at \in {"new"} \cup Working
      BY <2>1 DEF Decisions, Working
    <3>3. intake_audit' # intake_audit
      BY <2>2, <2>4, <3>2, AuditGrows DEF AuditDecision
    <3> QED BY <2>1, <2>4, <3>1, <3>2, <3>3, SettleOK DEF AuditDecision
  <2>5. ASSUME job' = Settle(j, "duplicate_intake", NoManifest), AuditDecision(j, "duplicate_intake")
        PROVE  IntakeInv'
    BY <2>1, <2>5, RefuseOK DEF Refuse, Working, Refusals
  <2> QED BY <1>3, <2>3, <2>4, <2>5 DEF LookUpManifest
<1>4. ASSUME NEW j \in Jobs, CheckSource(j) PROVE IntakeInv'
  <2>1. job[j].at = "check" /\ UNCHANGED <<asked, manifests, leased>>
    BY <1>4 DEF CheckSource, At
  <2>2. \/ Refuse(j, "cross_tenant_source") \/ Refuse(j, "forbidden_source_uri")
        \/ ValidateSourceUri(asked[j].payload.snapshot_uri) /\ Proceed(j, "verify")
    BY <1>4 DEF CheckSource
  <2>3. asked[j].header = asked[j].job_tenant
    BY <2>1 DEF IntakeInv, ProgressInv, Working
  <2>4. CASE Refuse(j, "cross_tenant_source") \/ Refuse(j, "forbidden_source_uri")
    BY <2>1, <2>4, RefuseOK DEF Refusals, Working
  <2>5. CASE ValidateSourceUri(asked[j].payload.snapshot_uri) /\ Proceed(j, "verify")
    BY <2>1, <2>3, <2>5, WalkOn DEF Working, Proceed
  <2> QED BY <2>2, <2>4, <2>5
<1>5. ASSUME NEW j \in Jobs, VerifyContentHash(j) PROVE IntakeInv'
  <2>1. job[j].at = "verify" /\ UNCHANGED <<asked, manifests, leased>>
    BY <1>5 DEF VerifyContentHash, At
  <2>2. /\ asked[j].header = asked[j].job_tenant
        /\ ValidateSourceUri(asked[j].payload.snapshot_uri)
    BY <2>1 DEF IntakeInv, ProgressInv, Working
  <2>3. CASE Refuse(j, "content_hash_mismatch")
    BY <2>1, <2>3, RefuseOK DEF Refusals, Working
  <2>4. CASE ContentAt[asked[j].payload.snapshot_uri.name] = asked[j].payload.content_hash /\ Proceed(j, "scan")
    BY <2>1, <2>2, <2>4, WalkOn DEF Working, Proceed
  <2> QED BY <1>5, <2>3, <2>4 DEF VerifyContentHash
<1>6. ASSUME NEW j \in Jobs, ScanForSecrets(j) PROVE IntakeInv'
  <2>1. job[j].at = "scan" /\ UNCHANGED <<asked, manifests, leased>>
    BY <1>6 DEF ScanForSecrets, At
  <2>2. /\ asked[j].header = asked[j].job_tenant
        /\ ValidateSourceUri(asked[j].payload.snapshot_uri)
        /\ ContentAt[asked[j].payload.snapshot_uri.name] = asked[j].payload.content_hash
    BY <2>1 DEF IntakeInv, ProgressInv, Working
  <2>3. CASE Refuse(j, "secret_scan_failed")
    BY <2>1, <2>3, RefuseOK DEF Refusals, Working
  <2>4. CASE asked[j].payload.snapshot_uri.name \notin Leaky /\ Proceed(j, "put")
    BY <2>1, <2>2, <2>4, WalkOn DEF Working, Proceed
  <2> QED BY <1>6, <2>3, <2>4 DEF ScanForSecrets
<1>7. ASSUME NEW j \in Jobs, StoreManifest(j) PROVE IntakeInv'
  BY <1>7, StoreManifestOK
<1>8. ASSUME NEW j \in Jobs, RecordAccepted(j) PROVE IntakeInv'
  <2>1. /\ job[j].at = "record" /\ UNCHANGED <<asked, manifests, leased>>
        /\ job' = Settle(j, "accepted", ManifestOf(j)) /\ AuditDecision(j, "accepted")
    BY <1>8 DEF RecordAccepted, At
  <2>2. /\ asked[j].header = asked[j].job_tenant /\ intake_audit[j] = <<>>
        /\ ManifestOf(j) \in manifests
    BY <2>1 DEF IntakeInv, ProgressInv, Working
  <2>3. /\ ManifestOf(j).identity = IdentifyingFields(asked[j].payload)
        /\ ManifestOf(j).tenant = asked[j].header
    BY <2>2 DEF ManifestOf
  <2>4. "accepted" \in Decisions \ {"none"} /\ job[j].at \in {"new"} \cup Working
    BY <2>1 DEF Decisions, Working
  <2>5. intake_audit' # intake_audit
    BY <2>1, <2>2, <2>4, AuditGrows DEF AuditDecision
  <2> DEFINE m == ManifestOf(j)
  <2>6. m \in manifests /\ m.identity = IdentifyingFields(asked[j].payload) /\ m.tenant = asked[j].header
        /\ job' = Settle(j, "accepted", m)
    BY <2>1, <2>2, <2>3
  <2> HIDE DEF m
  <2> QED BY <2>1, <2>4, <2>5, <2>6, SettleOK DEF AuditDecision
<1>9. ASSUME NEW j \in Jobs, CallRaises(j) PROVE IntakeInv'
  <2>1. /\ job' = Settle(j, "error", NoManifest) /\ job[j].at \in {"new"} \cup Working
        /\ UNCHANGED <<asked, manifests, intake_audit, leased>>
    BY <1>9 DEF CallRaises, Working
  <2>2. "error" \in Decisions \ {"none"}
    BY DEF Decisions
  <2> QED BY <2>1, <2>2, SettleOK
<1>10. ASSUME NEW j \in Jobs, ReleaseWorkspace(j) PROVE IntakeInv'
  <2>1. /\ job[j].at = "release" /\ leased' = leased \ {j} /\ UNCHANGED <<asked, manifests, intake_audit>>
        /\ job'[j].at = "end" /\ job'[j].answered = TRUE /\ job'[j].answer = job[j].answer
        /\ DOMAIN job'[j] = DOMAIN job[j]
        /\ \A k \in Jobs \ {j} : job'[k] = job[k]
        /\ DOMAIN job' = Jobs
    BY <1>10 DEF ReleaseWorkspace, At, IntakeInv, IntakeShape
  <2>2. IntakeShape'
    BY <2>1 DEF IntakeInv, IntakeShape, JobAt
  <2>3. ProgressInv'
    BY <2>1 DEF IntakeInv, ProgressInv, Working, ManifestOf
  <2>4. DecidedInv'
    BY <2>1 DEF IntakeInv, DecidedInv, AuditedAs, Stored, ManifestOf
  <2>5. StoredIsVerified' /\ ToldIsOnFile'
    BY <2>1 DEF IntakeInv, StoredIsVerified, ToldIsOnFile, Stored
  <2> QED BY <2>2, <2>3, <2>4, <2>5 DEF IntakeInv
<1>11. CASE UNCHANGED intakeVars
  BY <1>11 DEF intakeVars, IntakeInv, IntakeShape, ProgressInv, DecidedInv, AuditedAs, StoredIsVerified,
               ToldIsOnFile, Stored, ManifestOf
<1> QED
  BY <1>1, <1>2, <1>3, <1>4, <1>5, <1>6, <1>7, <1>8, <1>9, <1>10, <1>11 DEF IntakeNext

(* Whatever jobs race for a snapshot and wherever their calls raise: what  *)
(* is stored was verified and scanned, is the only manifest of its hash,   *)
(* and is what every caller was told; a job that ended is settled          *)
(* (perform_intake).                                                       *)
THEOREM IntakeIsAlwaysVerified == IntakeSpec => []IntakeIsVerified
<1>1. IntakeInv => IntakeIsVerified
  <2> SUFFICES ASSUME IntakeInv PROVE IntakeIsVerified
    OBVIOUS
  <2>1. RepositoryIntakeTypeOK
    BY DEF IntakeInv, IntakeShape, RepositoryIntakeTypeOK, Decisions
  <2>2. EndedIsSettled
    <3> SUFFICES ASSUME NEW j \in Jobs, job[j].answered
                 PROVE  j \notin leased /\ AuditedAs(j)
      BY DEF EndedIsSettled, AuditedAs
    <3>1. job[j].at = "end"
      BY DEF IntakeInv, IntakeShape
    <3> QED BY <3>1 DEF IntakeInv, ProgressInv, DecidedInv
  <2> QED BY <2>1, <2>2 DEF IntakeInv, IntakeIsVerified
<1> QED BY <1>1, IntakeInitOK, IntakeStep, PTL DEF IntakeSpec

(***************************************************************************)
(* Site discovery.                                                         *)
(***************************************************************************)
CrawlRecords == [route : DOMAIN Robots, robots_allowed : BOOLEAN, evidence_ref : {"ref", NoEvidenceRef}]
AuditEntries == {<<r, what>> : r \in DOMAIN Robots, what \in {"fetched", "skipped_robots_disallowed"}}
Observed == {"observed", "cross_tenant", "stored"}
Fetching == {"fetch", "retries_exhausted", "invalid_record"}

(* The state of a run; its status follows from where it is.                *)
CrawlShape(me) ==
  /\ DOMAIN me = {"plan", "at", "status", "clock", "attempt", "records", "audit", "fetches", "late"}
  /\ me.plan.routes \in Seq(DOMAIN Robots)
  /\ me.plan.budget.max_routes \in Nat /\ me.plan.budget.max_retries \in Nat
  /\ me.records \in Seq(CrawlRecords) /\ me.audit \in Seq(AuditEntries) /\ me.fetches \in Seq(Nat)
  /\ me.attempt \in Nat /\ me.at \in CrawlEnded \cup {"start", "route", "fetch", "observed"}
  /\ me.status = CASE me.at \in {"start", "over_budget"} -> "pending"
                   [] me.at \in Observed -> "succeeded"
                   [] me.at \in {"deadline", "retries_exhausted"} -> "failed"
                   [] OTHER -> "running"

(* Records and audit keep step with the routes.                            *)
ProgressOK(me) ==
  /\ Len(me.audit) = Len(me.records) /\ Len(me.records) <= Len(me.plan.routes)
  /\ me.at \in {"start", "over_budget"} => me.fetches = <<>> /\ me.records = <<>>
  /\ me.at \notin {"start", "over_budget"} => Len(me.plan.routes) <= me.plan.budget.max_routes
  /\ me.at \in Observed => Len(me.records) = Len(me.plan.routes)
  /\ me.at = "fetch" => /\ Len(me.records) < Len(me.plan.routes)
                        /\ Robots[me.plan.routes[Len(me.records) + 1]] = "allowed"

(* What was fetched: routes up to the present one that may be read.        *)
FetchesOK(me) ==
  \A j \in DOMAIN me.fetches :
    /\ me.fetches[j] \in 1..Len(me.plan.routes)
    /\ Robots[me.plan.routes[me.fetches[j]]] = "allowed"
    /\ me.fetches[j] <= Len(me.records) + 1
    /\ me.at \notin Fetching => me.fetches[j] <= Len(me.records)

FetchesOf(me, n) == {j \in DOMAIN me.fetches : me.fetches[j] = n}
(* While a route is being fetched its calls number as many as its attempts. *)
RetriesOK(me) ==
  /\ \A n \in Nat : Cardinality(FetchesOf(me, n)) <= me.plan.budget.max_retries + 1
  /\ me.at = "fetch" => /\ Cardinality(FetchesOf(me, Len(me.records) + 1)) = me.attempt
                        /\ me.attempt <= me.plan.budget.max_retries

RecordOK(me, i) ==
  /\ me.records[i].route = me.plan.routes[i] /\ me.audit[i][1] = me.plan.routes[i]
  /\ me.records[i].robots_allowed <=> me.audit[i][2] = "fetched"
  /\ me.records[i].evidence_ref # NoEvidenceRef <=> \E j \in DOMAIN me.fetches : me.fetches[j] = i
RecordsOK(me) == \A i \in DOMAIN me.records : RecordOK(me, i)

CrawlOK(me) == CrawlShape(me) /\ ProgressOK(me) /\ FetchesOK(me) /\ RetriesOK(me) /\ RecordsOK(me)

(* What is stored is what a run that has stored it has observed.           *)
StoreInv ==
  \A k \in DOMAIN inventory_store :
    LET o == inventory_store[k] IN
    /\ k = <<k[1], k[2]>> /\ o.tenant = k[1]
    /\ o.run \in Crawls /\ crawl[o.run].at = "stored"
    /\ o.records = crawl[o.run].records /\ o.audit = crawl[o.run].audit

(* The inductive invariant of site discovery.                              *)
CrawlInv ==
  /\ DOMAIN crawl = Crawls
  /\ \A c \in Crawls : CrawlOK(crawl[c])
  /\ StoreInv

LEMMA FetchesFinite ==
  ASSUME NEW me, me.fetches \in Seq(Nat), NEW n
  PROVE  IsFiniteSet(FetchesOf(me, n)) /\ Cardinality(FetchesOf(me, n)) \in Nat
<1>1. DOMAIN me.fetches = 1..Len(me.fetches) /\ Len(me.fetches) \in Nat
  OBVIOUS
<1>2. IsFiniteSet(1..Len(me.fetches))
  BY <1>1, FS_Interval
<1>3. FetchesOf(me, n) \in SUBSET (1..Len(me.fetches))
  BY <1>1 DEF FetchesOf
<1>4. IsFiniteSet(FetchesOf(me, n))
  BY <1>2, <1>3, FS_Subset
<1> QED BY <1>4, FS_CardinalityType

(* One more call of the crawler counts for its route only.                 *)
LEMMA OneMoreFetch ==
  ASSUME NEW me, NEW you, me.fetches \in Seq(Nat), NEW x \in Nat,
         you.fetches = Append(me.fetches, x), NEW n \in Nat
  PROVE  /\ n = x => Cardinality(FetchesOf(you, n)) = Cardinality(FetchesOf(me, n)) + 1
         /\ n # x => Cardinality(FetchesOf(you, n)) = Cardinality(FetchesOf(me, n))
<1> DEFINE new == Len(me.fetches) + 1
<1>1. /\ DOMAIN you.fetches = 1..new /\ DOMAIN me.fetches = 1..(new - 1) /\ new \in Nat \ {0}
      /\ you.fetches[new] = x /\ \A j \in 1..(new - 1) : you.fetches[j] = me.fetches[j]
  OBVIOUS
<1>2. IsFiniteSet(FetchesOf(me, n)) /\ Cardinality(FetchesOf(me, n)) \in Nat
  BY FetchesFinite
<1> HIDE DEF new
<1>3. CASE n = x
  <2>1. FetchesOf(you, n) = FetchesOf(me, n) \cup {new}
    BY <1>1, <1>3 DEF FetchesOf
  <2>2. new \notin FetchesOf(me, n)
    BY <1>1 DEF FetchesOf
  <2> QED BY <1>2, <1>3, <2>1, <2>2, FS_AddElement
<1>4. CASE n # x
  <2>1. FetchesOf(you, n) = FetchesOf(me, n)
    BY <1>1, <1>4 DEF FetchesOf
  <2> QED BY <1>2, <1>4, <2>1
<1> QED BY <1>3, <1>4

(* A run that moves without a call or a record.                            *)
LEMMA MoveOK ==
  ASSUME NEW me, NEW you, CrawlOK(me), CrawlShape(you), ProgressOK(you),
         you.plan = me.plan, you.records = me.records, you.audit = me.audit, you.fetches = me.fetches,
         me.at \in Fetching => you.at \in Fetching,
         you.at = "fetch" => me.at = "route" /\ you.attempt = 0
  PROVE  CrawlOK(you)
<1>1. FetchesOK(you) /\ RecordsOK(you)
  BY DEF CrawlOK, FetchesOK, RecordsOK, RecordOK
<1>2. \A n : FetchesOf(you, n) = FetchesOf(me, n)
  BY DEF FetchesOf
<1>3. CASE you.at = "fetch" /\ me.at = "route" /\ you.attempt = 0
  <2>1. FetchesOf(me, Len(me.records) + 1) = {}
    <3>1. Len(me.records) \in Nat /\ DOMAIN me.fetches = 1..Len(me.fetches)
          /\ \A j \in DOMAIN me.fetches : me.fetches[j] \in Nat
      BY DEF CrawlOK, CrawlShape
    <3>2. \A j \in DOMAIN me.fetches : me.fetches[j] <= Len(me.records)
      BY <1>3 DEF CrawlOK, FetchesOK, Fetching
    <3> QED BY <3>1, <3>2 DEF FetchesOf
  <2>2. Cardinality({}) = 0
    BY FS_EmptySet
  <2>3. 0 <= you.plan.budget.max_retries
    BY DEF CrawlShape
  <2> QED BY <1>1, <1>2, <1>3, <2>1, <2>2, <2>3 DEF CrawlOK, RetriesOK
<1>4. CASE you.at # "fetch"
  BY <1>1, <1>2, <1>4 DEF CrawlOK, RetriesOK
<1> QED BY <1>3, <1>4

(* A route that is skipped: it was never fetched.                          *)
LEMMA SkipOK ==
  ASSUME NEW me, NEW you, CrawlOK(me), CrawlShape(you),
         me.at = "route", Len(me.records) < Len(me.plan.routes),
         you.at = "route", you.plan = me.plan, you.fetches = me.fetches,
         you.records = Append(me.records, [route |-> me.plan.routes[Len(me.records) + 1], robots_allowed |-> FALSE,
                                           evidence_ref |-> NoEvidenceRef]),
         you.audit = Append(me.audit, <<me.plan.routes[Len(me.records) + 1], "skipped_robots_disallowed">>)
  PROVE  CrawlOK(you)
<1> DEFINE new == Len(me.records) + 1
<1>1. /\ me.records \in Seq(CrawlRecords) /\ me.audit \in Seq(AuditEntries) /\ Len(me.audit) = Len(me.records)
      /\ me.fetches \in Seq(Nat) /\ new \in Nat \ {0} /\ Len(me.plan.routes) \in Nat
  BY DEF CrawlOK, CrawlShape, ProgressOK
<1>2. /\ Len(you.records) = new /\ Len(you.audit) = new /\ DOMAIN you.records = 1..new
      /\ DOMAIN me.records = 1..(new - 1)
      /\ \A i \in 1..(new - 1) : you.records[i] = me.records[i] /\ you.audit[i] = me.audit[i]
      /\ you.records[new] = [route |-> me.plan.routes[new], robots_allowed |-> FALSE, evidence_ref |-> NoEvidenceRef]
      /\ you.audit[new] = <<me.plan.routes[new], "skipped_robots_disallowed">>
  BY <1>1
<1>3. \A j \in DOMAIN me.fetches : me.fetches[j] \in Nat /\ me.fetches[j] < new
  <2>1. \A j \in DOMAIN me.fetches : me.fetches[j] <= Len(me.records)
    BY DEF CrawlOK, FetchesOK, Fetching
  <2>2. \A j \in DOMAIN me.fetches : me.fetches[j] \in Nat
    BY <1>1
  <2>3. Len(me.records) \in Nat
    BY <1>1
  <2> QED BY <2>1, <2>2, <2>3
<1>4. ProgressOK(you)
  BY <1>1, <1>2 DEF CrawlOK, ProgressOK, Observed
<1> HIDE DEF new
<1>5. FetchesOK(you)
  <2> SUFFICES ASSUME NEW j \in DOMAIN me.fetches
               PROVE  /\ me.fetches[j] \in 1..Len(me.plan.routes)
                      /\ Robots[me.plan.routes[me.fetches[j]]] = "allowed"
                      /\ me.fetches[j] <= new + 1 /\ me.fetches[j] <= new
    BY <1>2 DEF FetchesOK
  <2> QED BY <1>1, <1>3 DEF CrawlOK, FetchesOK
<1>6. RetriesOK(you)
  BY DEF CrawlOK, RetriesOK, FetchesOf
<1>7. RecordsOK(you)
  <2> SUFFICES ASSUME NEW i \in 1..new PROVE RecordOK(you, i)
    BY <1>2 DEF RecordsOK
  <2>1. CASE i = new
    BY <1>2, <1>3, <2>1 DEF RecordOK
  <2>2. CASE i # new
    <3>1. i \in 1..(new - 1)
      BY <1>1, <2>2
    <3> QED BY <1>2, <3>1 DEF CrawlOK, RecordsOK, RecordOK
  <2> QED BY <2>1, <2>2
<1> QED BY <1>4, <1>5, <1>6, <1>7 DEF CrawlOK

(* A call of the crawler that answers with no record.                      *)
LEMMA FailedFetchOK ==
  ASSUME NEW me, NEW you, CrawlOK(me), CrawlShape(you), me.at = "fetch",
         you.plan = me.plan, you.records = me.records, you.audit = me.audit,
         you.fetches = Append(me.fetches, Len(me.records) + 1),
         you.at \in Fetching,
         you.at = "fetch" => you.attempt = me.attempt + 1 /\ you.attempt <= me.plan.budget.max_retries
  PROVE  CrawlOK(you)
<1> DEFINE new == Len(me.records) + 1
           n == Len(me.fetches)
<1>1. /\ me.fetches \in Seq(Nat) /\ new \in Nat \ {0} /\ n \in Nat /\ DOMAIN me.fetches = 1..n
      /\ DOMAIN you.fetches = 1..(n + 1) /\ you.fetches[n + 1] = new
      /\ \A j \in 1..n : you.fetches[j] = me.fetches[j]
      /\ Len(me.records) < Len(me.plan.routes) /\ Len(me.plan.routes) \in Nat
      /\ Robots[me.plan.routes[new]] = "allowed"
      /\ me.attempt \in Nat /\ me.plan.budget.max_retries \in Nat
  BY DEF CrawlOK, CrawlShape, ProgressOK
<1>2. ProgressOK(you)
  BY DEF CrawlOK, ProgressOK, Fetching, Observed
<1>3. \A k \in Nat : /\ k = new => Cardinality(FetchesOf(you, k)) = Cardinality(FetchesOf(me, k)) + 1
                     /\ k # new => Cardinality(FetchesOf(you, k)) = Cardinality(FetchesOf(me, k))
  <2>1. new \in Nat /\ you.fetches = Append(me.fetches, new) /\ me.fetches \in Seq(Nat)
    BY <1>1
  <2> HIDE DEF new
  <2> QED BY <2>1, OneMoreFetch
<1>4. \A k \in Nat : Cardinality(FetchesOf(me, k)) \in Nat
  BY <1>1, FetchesFinite
<1>5. /\ Cardinality(FetchesOf(me, new)) = me.attempt /\ me.attempt <= me.plan.budget.max_retries
      /\ \A k \in Nat : Cardinality(FetchesOf(me, k)) <= me.plan.budget.max_retries + 1
  BY DEF CrawlOK, RetriesOK
<1>6. \A i : i \in DOMAIN me.records => i # new
  BY DEF CrawlOK, CrawlShape
<1> HIDE DEF new, n
<1>7. RetriesOK(you)
  <2>1. \A k \in Nat : Cardinality(FetchesOf(you, k)) <= me.plan.budget.max_retries + 1
    <3> TAKE k \in Nat
    <3>1. CASE k = new
      BY <1>1, <1>3, <1>5, <3>1
    <3>2. CASE k # new
      BY <1>3, <1>5, <3>2
    <3> QED BY <3>1, <3>2
  <2>2. Cardinality(FetchesOf(you, new)) = me.attempt + 1
    BY <1>1, <1>3, <1>5
  <2> QED BY <2>1, <2>2 DEF RetriesOK, new
<1>8. FetchesOK(you)
  <2> SUFFICES ASSUME NEW j \in 1..(n + 1)
               PROVE  /\ you.fetches[j] \in 1..Len(me.plan.routes)
                      /\ Robots[me.plan.routes[you.fetches[j]]] = "allowed"
                      /\ you.fetches[j] <= new
    BY <1>1 DEF FetchesOK, new
  <2>1. CASE j = n + 1
    <3>1. new \in 1..Len(me.plan.routes) /\ new <= new
      <4>1. PICK m : m = Len(me.records)
        OBVIOUS
      <4>2. m \in Nat /\ new = m + 1 /\ m < Len(me.plan.routes) /\ Len(me.plan.routes) \in Nat
        BY <1>1, <4>1 DEF new, CrawlOK, CrawlShape
      <4> QED BY <4>2
    <3>2. you.fetches[j] = new
      BY <1>1, <2>1
    <3> QED BY <1>1, <3>1, <3>2
  <2>2. CASE j \in 1..n
    <3>1. you.fetches[j] = me.fetches[j] /\ j \in DOMAIN me.fetches
      BY <1>1, <2>2
    <3>2. /\ me.fetches[j] \in 1..Len(me.plan.routes)
          /\ Robots[me.plan.routes[me.fetches[j]]] = "allowed"
          /\ me.fetches[j] <= new
      BY <3>1 DEF CrawlOK, FetchesOK, new
    <3> QED BY <3>1, <3>2
  <2>3. j = n + 1 \/ j \in 1..n
    BY <1>1
  <2> QED BY <2>1, <2>2, <2>3
<1>9. RecordsOK(you)
  <2> SUFFICES ASSUME NEW i \in DOMAIN me.records PROVE RecordOK(you, i)
    BY DEF RecordsOK
  <2>1. (\E j \in DOMAIN you.fetches : you.fetches[j] = i) <=> \E j \in DOMAIN me.fetches : me.fetches[j] = i
    BY <1>1, <1>6
  <2> QED BY <2>1 DEF CrawlOK, RecordsOK, RecordOK
<1> QED BY <1>2, <1>7, <1>8, <1>9 DEF CrawlOK

(* A call that answers with a record.                                      *)
LEMMA FetchedOK ==
  ASSUME NEW me, NEW you, CrawlOK(me), CrawlShape(you), me.at = "fetch",
         you.at = "route", you.plan = me.plan,
         you.fetches = Append(me.fetches, Len(me.records) + 1),
         you.records = Append(me.records, [route |-> me.plan.routes[Len(me.records) + 1], robots_allowed |-> TRUE,
                                           evidence_ref |-> "ref"]),
         you.audit = Append(me.audit, <<me.plan.routes[Len(me.records) + 1], "fetched">>)
  PROVE  CrawlOK(you)
<1> DEFINE new == Len(me.records) + 1
           n == Len(me.fetches)
<1>1. /\ me.fetches \in Seq(Nat) /\ new \in Nat \ {0} /\ n \in Nat /\ DOMAIN me.fetches = 1..n
      /\ DOMAIN you.fetches = 1..(n + 1) /\ you.fetches[n + 1] = new
      /\ \A j \in 1..n : you.fetches[j] = me.fetches[j]
      /\ Len(me.records) < Len(me.plan.routes) /\ Len(me.plan.routes) \in Nat
      /\ Robots[me.plan.routes[new]] = "allowed"
      /\ me.attempt \in Nat /\ me.plan.budget.max_retries \in Nat
  BY DEF CrawlOK, CrawlShape, ProgressOK
<1>2. /\ me.records \in Seq(CrawlRecords) /\ me.audit \in Seq(AuditEntries) /\ Len(me.audit) = Len(me.records)
  BY DEF CrawlOK, CrawlShape, ProgressOK
<1>3. /\ Len(you.records) = new /\ Len(you.audit) = new /\ DOMAIN you.records = 1..new
      /\ DOMAIN me.records = 1..(new - 1)
      /\ \A i \in 1..(new - 1) : you.records[i] = me.records[i] /\ you.audit[i] = me.audit[i]
      /\ you.records[new] = [route |-> me.plan.routes[new], robots_allowed |-> TRUE, evidence_ref |-> "ref"]
      /\ you.audit[new] = <<me.plan.routes[new], "fetched">>
  BY <1>2
<1>4. ProgressOK(you)
  BY <1>1, <1>3 DEF CrawlOK, ProgressOK, Observed
<1>5. \A k \in Nat : /\ k = new => Cardinality(FetchesOf(you, k)) = Cardinality(FetchesOf(me, k)) + 1
                     /\ k # new => Cardinality(FetchesOf(you, k)) = Cardinality(FetchesOf(me, k))
  <2>1. new \in Nat /\ you.fetches = Append(me.fetches, new) /\ me.fetches \in Seq(Nat)
    BY <1>1
  <2> HIDE DEF new
  <2> QED BY <2>1, OneMoreFetch
<1>6. \A k \in Nat : Cardinality(FetchesOf(me, k)) \in Nat
  BY <1>1, FetchesFinite
<1>7. /\ Cardinality(FetchesOf(me, new)) = me.attempt /\ me.attempt <= me.plan.budget.max_retries
      /\ \A k \in Nat : Cardinality(FetchesOf(me, k)) <= me.plan.budget.max_retries + 1
      /\ \A j \in DOMAIN me.fetches : me.fetches[j] <= new
  BY DEF CrawlOK, RetriesOK, FetchesOK
<1> HIDE DEF new, n
<1>8. RetriesOK(you)
  <2>1. \A k \in Nat : Cardinality(FetchesOf(you, k)) <= me.plan.budget.max_retries + 1
    <3> TAKE k \in Nat
    <3>1. CASE k = new
      <4>1. PICK m : m = Cardinality(FetchesOf(me, k))
        OBVIOUS
      <4>2. m = me.attempt /\ Cardinality(FetchesOf(you, k)) = m + 1
        BY <1>5, <1>7, <3>1, <4>1
      <4>3. me.attempt \in Nat /\ me.plan.budget.max_retries \in Nat /\ me.attempt <= me.plan.budget.max_retries
        BY <1>1, <1>7
      <4> QED BY <4>2, <4>3
    <3>2. CASE k # new
      BY <1>5, <1>7, <3>2
    <3> QED BY <3>1, <3>2
  <2> QED BY <2>1 DEF RetriesOK
<1>9. FetchesOK(you)
  <2> SUFFICES ASSUME NEW j \in 1..(n + 1)
               PROVE  /\ you.fetches[j] \in 1..Len(me.plan.routes)
                      /\ Robots[me.plan.routes[you.fetches[j]]] = "allowed"
                      /\ you.fetches[j] <= new + 1 /\ you.fetches[j] <= new
    BY <1>1, <1>3, ZenonT(60) DEF FetchesOK
  <2>1. CASE j = n + 1
    <3>1. new \in 1..Len(me.plan.routes) /\ new <= new + 1 /\ new <= new
      BY <1>1 DEF new
    <3>2. you.fetches[j] = new
      BY <1>1, <2>1
    <3> QED BY <1>1, <3>1, <3>2
  <2>2. CASE j \in 1..n
    <3>1. you.fetches[j] = me.fetches[j] /\ j \in DOMAIN me.fetches
      BY <1>1, <2>2
    <3>2. /\ me.fetches[j] \in 1..Len(me.plan.routes)
          /\ Robots[me.plan.routes[me.fetches[j]]] = "allowed"
      BY <3>1 DEF CrawlOK, FetchesOK
    <3>3. me.fetches[j] <= new /\ me.fetches[j] <= new + 1
      BY <1>1, <1>7, <3>1, <3>2
    <3> QED BY <3>1, <3>2, <3>3
  <2>3. j = n + 1 \/ j \in 1..n
    BY <1>1
  <2> QED BY <2>1, <2>2, <2>3
<1>10. RecordsOK(you)
  <2> SUFFICES ASSUME NEW i \in 1..new PROVE RecordOK(you, i)
    BY <1>3 DEF RecordsOK
  <2>1. CASE i = new
    <3>1. you.fetches[n + 1] = i /\ n + 1 \in DOMAIN you.fetches
      BY <1>1, <2>1
    <3> QED BY <1>3, <2>1, <3>1 DEF RecordOK, NoEvidenceRef
  <2>2. CASE i # new
    <3>1. i \in 1..(new - 1)
      BY <1>1, <2>2
    <3>2. (\E j \in DOMAIN you.fetches : you.fetches[j] = i) <=> \E j \in DOMAIN me.fetches : me.fetches[j] = i
      <4>1. ASSUME NEW j \in DOMAIN you.fetches, you.fetches[j] = i PROVE \E k \in DOMAIN me.fetches : me.fetches[k] = i
        <5>1. j \in 1..(n + 1) /\ j # n + 1
          BY <1>1, <2>2, <4>1
        <5>2. j \in 1..n
          BY <1>1, <5>1
        <5> QED BY <1>1, <4>1, <5>2
      <4>2. ASSUME NEW j \in DOMAIN me.fetches, me.fetches[j] = i PROVE \E k \in DOMAIN you.fetches : you.fetches[k] = i
        <5>1. j \in 1..n /\ j \in 1..(n + 1)
          BY <1>1
        <5> QED BY <1>1, <4>2, <5>1
      <4> QED BY <4>1, <4>2
    <3>3. you.records[i] = me.records[i] /\ you.audit[i] = me.audit[i] /\ i \in DOMAIN me.records
      BY <1>3, <3>1
    <3>4. RecordOK(me, i)
      BY <3>3 DEF CrawlOK, RecordsOK
    <3> QED BY <3>2, <3>3, <3>4 DEF RecordOK
  <2> QED BY <2>1, <2>2
<1> QED BY <1>4, <1>8, <1>9, <1>10 DEF CrawlOK

LEMMA AppendGrows == ASSUME NEW S, NEW s \in Seq(S), NEW x \in S PROVE Append(s, x) # s
<1>1. Len(Append(s, x)) = Len(s) + 1 /\ Len(s) \in Nat
  OBVIOUS
<1> QED BY <1>1

LEMMA EntriesOf ==
  ASSUME NEW r \in DOMAIN Robots
  PROVE  /\ [route |-> r, robots_allowed |-> TRUE, evidence_ref |-> "ref"] \in CrawlRecords
         /\ [route |-> r, robots_allowed |-> FALSE, evidence_ref |-> NoEvidenceRef] \in CrawlRecords
         /\ \A what \in {"fetched", "skipped_robots_disallowed"} : <<r, what>> \in AuditEntries
<1>1. [route |-> r, robots_allowed |-> TRUE, evidence_ref |-> "ref"] \in CrawlRecords
  BY DEF CrawlRecords
<1>2. [route |-> r, robots_allowed |-> FALSE, evidence_ref |-> NoEvidenceRef] \in CrawlRecords
  BY DEF CrawlRecords
<1>3. \A what \in {"fetched", "skipped_robots_disallowed"} : <<r, what>> \in AuditEntries
  BY DEF AuditEntries
<1> QED BY <1>1, <1>2, <1>3

LEMMA CrawlTransitions ==
  /\ JobTransition("pending", "running") = "running"
  /\ JobTransition("running", "failed") = "failed"
  /\ JobTransition("running", "succeeded") = "succeeded"
BY DEF JobTransition, AllowedJobTransitions, JobStatus

(* A run that has not stored may go on: what is stored is another's.       *)
LEMMA OneRunSteps ==
  ASSUME CrawlInv, NEW c \in Crawls, DOMAIN crawl' = Crawls,
         \A k \in Crawls \ {c} : crawl'[k] = crawl[k],
         CrawlOK(crawl'[c]), crawl[c].at # "stored", inventory_store' = inventory_store
  PROVE  CrawlInv'
<1>1. \A k \in Crawls : CrawlOK(crawl'[k])
  <2> TAKE k \in Crawls
  <2>1. CASE k = c
    BY <2>1
  <2>2. CASE k # c
    BY <2>2 DEF CrawlInv
  <2> QED BY <2>1, <2>2
<1>2. StoreInv'
  BY DEF CrawlInv, StoreInv
<1> QED BY <1>1, <1>2 DEF CrawlInv

LEMMA StartCrawlOK == ASSUME CrawlInv, NEW c \in Crawls, StartCrawl(c) PROVE CrawlInv'
<1> DEFINE me == crawl[c]
           you == crawl'[c]
<1>1. me.at = "start" /\ inventory_store' = inventory_store /\ CrawlOK(me)
  BY DEF StartCrawl, CrawlInv
<1>2. /\ DOMAIN crawl' = Crawls /\ \A k \in Crawls \ {c} : crawl'[k] = crawl[k]
      /\ you.plan = me.plan /\ you.records = me.records /\ you.audit = me.audit
      /\ you.fetches = me.fetches /\ you.attempt = me.attempt /\ DOMAIN you = DOMAIN me
      /\ \/ you.at = "over_budget" /\ you.status = me.status
         \/ /\ you.at = "route" /\ you.status = "running"
            /\ ~(Len(me.plan.routes) > me.plan.budget.max_routes)
  BY <1>1, CrawlTransitions DEF StartCrawl, CrawlInv, CrawlOK, CrawlShape
<1> HIDE DEF me, you
<1>3. CrawlShape(you)
  BY <1>1, <1>2 DEF CrawlOK, CrawlShape, CrawlEnded, Observed
<1>4. Len(me.plan.routes) \in Nat /\ me.plan.budget.max_routes \in Nat
  BY <1>1 DEF CrawlOK, CrawlShape
<1>5. ProgressOK(you)
  BY <1>1, <1>2, <1>4 DEF CrawlOK, ProgressOK, Observed
<1>6. CrawlOK(you)
  BY <1>1, <1>2, <1>3, <1>5, MoveOK DEF Fetching
<1> QED BY <1>1, <1>2, <1>6, OneRunSteps DEF me, you

LEMMA NextRouteOK == ASSUME CrawlInv, NEW c \in Crawls, NextRoute(c) PROVE CrawlInv'
<1> DEFINE me == crawl[c]
           you == crawl'[c]
           new == Len(me.records) + 1
<1>1. /\ me.at = "route" /\ Len(me.records) < Len(me.plan.routes)
      /\ inventory_store' = inventory_store /\ CrawlOK(me) /\ me.status = "running"
  BY DEF NextRoute, CrawlInv, CrawlOK, CrawlShape, Observed
<1>2. /\ DOMAIN crawl' = Crawls /\ \A k \in Crawls \ {c} : crawl'[k] = crawl[k]
      /\ you.plan = me.plan /\ you.fetches = me.fetches /\ DOMAIN you = DOMAIN me
      /\ \/ /\ you.at = "deadline" /\ you.status = "failed" /\ you.attempt = me.attempt
            /\ you.records = me.records /\ you.audit = me.audit
         \/ /\ you.at = "fetch" /\ you.status = me.status /\ you.attempt = 0
            /\ you.records = me.records /\ you.audit = me.audit
            /\ Robots[me.plan.routes[new]] = "allowed"
         \/ /\ you.at = "unknown_route" /\ you.status = me.status /\ you.attempt = me.attempt
            /\ you.records = me.records /\ you.audit = me.audit
         \/ /\ you.at = me.at /\ you.status = me.status /\ you.attempt = me.attempt
            /\ you.records = Append(me.records, [route |-> me.plan.routes[new], robots_allowed |-> FALSE,
                                                 evidence_ref |-> NoEvidenceRef])
            /\ you.audit = Append(me.audit, <<me.plan.routes[new], "skipped_robots_disallowed">>)
  BY <1>1, CrawlTransitions DEF NextRoute, Route, CheckRobots, CrawlInv, CrawlOK, CrawlShape
<1>3. me.plan.routes[new] \in DOMAIN Robots
  BY <1>1 DEF CrawlOK, CrawlShape
<1> HIDE DEF you
<1>4. CASE you.records = me.records
  <2>1. /\ you.audit = me.audit /\ you.attempt \in Nat
        /\ \/ you.at = "deadline" /\ you.status = "failed"
           \/ /\ you.at = "fetch" /\ you.status = "running" /\ you.attempt = 0
              /\ Robots[me.plan.routes[new]] = "allowed"
           \/ you.at = "unknown_route" /\ you.status = "running"
    <3> DEFINE record == [route |-> me.plan.routes[new], robots_allowed |-> FALSE, evidence_ref |-> NoEvidenceRef]
    <3>1. me.records \in Seq(CrawlRecords) /\ me.attempt \in Nat
      BY <1>1 DEF CrawlOK, CrawlShape
    <3>2. record \in CrawlRecords
      BY <1>3, EntriesOf
    <3>3. Append(me.records, record) # me.records
      BY <3>1, <3>2, AppendGrows
    <3> QED BY <1>1, <1>2, <1>4, <3>1, <3>3
  <2>2. CrawlShape(you)
    BY <1>1, <1>2, <1>4, <2>1 DEF CrawlOK, CrawlShape, CrawlEnded, Observed
  <2>3. ProgressOK(you)
    BY <1>1, <1>2, <1>4, <2>1 DEF CrawlOK, ProgressOK, Observed
  <2>4. CrawlOK(you)
    <3> HIDE DEF me, new
    <3> QED BY <1>1, <1>2, <1>4, <2>1, <2>2, <2>3, MoveOK DEF Fetching
  <2> QED BY <1>1, <1>2, <2>4, OneRunSteps DEF you
<1>5. CASE you.records # me.records
  <2>1. /\ you.at = "route" /\ you.status = "running" /\ you.attempt = me.attempt
        /\ you.records = Append(me.records, [route |-> me.plan.routes[new], robots_allowed |-> FALSE,
                                             evidence_ref |-> NoEvidenceRef])
        /\ you.audit = Append(me.audit, <<me.plan.routes[new], "skipped_robots_disallowed">>)
    BY <1>1, <1>2, <1>5
  <2>2. you.records \in Seq(CrawlRecords) /\ you.audit \in Seq(AuditEntries)
    <3>1. me.records \in Seq(CrawlRecords) /\ me.audit \in Seq(AuditEntries)
      BY <1>1 DEF CrawlOK, CrawlShape
    <3>2. /\ [route |-> me.plan.routes[new], robots_allowed |-> FALSE, evidence_ref |-> NoEvidenceRef] \in CrawlRecords
          /\ <<me.plan.routes[new], "skipped_robots_disallowed">> \in AuditEntries
      BY <1>3, EntriesOf
    <3> QED BY <2>1, <3>1, <3>2
  <2>3. CrawlShape(you)
    BY <1>1, <1>2, <2>1, <2>2 DEF CrawlOK, CrawlShape, CrawlEnded, Observed
  <2>4. CrawlOK(you)
    <3> HIDE DEF me
    <3> QED BY <1>1, <1>2, <2>1, <2>3, SkipOK
  <2> QED BY <1>1, <1>2, <2>4, OneRunSteps DEF you
<1> QED BY <1>4, <1>5

LEMMA FetchRouteOK == ASSUME CrawlInv, NEW c \in Crawls, FetchRoute(c) PROVE CrawlInv'
<1> DEFINE me == crawl[c]
           you == crawl'[c]
           new == Len(me.records) + 1
<1>1. /\ me.at = "fetch" /\ inventory_store' = inventory_store /\ CrawlOK(me) /\ me.status = "running"
      /\ Len(me.records) < Len(me.plan.routes)
  BY DEF FetchRoute, CrawlInv, CrawlOK, CrawlShape, ProgressOK, Observed
<1>2. /\ DOMAIN crawl' = Crawls /\ \A k \in Crawls \ {c} : crawl'[k] = crawl[k]
      /\ you.plan = me.plan /\ you.fetches = Append(me.fetches, new) /\ DOMAIN you = DOMAIN me
      /\ \/ /\ you.at = "retries_exhausted" /\ you.status = "failed" /\ you.attempt = me.attempt + 1
            /\ you.records = me.records /\ you.audit = me.audit
         \/ /\ you.at = me.at /\ you.status = me.status /\ you.attempt = me.attempt + 1
            /\ you.records = me.records /\ you.audit = me.audit
            /\ ~(me.attempt + 1 > me.plan.budget.max_retries)
         \/ /\ you.at = "invalid_record" /\ you.status = me.status /\ you.attempt = me.attempt
            /\ you.records = me.records /\ you.audit = me.audit
         \/ /\ you.at = "route" /\ you.status = me.status /\ you.attempt = me.attempt
            /\ you.records = Append(me.records, [route |-> me.plan.routes[new], robots_allowed |-> TRUE,
                                                 evidence_ref |-> "ref"])
            /\ you.audit = Append(me.audit, <<me.plan.routes[new], "fetched">>)
  <2> DEFINE called == [crawl EXCEPT ![c].fetches = Append(@, new), ![c].late = @ \cup Overdue(me)]
  <2>1. /\ DOMAIN called = Crawls /\ \A k \in Crawls \ {c} : called[k] = crawl[k]
        /\ DOMAIN called[c] = DOMAIN me /\ called[c].fetches = Append(me.fetches, new)
        /\ \A f \in {"plan", "at", "status", "attempt", "records", "audit"} : called[c][f] = me[f]
    BY DEF CrawlInv, CrawlOK, CrawlShape
  <2>2. DOMAIN me = {"plan", "at", "status", "clock", "attempt", "records", "audit", "fetches", "late"}
    BY DEF CrawlInv, CrawlOK, CrawlShape
  <2> HIDE DEF called
  <2>3. CASE crawl' = [called EXCEPT ![c].at = "retries_exhausted", ![c].attempt = @ + 1,
                                     ![c].status = JobTransition(@, "failed")]
    BY <1>1, <2>1, <2>2, <2>3, CrawlTransitions
  <2>4. CASE crawl' = [called EXCEPT ![c].attempt = @ + 1] /\ ~(me.attempt + 1 > me.plan.budget.max_retries)
    BY <1>1, <2>1, <2>2, <2>4
  <2>5. CASE crawl' = [called EXCEPT ![c].at = "invalid_record"]
    BY <1>1, <2>1, <2>2, <2>5
  <2> DEFINE record == [route |-> me.plan.routes[new], robots_allowed |-> TRUE, evidence_ref |-> "ref"]
             entry == <<me.plan.routes[new], "fetched">>
  <2>6. CASE crawl' = [called EXCEPT ![c].at = "route", ![c].records = Append(@, record),
                                     ![c].audit = Append(@, entry)]
    BY <1>1, <2>1, <2>2, <2>6
  <2>7. \/ /\ me.attempt + 1 > me.plan.budget.max_retries
           /\ crawl' = [called EXCEPT ![c].at = "retries_exhausted", ![c].attempt = @ + 1,
                                     ![c].status = JobTransition(@, "failed")]
        \/ crawl' = [called EXCEPT ![c].attempt = @ + 1] /\ ~(me.attempt + 1 > me.plan.budget.max_retries)
        \/ crawl' = [called EXCEPT ![c].at = "invalid_record"]
        \/ crawl' = [called EXCEPT ![c].at = "route", ![c].records = Append(@, record),
                                  ![c].audit = Append(@, entry)]
    BY DEF FetchRoute, Route, ContentRecordOk, called
  <2> QED BY <2>3, <2>4, <2>5, <2>6, <2>7
<1>3. /\ me.plan.routes[new] \in DOMAIN Robots /\ me.attempt \in Nat /\ me.plan.budget.max_retries \in Nat
      /\ you.fetches \in Seq(Nat)
  BY <1>1, <1>2, SMTT(60) DEF CrawlOK, CrawlShape
<1> HIDE DEF you
<1>4. CASE you.records = me.records
  <2>1. /\ you.audit = me.audit /\ you.attempt \in Nat
        /\ \/ you.at = "retries_exhausted" /\ you.status = "failed"
           \/ /\ you.at = "fetch" /\ you.status = "running" /\ you.attempt = me.attempt + 1
              /\ you.attempt <= me.plan.budget.max_retries
           \/ you.at = "invalid_record" /\ you.status = "running"
    <3> DEFINE record == [route |-> me.plan.routes[new], robots_allowed |-> TRUE, evidence_ref |-> "ref"]
    <3>1. me.records \in Seq(CrawlRecords) /\ me.attempt \in Nat
      BY <1>1 DEF CrawlOK, CrawlShape
    <3>2. record \in CrawlRecords
      BY <1>3, EntriesOf
    <3>3. Append(me.records, record) # me.records
      BY <3>1, <3>2, AppendGrows
    <3> QED BY <1>1, <1>2, <1>3, <1>4, <3>1, <3>3, SMTT(60)
  <2>2. CrawlShape(you)
    BY <1>1, <1>2, <1>3, <1>4, <2>1 DEF CrawlOK, CrawlShape, CrawlEnded, Observed
  <2>3. CrawlOK(you)
    <3> HIDE DEF me
    <3> QED BY <1>1, <1>2, <1>4, <2>1, <2>2, FailedFetchOK DEF Fetching
  <2> QED BY <1>1, <1>2, <2>3, OneRunSteps DEF you
<1>5. CASE you.records # me.records
  <2>1. /\ you.at = "route" /\ you.status = "running" /\ you.attempt = me.attempt
        /\ you.records = Append(me.records, [route |-> me.plan.routes[new], robots_allowed |-> TRUE,
                                             evidence_ref |-> "ref"])
        /\ you.audit = Append(me.audit, <<me.plan.routes[new], "fetched">>)
    BY <1>1, <1>2, <1>5
  <2>2. you.records \in Seq(CrawlRecords) /\ you.audit \in Seq(AuditEntries)
    <3>1. me.records \in Seq(CrawlRecords) /\ me.audit \in Seq(AuditEntries)
      BY <1>1 DEF CrawlOK, CrawlShape
    <3>2. /\ [route |-> me.plan.routes[new], robots_allowed |-> TRUE, evidence_ref |-> "ref"] \in CrawlRecords
          /\ <<me.plan.routes[new], "fetched">> \in AuditEntries
      BY <1>3, EntriesOf
    <3> QED BY <2>1, <3>1, <3>2
  <2>3. CrawlShape(you)
    BY <1>1, <1>2, <1>3, <2>1, <2>2 DEF CrawlOK, CrawlShape, CrawlEnded, Observed
  <2>4. CrawlOK(you)
    <3> HIDE DEF me
    <3> QED BY <1>1, <1>2, <2>1, <2>3, FetchedOK
  <2> QED BY <1>1, <1>2, <2>4, OneRunSteps DEF you
<1> QED BY <1>4, <1>5

LEMMA CrawlTickOK == ASSUME CrawlInv, NEW c \in Crawls, CrawlTick(c) PROVE CrawlInv'
<1> DEFINE me == crawl[c]
           you == crawl'[c]
<1>1. me.at \in {"route", "fetch"} /\ inventory_store' = inventory_store /\ CrawlOK(me)
  BY DEF CrawlTick, CrawlInv
<1>2. /\ DOMAIN crawl' = Crawls /\ \A k \in Crawls \ {c} : crawl'[k] = crawl[k]
      /\ you.plan = me.plan /\ you.records = me.records /\ you.audit = me.audit
      /\ you.fetches = me.fetches /\ you.attempt = me.attempt /\ DOMAIN you = DOMAIN me
      /\ you.at = me.at /\ you.status = me.status
  BY <1>1 DEF CrawlTick, CrawlInv, CrawlOK, CrawlShape
<1> HIDE DEF me, you
<1>3. CrawlShape(you)
  BY <1>1, <1>2 DEF CrawlOK, CrawlShape
<1>4. ProgressOK(you)
  BY <1>1, <1>2 DEF CrawlOK, ProgressOK
<1>5. FetchesOK(you) /\ RecordsOK(you)
  BY <1>1, <1>2 DEF CrawlOK, FetchesOK, RecordsOK, RecordOK
<1>6. RetriesOK(you)
  BY <1>1, <1>2 DEF CrawlOK, RetriesOK, FetchesOf
<1>7. CrawlOK(you)
  BY <1>3, <1>4, <1>5, <1>6 DEF CrawlOK
<1> QED BY <1>1, <1>2, <1>7, OneRunSteps DEF me, you

LEMMA FinishCrawlOK == ASSUME CrawlInv, NEW c \in Crawls, FinishCrawl(c) PROVE CrawlInv'
<1> DEFINE me == crawl[c]
           you == crawl'[c]
<1>1. /\ me.at = "route" /\ Len(me.records) = Len(me.plan.routes)
      /\ inventory_store' = inventory_store /\ CrawlOK(me) /\ me.status = "running"
  BY DEF FinishCrawl, CrawlInv, CrawlOK, CrawlShape, Observed
<1>2. /\ DOMAIN crawl' = Crawls /\ \A k \in Crawls \ {c} : crawl'[k] = crawl[k]
      /\ you.plan = me.plan /\ you.records = me.records /\ you.audit = me.audit
      /\ you.fetches = me.fetches /\ you.attempt = me.attempt /\ DOMAIN you = DOMAIN me
      /\ you.at = "observed" /\ you.status = "succeeded"
  BY <1>1, CrawlTransitions DEF FinishCrawl, CrawlInv, CrawlOK, CrawlShape
<1> HIDE DEF me, you
<1>3. CrawlShape(you)
  BY <1>1, <1>2 DEF CrawlOK, CrawlShape, CrawlEnded, Observed
<1>4. ProgressOK(you)
  BY <1>1, <1>2 DEF CrawlOK, ProgressOK
<1>5. CrawlOK(you)
  BY <1>1, <1>2, <1>3, <1>4, MoveOK DEF Fetching
<1> QED BY <1>1, <1>2, <1>5, OneRunSteps DEF me, you

LEMMA PutInventoryOK == ASSUME CrawlInv, NEW c \in Crawls, PutInventory(c) PROVE CrawlInv'
<1> DEFINE me == crawl[c]
           you == crawl'[c]
           key == <<me.plan.store_as, me.plan.site>>
<1>1. me.at = "observed" /\ CrawlOK(me)
  BY DEF PutInventory, CrawlInv
<1>2. /\ DOMAIN crawl' = Crawls /\ \A k \in Crawls \ {c} : crawl'[k] = crawl[k]
      /\ you.plan = me.plan /\ you.records = me.records /\ you.audit = me.audit
      /\ you.fetches = me.fetches /\ you.attempt = me.attempt /\ DOMAIN you = DOMAIN me
      /\ you.status = me.status
      /\ \/ you.at = "cross_tenant" /\ inventory_store' = inventory_store
         \/ /\ you.at = "stored" /\ me.plan.store_as = me.plan.tenant
            /\ inventory_store' = [k \in DOMAIN inventory_store \cup {key} |->
                                     IF k = key THEN Observation(c) ELSE inventory_store[k]]
  BY <1>1 DEF PutInventory, CrawlInv, CrawlOK, CrawlShape
<1>3. CrawlOK(you)
  <2> HIDE DEF me, you
  <2>1. CrawlShape(you)
    BY <1>1, <1>2 DEF CrawlOK, CrawlShape, CrawlEnded, Observed
  <2>2. ProgressOK(you)
    BY <1>1, <1>2 DEF CrawlOK, ProgressOK, Observed
  <2> QED BY <1>1, <1>2, <2>1, <2>2, MoveOK DEF Fetching
<1>4. CASE inventory_store' = inventory_store
  BY <1>1, <1>2, <1>3, <1>4, OneRunSteps
<1>5. CASE you.at = "stored" /\ me.plan.store_as = me.plan.tenant
           /\ inventory_store' = [k \in DOMAIN inventory_store \cup {key} |->
                                     IF k = key THEN Observation(c) ELSE inventory_store[k]]
  <2>1. \A k \in Crawls : CrawlOK(crawl'[k])
    <3> TAKE k \in Crawls
    <3>1. CASE k = c
      BY <1>3, <3>1
    <3>2. CASE k # c
      BY <1>2, <3>2 DEF CrawlInv
    <3> QED BY <3>1, <3>2
  <2>2. /\ Observation(c).run = c /\ Observation(c).tenant = me.plan.tenant
        /\ Observation(c).records = me.records /\ Observation(c).audit = me.audit
    BY DEF Observation
  <2>3. key = <<key[1], key[2]>> /\ key[1] = me.plan.store_as
    OBVIOUS
  <2> HIDE DEF key, you, me
  <2>4. StoreInv'
    <3> SUFFICES ASSUME NEW k \in DOMAIN inventory_store'
                 PROVE  LET o == inventory_store'[k] IN
                        /\ k = <<k[1], k[2]>> /\ o.tenant = k[1]
                        /\ o.run \in Crawls /\ crawl'[o.run].at = "stored"
                        /\ o.records = crawl'[o.run].records /\ o.audit = crawl'[o.run].audit
      BY DEF StoreInv
    <3>1. CASE k = key
      <4>1. inventory_store'[k] = Observation(c)
        BY <1>5, <3>1
      <4> QED BY <1>2, <1>5, <2>2, <2>3, <3>1, <4>1 DEF you
    <3>2. CASE k # key
      <4>1. k \in DOMAIN inventory_store /\ inventory_store'[k] = inventory_store[k]
        BY <1>5, <3>2
      <4>2. inventory_store[k].run # c
        BY <1>1, <4>1 DEF CrawlInv, StoreInv, me
      <4> QED BY <1>2, <4>1, <4>2 DEF CrawlInv, StoreInv
    <3> QED BY <3>1, <3>2
  <2> QED BY <1>2, <2>1, <2>4 DEF CrawlInv
<1> QED BY <1>2, <1>4, <1>5

LEMMA CrawlInitOK == DiscoveryInit => CrawlInv
<1> SUFFICES ASSUME DiscoveryInit PROVE CrawlInv
  OBVIOUS
<1>1. PICK p \in CrawlPlans :
        crawl = [c \in Crawls |->
          [plan |-> p[c], at |-> "start", status |-> "pending", clock |-> 0, attempt |-> 0,
           records |-> <<>>, audit |-> <<>>, fetches |-> <<>>, late |-> {}]]
  BY DEF DiscoveryInit
<1>2. ASSUME NEW c \in Crawls PROVE CrawlOK(crawl[c])
  <2> DEFINE me == crawl[c]
  <2>1. /\ me.plan = p[c] /\ me.at = "start" /\ me.status = "pending" /\ me.attempt = 0
        /\ me.records = <<>> /\ me.audit = <<>> /\ me.fetches = <<>>
        /\ DOMAIN me = {"plan", "at", "status", "clock", "attempt", "records", "audit", "fetches", "late"}
    BY <1>1
  <2> HIDE DEF me
  <2>2. CrawlShape(me)
    BY <2>1, CrawlAssumption DEF CrawlShape, Observed
  <2>3. Len(<<>>) = 0 /\ DOMAIN <<>> = {}
    OBVIOUS
  <2>4. ProgressOK(me)
    <3>1. Len(me.plan.routes) \in Nat
      BY <2>2 DEF CrawlShape
    <3> QED BY <2>1, <2>3, <3>1 DEF ProgressOK, Observed
  <2>5. FetchesOK(me) /\ RecordsOK(me)
    BY <2>1, <2>3 DEF FetchesOK, RecordsOK
  <2>6. RetriesOK(me)
    <3>1. \A n : FetchesOf(me, n) = {}
      BY <2>1, <2>3 DEF FetchesOf
    <3>2. Cardinality({}) = 0 /\ me.plan.budget.max_retries \in Nat
      BY <2>2, FS_EmptySet DEF CrawlShape
    <3>3. 0 <= me.plan.budget.max_retries + 1
      BY <3>2
    <3> QED BY <2>1, <3>1, <3>2, <3>3 DEF RetriesOK
  <2>7. CrawlOK(me)
    BY <2>2, <2>4, <2>5, <2>6 DEF CrawlOK
  <2> QED BY <2>7 DEF me
<1>3. StoreInv
  <2>1. DOMAIN <<>> = {}
    OBVIOUS
  <2> QED BY <2>1 DEF DiscoveryInit, StoreInv
<1> QED BY <1>1, <1>2, <1>3 DEF CrawlInv

LEMMA CrawlStep == CrawlInv /\ [DiscoveryNext]_discoveryVars => CrawlInv'
<1> SUFFICES ASSUME CrawlInv, [DiscoveryNext]_discoveryVars PROVE CrawlInv'
  OBVIOUS
<1>1. CASE UNCHANGED discoveryVars
  BY <1>1 DEF discoveryVars, CrawlInv, StoreInv
<1> QED
  BY <1>1, StartCrawlOK, NextRouteOK, FetchRouteOK, CrawlTickOK, FinishCrawlOK, PutInventoryOK DEF DiscoveryNext

(* A run has fetched past its deadline only the route it had begun; once   *)
(* it has, its clock is past the deadline and no other route is begun.     *)
OverdueOK(me) ==
  /\ me.clock \in Nat /\ me.plan.budget.deadline \in Nat
  /\ \A m, n \in me.late : m = n
  /\ me.late # {} => me.clock > me.plan.budget.deadline
  /\ me.at = "fetch" => \A n \in me.late : n = Len(me.records) + 1
OverdueInv == \A c \in Crawls : OverdueOK(crawl[c])

LEMMA OverdueInitOK == DiscoveryInit => OverdueInv
<1> SUFFICES ASSUME DiscoveryInit, NEW c \in Crawls PROVE OverdueOK(crawl[c])
  BY DEF OverdueInv
<1>1. PICK p \in CrawlPlans :
        crawl = [k \in Crawls |->
          [plan |-> p[k], at |-> "start", status |-> "pending", clock |-> 0, attempt |-> 0,
           records |-> <<>>, audit |-> <<>>, fetches |-> <<>>, late |-> {}]]
  BY DEF DiscoveryInit
<1>2. crawl[c].plan = p[c] /\ crawl[c].at = "start" /\ crawl[c].clock = 0 /\ crawl[c].late = {}
  BY <1>1
<1> QED BY <1>2, CrawlAssumption DEF OverdueOK

(* What a step does to one run: it keeps the plan and its late fetches,    *)
(* unless it fetches; it begins a route in time only.                      *)
LEMMA OverdueStep == CrawlInv /\ OverdueInv /\ [DiscoveryNext]_discoveryVars => OverdueInv'
<1> SUFFICES ASSUME CrawlInv, OverdueInv, [DiscoveryNext]_discoveryVars PROVE OverdueInv'
  OBVIOUS
<1>1. CASE UNCHANGED discoveryVars
  BY <1>1 DEF discoveryVars, OverdueInv
<1>2. ASSUME NEW c \in Crawls,
             \/ StartCrawl(c) \/ NextRoute(c) \/ FetchRoute(c) \/ CrawlTick(c) \/ FinishCrawl(c) \/ PutInventory(c)
      PROVE  OverdueInv'
  <2> DEFINE me == crawl[c]
             you == crawl'[c]
  <2>1. /\ OverdueOK(me) /\ DOMAIN crawl = Crawls
        /\ DOMAIN me = {"plan", "at", "status", "clock", "attempt", "records", "audit", "fetches", "late"}
    BY DEF CrawlInv, CrawlOK, CrawlShape, OverdueInv
  <2>2. CASE StartCrawl(c) \/ FinishCrawl(c) \/ PutInventory(c)
    <3>1. /\ \A k \in Crawls \ {c} : crawl'[k] = crawl[k]
          /\ you.plan = me.plan /\ you.clock = me.clock /\ you.late = me.late /\ you.at # "fetch"
      BY <2>1, <2>2 DEF StartCrawl, FinishCrawl, PutInventory
    <3> HIDE DEF me, you
    <3>2. OverdueOK(you)
      BY <2>1, <3>1 DEF OverdueOK
    <3> QED BY <3>1, <3>2 DEF OverdueInv, you
  <2>3. CASE NextRoute(c)
    <3>1. /\ \A k \in Crawls \ {c} : crawl'[k] = crawl[k]
          /\ you.plan = me.plan /\ you.clock = me.clock /\ you.late = me.late
          /\ you.at = "fetch" => ~(me.clock > me.plan.budget.deadline)
      BY <2>1, <2>3 DEF NextRoute
    <3> HIDE DEF me, you
    <3>2. OverdueOK(you)
      BY <2>1, <3>1 DEF OverdueOK
    <3> QED BY <3>1, <3>2 DEF OverdueInv, you
  <2>4. CASE FetchRoute(c)
    <3> DEFINE called == [crawl EXCEPT ![c].fetches = Append(@, Len(me.records) + 1),
                                       ![c].late = @ \cup Overdue(me)]
    <3>1. /\ DOMAIN called = Crawls /\ \A k \in Crawls \ {c} : called[k] = crawl[k]
          /\ DOMAIN called[c] = DOMAIN me /\ called[c].late = me.late \cup Overdue(me)
          /\ \A f \in {"plan", "at", "status", "clock", "attempt", "records", "audit"} : called[c][f] = me[f]
      BY <2>1
    <3>2. me.at = "fetch"
      BY <2>4 DEF FetchRoute
    <3>3. \/ crawl' = [called EXCEPT ![c].at = "retries_exhausted", ![c].attempt = @ + 1,
                                     ![c].status = JobTransition(@, "failed")]
          \/ crawl' = [called EXCEPT ![c].attempt = @ + 1]
          \/ \E record : crawl' = [called EXCEPT ![c].at = "route", ![c].records = Append(@, record),
                                                  ![c].audit = Append(@, <<Route(c), "fetched">>)]
          \/ crawl' = [called EXCEPT ![c].at = "invalid_record"]
      BY <2>4 DEF FetchRoute, called
    <3> HIDE DEF called
    <3>4. /\ \A k \in Crawls \ {c} : crawl'[k] = crawl[k]
          /\ you.plan = me.plan /\ you.clock = me.clock /\ you.late = me.late \cup Overdue(me)
          /\ you.at = "fetch" => you.records = me.records
      <4>1. CASE crawl' = [called EXCEPT ![c].at = "retries_exhausted", ![c].attempt = @ + 1,
                                         ![c].status = JobTransition(@, "failed")]
        BY <2>1, <3>1, <4>1
      <4>2. CASE crawl' = [called EXCEPT ![c].attempt = @ + 1]
        BY <2>1, <3>1, <4>2
      <4>3. ASSUME NEW record,
                   crawl' = [called EXCEPT ![c].at = "route", ![c].records = Append(@, record),
                                           ![c].audit = Append(@, <<Route(c), "fetched">>)]
            PROVE  /\ \A k \in Crawls \ {c} : crawl'[k] = crawl[k]
                   /\ you.plan = me.plan /\ you.clock = me.clock /\ you.late = me.late \cup Overdue(me)
                   /\ you.at = "route"
        BY <2>1, <3>1, <4>3
      <4>4. CASE crawl' = [called EXCEPT ![c].at = "invalid_record"]
        BY <2>1, <3>1, <4>4
      <4> QED BY <3>3, <4>1, <4>2, <4>3, <4>4
    <3> HIDE DEF me, you
    <3>5. \A n \in you.late : n = Len(me.records) + 1
      BY <2>1, <3>2, <3>4 DEF OverdueOK, Overdue
    <3>6. you.late # {} => you.clock > you.plan.budget.deadline
      BY <2>1, <3>4 DEF OverdueOK, Overdue
    <3>7. OverdueOK(you)
      BY <2>1, <3>4, <3>5, <3>6 DEF OverdueOK
    <3> QED BY <3>4, <3>7 DEF OverdueInv, you
  <2>5. CASE CrawlTick(c)
    <3>1. /\ \A k \in Crawls \ {c} : crawl'[k] = crawl[k]
          /\ you.plan = me.plan /\ you.clock = me.clock + 1 /\ you.late = me.late
          /\ you.at = me.at /\ you.records = me.records
      BY <2>1, <2>5 DEF CrawlTick
    <3> HIDE DEF me, you
    <3>2. OverdueOK(you)
      BY <2>1, <3>1 DEF OverdueOK
    <3> QED BY <3>1, <3>2 DEF OverdueInv, you
  <2> QED BY <1>2, <2>2, <2>3, <2>4, <2>5
<1> QED BY <1>1, <1>2 DEF DiscoveryNext

(* However many runs there are, whatever they are asked to crawl and       *)
(* however often a fetch fails: no route that robots forbids is fetched,   *)
(* no route is tried more often than the budget allows, past the deadline  *)
(* only the route already begun is fetched, and an inventory in the store  *)
(* is whole and truthful (run_site_discovery).                             *)
THEOREM CrawlIsAlwaysKept == DiscoverySpec => []CrawlIsKept
<1>1. CrawlInv /\ OverdueInv => CrawlIsKept
  <2> SUFFICES ASSUME CrawlInv, OverdueInv PROVE CrawlIsKept
    OBVIOUS
  <2>1. DiscoveryTypeOK
    BY DEF CrawlInv, CrawlOK, CrawlShape, DiscoveryTypeOK, CrawlEnded, Observed, JobStatus
  <2>2. CrawlKeepsBounds
    <3> SUFFICES ASSUME NEW c \in Crawls, NEW i \in DOMAIN crawl[c].fetches
                 PROVE  /\ Robots[crawl[c].plan.routes[crawl[c].fetches[i]]] = "allowed"
                        /\ Cardinality(FetchesOf(crawl[c], crawl[c].fetches[i])) <= crawl[c].plan.budget.max_retries + 1
                        /\ crawl[c].fetches[i] <= crawl[c].plan.budget.max_routes
      BY DEF CrawlKeepsBounds, FetchesOf, OverdueInv, OverdueOK
    <3> DEFINE me == crawl[c]
    <3>1. CrawlOK(me)
      BY DEF CrawlInv
    <3>2. me.fetches[i] \in 1..Len(me.plan.routes) /\ Robots[me.plan.routes[me.fetches[i]]] = "allowed"
      BY <3>1 DEF CrawlOK, FetchesOK
    <3>3. Len(me.plan.routes) \in Nat /\ me.plan.budget.max_routes \in Nat /\ me.fetches[i] \in Nat
      BY <3>1 DEF CrawlOK, CrawlShape
    <3>4. me.at \notin {"start", "over_budget"}
      <4>1. DOMAIN <<>> = {}
        OBVIOUS
      <4> QED BY <3>1, <4>1 DEF CrawlOK, ProgressOK
    <3>5. Len(me.plan.routes) <= me.plan.budget.max_routes
      BY <3>1, <3>4 DEF CrawlOK, ProgressOK
    <3> HIDE DEF me
    <3>6. Cardinality(FetchesOf(me, me.fetches[i])) <= me.plan.budget.max_retries + 1
      BY <3>1, <3>3 DEF CrawlOK, RetriesOK
    <3>7. me.fetches[i] <= me.plan.budget.max_routes
      BY <3>2, <3>3, <3>5
    <3> QED BY <3>2, <3>6, <3>7 DEF me
  <2>3. InventoryIsWhole
    <3> SUFFICES ASSUME NEW k \in DOMAIN inventory_store
          PROVE  LET o == GetInventory(k[1], k[2])  me == crawl[o.run] IN
                 /\ o.tenant = k[1] /\ Len(o.records) = Len(me.plan.routes) /\ Len(o.audit) = Len(o.records)
                 /\ \A i \in DOMAIN o.records :
                      /\ o.records[i].route = me.plan.routes[i] /\ o.audit[i][1] = me.plan.routes[i]
                      /\ o.records[i].robots_allowed <=> o.audit[i][2] = "fetched"
                      /\ o.records[i].evidence_ref # NoEvidenceRef <=> \E j \in DOMAIN me.fetches : me.fetches[j] = i
      BY DEF InventoryIsWhole
    <3> DEFINE o == GetInventory(k[1], k[2])
               me == crawl[o.run]
    <3>1. o = inventory_store[k]
      BY DEF GetInventory, CrawlInv, StoreInv
    <3>2. /\ o.tenant = k[1] /\ o.run \in Crawls /\ me.at = "stored"
          /\ o.records = me.records /\ o.audit = me.audit
      BY <3>1 DEF CrawlInv, StoreInv
    <3>3. CrawlOK(me)
      BY <3>2 DEF CrawlInv
    <3> HIDE DEF o, me
    <3>4. Len(o.records) = Len(me.plan.routes) /\ Len(o.audit) = Len(o.records)
      BY <3>2, <3>3 DEF CrawlOK, ProgressOK, Observed
    <3>5. \A i \in DOMAIN o.records :
            /\ o.records[i].route = me.plan.routes[i] /\ o.audit[i][1] = me.plan.routes[i]
            /\ o.records[i].robots_allowed <=> o.audit[i][2] = "fetched"
            /\ o.records[i].evidence_ref # NoEvidenceRef <=> \E j \in DOMAIN me.fetches : me.fetches[j] = i
      BY <3>2, <3>3 DEF CrawlOK, RecordsOK, RecordOK
    <3> QED BY <3>2, <3>4, <3>5 DEF o, me
  <2> QED BY <2>1, <2>2, <2>3 DEF CrawlIsKept
<1> QED BY <1>1, CrawlInitOK, CrawlStep, OverdueInitOK, OverdueStep, PTL DEF DiscoverySpec

(***************************************************************************)
(* Lists.                                                                  *)
(***************************************************************************)
(* A list is a sequence of what it holds.                                 *)
IsList(s) == s \in Seq({s[i] : i \in DOMAIN s})

LEMMA ListAppend ==
  ASSUME NEW s, IsList(s), NEW e
  PROVE  /\ IsList(Append(s, e)) /\ Len(Append(s, e)) = Len(s) + 1
         /\ DOMAIN s = 1..Len(s) /\ DOMAIN Append(s, e) = 1..(Len(s) + 1) /\ Len(s) \in Nat
         /\ Append(s, e)[Len(s) + 1] = e
         /\ \A i \in 1..Len(s) : Append(s, e)[i] = s[i]
<1>1. PICK T : T = {s[i] : i \in DOMAIN s} \cup {e}
  OBVIOUS
<1>2. s \in Seq(T)
  BY <1>1 DEF IsList
<1>3. /\ Append(s, e) \in Seq(T) /\ Len(Append(s, e)) = Len(s) + 1
      /\ DOMAIN s = 1..Len(s) /\ DOMAIN Append(s, e) = 1..(Len(s) + 1) /\ Len(s) \in Nat
      /\ Append(s, e)[Len(s) + 1] = e
      /\ \A i \in 1..Len(s) : Append(s, e)[i] = s[i]
  BY <1>1, <1>2
<1>4. IsList(Append(s, e))
  <2>1. PICK u : u = Append(s, e)
    OBVIOUS
  <2>2. u \in Seq(T)
    BY <2>1, <1>3
  <2>3. u \in Seq({u[i] : i \in DOMAIN u})
    BY <2>2
  <2> QED BY <2>1, <2>3 DEF IsList
<1> QED BY <1>3, <1>4

(***************************************************************************)
(* The browser pool.                                                       *)
(***************************************************************************)
(* A run as such: it holds a session just while it renders and releases,   *)
(* and it works on while queries are left.                                 *)
Busy == {"acquire", "waiting", "late", "render", "release", "store"}
RunOK(r, x) ==
  /\ DOMAIN x = {"at", "holds", "results", "audit", "rendered"}
  /\ x.at \in Steps /\ x.holds \in SessionIds \cup {NoSession}
  /\ x.holds # NoSession <=> x.at \in {"render", "release"}
  /\ IsList(x.results) /\ IsList(x.audit) /\ Len(x.audit) = Len(x.results)
  /\ Len(x.results) <= Len(RunQueries[r])
  /\ x.at \in Busy => Len(x.results) < Len(RunQueries[r])
  /\ x.at = "start" => x.results = <<>>

(* What a run has captured, and under which key it was announced.          *)
CapturedOK(r, x, store) ==
  \A i \in DOMAIN x.results :
    LET a == HexDigest(x.audit[i])  o == x.results[i] IN
    /\ <<RunTenant[r], a>> \in store /\ o.record.artifact = a /\ o.event.artifact = a
    /\ o.event.idempotency_key = <<RunTenant[r], r, <<r, i - 1>>>>

RunsInv ==
  /\ DOMAIN run = Runs
  /\ \A r \in Runs : RunOK(r, run[r]) /\ CapturedOK(r, run[r], raw_store)

(* What is lent is what runs hold, each session one run.                   *)
LeaseInv ==
  /\ in_use = {run[r].holds : r \in Runs} \ {NoSession}
  /\ \A q, r \in Runs : run[q].holds = run[r].holds /\ run[r].holds # NoSession => q = r

(* The open sessions are the idle and the lent ones.                       *)
SessionsInv ==
  /\ session \in [SessionIds -> {"gone", "well", "sick", "closed"}]
  /\ idle \in Seq(SessionIds) /\ in_use \subseteq SessionIds /\ IsFiniteSet(in_use)
  /\ \A i, j \in DOMAIN idle : idle[i] = idle[j] => i = j
  /\ \A i \in DOMAIN idle : idle[i] \notin in_use
  /\ \A s \in SessionIds :
       session[s] \in {"well", "sick"} <=> s \in in_use \/ \E i \in DOMAIN idle : idle[i] = s

(* A closed pool still counts the sessions it closed while they were idle. *)
BooksInv ==
  /\ DOMAIN use_counts \subseteq SessionIds /\ \A s \in DOMAIN use_counts : use_counts[s] \in 0..MaxUses
  /\ recycled_count \in Nat /\ pool_closed \in BOOLEAN /\ total_created \in 0..MaxSize
  /\ ~pool_closed => total_created = Len(idle) + Cardinality(in_use)
  /\ pool_closed => idle = <<>> /\ Cardinality(in_use) <= total_created

PoolInv == RunsInv /\ LeaseInv /\ SessionsInv /\ BooksInv


LEMMA PoolInitIsGood == ObserverInit => PoolInv
<1> SUFFICES ASSUME ObserverInit PROVE PoolInv
  OBVIOUS
<1>1. /\ idle = <<>> /\ in_use = {} /\ DOMAIN use_counts = {} /\ total_created = 0 /\ recycled_count = 0
      /\ pool_closed = FALSE /\ session = [s \in SessionIds |-> "gone"]
  BY DEF ObserverInit
<1>2. \A r \in Runs : RunOK(r, run[r]) /\ CapturedOK(r, run[r], raw_store)
  <2> SUFFICES ASSUME NEW r \in Runs PROVE RunOK(r, run[r]) /\ CapturedOK(r, run[r], raw_store)
    OBVIOUS
  <2>1. run[r] = [at |-> "start", holds |-> NoSession, results |-> <<>>, audit |-> <<>>, rendered |-> FALSE]
    BY DEF ObserverInit
  <2>2. Len(RunQueries[r]) \in Nat
    BY PoolAssumption
  <2>3. IsList(<<>>) /\ Len(<<>>) = 0 /\ DOMAIN <<>> = {}
    BY DEF IsList
  <2>4. CapturedOK(r, run[r], raw_store)
    BY <2>1, <2>3 DEF CapturedOK
  <2> QED BY <2>1, <2>2, <2>3, <2>4 DEF RunOK, Steps, Busy
<1>3. RunsInv
  BY <1>2 DEF RunsInv, ObserverInit
<1>4. LeaseInv
  BY <1>1 DEF LeaseInv, ObserverInit
<1>5. SessionsInv
  BY <1>1, FS_EmptySet DEF SessionsInv
<1>6. BooksInv
  <2>1. Len(idle) = 0 /\ Cardinality(in_use) = 0 /\ 0 \in 0..MaxSize
    BY <1>1, FS_EmptySet, PoolAssumption
  <2>2. pool_closed \in BOOLEAN /\ ~pool_closed
    BY <1>1
  <2>3. recycled_count \in Nat /\ total_created \in 0..MaxSize /\ total_created = Len(idle) + Cardinality(in_use)
    BY <1>1, <2>1
  <2> QED BY <1>1, <2>2, <2>3 DEF BooksInv
<1> QED BY <1>3, <1>4, <1>5, <1>6 DEF PoolInv

(* A run goes on and leaves the pool alone.                                *)
LEMMA RunMoves ==
  ASSUME PoolInv, NEW r \in Runs, NEW x, run' = [run EXCEPT ![r] = x], RunOK(r, x),
         x.holds = run[r].holds, CapturedOK(r, x, raw_store'), raw_store \subseteq raw_store',
         UNCHANGED <<poolVars, session>>
  PROVE  PoolInv'
<1>1. DOMAIN run' = Runs /\ run'[r] = x /\ \A q \in Runs \ {r} : run'[q] = run[q]
  BY DEF PoolInv, RunsInv
<1>2. \A q \in Runs : run'[q].holds = run[q].holds
  BY <1>1
<1>3. LeaseInv'
  BY <1>2 DEF PoolInv, LeaseInv, poolVars
<1>4. \A q \in Runs : RunOK(q, run'[q]) /\ CapturedOK(q, run'[q], raw_store')
  <2> SUFFICES ASSUME NEW q \in Runs, q # r PROVE RunOK(q, run'[q]) /\ CapturedOK(q, run'[q], raw_store')
    BY <1>1
  <2>1. run'[q] = run[q] /\ RunOK(q, run[q]) /\ CapturedOK(q, run[q], raw_store)
    BY <1>1 DEF PoolInv, RunsInv
  <2>2. CapturedOK(q, run[q], raw_store')
    BY <2>1 DEF CapturedOK
  <2> QED BY <2>1, <2>2
<1>5. RunsInv'
  <2>1. (\A q \in Runs : RunOK(q, run[q]) /\ CapturedOK(q, run[q], raw_store))'
    BY <1>4 DEF RunOK, CapturedOK
  <2> QED BY <1>1, <2>1 DEF RunsInv
<1>6. SessionsInv' /\ BooksInv'
  BY DEF PoolInv, SessionsInv, BooksInv, poolVars
<1> QED BY <1>3, <1>5, <1>6 DEF PoolInv

(* A run that looks for a session goes on without one.                     *)
LEMMA MoveStep ==
  ASSUME PoolInv, NEW r \in Runs, NEW at, Move(r, at), run[r].at \notin {"render", "release"},
         at \in Steps \ {"start", "render", "release"}, at \in Busy => Len(run[r].results) < Len(RunQueries[r]),
         raw_store \subseteq raw_store', UNCHANGED <<poolVars, session>>
  PROVE  PoolInv'
<1>1. PICK y : y = run[r]
  OBVIOUS
<1>2. PICK x : x = [y EXCEPT !.at = at]
  OBVIOUS
<1>3. RunOK(r, y) /\ CapturedOK(r, y, raw_store)
  BY <1>1 DEF PoolInv, RunsInv
<1>4. run' = [run EXCEPT ![r] = x]
  BY <1>1, <1>2 DEF Move
<1>5. /\ DOMAIN x = DOMAIN y /\ x.at = at /\ x.holds = y.holds /\ x.results = y.results /\ x.audit = y.audit
  BY <1>2, <1>3 DEF RunOK
<1>6. RunOK(r, x)
  BY <1>1, <1>3, <1>5 DEF RunOK
<1>7. CapturedOK(r, x, raw_store')
  BY <1>3, <1>5 DEF CapturedOK
<1> QED BY <1>1, <1>4, <1>5, <1>6, <1>7, RunMoves

LEMMA WaitingSteps ==
  ASSUME PoolInv, NEW r \in Runs,
         StartRun(r) \/ TurnedAway(r) \/ WaitOrGiveUp(r) \/ DeadlinePasses(r)
  PROVE  PoolInv'
<1>1. RunOK(r, run[r]) /\ RunQueries[r] \in Seq({RunQueries[r][i] : i \in DOMAIN RunQueries[r]})
  BY PoolAssumption DEF PoolInv, RunsInv
<1>2. CASE StartRun(r)
  <2>1. PICK at : at = IF ~GuardEngineId(RunEngine[r]) THEN "raised"
                       ELSE IF RunQueries[r] = <<>> THEN "succeeded" ELSE "acquire"
    OBVIOUS
  <2>2. Move(r, at) /\ run[r].at = "start" /\ UNCHANGED <<poolVars, session, raw_store>>
    BY <1>2, <2>1 DEF StartRun
  <2>3. RunQueries[r] # <<>> => Len(run[r].results) < Len(RunQueries[r])
    BY <1>1, <2>2 DEF RunOK
  <2>4. at \in {"raised", "succeeded", "acquire"} /\ (at \in Busy => Len(run[r].results) < Len(RunQueries[r]))
    BY <2>1, <2>3 DEF Busy
  <2>5. at \in Steps \ {"start", "render", "release"}
    BY <2>4 DEF Steps, Ended
  <2> QED BY <2>2, <2>4, <2>5, MoveStep
<1>3. ASSUME NEW at \in {"turned_away", "exhausted", "waiting", "late"}, Move(r, at),
             run[r].at \in {"acquire", "waiting", "late"}, UNCHANGED <<poolVars, session, raw_store>>
      PROVE  PoolInv'
  <2>1. Len(run[r].results) < Len(RunQueries[r])
    BY <1>1, <1>3 DEF RunOK, Busy
  <2>2. at \in Steps \ {"start", "render", "release"}
    BY DEF Steps, Ended
  <2> QED BY <1>3, <2>1, <2>2, MoveStep
<1>4. CASE TurnedAway(r)
  BY <1>3, <1>4 DEF TurnedAway, Turn
<1>5. CASE WaitOrGiveUp(r)
  BY <1>3, <1>5 DEF WaitOrGiveUp, Turn
<1>6. CASE DeadlinePasses(r)
  BY <1>3, <1>6 DEF DeadlinePasses
<1> QED BY <1>2, <1>4, <1>5, <1>6

LEMMA RenderStep ==
  ASSUME PoolInv, NEW r \in Runs, RenderSearchResult(r)
  PROVE  PoolInv'
<1>1. PICK y : y = run[r]
  OBVIOUS
<1>2. PICK ok : ok = (session[run[r].holds] = "well" /\ Query(r) \notin Unregistered)
  OBVIOUS
<1>3. PICK x : x = [y EXCEPT !.at = "release", !.rendered = ok]
  OBVIOUS
<1>4. RunOK(r, y) /\ CapturedOK(r, y, raw_store) /\ y.at = "render"
  BY <1>1 DEF PoolInv, RunsInv, RenderSearchResult
<1>5. run' = [run EXCEPT ![r] = x] /\ UNCHANGED <<poolVars, session, raw_store>>
  BY <1>1, <1>2, <1>3 DEF RenderSearchResult
<1>6. /\ DOMAIN x = DOMAIN y /\ x.at = "release" /\ x.holds = y.holds /\ x.results = y.results /\ x.audit = y.audit
  BY <1>3, <1>4 DEF RunOK
<1>7. RunOK(r, x)
  BY <1>4, <1>6 DEF RunOK, Steps, Busy
<1>8. CapturedOK(r, x, raw_store')
  BY <1>4, <1>5, <1>6 DEF CapturedOK
<1> QED BY <1>1, <1>5, <1>6, <1>7, <1>8, RunMoves

LEMMA StoreStep ==
  ASSUME PoolInv, NEW r \in Runs, StoreObservation(r)
  PROVE  PoolInv'
<1>1. PICK y : y = run[r]
  OBVIOUS
<1>2. PICK q : q = Query(r)
  OBVIOUS
<1>3. /\ RunOK(r, y) /\ CapturedOK(r, y, raw_store) /\ y.at = "store" /\ UNCHANGED <<poolVars, session>>
      /\ raw_store' = raw_store \cup {<<RunTenant[r], HexDigest(q)>>}
  BY <1>1, <1>2 DEF PoolInv, RunsInv, StoreObservation, PutRawArtifact
<1>4. CASE Move(r, "raised")
  <2>1. "raised" \in Steps \ {"start", "render", "release"} /\ "raised" \notin Busy
    BY DEF Steps, Ended, Busy
  <2> QED BY <1>1, <1>3, <1>4, <2>1, MoveStep
<1>5. CASE ~Move(r, "raised")
  <2>1. PICK o : o = [record |-> PlatformObservationRecord(r), event |-> ObservationCapturedEnvelope(r)]
    OBVIOUS
  <2>2. PICK at : at = IF Len(run[r].results) + 1 = Len(RunQueries[r]) THEN "succeeded" ELSE "acquire"
    OBVIOUS
  <2>3. PICK x : x = [y EXCEPT !.results = Append(y.results, o), !.audit = Append(y.audit, q), !.at = at]
    OBVIOUS
  <2>4. run' = [run EXCEPT ![r] = x]
    BY <1>1, <1>2, <1>5, <2>1, <2>2, <2>3 DEF StoreObservation
  <2>5. /\ DOMAIN x = DOMAIN y /\ x.at = at /\ x.holds = y.holds
        /\ x.results = Append(y.results, o) /\ x.audit = Append(y.audit, q)
    BY <1>3, <2>3 DEF RunOK
  <2>6. /\ IsList(y.results) /\ IsList(y.audit) /\ Len(y.audit) = Len(y.results)
        /\ Len(y.results) < Len(RunQueries[r]) /\ Len(RunQueries[r]) \in Nat
    BY <1>3, PoolAssumption DEF RunOK, Busy
  <2>7. /\ IsList(x.results) /\ Len(x.results) = Len(y.results) + 1 /\ Len(y.results) \in Nat
        /\ DOMAIN x.results = 1..(Len(y.results) + 1) /\ DOMAIN y.results = 1..Len(y.results)
        /\ x.results[Len(y.results) + 1] = o /\ \A i \in 1..Len(y.results) : x.results[i] = y.results[i]
    BY <2>5, <2>6, ListAppend
  <2>8. /\ IsList(x.audit) /\ Len(x.audit) = Len(y.audit) + 1
        /\ x.audit[Len(y.audit) + 1] = q /\ \A i \in 1..Len(y.audit) : x.audit[i] = y.audit[i]
    BY <2>5, <2>6, ListAppend
  <2>9. RunOK(r, x)
    <3>1. at \in {"succeeded", "acquire"} /\ (at \in Busy => Len(x.results) < Len(RunQueries[r]))
      BY <1>1, <2>2, <2>6, <2>7 DEF Busy
    <3>2. at \in Steps
      BY <3>1 DEF Steps, Ended
    <3>3. DOMAIN x = {"at", "holds", "results", "audit", "rendered"}
      BY <1>3, <2>5 DEF RunOK
    <3>4. x.holds = NoSession
      BY <1>3, <2>5 DEF RunOK
    <3> QED BY <2>5, <2>6, <2>7, <2>8, <3>1, <3>2, <3>3, <3>4 DEF RunOK
  <2>10. CapturedOK(r, x, raw_store')
    <3> SUFFICES ASSUME NEW i \in 1..(Len(y.results) + 1)
                 PROVE  /\ <<RunTenant[r], HexDigest(x.audit[i])>> \in raw_store'
                        /\ x.results[i].record.artifact = HexDigest(x.audit[i])
                        /\ x.results[i].event.artifact = HexDigest(x.audit[i])
                        /\ x.results[i].event.idempotency_key = <<RunTenant[r], r, <<r, i - 1>>>>
      BY <2>7 DEF CapturedOK
    <3>1. CASE i \in 1..Len(y.results)
      <4>1. x.results[i] = y.results[i] /\ x.audit[i] = y.audit[i] /\ i \in DOMAIN y.results
        BY <3>1, <2>6, <2>7, <2>8
      <4> QED BY <4>1, <1>3 DEF CapturedOK
    <3>2. CASE i = Len(y.results) + 1
      <4>1. x.results[i] = o /\ x.audit[i] = q
        BY <3>2, <2>6, <2>7, <2>8
      <4>2. /\ o.record.artifact = HexDigest(q) /\ o.event.artifact = HexDigest(q)
            /\ o.event.idempotency_key = <<RunTenant[r], r, <<r, Len(y.results)>>>>
        BY <1>1, <1>2, <2>1 DEF PlatformObservationRecord, ObservationCapturedEnvelope, ObservationIdOf
      <4>3. i - 1 = Len(y.results)
        BY <3>2, <2>7
      <4> QED BY <4>1, <4>2, <4>3, <1>3
    <3> QED BY <3>1, <3>2, <2>7
  <2> QED BY <1>1, <1>3, <2>4, <2>5, <2>9, <2>10, RunMoves
<1> QED BY <1>4, <1>5

LEMMA FrontFacts ==
  ASSUME NEW S, NEW s \in Seq(S), s # <<>>
  PROVE  LET f == SubSeq(s, 1, Len(s) - 1) IN
         /\ f \in Seq(S) /\ Len(f) = Len(s) - 1 /\ Len(s) \in Nat \ {0} /\ s[Len(s)] \in S
         /\ DOMAIN f = 1..(Len(s) - 1) /\ DOMAIN s = 1..Len(s)
         /\ \A i \in 1..(Len(s) - 1) : f[i] = s[i]
<1>1. Len(s) \in Nat \ {0} /\ DOMAIN s = 1..Len(s) /\ s[Len(s)] \in S
  OBVIOUS
<1> QED BY <1>1

(* A run takes a session that nobody holds.                                *)
LEMMA SessionTaken ==
  ASSUME PoolInv, NEW r \in Runs, Turn(r), NEW s \in SessionIds, s \notin in_use,
         run' = [run EXCEPT ![r].at = "render", ![r].holds = s], in_use' = in_use \cup {s},
         UNCHANGED raw_store
  PROVE  /\ RunsInv' /\ LeaseInv' /\ in_use' \subseteq SessionIds /\ IsFiniteSet(in_use')
         /\ Cardinality(in_use) \in Nat /\ Cardinality(in_use') = Cardinality(in_use) + 1
<1>1. PICK y : y = run[r]
  OBVIOUS
<1>2. PICK x : x = [y EXCEPT !.at = "render", !.holds = s]
  OBVIOUS
<1>3. RunOK(r, y) /\ CapturedOK(r, y, raw_store) /\ y.at \in {"acquire", "late"} /\ y.holds = NoSession
  BY <1>1 DEF PoolInv, RunsInv, Turn, RunOK
<1>4. run' = [run EXCEPT ![r] = x]
  BY <1>1, <1>2
<1>5. /\ DOMAIN x = DOMAIN y /\ x.at = "render" /\ x.holds = s /\ x.results = y.results /\ x.audit = y.audit
  BY <1>2, <1>3 DEF RunOK
<1>6. DOMAIN run' = Runs /\ run'[r] = x /\ \A q \in Runs \ {r} : run'[q] = run[q]
  BY <1>4 DEF PoolInv, RunsInv
<1>7. s # NoSession
  BY PoolAssumption
<1>8. RunOK(r, x) /\ CapturedOK(r, x, raw_store)
  <2>1. RunOK(r, x)
    BY <1>3, <1>5, <1>7 DEF RunOK, Steps, Busy
  <2> QED BY <2>1, <1>3, <1>5 DEF CapturedOK
<1>9. RunsInv'
  <2>1. \A q \in Runs : RunOK(q, run'[q]) /\ CapturedOK(q, run'[q], raw_store)
    BY <1>6, <1>8 DEF PoolInv, RunsInv
  <2>2. (\A q \in Runs : RunOK(q, run[q]) /\ CapturedOK(q, run[q], raw_store))'
    <3>1. raw_store' = raw_store
      OBVIOUS
    <3> QED BY <2>1, <3>1, ZenonT(60) DEF RunOK, CapturedOK
  <2> QED BY <1>6, <2>2 DEF RunsInv
<1>10. LeaseInv'
  <2>1. in_use = {run[q].holds : q \in Runs} \ {NoSession}
    BY DEF PoolInv, LeaseInv
  <2>2. \A q \in Runs : run[q].holds # s
    BY <2>1, <1>7
  <2>3. in_use' = {run'[q].holds : q \in Runs} \ {NoSession}
    <3>1. ASSUME NEW h \in in_use' PROVE h \in {run'[q].holds : q \in Runs} \ {NoSession}
      BY <3>1, <2>1, <1>1, <1>3, <1>5, <1>6, <1>7
    <3>2. ASSUME NEW q \in Runs, run'[q].holds # NoSession PROVE run'[q].holds \in in_use'
      BY <3>2, <2>1, <1>5, <1>6
    <3> QED BY <3>1, <3>2
  <2>4. \A p, q \in Runs : run'[p].holds = run'[q].holds /\ run'[q].holds # NoSession => p = q
    <3> SUFFICES ASSUME NEW p \in Runs, NEW q \in Runs, run'[p].holds = run'[q].holds,
                        run'[q].holds # NoSession
                 PROVE  p = q
      OBVIOUS
    <3>1. CASE p = r
      BY <3>1, <2>2, <1>5, <1>6
    <3>2. CASE q = r
      BY <3>2, <2>2, <1>5, <1>6
    <3>3. CASE p # r /\ q # r
      BY <3>3, <1>6 DEF PoolInv, LeaseInv
    <3> QED BY <3>1, <3>2, <3>3
  <2> QED BY <2>3, <2>4 DEF LeaseInv
<1>11. /\ in_use' \subseteq SessionIds /\ IsFiniteSet(in_use')
       /\ Cardinality(in_use) \in Nat /\ Cardinality(in_use') = Cardinality(in_use) + 1
  <2>1. IsFiniteSet(in_use) /\ in_use \subseteq SessionIds
    BY DEF PoolInv, SessionsInv
  <2> QED BY <2>1, FS_AddElement, FS_CardinalityType
<1> QED BY <1>9, <1>10, <1>11

LEMMA TakeIdleStep ==
  ASSUME PoolInv, NEW r \in Runs, TakeIdle(r)
  PROVE  PoolInv'
<1>1. PICK s : s = idle[Len(idle)]
  OBVIOUS
<1>2. /\ idle \in Seq(SessionIds) /\ idle # <<>> /\ Turn(r) /\ ~pool_closed
      /\ idle' = SubSeq(idle, 1, Len(idle) - 1) /\ in_use' = in_use \cup {s}
      /\ run' = [run EXCEPT ![r].at = "render", ![r].holds = s]
      /\ UNCHANGED <<use_counts, total_created, recycled_count, pool_closed, session, raw_store>>
  BY <1>1 DEF TakeIdle, PoolInv, SessionsInv
<1>3. /\ idle' \in Seq(SessionIds) /\ Len(idle') = Len(idle) - 1 /\ Len(idle) \in Nat \ {0}
      /\ s \in SessionIds /\ DOMAIN idle' = 1..(Len(idle) - 1) /\ DOMAIN idle = 1..Len(idle)
      /\ \A i \in 1..(Len(idle) - 1) : idle'[i] = idle[i]
  BY <1>1, <1>2, FrontFacts
<1>4. s \notin in_use
  BY <1>1, <1>3 DEF PoolInv, SessionsInv
<1>5. /\ RunsInv' /\ LeaseInv' /\ in_use' \subseteq SessionIds /\ IsFiniteSet(in_use')
      /\ Cardinality(in_use) \in Nat /\ Cardinality(in_use') = Cardinality(in_use) + 1
  BY <1>2, <1>3, <1>4, SessionTaken
<1>6. SessionsInv'
  <2>1. /\ \A i, j \in DOMAIN idle' : idle'[i] = idle'[j] => i = j
        /\ \A i \in DOMAIN idle' : idle'[i] # s
    BY <1>1, <1>3 DEF PoolInv, SessionsInv
  <2>2. \A i \in DOMAIN idle' : idle'[i] \notin in_use'
    BY <1>2, <1>3, <2>1 DEF PoolInv, SessionsInv
  <2>3. \A t \in SessionIds :
          t \in in_use' \/ (\E i \in DOMAIN idle' : idle'[i] = t)
            <=> t \in in_use \/ \E i \in DOMAIN idle : idle[i] = t
    <3> SUFFICES ASSUME NEW t \in SessionIds, t # s
                 PROVE  (\E i \in DOMAIN idle' : idle'[i] = t) <=> \E i \in DOMAIN idle : idle[i] = t
      BY <1>1, <1>2, <1>3
    <3>1. ASSUME NEW i \in DOMAIN idle, idle[i] = t PROVE \E j \in DOMAIN idle' : idle'[j] = t
      <4>1. i \in 1..(Len(idle) - 1)
        BY <3>1, <1>1, <1>3
      <4> QED BY <4>1, <3>1, <1>3
    <3>2. ASSUME NEW i \in DOMAIN idle', idle'[i] = t PROVE \E j \in DOMAIN idle : idle[j] = t
      BY <3>2, <1>3
    <3> QED BY <3>1, <3>2
  <2> QED BY <1>2, <1>3, <1>5, <2>1, <2>2, <2>3 DEF PoolInv, SessionsInv
<1>7. BooksInv'
  BY <1>2, <1>3, <1>5 DEF PoolInv, BooksInv
<1> QED BY <1>5, <1>6, <1>7 DEF PoolInv

LEMMA CreateStep ==
  ASSUME PoolInv, NEW r \in Runs, CreateSession(r)
  PROVE  PoolInv'
<1>1. /\ Turn(r) /\ ~pool_closed /\ idle = <<>> /\ total_created < MaxSize
      /\ UNCHANGED <<idle, recycled_count, pool_closed, raw_store>>
  BY DEF CreateSession
<1>2. CASE Move(r, "raised") /\ UNCHANGED <<session, total_created, use_counts, in_use>>
  <2>1. "raised" \in Steps \ {"start", "render", "release"} /\ "raised" \notin Busy
    BY DEF Steps, Ended, Busy
  <2> QED BY <1>1, <1>2, <2>1, MoveStep DEF Turn, poolVars
<1>3. ASSUME NEW s \in SessionIds, NewSession(s), session' = [session EXCEPT ![s] = "well"],
             total_created' = total_created + 1, use_counts' = Put(use_counts, s, 0),
             in_use' = in_use \cup {s}, run' = [run EXCEPT ![r].at = "render", ![r].holds = s]
      PROVE  PoolInv'
  <2>1. s \notin in_use
    BY <1>3 DEF PoolInv, LeaseInv, NewSession
  <2>2. /\ RunsInv' /\ LeaseInv' /\ in_use' \subseteq SessionIds /\ IsFiniteSet(in_use')
        /\ Cardinality(in_use) \in Nat /\ Cardinality(in_use') = Cardinality(in_use) + 1
    BY <1>1, <1>3, <2>1, SessionTaken
  <2>3. DOMAIN idle = {} /\ Len(idle) = 0 /\ idle' = idle
    BY <1>1
  <2>4. SessionsInv'
    <3>1. session' \in [SessionIds -> {"gone", "well", "sick", "closed"}]
      BY <1>3 DEF PoolInv, SessionsInv
    <3>2. \A t \in SessionIds : session'[t] \in {"well", "sick"} <=> t \in in_use'
      BY <1>3, <2>3 DEF PoolInv, SessionsInv
    <3> QED BY <2>2, <2>3, <3>1, <3>2 DEF PoolInv, SessionsInv
  <2>5. BooksInv'
    <3>1. DOMAIN use_counts' \subseteq SessionIds /\ \A t \in DOMAIN use_counts' : use_counts'[t] \in 0..MaxUses
      BY <1>3, PoolAssumption DEF PoolInv, BooksInv, Put
    <3>2. total_created' \in 0..MaxSize /\ total_created' = Len(idle') + Cardinality(in_use')
      BY <1>1, <1>3, <2>2, <2>3, PoolAssumption DEF PoolInv, BooksInv
    <3> QED BY <1>1, <3>1, <3>2 DEF PoolInv, BooksInv
  <2> QED BY <2>2, <2>4, <2>5 DEF PoolInv
<1> QED BY <1>2, <1>3 DEF CreateSession

(* Waiting runs are woken up; their sessions and captures stay.            *)
LEMMA AwakeFacts ==
  ASSUME NEW rs, DOMAIN rs = Runs, \A q \in Runs : RunOK(q, rs[q]) /\ CapturedOK(q, rs[q], raw_store)
  PROVE  /\ DOMAIN Awake(rs) = Runs
         /\ \A q \in Runs : /\ RunOK(q, Awake(rs)[q]) /\ CapturedOK(q, Awake(rs)[q], raw_store)
                            /\ Awake(rs)[q].holds = rs[q].holds
                            /\ Awake(rs)[q].at = "exhausted" <=> rs[q].at = "exhausted"
<1>1. DOMAIN Awake(rs) = Runs
  BY DEF Awake
<1> SUFFICES ASSUME NEW q \in Runs
             PROVE  /\ RunOK(q, Awake(rs)[q]) /\ CapturedOK(q, Awake(rs)[q], raw_store)
                    /\ Awake(rs)[q].holds = rs[q].holds
                    /\ Awake(rs)[q].at = "exhausted" <=> rs[q].at = "exhausted"
  BY <1>1
<1>2. PICK y : y = rs[q]
  OBVIOUS
<1>3. PICK x : x = Awake(rs)[q]
  OBVIOUS
<1>4. RunOK(q, y) /\ CapturedOK(q, y, raw_store)
  BY <1>2
<1>5. CASE y.at = "waiting"
  <2>1. x = [y EXCEPT !.at = "acquire"]
    BY <1>2, <1>3, <1>5 DEF Awake
  <2>2. DOMAIN x = DOMAIN y /\ x.at = "acquire" /\ x.holds = y.holds /\ x.results = y.results /\ x.audit = y.audit
    BY <1>4, <2>1 DEF RunOK
  <2>3. RunOK(q, x)
    BY <1>4, <1>5, <2>2 DEF RunOK, Steps, Busy
  <2>4. CapturedOK(q, x, raw_store)
    BY <1>4, <2>2 DEF CapturedOK
  <2> QED BY <1>2, <1>3, <1>5, <2>2, <2>3, <2>4
<1>6. CASE y.at # "waiting"
  BY <1>2, <1>3, <1>4, <1>6 DEF Awake
<1> QED BY <1>5, <1>6

LEMMA ReleaseStep ==
  ASSUME PoolInv, NEW r \in Runs, Release(r)
  PROVE  PoolInv' /\ \A q \in Runs : run'[q].at = "exhausted" => run[q].at = "exhausted"
<1>1. PICK s : s = run[r].holds
  OBVIOUS
<1>2. PICK y : y = run[r]
  OBVIOUS
<1>3. PICK next : next = IF run[r].rendered THEN "store" ELSE "failed"
  OBVIOUS
<1>4. PICK x : x = [y EXCEPT !.at = next, !.holds = NoSession]
  OBVIOUS
<1>5. PICK rs : rs = [run EXCEPT ![r] = x]
  OBVIOUS
<1>6. RunOK(r, y) /\ CapturedOK(r, y, raw_store) /\ y.at = "release" /\ raw_store' = raw_store
  BY <1>2 DEF PoolInv, RunsInv, Release
<1>7. s \in in_use /\ s \in SessionIds /\ s # NoSession
  BY <1>1, <1>2, <1>6, PoolAssumption DEF PoolInv, LeaseInv, RunOK
<1>8. PICK n : n = (IF s \in DOMAIN use_counts THEN use_counts[s] ELSE 0) + 1
  OBVIOUS
<1>9. PICK needs : needs = (~IsHealthy(s) \/ n >= MaxUses)
  OBVIOUS
<1>10. /\ in_use' = in_use \ {s} /\ run' = Awake(rs) /\ pool_closed' = pool_closed
       /\ \/ /\ session' = [session EXCEPT ![s] = "closed"]
             /\ use_counts' = Without(use_counts, s)
             /\ total_created' = total_created - 1
             /\ recycled_count' \in {recycled_count, recycled_count + 1}
             /\ idle' = idle
          \/ /\ ~pool_closed /\ n < MaxUses
             /\ use_counts' = Put(use_counts, s, n) /\ idle' = Append(idle, s)
             /\ UNCHANGED <<session, total_created, recycled_count>>
  <2>1. [run EXCEPT ![r].at = next, ![r].holds = NoSession] = rs
    BY <1>2, <1>4, <1>5
  <2>2. n \in Nat /\ recycled_count \in Nat /\ MaxUses \in Nat
    BY <1>8, PoolAssumption DEF PoolInv, BooksInv
  <2>3. /\ in_use' = in_use \ {s} /\ run' = Awake(rs) /\ pool_closed' = pool_closed
    BY <1>1, <1>3, <1>7, <2>1 DEF Release
  <2>4. CASE needs \/ pool_closed
    BY <1>1, <1>7, <1>8, <1>9, <2>2, <2>3, <2>4 DEF Release
  <2>5. CASE ~(needs \/ pool_closed)
    BY <1>1, <1>7, <1>8, <1>9, <2>2, <2>3, <2>5 DEF Release
  <2> QED BY <2>4, <2>5
<1>11. /\ DOMAIN x = DOMAIN y /\ x.at = next /\ x.holds = NoSession /\ x.results = y.results /\ x.audit = y.audit
       /\ next \in {"store", "failed"}
  BY <1>3, <1>4, <1>6 DEF RunOK
<1>12. RunOK(r, x) /\ CapturedOK(r, x, raw_store)
  <2>1. RunOK(r, x)
    BY <1>6, <1>11 DEF RunOK, Steps, Ended, Busy
  <2> QED BY <2>1, <1>6, <1>11 DEF CapturedOK
<1>13. /\ DOMAIN rs = Runs /\ rs[r] = x /\ \A q \in Runs \ {r} : rs[q] = run[q]
       /\ \A q \in Runs : RunOK(q, rs[q]) /\ CapturedOK(q, rs[q], raw_store)
  BY <1>5, <1>12 DEF PoolInv, RunsInv
<1>14. /\ DOMAIN run' = Runs
       /\ \A q \in Runs : /\ RunOK(q, run'[q]) /\ CapturedOK(q, run'[q], raw_store)
                          /\ run'[q].holds = rs[q].holds
                          /\ run'[q].at = "exhausted" <=> rs[q].at = "exhausted"
  BY <1>10, <1>13, AwakeFacts
<1>15. RunsInv'
  <2>1. (\A q \in Runs : RunOK(q, run[q]) /\ CapturedOK(q, run[q], raw_store))'
    BY <1>6, <1>14 DEF RunOK, CapturedOK
  <2> QED BY <1>14, <2>1 DEF RunsInv
<1>16. LeaseInv'
  <2>1. /\ in_use = {run[q].holds : q \in Runs} \ {NoSession}
        /\ \A p, q \in Runs : run[p].holds = run[q].holds /\ run[q].holds # NoSession => p = q
    BY DEF PoolInv, LeaseInv
  <2>2. \A q \in Runs : run'[q].holds = IF q = r THEN NoSession ELSE run[q].holds
    BY <1>11, <1>13, <1>14
  <2>3. in_use' = {run'[q].holds : q \in Runs} \ {NoSession}
    <3>1. ASSUME NEW h \in in_use' PROVE h \in {run'[q].holds : q \in Runs} \ {NoSession}
      <4>1. h \in in_use /\ h # s
        BY <1>10
      <4>2. PICK q \in Runs : h = run[q].holds /\ h # NoSession
        BY <4>1, <2>1
      <4> QED BY <4>1, <4>2, <2>2, <1>1
    <3>2. ASSUME NEW q \in Runs, run'[q].holds # NoSession PROVE run'[q].holds \in in_use'
      <4>1. q # r /\ run'[q].holds = run[q].holds
        BY <3>2, <2>2
      <4>2. run[q].holds # s
        BY <4>1, <3>2, <2>1, <1>1
      <4> QED BY <4>1, <4>2, <3>2, <2>1, <1>10
    <3> QED BY <3>1, <3>2
  <2>4. \A p, q \in Runs : run'[p].holds = run'[q].holds /\ run'[q].holds # NoSession => p = q
    BY <2>1, <2>2
  <2> QED BY <2>3, <2>4 DEF LeaseInv
<1>17. /\ in_use' \subseteq SessionIds /\ IsFiniteSet(in_use')
       /\ Cardinality(in_use) \in Nat \ {0} /\ Cardinality(in_use') = Cardinality(in_use) - 1
  <2>1. IsFiniteSet(in_use) /\ in_use \subseteq SessionIds
    BY DEF PoolInv, SessionsInv
  <2>2. Cardinality(in_use) \in Nat /\ Cardinality(in_use) # 0
    BY <2>1, <1>7, FS_CardinalityType, FS_EmptySet
  <2> QED BY <2>1, <2>2, <1>7, <1>10, FS_RemoveElement
<1>18. /\ idle \in Seq(SessionIds) /\ Len(idle) \in Nat /\ DOMAIN idle = 1..Len(idle)
       /\ \A i \in DOMAIN idle : idle[i] # s
  BY <1>7 DEF PoolInv, SessionsInv
<1>19. CASE idle' = idle
  <2>1. session' = [session EXCEPT ![s] = "closed"] /\ use_counts' = Without(use_counts, s)
        /\ total_created' = total_created - 1 /\ recycled_count' \in {recycled_count, recycled_count + 1}
    <3>1. idle # Append(idle, s)
      <4>1. PICK longer : longer = Append(idle, s)
        OBVIOUS
      <4>2. Len(longer) = Len(idle) + 1
        BY <1>18, <1>7, <4>1
      <4>3. longer # idle
        BY <1>18, <4>2
      <4> QED BY <4>1, <4>3
    <3> QED BY <3>1, <1>10, <1>19
  <2>2. SessionsInv'
    <3>1. session' \in [SessionIds -> {"gone", "well", "sick", "closed"}]
      BY <2>1 DEF PoolInv, SessionsInv
    <3>2. \A t \in SessionIds :
            session'[t] \in {"well", "sick"} <=> t \in in_use' \/ \E i \in DOMAIN idle : idle[i] = t
      BY <1>10, <1>18, <2>1 DEF PoolInv, SessionsInv
    <3> QED BY <1>10, <1>17, <1>19, <3>1, <3>2 DEF PoolInv, SessionsInv
  <2>3. BooksInv'
    <3>1. DOMAIN use_counts' \subseteq SessionIds /\ \A t \in DOMAIN use_counts' : use_counts'[t] \in 0..MaxUses
      BY <2>1 DEF PoolInv, BooksInv, Without
    <3>2. /\ pool_closed' \in BOOLEAN /\ recycled_count' \in Nat /\ total_created' \in 0..MaxSize
          /\ ~pool_closed => total_created' = Len(idle) + Cardinality(in_use')
          /\ pool_closed => idle = <<>> /\ Cardinality(in_use') <= total_created'
      <4>1. PICK k \in Nat \ {0} : k = Cardinality(in_use) /\ Cardinality(in_use') = k - 1
        BY <1>17
      <4>2. PICK m \in Nat : m = Len(idle)
        BY <1>18
      <4>3. /\ recycled_count \in Nat /\ total_created \in 0..MaxSize /\ MaxSize \in Nat
            /\ ~pool_closed => total_created = m + k
            /\ pool_closed => idle = <<>> /\ k <= total_created
        BY <4>1, <4>2, PoolAssumption DEF PoolInv, BooksInv
      <4>4. pool_closed' \in BOOLEAN
        BY <1>10 DEF PoolInv, BooksInv
      <4>5. total_created >= k
        <5>1. CASE pool_closed
          BY <5>1, <4>3
        <5>2. CASE ~pool_closed
          BY <5>2, <4>3
        <5> QED BY <5>1, <5>2
      <4>6. recycled_count' \in Nat /\ total_created' \in 0..MaxSize
        BY <2>1, <4>3, <4>5
      <4>7. ~pool_closed => total_created' = m + (k - 1)
        BY <2>1, <4>3
      <4>8. pool_closed => idle = <<>> /\ k - 1 <= total_created'
        BY <2>1, <4>3
      <4> QED BY <4>1, <4>2, <4>4, <4>6, <4>7, <4>8
    <3> QED BY <1>10, <1>19, <3>1, <3>2 DEF BooksInv
  <2> QED BY <1>11, <1>13, <1>14, <1>15, <1>16, <2>2, <2>3 DEF PoolInv
<1>20. CASE idle' # idle
  <2>1. /\ ~pool_closed /\ n < MaxUses /\ use_counts' = Put(use_counts, s, n) /\ idle' = Append(idle, s)
        /\ UNCHANGED <<session, total_created, recycled_count>>
    BY <1>10, <1>20
  <2>2. /\ idle' \in Seq(SessionIds) /\ Len(idle') = Len(idle) + 1 /\ DOMAIN idle' = 1..(Len(idle) + 1)
        /\ idle'[Len(idle) + 1] = s /\ \A i \in 1..Len(idle) : idle'[i] = idle[i]
    BY <1>7, <1>18, <2>1
  <2>3. SessionsInv'
    <3>1. \A i, j \in DOMAIN idle' : idle'[i] = idle'[j] => i = j
      <4> SUFFICES ASSUME NEW i \in 1..(Len(idle) + 1), NEW j \in 1..(Len(idle) + 1), idle'[i] = idle'[j]
                   PROVE  i = j
        BY <2>2
      <4>1. CASE i \in 1..Len(idle) /\ j \in 1..Len(idle)
        BY <4>1, <1>18, <2>2 DEF PoolInv, SessionsInv
      <4>2. CASE i = Len(idle) + 1
        BY <4>2, <1>18, <2>2
      <4>3. CASE j = Len(idle) + 1
        BY <4>3, <1>18, <2>2
      <4> QED BY <4>1, <4>2, <4>3, <1>18
    <3>2. \A i \in DOMAIN idle' : idle'[i] \notin in_use'
      <4> SUFFICES ASSUME NEW i \in 1..(Len(idle) + 1) PROVE idle'[i] \notin in_use'
        BY <2>2
      <4>1. CASE i \in 1..Len(idle)
        BY <4>1, <1>10, <1>18, <2>2 DEF PoolInv, SessionsInv
      <4>2. CASE i = Len(idle) + 1
        BY <4>2, <1>10, <2>2
      <4> QED BY <4>1, <4>2, <1>18
    <3>3. \A t \in SessionIds :
            t \in in_use' \/ (\E i \in DOMAIN idle' : idle'[i] = t)
              <=> t \in in_use \/ \E i \in DOMAIN idle : idle[i] = t
      <4> SUFFICES ASSUME NEW t \in SessionIds
                   PROVE  t \in in_use' \/ (\E i \in DOMAIN idle' : idle'[i] = t)
                            <=> t \in in_use \/ \E i \in DOMAIN idle : idle[i] = t
        OBVIOUS
      <4>1. (\E i \in DOMAIN idle' : idle'[i] = t) <=> (t = s \/ \E i \in DOMAIN idle : idle[i] = t)
        <5>1. Len(idle) + 1 \in DOMAIN idle'
          BY <1>18, <2>2
        <5>2. ASSUME NEW i \in DOMAIN idle' PROVE idle'[i] = s \/ \E j \in DOMAIN idle : idle[j] = idle'[i]
          <6>1. i = Len(idle) + 1 \/ i \in 1..Len(idle)
            BY <1>18, <2>2
          <6> QED BY <6>1, <1>18, <2>2
        <5>3. ASSUME NEW i \in DOMAIN idle PROVE i \in DOMAIN idle' /\ idle'[i] = idle[i]
          BY <1>18, <2>2
        <5> QED BY <5>1, <5>2, <5>3, <2>2
      <4> QED BY <4>1, <1>7, <1>10
    <3> QED BY <1>17, <2>1, <2>2, <3>1, <3>2, <3>3 DEF PoolInv, SessionsInv
  <2>4. BooksInv'
    <3>1. n \in 0..MaxUses
      BY <1>8, <2>1, PoolAssumption DEF PoolInv, BooksInv
    <3>2. DOMAIN use_counts' \subseteq SessionIds /\ \A t \in DOMAIN use_counts' : use_counts'[t] \in 0..MaxUses
      BY <1>7, <2>1, <3>1 DEF PoolInv, BooksInv, Put
    <3>3. total_created' = Len(idle') + Cardinality(in_use')
      BY <1>17, <1>18, <2>1, <2>2 DEF PoolInv, BooksInv
    <3> QED BY <1>10, <2>1, <3>2, <3>3 DEF PoolInv, BooksInv
  <2> QED BY <1>11, <1>13, <1>14, <1>15, <1>16, <2>3, <2>4 DEF PoolInv
<1> QED BY <1>19, <1>20

LEMMA CloseStep ==
  ASSUME PoolInv, ClosePool
  PROVE  PoolInv' /\ \A q \in Runs : run'[q].at = "exhausted" => run[q].at = "exhausted"
<1>1. /\ DOMAIN run' = Runs
      /\ \A q \in Runs : /\ RunOK(q, run'[q]) /\ CapturedOK(q, run'[q], raw_store)
                         /\ run'[q].holds = run[q].holds
                         /\ run'[q].at = "exhausted" <=> run[q].at = "exhausted"
  BY AwakeFacts DEF PoolInv, RunsInv, ClosePool
<1>2. /\ pool_closed' = TRUE /\ idle' = <<>> /\ ~pool_closed
      /\ UNCHANGED <<in_use, use_counts, total_created, recycled_count, raw_store>>
      /\ session' = [s \in SessionIds |-> IF \E i \in DOMAIN idle : idle[i] = s THEN "closed" ELSE session[s]]
  BY DEF ClosePool
<1>3. RunsInv'
  <2>1. raw_store' = raw_store
    BY <1>2
  <2>2. (\A q \in Runs : RunOK(q, run[q]) /\ CapturedOK(q, run[q], raw_store))'
    BY <1>1, <2>1 DEF RunOK, CapturedOK
  <2> QED BY <1>1, <2>2 DEF RunsInv
<1>4. LeaseInv'
  BY <1>1, <1>2 DEF PoolInv, LeaseInv
<1>5. SessionsInv'
  <2>1. session' \in [SessionIds -> {"gone", "well", "sick", "closed"}]
    BY <1>2 DEF PoolInv, SessionsInv
  <2>2. idle' \in Seq(SessionIds) /\ DOMAIN idle' = {}
    BY <1>2
  <2>3. \A s \in SessionIds : session'[s] \in {"well", "sick"} <=> s \in in_use
    BY <1>2 DEF PoolInv, SessionsInv
  <2> QED BY <1>2, <2>1, <2>2, <2>3 DEF PoolInv, SessionsInv
<1>6. BooksInv'
  <2>1. Len(idle) \in Nat /\ Cardinality(in_use) \in Nat
    BY FS_CardinalityType DEF PoolInv, SessionsInv
  <2>2. Cardinality(in_use) <= total_created
    BY <1>2, <2>1 DEF PoolInv, BooksInv
  <2>3. pool_closed' \in BOOLEAN
    BY <1>2
  <2> QED BY <1>2, <2>2, <2>3 DEF PoolInv, BooksInv
<1> QED BY <1>1, <1>3, <1>4, <1>5, <1>6 DEF PoolInv

LEMMA BrowserDiesStep ==
  ASSUME PoolInv, NEW s \in SessionIds, BrowserDies(s)
  PROVE  PoolInv'
<1>1. session[s] = "well" /\ session' = [session EXCEPT ![s] = "sick"] /\ UNCHANGED <<poolVars, run, raw_store>>
  BY DEF BrowserDies
<1>2. SessionsInv'
  BY <1>1 DEF PoolInv, SessionsInv, poolVars
<1>3. LeaseInv' /\ BooksInv'
  BY <1>1 DEF PoolInv, LeaseInv, BooksInv, poolVars
<1>4. RunsInv'
  BY <1>1 DEF PoolInv, RunsInv, RunOK, CapturedOK
<1> QED BY <1>2, <1>3, <1>4 DEF PoolInv

LEMMA PoolStep == PoolInv /\ [ObserverNext]_observerVars => PoolInv'
<1> SUFFICES ASSUME PoolInv, [ObserverNext]_observerVars PROVE PoolInv'
  OBVIOUS
<1>1. CASE UNCHANGED observerVars
  <2>1. RunsInv'
    BY <1>1 DEF observerVars, PoolInv, RunsInv, RunOK, CapturedOK
  <2> QED BY <1>1, <2>1 DEF observerVars, poolVars, PoolInv, LeaseInv, SessionsInv, BooksInv
<1>2. ASSUME NEW r \in Runs, RunStep(r) PROVE PoolInv'
  BY <1>2, WaitingSteps, TakeIdleStep, CreateStep, RenderStep, ReleaseStep, StoreStep DEF RunStep, Acquire
<1> QED BY <1>1, <1>2, CloseStep, BrowserDiesStep DEF ObserverNext

(* Only acquire gives up, and only while every session is lent to others.  *)
LEMMA GivesUpOnlyWhenAllLent ==
  ASSUME PoolInv, [ObserverNext]_observerVars, NEW r \in Runs,
         run'[r].at = "exhausted", run[r].at # "exhausted"
  PROVE  Cardinality({q \in Runs \ {r} : run[q].holds # NoSession}) = MaxSize
<1>1. DOMAIN run = Runs /\ \A q \in Runs : DOMAIN run[q] = {"at", "holds", "results", "audit", "rendered"}
  BY DEF PoolInv, RunsInv, RunOK
<1>2. WaitOrGiveUp(r)
  <2>1. ASSUME NEW q \in Runs, RunStep(q) PROVE WaitOrGiveUp(r)
    <3>1. ASSUME NEW at, Move(q, at) PROVE q = r /\ at = "exhausted"
      BY <1>1, <3>1 DEF Move
    <3>2. ~Release(q)
      BY ReleaseStep
    <3>3. ~StartRun(q) /\ ~TurnedAway(q) /\ ~DeadlinePasses(q)
      BY <3>1 DEF StartRun, TurnedAway, DeadlinePasses
    <3>4. ~TakeIdle(q) /\ ~RenderSearchResult(q)
      BY <1>1 DEF TakeIdle, RenderSearchResult
    <3>5. ~CreateSession(q)
      BY <1>1, <3>1 DEF CreateSession
    <3>6. ~StoreObservation(q)
      <4>1. SUFFICES ASSUME StoreObservation(q) PROVE FALSE
        OBVIOUS
      <4>2. ~Move(q, "raised")
        BY <3>1
      <4> QED BY <4>1, <4>2, <1>1 DEF StoreObservation
    <3>7. WaitOrGiveUp(q)
      BY <2>1, <3>2, <3>3, <3>4, <3>5, <3>6 DEF RunStep, Acquire
    <3> QED BY <3>1, <3>7 DEF WaitOrGiveUp
  <2>2. ~UNCHANGED observerVars /\ ~ClosePool /\ \A s \in SessionIds : ~BrowserDies(s)
    BY CloseStep DEF observerVars, BrowserDies
  <2> QED BY <2>1, <2>2 DEF ObserverNext
<1>3. ~pool_closed /\ idle = <<>> /\ total_created >= MaxSize /\ run[r].holds = NoSession
  BY <1>2 DEF WaitOrGiveUp, Turn, PoolInv, RunsInv, RunOK
<1>4. Cardinality(in_use) = MaxSize /\ IsFiniteSet(in_use)
  <2>1. Len(idle) = 0 /\ IsFiniteSet(in_use) /\ Cardinality(in_use) \in Nat
    BY <1>3, FS_CardinalityType DEF PoolInv, SessionsInv
  <2> QED BY <1>3, <2>1, PoolAssumption DEF PoolInv, BooksInv
<1>5. PICK holders : holders = {q \in Runs \ {r} : run[q].holds # NoSession}
  OBVIOUS
<1>6. PICK f : f = [q \in holders |-> run[q].holds]
  OBVIOUS
<1>7. f \in Bijection(holders, in_use)
  <2>1. f \in [holders -> in_use] /\ \A p, q \in holders : f[p] = f[q] => p = q
    BY <1>5, <1>6 DEF PoolInv, LeaseInv
  <2>2. \A s \in in_use : \E q \in holders : f[q] = s
    BY <1>3, <1>5, <1>6 DEF PoolInv, LeaseInv
  <2> QED BY <2>1, <2>2 DEF Bijection, Injection, Surjection, IsInjective
<1>8. IsFiniteSet(holders) /\ Cardinality(holders) = Cardinality(in_use)
  <2>1. f \in Injection(holders, in_use) /\ f \in Surjection(holders, in_use)
    BY <1>7 DEF Bijection
  <2> QED BY <2>1, <1>4, FS_Injection
<1> QED BY <1>4, <1>5, <1>8

(* However runs, browsers and close() interleave: the pool counts what it  *)
(* lends and never exceeds max_size, a session is lent to one run at a     *)
(* time and not closed under it, captures are backed, and acquire gives up *)
(* only while all sessions are lent to others.                             *)
THEOREM PoolIsAlwaysSafe == ObserverSpec => PoolIsSafe
<1>1. PoolInv => PoolTypeOK /\ NoSessionIsLost /\ LeaseIsExclusive /\ CapturesAreBacked
  <2> SUFFICES ASSUME PoolInv PROVE PoolTypeOK /\ NoSessionIsLost /\ LeaseIsExclusive /\ CapturesAreBacked
    OBVIOUS
  <2>1. PoolTypeOK
    <3>1. \A r \in Runs : RunStatus(r) \in JobStatus
      BY DEF RunStatus, JobStatus, AdvanceTo, JobTransition, AllowedJobTransitions
    <3>2. \A r \in Runs : /\ run[r].at \in Steps /\ run[r].holds \in SessionIds \cup {NoSession}
                          /\ Len(run[r].results) <= Len(RunQueries[r])
      BY DEF PoolInv, RunsInv, RunOK
    <3> QED BY <3>1, <3>2 DEF PoolTypeOK, PoolInv, SessionsInv, BooksInv
  <2>2. NoSessionIsLost
    <3>1. Len(idle) \in Nat /\ Cardinality(in_use) \in Nat /\ (idle = <<>> => Len(idle) = 0 /\ DOMAIN idle = {})
      BY FS_CardinalityType DEF PoolInv, SessionsInv
    <3>2. Len(idle) + Cardinality(in_use) <= MaxSize
      BY <3>1, PoolAssumption DEF PoolInv, BooksInv
    <3>3. pool_closed /\ in_use = {} => \A s \in SessionIds : session[s] \in {"gone", "closed"}
      BY <3>1 DEF PoolInv, BooksInv, SessionsInv
    <3> QED BY <3>2, <3>3 DEF NoSessionIsLost, PoolInv, BooksInv
  <2>3. LeaseIsExclusive
    <3> SUFFICES ASSUME NEW r \in Runs, run[r].holds # NoSession
                 PROVE  /\ run[r].holds \in in_use /\ session[run[r].holds] # "closed"
                        /\ \A i \in DOMAIN idle : idle[i] # run[r].holds
                        /\ \A q \in Runs \ {r} : run[q].holds # run[r].holds
      BY DEF LeaseIsExclusive
    <3>1. run[r].holds \in in_use /\ \A q \in Runs \ {r} : run[q].holds # run[r].holds
      BY DEF PoolInv, LeaseInv
    <3> QED BY <3>1 DEF PoolInv, SessionsInv
  <2>4. CapturesAreBacked
    <3> SUFFICES ASSUME NEW r \in Runs
                 PROVE  /\ Len(run[r].audit) = Len(run[r].results)
                        /\ \A i \in DOMAIN run[r].results :
                             LET o == run[r].results[i] IN
                             /\ <<RunTenant[r], o.event.artifact>> \in raw_store
                             /\ o.record.artifact = HexDigest(run[r].audit[i]) /\ o.event.artifact = o.record.artifact
                             /\ \A q \in Runs : \A j \in DOMAIN run[q].results :
                                  run[q].results[j].event.idempotency_key = o.event.idempotency_key => <<q, j>> = <<r, i>>
      BY DEF CapturesAreBacked
    <3>1. Len(run[r].audit) = Len(run[r].results)
      BY DEF PoolInv, RunsInv, RunOK
    <3>2. \A q \in Runs : CapturedOK(q, run[q], raw_store) /\ DOMAIN run[q].results \subseteq Nat
      <4>1. \A q \in Runs : CapturedOK(q, run[q], raw_store) /\ IsList(run[q].results)
        BY DEF PoolInv, RunsInv, RunOK
      <4>2. \A q \in Runs : DOMAIN run[q].results \subseteq Nat
        BY <4>1, ListAppend
      <4> QED BY <4>1, <4>2
    <3> SUFFICES ASSUME NEW i \in DOMAIN run[r].results
                 PROVE  LET o == run[r].results[i] IN
                        /\ <<RunTenant[r], o.event.artifact>> \in raw_store
                        /\ o.record.artifact = HexDigest(run[r].audit[i]) /\ o.event.artifact = o.record.artifact
                        /\ \A q \in Runs : \A j \in DOMAIN run[q].results :
                             run[q].results[j].event.idempotency_key = o.event.idempotency_key => <<q, j>> = <<r, i>>
      BY <3>1
    <3>3. run[r].results[i].event.idempotency_key = <<RunTenant[r], r, <<r, i - 1>>>>
      BY <3>2 DEF CapturedOK
    <3>4. ASSUME NEW q \in Runs, NEW j \in DOMAIN run[q].results,
                 run[q].results[j].event.idempotency_key = run[r].results[i].event.idempotency_key
          PROVE  <<q, j>> = <<r, i>>
      <4>1. run[q].results[j].event.idempotency_key = <<RunTenant[q], q, <<q, j - 1>>>>
        BY <3>2 DEF CapturedOK
      <4>2. q = r /\ j - 1 = i - 1
        BY <4>1, <3>3, <3>4, SMTT(60)
      <4>3. i \in Nat /\ j \in Nat
        BY <3>2
      <4> QED BY <4>2, <4>3
    <3> QED BY <3>2, <3>4 DEF CapturedOK
  <2> QED BY <2>1, <2>2, <2>3, <2>4
<1>2. PoolInv /\ [ObserverNext]_observerVars =>
        \A r \in Runs : run'[r].at = "exhausted" /\ run[r].at # "exhausted" =>
          Cardinality({q \in Runs \ {r} : run[q].holds # NoSession}) = MaxSize
  BY GivesUpOnlyWhenAllLent
<1> QED BY <1>1, <1>2, PoolInitIsGood, PoolStep, PTL DEF ObserverSpec, PoolIsSafe, ExhaustedWhenAllLent

(***************************************************************************)
(* Schedules and captures.                                                 *)
(***************************************************************************)
LEMMA TimesMonotone ==
  ASSUME NEW a \in Int, NEW b \in Int, NEW s \in Nat, a <= b
  PROVE  a * s <= b * s
<1>1. (b - a) * s >= 0
  OBVIOUS
<1>2. (b - a) * s = b * s - a * s
  OBVIOUS
<1>3. a * s \in Int /\ b * s \in Int
  OBVIOUS
<1> QED BY <1>1, <1>2, <1>3

LEMMA CeilDivCovers ==
  ASSUME NEW a \in Nat \ {0}, NEW b \in Nat \ {0}
  PROVE  CeilDiv(a, b) \in Nat \ {0} /\ CeilDiv(a, b) * b >= a
<1>1. PICK q \in Int : q = (-a) \div b
  OBVIOUS
<1>2. b * q <= -a /\ b * q > -a - b
  BY <1>1
<1>3. CeilDiv(a, b) = -q
  BY <1>1 DEF CeilDiv
<1>4. (-q) * b = -(b * q)
  OBVIOUS
<1>5. (-q) * b >= a
  BY <1>2, <1>4
<1>6. -q \in Nat \ {0}
  <2>1. SUFFICES ASSUME q >= 0 PROVE FALSE
    BY <1>1
  <2>2. b * q >= 0
    BY <2>1, <1>1
  <2> QED BY <2>2, <1>2
<1> QED BY <1>3, <1>5, <1>6

(* The stride keeps neighbours apart and covers a day with max_per_day.    *)
LEMMA StrideFacts ==
  ASSUME NEW req \in ScheduleRequests, PolicyOk(req.policy)
  PROVE  LET p == req.policy  s == SlotStrideSeconds(p) IN
         /\ s \in Nat \ {0} /\ s >= p.min_gap /\ s * p.max_per_day >= SECONDS_PER_DAY
         /\ {p.max_per_day, p.max_concurrent, p.min_gap, p.base, p.factor, p.cap} \subseteq Nat \ {0}
         /\ p.max_retries \in Nat
<1>1. PICK p : p = req.policy
  OBVIOUS
<1>2. /\ p.max_per_day \in Int /\ p.max_concurrent \in Int /\ p.min_gap \in Int /\ p.base \in Int
      /\ p.factor \in Int /\ p.cap \in Int /\ p.max_retries \in Int
  BY <1>1, ScheduleAssumption
<1>3. /\ p.max_per_day >= 1 /\ p.max_concurrent >= 1 /\ p.min_gap >= 1 /\ p.base >= 1 /\ p.factor >= 1
      /\ p.cap >= 1 /\ p.max_retries >= 0
  BY <1>1 DEF PolicyOk
<1>4. /\ p.max_per_day \in Nat \ {0} /\ p.max_concurrent \in Nat \ {0} /\ p.min_gap \in Nat \ {0}
      /\ p.base \in Nat \ {0} /\ p.factor \in Nat \ {0} /\ p.cap \in Nat \ {0} /\ p.max_retries \in Nat
  BY <1>2, <1>3
<1>5. PICK day \in Nat \ {0} : day = CeilDiv(SECONDS_PER_DAY, p.max_per_day) /\ day * p.max_per_day >= SECONDS_PER_DAY
  BY <1>4, CeilDivCovers, ScheduleAssumption
<1>6. PICK s \in Nat \ {0} : s = SlotStrideSeconds(p) /\ s >= p.min_gap /\ s >= day
  BY <1>4, <1>5 DEF SlotStrideSeconds
<1>7. s * p.max_per_day >= SECONDS_PER_DAY
  <2>1. PICK n \in Nat : n = p.max_per_day
    BY <1>4
  <2>2. day * n <= s * n
    BY <1>5, <1>6, TimesMonotone
  <2>3. day * n \in Int /\ s * n \in Int /\ SECONDS_PER_DAY \in Int
    BY <1>5, <1>6, <2>1, ScheduleAssumption
  <2> QED BY <2>1, <2>2, <2>3, <1>5
<1> QED BY <1>1, <1>4, <1>6, <1>7

(* Slot i starts inside the window when the window has room for all.       *)
LEMMA SlotsFitTheWindow ==
  ASSUME NEW len \in Int, NEW s \in Nat \ {0}, NEW n \in Int, NEW i \in 1..n, n <= len \div s + 1
  PROVE  (i - 1) * s \in Nat /\ (i - 1) * s <= len
<1>1. PICK q \in Int : q = len \div s
  OBVIOUS
<1>2. s * q <= len
  BY <1>1
<1>3. PICK k \in Nat : k = i - 1 /\ k <= q
  BY <1>1
<1>4. k * s <= q * s
  BY <1>3, <1>1, TimesMonotone
<1>5. q * s = s * q /\ q * s \in Int /\ k * s \in Nat
  BY <1>1, <1>3
<1> QED BY <1>2, <1>3, <1>4, <1>5

(* A request without room: its last slot would start after the window.     *)
LEMMA SlotsOutgrowTheWindow ==
  ASSUME NEW len \in Int, NEW s \in Nat \ {0}, NEW n \in Int, n > len \div s + 1
  PROVE  (n - 1) * s \in Int /\ (n - 1) * s > len
<1>1. PICK q \in Int : q = len \div s
  OBVIOUS
<1>2. s * q > len - s
  BY <1>1
<1>3. PICK k \in Int : k = n - 1 /\ q + 1 <= k
  BY <1>1
<1>4. (q + 1) * s <= k * s
  BY <1>3, <1>1, TimesMonotone
<1>5. (q + 1) * s = s * q + s
  BY <1>1
<1>6. s * q \in Int /\ k * s \in Int
  BY <1>1, <1>3
<1> QED BY <1>2, <1>3, <1>4, <1>5, <1>6

(* Slots i < j are as many strides apart as their numbers say.             *)
LEMMA SlotsApart ==
  ASSUME NEW i \in Int, NEW j \in Int, NEW m \in Int, NEW s \in Nat, j - i >= m
  PROVE  (j - 1) * s - (i - 1) * s >= m * s
<1>1. m * s <= (j - i) * s
  BY TimesMonotone
<1>2. (j - i) * s = (j - 1) * s - (i - 1) * s
  OBVIOUS
<1>3. m * s \in Int /\ (j - 1) * s \in Int /\ (i - 1) * s \in Int
  OBVIOUS
<1> QED BY <1>1, <1>2, <1>3

(* Slots of one lane are as many numbers apart as there are lanes.         *)
LEMMA LanesApart ==
  ASSUME NEW c \in Nat \ {0}, NEW i \in Nat, NEW j \in Nat, i < j, i % c = j % c
  PROVE  j - i >= c
<1>1. \A x \in Nat : \E u \in Int : x % c = x - c * u
  <2> SUFFICES ASSUME NEW x \in Nat PROVE \E u \in Int : x % c = x - c * u
    OBVIOUS
  <2>1. x % c = x - c * (x \div c) /\ x \div c \in Int
    OBVIOUS
  <2> QED BY <2>1
<1>2. PICK u \in Int : i % c = i - c * u
  BY <1>1
<1>3. PICK v \in Int : j % c = j - c * v
  BY <1>1
<1>4. PICK r : r = i % c /\ r \in Int
  OBVIOUS
<1>5. i = c * u + r /\ j = c * v + r
  BY <1>2, <1>3, <1>4
<1>6. v > u
  <2>1. SUFFICES ASSUME v <= u PROVE FALSE
    BY <1>1, <1>2
  <2>2. v * c <= u * c
    BY <2>1, <1>1, <1>2, TimesMonotone
  <2>3. v * c = c * v /\ u * c = c * u /\ c * v \in Int /\ c * u \in Int
    BY <1>1, <1>2
  <2> QED BY <2>2, <2>3, <1>5, <1>4
<1>7. 1 * c <= (v - u) * c
  BY <1>6, <1>1, <1>2, TimesMonotone
<1>8. (v - u) * c = c * v - c * u /\ 1 * c = c /\ c * v \in Int /\ c * u \in Int
  BY <1>1, <1>2
<1> QED BY <1>5, <1>7, <1>8, <1>4

(* The slots of a sliding day are numbered one after the other, no more of *)
(* them than strides that make a day.                                      *)
LEMMA DaySlotsFollow ==
  ASSUME NEW s \in Nat \ {0}, NEW d \in Nat, NEW m \in Nat, s * m >= d, NEW i \in Int, NEW j \in Int,
         (j - 1) * s - (i - 1) * s \in 0..(d - 1)
  PROVE  j \in i..(i + m - 1)
<1>1. PICK x \in Int : x = (i - 1) * s
  OBVIOUS
<1>2. PICK y \in Int : y = (j - 1) * s
  OBVIOUS
<1>3. y >= x /\ y - x < d
  BY <1>1, <1>2
<1>4. PICK z \in Int : z = m * s /\ z >= d
  OBVIOUS
<1>5. j >= i
  <2> SUFFICES ASSUME i - j >= 1 PROVE FALSE
    OBVIOUS
  <2>1. x - y >= 1 * s
    BY <1>1, <1>2, SlotsApart
  <2> QED BY <2>1, <1>3
<1>6. j <= i + m - 1
  <2> SUFFICES ASSUME j - i >= m PROVE FALSE
    OBVIOUS
  <2>1. y - x >= m * s
    BY <1>1, <1>2, SlotsApart
  <2> QED BY <2>1, <1>3, <1>4
<1> QED BY <1>5, <1>6

LEMMA RunHoldsFew ==
  ASSUME NEW i \in Int, NEW m \in Nat \ {0}, NEW Day \in SUBSET (i..(i + m - 1))
  PROVE  Cardinality(Day) <= m
<1>1. PICK e \in Int : e = i + m - 1 /\ e >= i /\ e - i + 1 = m
  OBVIOUS
<1>2. IsFiniteSet(i..e) /\ Cardinality(i..e) = IF i > e THEN 0 ELSE e - i + 1
  BY FS_Interval
<1>3. Day \in SUBSET (i..e) /\ Cardinality(i..e) = m
  BY <1>1, <1>2
<1> QED BY <1>2, <1>3, FS_Subset

(* Every arm has equally many of 3 * r places: shifting by b - a maps one  *)
(* class of remainders to the other, and back.                             *)
ArmPlaces(r, a) == {i \in 1..(r * 3) : ((i - 1) % 3) + 1 = a}
LEMMA ArmsEven ==
  ASSUME NEW r \in Nat, NEW a \in 1..3, NEW b \in 1..3
  PROVE  Cardinality(ArmPlaces(r, a)) = Cardinality(ArmPlaces(r, b))
<1>1. ASSUME NEW u \in 1..3, NEW v \in 1..3, NEW i \in ArmPlaces(r, u)
      PROVE  i - u + v \in ArmPlaces(r, v)
  BY DEF ArmPlaces
<1> DEFINE f == [i \in ArmPlaces(r, a) |-> i - a + b]
<1>2. f \in [ArmPlaces(r, a) -> ArmPlaces(r, b)]
  BY <1>1
<1>3. f \in Injection(ArmPlaces(r, a), ArmPlaces(r, b))
  <2>1. \A i, j \in ArmPlaces(r, a) : f[i] = f[j] => i = j
    BY DEF ArmPlaces
  <2> QED BY <1>2, <2>1 DEF Injection, IsInjective
<1>4. f \in Surjection(ArmPlaces(r, a), ArmPlaces(r, b))
  <2>1. \A j \in ArmPlaces(r, b) : \E i \in ArmPlaces(r, a) : f[i] = j
    <3> TAKE j \in ArmPlaces(r, b)
    <3>1. j - b + a \in ArmPlaces(r, a)
      BY <1>1
    <3>2. j \in Int
      BY DEF ArmPlaces
    <3>3. f[j - b + a] = j
      BY <3>1, <3>2
    <3> QED BY <3>1, <3>3
  <2> QED BY <1>2, <2>1 DEF Surjection
<1>5. IsFiniteSet(ArmPlaces(r, a))
  <2>1. IsFiniteSet(1..(r * 3))
    BY FS_Interval
  <2>2. ArmPlaces(r, a) \in SUBSET (1..(r * 3))
    BY DEF ArmPlaces
  <2> QED BY <2>1, <2>2, FS_Subset
<1>6. ExistsBijection(ArmPlaces(r, a), ArmPlaces(r, b))
  BY <1>3, <1>4 DEF ExistsBijection, Bijection
<1> QED BY <1>5, <1>6, FS_Bijection

(* What build() has checked when it hands out slots, or has no room.       *)
LEMMA BuildFacts ==
  ASSUME NEW req, NEW s, s = BuildSchedule(req)
  PROVE  /\ s.outcome \in Outcomes
         /\ s.outcome \in {"built", "over_capacity"} =>
              CellOk(req.cell) /\ WindowOk(req.window) /\ PolicyOk(req.policy)
         /\ s.outcome = "over_capacity" => ~GuardRateLimits(req.cell.repeat_count * 3, req.window, req.policy)
         /\ s.outcome = "built" =>
              /\ GuardRateLimits(req.cell.repeat_count * 3, req.window, req.policy)
              /\ s.slots = LayOutSlots(req, AssignArms(req.cell.repeat_count * 3))
<1>1. Len(ArmRotation) = 3
  BY DEF ArmRotation
<1>2. PICK total : total = req.cell.repeat_count * 3
  OBVIOUS
<1>3. total = req.cell.repeat_count * Len(ArmRotation)
  BY <1>1, <1>2
<1> QED BY <1>2, <1>3 DEF BuildSchedule, Outcomes

LEMMA SlotsLaidOut ==
  ASSUME NEW req, NEW n \in Int, NEW s, s = LayOutSlots(req, AssignArms(n))
  PROVE  /\ DOMAIN s = 1..n
         /\ \A i \in 1..n :
              /\ s[i].at = req.window.start + (i - 1) * SlotStrideSeconds(req.policy)
              /\ s[i].lane = (i - 1) % req.policy.max_concurrent
              /\ s[i].stagger = BackoffStaggerFor(req.policy, i - 1)
              /\ s[i].arm = ArmRotation[((i - 1) % 3) + 1]
<1>1. Len(ArmRotation) = 3
  BY DEF ArmRotation
<1>2. PICK arms : arms = AssignArms(n)
  OBVIOUS
<1>3. DOMAIN arms = 1..n /\ \A i \in 1..n : arms[i] = ArmRotation[((i - 1) % 3) + 1]
  BY <1>1, <1>2 DEF AssignArms
<1> QED BY <1>2, <1>3 DEF LayOutSlots

(* The stagger is positive and capped.                                     *)
LEMMA StaggerIsCapped ==
  ASSUME NEW req \in ScheduleRequests, PolicyOk(req.policy), NEW i \in Nat
  PROVE  BackoffStaggerFor(req.policy, i) \in 1..req.policy.cap
<1>1. PICK p : p = req.policy
  OBVIOUS
<1>2. p.max_retries \in Nat /\ p.base \in Nat \ {0} /\ p.cap \in Nat \ {0} /\ p.factor \in Nat \ {0}
  BY <1>1, StrideFacts
<1>3. PICK n : n = i % (p.max_retries + 1)
  OBVIOUS
<1>4. n \in 0..p.max_retries
  BY <1>2, <1>3
<1>5. PICK w \in Nat \ {0} : w = p.factor ^ n
  <2>1. p.factor >= 1
    BY <1>2
  <2> QED BY <1>1, <1>4, <2>1, ScheduleAssumption
<1>6. PICK raw \in Nat \ {0} : raw = p.base * w
  BY <1>2, <1>5
<1>7. BackoffStaggerFor(p, i) = IF raw < p.cap THEN raw ELSE p.cap
  BY <1>3, <1>5, <1>6 DEF BackoffStaggerFor
<1> QED BY <1>1, <1>2, <1>6, <1>7

(* The slots of a built schedule keep its policy.                          *)
LEMMA BuiltKeepsPolicy ==
  ASSUME NEW req \in ScheduleRequests, NEW b, b = BuildSchedule(req), b.outcome = "built"
  PROVE  PolicyKept(req, b.slots)
<1>p. PICK p : p = req.policy
  OBVIOUS
<1>s. PICK s : s = b.slots
  OBVIOUS
<1>1. /\ CellOk(req.cell) /\ WindowOk(req.window) /\ PolicyOk(req.policy)
      /\ GuardRateLimits(req.cell.repeat_count * 3, req.window, req.policy)
      /\ s = LayOutSlots(req, AssignArms(req.cell.repeat_count * 3))
  BY <1>s, BuildFacts
<1>2. PICK r \in Nat : r = req.cell.repeat_count
  BY <1>1, ScheduleAssumption DEF CellOk
<1>3. PICK n \in Nat : n = r * 3
  OBVIOUS
<1>4. PICK start \in Int : start = req.window.start
  BY ScheduleAssumption
<1>5. PICK end \in Int : end = req.window.end
  BY ScheduleAssumption
<1>6. PICK S \in Nat \ {0} : S = SlotStrideSeconds(p) /\ S >= p.min_gap /\ S * p.max_per_day >= SECONDS_PER_DAY
  BY <1>1, <1>p, StrideFacts
<1>7. p.max_per_day \in Nat \ {0} /\ p.min_gap \in Nat \ {0} /\ p.max_concurrent \in Nat \ {0}
  BY <1>1, <1>p, StrideFacts
<1>8. n <= (end - start) \div S + 1
  BY <1>1, <1>2, <1>3, <1>4, <1>5, <1>6, <1>p DEF GuardRateLimits
<1>9. /\ DOMAIN s = 1..n
      /\ \A i \in 1..n : /\ s[i].at = start + (i - 1) * S
                         /\ s[i].lane = (i - 1) % p.max_concurrent
                         /\ s[i].stagger = BackoffStaggerFor(p, i - 1)
                         /\ s[i].arm = ArmRotation[((i - 1) % 3) + 1]
  <2>1. s = LayOutSlots(req, AssignArms(n))
    BY <1>1, <1>2, <1>3
  <2>2. /\ DOMAIN s = 1..n
        /\ \A i \in 1..n : /\ s[i].at = req.window.start + (i - 1) * SlotStrideSeconds(req.policy)
                           /\ s[i].lane = (i - 1) % req.policy.max_concurrent
                           /\ s[i].stagger = BackoffStaggerFor(req.policy, i - 1)
                           /\ s[i].arm = ArmRotation[((i - 1) % 3) + 1]
    BY ONLY <2>1, n \in Int, SlotsLaidOut
  <2> QED BY <2>2, <1>4, <1>6, <1>p
<1>10. ASSUME NEW i \in DOMAIN s
       PROVE  /\ s[i].at \in start..end
              /\ Cardinality({j \in DOMAIN s : s[j].at \in s[i].at..(s[i].at + SECONDS_PER_DAY - 1)}) <= p.max_per_day
              /\ s[i].stagger \in 1..p.cap
  <2>1. s[i].at \in start..end
    <3>0. PICK len \in Int : len = end - start
      OBVIOUS
    <3>1. PICK k \in Nat : k = (i - 1) * S /\ k <= end - start
      <4>1. i \in 1..n /\ n \in Int /\ n <= len \div S + 1
        BY <1>8, <1>9, <3>0
      <4> QED BY ONLY <4>1, <3>0, len \in Int, S \in Nat \ {0}, SlotsFitTheWindow
    <3>2. s[i].at = start + k
      BY <3>1, <1>9
    <3> QED BY <3>1, <3>2
  <2>2. Cardinality({j \in DOMAIN s : s[j].at \in s[i].at..(s[i].at + SECONDS_PER_DAY - 1)}) <= p.max_per_day
    <3>1. PICK Day : Day = {j \in DOMAIN s : s[j].at \in s[i].at..(s[i].at + SECONDS_PER_DAY - 1)}
      OBVIOUS
    <3>2. PICK d \in Nat : d = SECONDS_PER_DAY
      BY ScheduleAssumption
    <3>3. PICK m \in Nat \ {0} : m = p.max_per_day /\ S * m >= d
      BY <1>6, <1>7, <3>2
    <3>4. \A j \in Day : j \in i..(i + m - 1)
      <4> TAKE j \in Day
      <4>1. i \in Int /\ j \in Int /\ i \in 1..n /\ j \in 1..n
        BY <3>1, <1>9
      <4>2. PICK x \in Int : x = (i - 1) * S
        BY <4>1
      <4>3. PICK y \in Int : y = (j - 1) * S
        BY <4>1
      <4>4. s[i].at = start + x /\ s[j].at = start + y
        BY <4>1, <4>2, <4>3, <1>9
      <4>5. y - x \in 0..(d - 1)
        BY <4>2, <4>3, <4>4, <3>1, <3>2
      <4> QED BY <4>1, <4>2, <4>3, <4>5, <3>2, <3>3, DaySlotsFollow
    <3>5. i \in Int
      BY <1>9
    <3>7. Cardinality(Day) <= m
      BY <3>3, <3>4, <3>5, RunHoldsFew
    <3> QED BY <3>1, <3>3, <3>7
  <2>3. s[i].stagger \in 1..p.cap
    <3>1. i - 1 \in Nat /\ s[i].stagger = BackoffStaggerFor(p, i - 1)
      BY <1>9
    <3> QED BY <3>1, <1>1, <1>p, StaggerIsCapped
  <2> QED BY <2>1, <2>2, <2>3
<1>11. ASSUME NEW i \in DOMAIN s, NEW j \in DOMAIN s, i < j
       PROVE  /\ s[j].at - s[i].at >= p.min_gap
              /\ s[i].lane = s[j].lane => s[j].at - s[i].at >= p.max_concurrent * p.min_gap
  <2>1. i \in 1..n /\ j \in 1..n
    BY <1>9
  <2>2. PICK x \in Int : x = (i - 1) * S
    BY <2>1
  <2>3. PICK y \in Int : y = (j - 1) * S
    BY <2>1
  <2>4. s[j].at - s[i].at = y - x
    <3>1. s[i].at = start + x /\ s[j].at = start + y
      BY <2>1, <2>2, <2>3, <1>9
    <3> QED BY <3>1, <2>2, <2>3
  <2>5. y - x >= 1 * S
    <3>1. i \in Int /\ j \in Int /\ j - i >= 1
      BY <1>11, <2>1
    <3> QED BY <3>1, <2>2, <2>3, SlotsApart
  <2>6. s[j].at - s[i].at >= p.min_gap
    BY <2>2, <2>3, <2>4, <2>5, <1>6, <1>7
  <2>7. ASSUME s[i].lane = s[j].lane PROVE s[j].at - s[i].at >= p.max_concurrent * p.min_gap
    <3>1. PICK c \in Nat \ {0} : c = p.max_concurrent
      BY <1>7
    <3>2. PICK g \in Nat \ {0} : g = p.min_gap
      BY <1>7
    <3>3. (i - 1) % c = (j - 1) % c
      BY <2>7, <2>1, <1>9, <3>1
    <3>4. (j - 1) - (i - 1) >= c
      <4>1. PICK u \in Nat : u = i - 1
        BY <2>1
      <4>2. PICK v \in Nat : v = j - 1
        BY <2>1
      <4>3. u < v /\ u % c = v % c
        BY <4>1, <4>2, <3>3, <1>11, <2>1
      <4> QED BY <4>1, <4>2, <4>3, LanesApart
    <3>5. j - i >= c
      BY <3>4, <2>1
    <3>6. y - x >= c * S
      BY <3>5, <2>1, <2>2, <2>3, SlotsApart
    <3>7. g * c <= S * c
      BY <3>2, <1>6, TimesMonotone
    <3>8. c * S = S * c /\ c * g = g * c /\ S * c \in Int /\ g * c \in Int
      OBVIOUS
    <3> QED BY <3>1, <3>2, <3>6, <3>7, <3>8, <2>2, <2>3, <2>4
  <2> QED BY <2>6, <2>7
<1>12. ASSUME NEW x \in DOMAIN ArmRotation
       PROVE  {i \in DOMAIN s : s[i].arm = ArmRotation[x]} = ArmPlaces(r, x)
  <2>1. \A u, v \in 1..3 : ArmRotation[u] = ArmRotation[v] => u = v
    BY DEF ArmRotation
  <2>2. x \in 1..3
    BY DEF ArmRotation
  <2>3. \A i \in 1..n : ((i - 1) % 3) + 1 \in 1..3
    OBVIOUS
  <2>4. \A i \in 1..n : s[i].arm = ArmRotation[x] <=> ((i - 1) % 3) + 1 = x
    BY <2>1, <2>2, <2>3, <1>9
  <2> QED BY <2>4, <1>3, <1>9 DEF ArmPlaces
<1>13. \A x, y \in DOMAIN ArmRotation :
         Cardinality({i \in DOMAIN s : s[i].arm = ArmRotation[x]}) = Cardinality({i \in DOMAIN s : s[i].arm = ArmRotation[y]})
  <2> TAKE x, y \in DOMAIN ArmRotation
  <2>1. x \in 1..3 /\ y \in 1..3
    BY DEF ArmRotation
  <2>2. Cardinality(ArmPlaces(r, x)) = Cardinality(ArmPlaces(r, y))
    BY <2>1, ArmsEven
  <2> QED BY <2>2, <1>12
<1> QED BY <1>4, <1>5, <1>10, <1>11, <1>13, <1>p, <1>s DEF PolicyKept

(* A request is refused for capacity just when its slots do not fit.       *)
LEMMA RefusedIsFull ==
  ASSUME NEW req \in ScheduleRequests, NEW b, b = BuildSchedule(req), b.outcome = "over_capacity"
  PROVE  req.window.start + (3 * req.cell.repeat_count - 1) * SlotStrideSeconds(req.policy) > req.window.end
<1>1. PolicyOk(req.policy) /\ ~GuardRateLimits(req.cell.repeat_count * 3, req.window, req.policy)
  BY BuildFacts
<1>2. PICK r \in Int : r = req.cell.repeat_count
  BY ScheduleAssumption
<1>3. PICK n \in Int : n = r * 3 /\ n = 3 * r
  OBVIOUS
<1>4. PICK start \in Int : start = req.window.start
  BY ScheduleAssumption
<1>5. PICK end \in Int : end = req.window.end
  BY ScheduleAssumption
<1>6. PICK S \in Nat \ {0} : S = SlotStrideSeconds(req.policy)
  BY <1>1, StrideFacts
<1>7. n > (end - start) \div S + 1
  BY <1>1, <1>2, <1>3, <1>4, <1>5, <1>6 DEF GuardRateLimits
<1>8. (n - 1) * S \in Int /\ (n - 1) * S > end - start
  BY <1>7, SlotsOutgrowTheWindow
<1> QED BY <1>2, <1>3, <1>4, <1>5, <1>6, <1>8

(* A capture run as such: how far it is says what its status is, what it   *)
(* has captured and what it may still try.                                 *)
CaptureShape(c) ==
  /\ DOMAIN c = {"engine", "budget", "queries", "at", "clock", "attempt", "status", "observations", "audit", "begun"}
  /\ c.budget \in CaptureBudgets /\ c.queries \in Nat /\ c.clock \in Nat /\ c.begun \in Nat
  /\ c.attempt \in 0..(c.budget.max_retries + 1)
  /\ IsList(c.observations) /\ IsList(c.audit) /\ Len(c.audit) = Len(c.observations)
CaptureStatus ==
  [start |-> "pending", engine_refused |-> "pending", over_budget |-> "pending", query |-> "running", capturing |-> "running",
   unknown_query |-> "running", done |-> "succeeded", deadline |-> "failed", retries_exhausted |-> "failed"]
CaptureProgress(c) ==
  /\ c.at \in DOMAIN CaptureStatus /\ c.status = CaptureStatus[c.at]
  /\ c.at \notin {"start", "engine_refused", "over_budget"} =>
       c.engine = "chatgpt-search" /\ c.queries <= c.budget.max_queries
  /\ c.at = "capturing" => c.begun <= c.budget.deadline /\ c.attempt <= c.budget.max_retries
  /\ c.at = "done" => Len(c.observations) = c.queries
CapturedInOrder(c) ==
  \A i \in DOMAIN c.observations :
    /\ c.observations[i].begun <= c.budget.deadline
    /\ c.observations[i].query = i /\ c.audit[i] = i
CaptureOK(c) == CaptureShape(c) /\ CaptureProgress(c) /\ CapturedInOrder(c)

(* The inductive invariant of schedules and captures.                      *)
ScheduleInv ==
  /\ request \in ScheduleRequests
  /\ schedule = Unbuilt \/ schedule = BuildSchedule(request)
  /\ IsList(replayed) /\ IsList(observe_calls) /\ Len(replayed) <= Len(observe_calls)
  /\ CaptureOK(capture)

LEMMA ScheduleInitIsGood == ScheduleInit /\ CaptureInit => ScheduleInv
<1> SUFFICES ASSUME ScheduleInit, CaptureInit PROVE ScheduleInv
  OBVIOUS
<1>1. PICK b \in CaptureBudgets, n \in 0..MaxCaptureQueries, e \in {"chatgpt-search", "gemini"} :
        capture = [engine |-> e, budget |-> b, queries |-> n, at |-> "start", clock |-> 0, attempt |-> 0,
                   status |-> "pending", observations |-> <<>>, audit |-> <<>>, begun |-> 0]
  BY DEF CaptureInit
<1>2. PICK c : c = capture
  OBVIOUS
<1>3. IsList(<<>>) /\ Len(<<>>) = 0 /\ DOMAIN <<>> = {}
  BY DEF IsList
<1>4. n \in Nat /\ 0 \in 0..(b.max_retries + 1)
  BY ScheduleAssumption
<1>5. CaptureShape(c)
  BY <1>1, <1>2, <1>3, <1>4 DEF CaptureShape
<1>6. CaptureProgress(c)
  BY <1>1, <1>2 DEF CaptureProgress, CaptureStatus
<1>7. CapturedInOrder(c)
  BY <1>1, <1>2, <1>3 DEF CapturedInOrder
<1> QED BY <1>2, <1>3, <1>5, <1>6, <1>7 DEF ScheduleInv, ScheduleInit, CaptureOK

(* The edges of the job status machine that a capture takes.               *)
LEMMA CaptureTransitions ==
  /\ JobTransition("pending", "running") = "running"
  /\ JobTransition("running", "succeeded") = "succeeded"
  /\ JobTransition("running", "failed") = "failed"
<1>1. AllowedJobTransitions["pending"] = {"running", "cancelled"}
  BY DEF AllowedJobTransitions, JobStatus
<1>2. AllowedJobTransitions["running"] = {"succeeded", "failed", "cancelled", "timed_out"}
  BY DEF AllowedJobTransitions, JobStatus
<1> QED BY <1>1, <1>2 DEF JobTransition

LEMMA BeginCaptureStep == ASSUME CaptureOK(capture), BeginCapture PROVE CaptureOK(capture')
<1>1. PICK c : c = capture
  OBVIOUS
<1>2. PICK d : d = capture'
  OBVIOUS
<1>3. /\ c.at = "start"
      /\ d = IF c.engine # "chatgpt-search" THEN [c EXCEPT !.at = "engine_refused"]
             ELSE IF c.queries > c.budget.max_queries THEN [c EXCEPT !.at = "over_budget"]
             ELSE [c EXCEPT !.at = "query", !.status = "running"]
  BY <1>1, <1>2, CaptureTransitions DEF BeginCapture
<1>4. CaptureShape(c) /\ CaptureProgress(c) /\ CapturedInOrder(c)
  BY <1>1 DEF CaptureOK
<1>5. c.status = "pending" /\ c.budget.max_queries \in Nat /\ c.queries \in Nat
  BY <1>3, <1>4, ScheduleAssumption DEF CaptureProgress, CaptureStatus, CaptureShape
<1>6. CaptureShape(d) /\ CapturedInOrder(d)
  BY <1>3, <1>4 DEF CaptureShape, CapturedInOrder
<1>7. CaptureProgress(d)
  BY <1>3, <1>4, <1>5 DEF CaptureProgress, CaptureShape, CaptureStatus
<1> QED BY <1>2, <1>6, <1>7 DEF CaptureOK

LEMMA NextQueryStep == ASSUME CaptureOK(capture), NextQuery PROVE CaptureOK(capture')
<1>1. PICK c : c = capture
  OBVIOUS
<1>2. PICK d : d = capture'
  OBVIOUS
<1>3. CaptureShape(c) /\ CaptureProgress(c) /\ CapturedInOrder(c)
  BY <1>1 DEF CaptureOK
<1>4. c.at = "query" /\ c.status = "running"
  BY <1>1, <1>3 DEF NextQuery, CaptureProgress, CaptureStatus
<1>5. /\ c.budget.deadline \in Nat /\ c.budget.max_retries \in Nat /\ c.clock \in Nat
      /\ 0 \in 0..(c.budget.max_retries + 1)
  BY <1>3, ScheduleAssumption DEF CaptureShape
<1>6. d = IF Len(c.observations) = c.queries
          THEN [c EXCEPT !.at = "done", !.status = "succeeded"]
          ELSE IF c.clock > c.budget.deadline
          THEN [c EXCEPT !.at = "deadline", !.status = "failed"]
          ELSE [c EXCEPT !.at = "capturing", !.attempt = 0, !.begun = c.clock]
  <2>1. d = IF Len(c.observations) = c.queries
            THEN [c EXCEPT !.at = "done", !.status = JobTransition(c.status, "succeeded")]
            ELSE IF c.clock > c.budget.deadline
            THEN [c EXCEPT !.at = "deadline", !.status = JobTransition(c.status, "failed")]
            ELSE [c EXCEPT !.at = "capturing", !.attempt = 0, !.begun = c.clock]
    BY <1>1, <1>2 DEF NextQuery
  <2> QED BY <2>1, <1>4, CaptureTransitions
<1>7. CaptureShape(d) /\ CapturedInOrder(d)
  BY <1>3, <1>5, <1>6 DEF CaptureShape, CapturedInOrder
<1>8. CaptureProgress(d)
  BY <1>3, <1>4, <1>5, <1>6 DEF CaptureProgress, CaptureShape, CaptureStatus
<1> QED BY <1>2, <1>7, <1>8 DEF CaptureOK

LEMMA CaptureObservationStep == ASSUME CaptureOK(capture), CaptureObservation PROVE CaptureOK(capture')
<1>1. PICK c : c = capture
  OBVIOUS
<1>2. PICK d : d = capture'
  OBVIOUS
<1>3. CaptureShape(c) /\ CaptureProgress(c) /\ CapturedInOrder(c)
  BY <1>1 DEF CaptureOK
<1>4. c.at = "capturing" /\ c.status = "running"
  BY <1>1, <1>3 DEF CaptureObservation, CaptureProgress, CaptureStatus
<1>5. /\ c.budget.deadline \in Nat /\ c.budget.max_retries \in Nat /\ c.attempt \in Nat
      /\ c.attempt <= c.budget.max_retries /\ c.begun <= c.budget.deadline
  BY <1>3, <1>4, ScheduleAssumption DEF CaptureShape, CaptureProgress
<1>6. CASE d = [c EXCEPT !.at = "query",
                         !.observations = Append(@, [query |-> Len(@) + 1, begun |-> c.begun]),
                         !.audit = Append(@, Len(c.observations) + 1)]
  <2>1. PICK n : n = Len(c.observations)
    OBVIOUS
  <2>2. PICK o : o = [query |-> n + 1, begun |-> c.begun]
    OBVIOUS
  <2>3. PICK os : os = Append(c.observations, o)
    OBVIOUS
  <2>4. PICK au : au = Append(c.audit, n + 1)
    OBVIOUS
  <2>5. d = [c EXCEPT !.at = "query", !.observations = os, !.audit = au]
    BY <1>6, <2>1, <2>2, <2>3, <2>4
  <2>6. /\ IsList(os) /\ Len(os) = n + 1 /\ DOMAIN os = 1..(n + 1) /\ DOMAIN c.observations = 1..n
        /\ n \in Nat /\ os[n + 1] = o /\ \A i \in 1..n : os[i] = c.observations[i]
    BY <1>3, <2>1, <2>3, ListAppend DEF CaptureShape
  <2>7. /\ IsList(au) /\ Len(au) = n + 1 /\ au[n + 1] = n + 1 /\ \A i \in 1..n : au[i] = c.audit[i]
    BY <1>3, <2>1, <2>4, ListAppend DEF CaptureShape
  <2>8. CaptureShape(d)
    BY <1>3, <2>5, <2>6, <2>7 DEF CaptureShape
  <2>9. CaptureProgress(d)
    BY <1>3, <1>4, <2>5 DEF CaptureProgress, CaptureShape, CaptureStatus
  <2>10. d.observations = os /\ d.audit = au /\ d.budget = c.budget
    BY <1>3, <2>5 DEF CaptureShape
  <2>11. CapturedInOrder(d)
    <3> SUFFICES ASSUME NEW i \in DOMAIN os
                 PROVE  os[i].begun <= c.budget.deadline /\ os[i].query = i /\ au[i] = i
      BY <2>10 DEF CapturedInOrder
    <3>1. CASE i \in 1..n
      BY <3>1, <1>3, <2>6, <2>7 DEF CapturedInOrder
    <3>2. CASE i = n + 1
      BY <3>2, <1>5, <2>2, <2>6, <2>7
    <3>3. i \in 1..n \/ i = n + 1
      BY <2>6
    <3> QED BY <3>1, <3>2, <3>3
  <2> QED BY <1>2, <2>8, <2>9, <2>11 DEF CaptureOK
<1>7. CASE d = IF c.attempt + 1 > c.budget.max_retries
               THEN [c EXCEPT !.attempt = c.attempt + 1, !.at = "retries_exhausted", !.status = "failed"]
               ELSE [c EXCEPT !.attempt = c.attempt + 1]
  <2>1. CaptureShape(d) /\ CapturedInOrder(d)
    BY <1>3, <1>5, <1>7 DEF CaptureShape, CapturedInOrder
  <2>2. CaptureProgress(d)
    BY <1>3, <1>4, <1>5, <1>7 DEF CaptureProgress, CaptureShape, CaptureStatus
  <2> QED BY <1>2, <2>1, <2>2 DEF CaptureOK
<1>8. CASE d = [c EXCEPT !.at = "unknown_query"]
  <2>1. CaptureShape(d) /\ CapturedInOrder(d)
    BY <1>3, <1>8 DEF CaptureShape, CapturedInOrder
  <2>2. CaptureProgress(d)
    BY <1>3, <1>4, <1>8 DEF CaptureProgress, CaptureShape, CaptureStatus
  <2> QED BY <1>2, <2>1, <2>2 DEF CaptureOK
<1>9. \/ d = [c EXCEPT !.at = "query",
                       !.observations = Append(@, [query |-> Len(@) + 1, begun |-> c.begun]),
                       !.audit = Append(@, Len(c.observations) + 1)]
      \/ d = IF c.attempt + 1 > c.budget.max_retries
             THEN [c EXCEPT !.attempt = c.attempt + 1, !.at = "retries_exhausted",
                            !.status = JobTransition(c.status, "failed")]
             ELSE [c EXCEPT !.attempt = c.attempt + 1]
      \/ d = [c EXCEPT !.at = "unknown_query"]
  BY <1>1, <1>2 DEF CaptureObservation
<1>10. JobTransition(c.status, "failed") = "failed"
  BY <1>4, CaptureTransitions
<1> QED BY <1>6, <1>7, <1>8, <1>9, <1>10

LEMMA CaptureTickStep == ASSUME CaptureOK(capture), CaptureTick PROVE CaptureOK(capture')
<1>1. PICK c : c = capture
  OBVIOUS
<1>2. PICK d : d = capture'
  OBVIOUS
<1>3. CaptureShape(c) /\ CaptureProgress(c) /\ CapturedInOrder(c)
  BY <1>1 DEF CaptureOK
<1>4. d = [c EXCEPT !.clock = c.clock + 1]
  BY <1>1, <1>2 DEF CaptureTick
<1>5. CaptureShape(d) /\ CaptureProgress(d) /\ CapturedInOrder(d)
  BY <1>3, <1>4 DEF CaptureShape, CaptureProgress, CapturedInOrder
<1> QED BY <1>2, <1>5 DEF CaptureOK

LEMMA ObserveSlotStep ==
  ASSUME IsList(replayed), IsList(observe_calls), Len(replayed) <= Len(observe_calls), ObserveSlot
  PROVE  IsList(replayed') /\ IsList(observe_calls') /\ Len(replayed') <= Len(observe_calls')
<1>1. PICK slot : slot = schedule.slots[Len(observe_calls) + 1]
  OBVIOUS
<1>2. PICK o : o = [slot_index |-> slot.slot_index, arm |-> slot.arm, provenance |-> "fixture"]
  OBVIOUS
<1>3. /\ observe_calls' = Append(observe_calls, slot.slot_index)
      /\ replayed' = Append(replayed, o) \/ replayed' = replayed
  BY <1>1, <1>2 DEF ObserveSlot
<1>4. /\ IsList(observe_calls') /\ Len(observe_calls') = Len(observe_calls) + 1
      /\ Len(observe_calls) \in Nat /\ Len(replayed) \in Nat
  BY <1>3, ListAppend
<1>5. CASE replayed' = Append(replayed, o)
  <2>1. IsList(replayed') /\ Len(replayed') = Len(replayed) + 1
    BY <1>5, ListAppend
  <2> QED BY <2>1, <1>4
<1>6. CASE replayed' = replayed
  BY <1>4, <1>6
<1> QED BY <1>3, <1>5, <1>6

LEMMA ScheduleStep ==
  ASSUME ScheduleInv,
         [\/ ScheduleNext /\ UNCHANGED captureVars
          \/ CaptureNext /\ UNCHANGED scheduleVars]_<<scheduleVars, captureVars>>
  PROVE  ScheduleInv'
<1> USE DEF scheduleVars, captureVars
<1>1. CASE ScheduleNext /\ UNCHANGED captureVars
  <2>1. CASE Build
    BY <1>1, <2>1 DEF Build, ScheduleInv
  <2>2. CASE ObserveSlot
    <3>1. UNCHANGED <<request, schedule, capture>>
      BY <1>1, <2>2 DEF ObserveSlot
    <3> QED BY <2>2, <3>1, ObserveSlotStep DEF ScheduleInv
  <2> QED BY <1>1, <2>1, <2>2 DEF ScheduleNext
<1>2. CASE CaptureNext /\ UNCHANGED scheduleVars
  <2>1. CaptureOK(capture')
    BY <1>2, BeginCaptureStep, NextQueryStep, CaptureObservationStep, CaptureTickStep DEF ScheduleInv, CaptureNext
  <2> QED BY <1>2, <2>1 DEF ScheduleInv
<1>3. CASE UNCHANGED <<scheduleVars, captureVars>>
  BY <1>3 DEF ScheduleInv
<1> QED BY <1>1, <1>2, <1>3

(* A schedule and a capture always keep their promises: every built        *)
(* schedule respects the rate policy at every anchor and gives the arms    *)
(* equally many slots, a refusal for capacity is deserved, and a capture   *)
(* run stays inside its budget and reports what it did                     *)
(* (ObservationCellSchedule.build, run_chatgpt_observation).               *)
THEOREM ScheduleIsAlwaysKept == ScheduleSpec => []ScheduleIsKept
<1>1. ScheduleInv => ScheduleIsKept
  <2> SUFFICES ASSUME ScheduleInv PROVE ScheduleIsKept
    OBVIOUS
  <2>1. PICK c : c = capture
    OBVIOUS
  <2>2. CaptureShape(c) /\ CaptureProgress(c) /\ CapturedInOrder(c)
    BY <2>1 DEF ScheduleInv, CaptureOK
  <2>3. c.budget.max_retries \in Nat
    BY <2>2, ScheduleAssumption DEF CaptureShape
  <2>4. CaptureKeepsBudget
    BY <2>1, <2>2, <2>3 DEF CaptureKeepsBudget, CaptureShape, CaptureProgress, CapturedInOrder, CaptureStatus
  <2>5. schedule.outcome \in Outcomes
    BY BuildFacts DEF ScheduleInv, Unbuilt, Outcomes
  <2>6. ScheduleTypeOK
    BY <2>1, <2>2, <2>5 DEF ScheduleTypeOK, ScheduleInv, CaptureShape, CaptureProgress, CaptureStatus, JobStatus
  <2>7. schedule.outcome \in {"built", "over_capacity"} => schedule = BuildSchedule(request)
    BY DEF ScheduleInv, Unbuilt
  <2>8. ScheduleKeepsPolicy
    <3> SUFFICES ASSUME schedule.outcome = "built" PROVE ScheduleKeepsPolicy
      BY DEF ScheduleKeepsPolicy
    <3>1. request \in ScheduleRequests /\ schedule = BuildSchedule(request)
      BY <2>7 DEF ScheduleInv
    <3> QED BY <3>1, BuiltKeepsPolicy DEF ScheduleKeepsPolicy
  <2>9. RefusedOnlyWhenFull
    <3> SUFFICES ASSUME schedule.outcome = "over_capacity" PROVE RefusedOnlyWhenFull
      BY DEF RefusedOnlyWhenFull
    <3>1. request \in ScheduleRequests /\ schedule = BuildSchedule(request)
      BY <2>7 DEF ScheduleInv
    <3> QED BY <3>1, RefusedIsFull DEF RefusedOnlyWhenFull
  <2> QED BY <2>4, <2>6, <2>8, <2>9 DEF ScheduleIsKept
<1> QED BY <1>1, ScheduleInitIsGood, ScheduleStep, PTL DEF ScheduleSpec

-----------------------------------------------------------------------------
(* The graphs: what sorting by a key yields.                               *)

(* keys are numbers by place, for finitely many places.                    *)
IsKeys(keys) == IsFiniteSet(DOMAIN keys) /\ DOMAIN keys \subseteq Nat /\ keys \in [DOMAIN keys -> Nat]
OrderOf(keys) == {p \in (DOMAIN keys) \X (DOMAIN keys) : ComesBefore(keys, p[1], p[2])}

LEMMA KeysAreOrdered ==
  ASSUME NEW keys, IsKeys(keys)
  PROVE  /\ IsOrder(DOMAIN keys, OrderOf(keys))
         /\ \A i \in DOMAIN keys :
              Before(DOMAIN keys, OrderOf(keys), i) = {j \in DOMAIN keys : ComesBefore(keys, j, i)}
<1> PICK S : S = DOMAIN keys
  OBVIOUS
<1> PICK R : R = OrderOf(keys)
  OBVIOUS
<1>1. S \subseteq Nat /\ \A i \in S : keys[i] \in Nat
  BY DEF IsKeys
<1>2. \A i, j \in S : <<j, i>> \in R <=> ComesBefore(keys, j, i)
  BY DEF OrderOf
<1>3. \A i \in S : ~ComesBefore(keys, i, i)
  BY <1>1 DEF ComesBefore
<1>4. \A x, y, z \in S : ComesBefore(keys, x, y) /\ ComesBefore(keys, y, z) => ComesBefore(keys, x, z)
  BY <1>1 DEF ComesBefore
<1>5. \A x, y \in S : x = y \/ ComesBefore(keys, x, y) \/ ComesBefore(keys, y, x)
  BY <1>1 DEF ComesBefore
<1> QED
  BY <1>2, <1>3, <1>4, <1>5 DEF IsOrder, Before

(* Every place is sorted somewhere, and nowhere else.                      *)
Sorts(order, keys) ==
  LET n == Cardinality(DOMAIN keys) IN
  /\ n \in Nat /\ order \in [1..n -> DOMAIN keys]
  /\ \A k \in 1..n : Cardinality({j \in DOMAIN keys : ComesBefore(keys, j, order[k])}) = k - 1
  /\ \A k, l \in 1..n : order[k] = order[l] => k = l
  /\ \A i \in DOMAIN keys : \E k \in 1..n : order[k] = i

LEMMA SortingSorts ==
  ASSUME NEW keys, IsKeys(keys)
  PROVE  Sorts(SortedBy(keys), keys)
<1> PICK S : S = DOMAIN keys
  OBVIOUS
<1> PICK R : R = OrderOf(keys)
  OBVIOUS
<1> PICK order : order = SortedBy(keys)
  OBVIOUS
<1> PICK n : n = Cardinality(S)
  OBVIOUS
<1> DEFINE rank == [x \in S |-> Cardinality(Before(S, R, x))]
<1>1. /\ n \in Nat /\ rank \in [S -> 0..(n - 1)]
      /\ \A x, y \in S : rank[x] = rank[y] => x = y
      /\ \A k \in 0..(n - 1) : \E x \in S : rank[x] = k
  BY KeysAreOrdered, RanksAreDense DEF IsKeys
<1>2. \A x \in S : rank[x] = Cardinality({j \in S : ComesBefore(keys, j, x)})
  BY KeysAreOrdered
<1> HIDE DEF rank
<1>3. \A k \in 1..n : order[k] = CHOOSE i \in S : Cardinality({j \in S : ComesBefore(keys, j, i)}) = k - 1
  BY DEF SortedBy
<1>4. ASSUME NEW k \in 1..n
      PROVE  order[k] \in S /\ rank[order[k]] = k - 1
  <2>1. k - 1 \in 0..(n - 1)
    BY <1>1
  <2>2. PICK x \in S : rank[x] = k - 1
    BY <1>1, <2>1
  <2>3. \E i \in S : Cardinality({j \in S : ComesBefore(keys, j, i)}) = k - 1
    BY <1>2, <2>2
  <2>4. order[k] \in S /\ Cardinality({j \in S : ComesBefore(keys, j, order[k])}) = k - 1
    BY <1>3, <2>3
  <2> QED
    BY <1>2, <2>4
<1>5. order \in [1..n -> S]
  BY <1>4 DEF SortedBy
<1>6. ASSUME NEW k \in 1..n, NEW l \in 1..n, order[k] = order[l]
      PROVE  k = l
  <2>1. k - 1 = l - 1
    BY <1>4, <1>6
  <2> QED
    BY <1>1, <2>1
<1>7. ASSUME NEW i \in S
      PROVE  \E k \in 1..n : order[k] = i
  <2>1. rank[i] \in 0..(n - 1)
    BY <1>1
  <2>2. PICK k \in 1..n : k = rank[i] + 1
    BY <1>1, <2>1
  <2>3. rank[order[k]] = rank[i] /\ order[k] \in S
    BY <1>1, <1>4, <2>1, <2>2
  <2> QED
    BY <1>1, <2>3
<1>8. \A k \in 1..n : Cardinality({j \in S : ComesBefore(keys, j, order[k])}) = k - 1
  BY <1>2, <1>4
<1> QED
  BY <1>1, <1>5, <1>6, <1>7, <1>8 DEF Sorts

(* The n-th smallest key, by counting: fewer than n are smaller, and no    *)
(* fewer than n are as small.                                              *)
Smaller(keys, k) == {j \in DOMAIN keys : keys[j] < k}
AsSmall(keys, k) == {j \in DOMAIN keys : keys[j] <= k}
IsNthKey(keys, n, k) == Cardinality(Smaller(keys, k)) < n /\ n <= Cardinality(AsSmall(keys, k))

LEMMA PartsAreFinite ==
  ASSUME NEW keys, IsKeys(keys), NEW T, T \subseteq DOMAIN keys
  PROVE  IsFiniteSet(T) /\ Cardinality(T) \in Nat
BY FS_Subset, FS_CardinalityType DEF IsKeys

LEMMA SortedIsNth ==
  ASSUME NEW keys, IsKeys(keys), NEW order, Sorts(order, keys), NEW n \in 1..Cardinality(DOMAIN keys)
  PROVE  IsNthKey(keys, n, keys[order[n]])
<1> PICK S : S = DOMAIN keys
  OBVIOUS
<1> PICK i : i = order[n]
  OBVIOUS
<1> DEFINE B == {j \in S : ComesBefore(keys, j, i)}
<1>1. n \in Nat /\ n >= 1 /\ i \in S /\ Cardinality(B) = n - 1
  BY DEF Sorts
<1>2. S \subseteq Nat /\ \A j \in S : keys[j] \in Nat
  BY DEF IsKeys
<1>3. B \subseteq S /\ i \notin B
  BY <1>1, <1>2 DEF ComesBefore
<1>4. Smaller(keys, keys[i]) \subseteq B
  BY DEF Smaller, ComesBefore
<1>5. B \cup {i} \subseteq AsSmall(keys, keys[i])
  BY <1>1, <1>2 DEF AsSmall, ComesBefore
<1> HIDE DEF B
<1>6. IsFiniteSet(B) /\ IsFiniteSet(AsSmall(keys, keys[i])) /\ Cardinality(AsSmall(keys, keys[i])) \in Nat
  BY <1>3, PartsAreFinite DEF AsSmall
<1>7. Cardinality(Smaller(keys, keys[i])) <= Cardinality(B)
  BY <1>4, <1>6, FS_Subset
<1>8. Cardinality(B \cup {i}) = Cardinality(B) + 1
  BY <1>3, <1>6, FS_AddElement
<1>9. Cardinality(B \cup {i}) <= Cardinality(AsSmall(keys, keys[i]))
  BY <1>5, <1>6, FS_Subset
<1>10. Cardinality(Smaller(keys, keys[i])) \in Nat
  BY PartsAreFinite DEF Smaller
<1> QED
  BY <1>1, <1>6, <1>7, <1>8, <1>9, <1>10 DEF IsNthKey

LEMMA NthIsNotAbove ==
  ASSUME NEW keys, IsKeys(keys), NEW n \in Nat, NEW k \in Nat, NEW l \in Nat,
         IsNthKey(keys, n, k), IsNthKey(keys, n, l)
  PROVE  ~(k < l)
<1> SUFFICES ASSUME k < l PROVE FALSE
  OBVIOUS
<1>1. \A j \in DOMAIN keys : keys[j] \in Nat
  BY DEF IsKeys
<1>2. AsSmall(keys, k) \subseteq Smaller(keys, l)
  BY <1>1 DEF AsSmall, Smaller
<1>3. IsFiniteSet(Smaller(keys, l)) /\ Cardinality(Smaller(keys, l)) \in Nat
  BY PartsAreFinite DEF Smaller
<1>4. Cardinality(AsSmall(keys, k)) <= Cardinality(Smaller(keys, l))
  BY <1>2, <1>3, FS_Subset
<1>5. Cardinality(AsSmall(keys, k)) \in Nat
  BY PartsAreFinite DEF AsSmall
<1> QED
  BY <1>3, <1>4, <1>5 DEF IsNthKey

LEMMA NthIsUnique ==
  ASSUME NEW keys, IsKeys(keys), NEW n \in Nat, NEW k \in Nat, NEW l \in Nat,
         IsNthKey(keys, n, k), IsNthKey(keys, n, l)
  PROVE  k = l
<1>1. ~(k < l)
  BY NthIsNotAbove
<1>2. ~(l < k)
  BY NthIsNotAbove
<1> QED
  BY <1>1, <1>2

(* p brings the keys b to the keys a.                                      *)
Rearranges(p, a, b) ==
  /\ p \in [DOMAIN b -> DOMAIN a]
  /\ \A i \in DOMAIN a : \E j \in DOMAIN b : p[j] = i
  /\ \A i, j \in DOMAIN b : p[i] = p[j] => i = j
  /\ \A j \in DOMAIN b : b[j] = a[p[j]]

LEMMA RestrictedSameSize ==
  ASSUME NEW S, NEW T, IsFiniteSet(T), NEW p, p \in [T -> S],
         \A i \in S : \E j \in T : p[j] = i, \A i, j \in T : p[i] = p[j] => i = j,
         NEW U, U \subseteq S, NEW V, V \subseteq T, \A j \in T : j \in V <=> p[j] \in U
  PROVE  Cardinality(U) = Cardinality(V)
<1> PICK f : f = [j \in V |-> p[j]]
  OBVIOUS
<1>1. f \in [V -> U] /\ \A j \in V : f[j] = p[j]
  OBVIOUS
<1>2. \A i, j \in V : f[i] = f[j] => i = j
  BY <1>1
<1>3. \A i \in U : \E j \in V : f[j] = i
  BY <1>1
<1>4. IsFiniteSet(V)
  BY FS_Subset
<1> QED
  BY <1>1, <1>2, <1>3, <1>4, SameSize

LEMMA RearrangedNth ==
  ASSUME NEW a, NEW b, IsKeys(b), NEW p, Rearranges(p, a, b), NEW n, NEW k, IsNthKey(b, n, k)
  PROVE  IsNthKey(a, n, k)
<1>1. \A j \in DOMAIN b : j \in Smaller(b, k) <=> p[j] \in Smaller(a, k)
  BY DEF Rearranges, Smaller
<1>2. \A j \in DOMAIN b : j \in AsSmall(b, k) <=> p[j] \in AsSmall(a, k)
  BY DEF Rearranges, AsSmall
<1>3. Smaller(a, k) \subseteq DOMAIN a /\ AsSmall(a, k) \subseteq DOMAIN a
  BY DEF Smaller, AsSmall
<1>4. Smaller(b, k) \subseteq DOMAIN b /\ AsSmall(b, k) \subseteq DOMAIN b
  BY DEF Smaller, AsSmall
<1>5. /\ p \in [DOMAIN b -> DOMAIN a] /\ \A i \in DOMAIN a : \E j \in DOMAIN b : p[j] = i
      /\ \A i, j \in DOMAIN b : p[i] = p[j] => i = j
  BY DEF Rearranges
<1>6. IsFiniteSet(DOMAIN b)
  BY DEF IsKeys
<1>7. Cardinality(Smaller(a, k)) = Cardinality(Smaller(b, k))
  BY <1>1, <1>3, <1>4, <1>5, <1>6, RestrictedSameSize
<1>8. Cardinality(AsSmall(a, k)) = Cardinality(AsSmall(b, k))
  BY <1>2, <1>3, <1>4, <1>5, <1>6, RestrictedSameSize
<1> QED
  BY <1>7, <1>8 DEF IsNthKey

(* Sorted keys do not depend on where the keys were.                       *)
LEMMA SortedKeysAgree ==
  ASSUME NEW a, NEW b, IsKeys(a), IsKeys(b), NEW p, Rearranges(p, a, b),
         NEW x, Sorts(x, a), NEW y, Sorts(y, b)
  PROVE  /\ Cardinality(DOMAIN a) = Cardinality(DOMAIN b)
         /\ \A n \in 1..Cardinality(DOMAIN a) : a[x[n]] = b[y[n]]
<1>1. Cardinality(DOMAIN a) = Cardinality(DOMAIN b)
  BY SameSize DEF Rearranges, IsKeys
<1>2. Cardinality(DOMAIN a) \in Nat
  BY DEF Sorts
<1>3. x \in [1..Cardinality(DOMAIN a) -> DOMAIN a]
  BY DEF Sorts
<1>4. y \in [1..Cardinality(DOMAIN b) -> DOMAIN b]
  BY DEF Sorts
<1>5. ASSUME NEW n \in 1..Cardinality(DOMAIN a)
      PROVE  a[x[n]] = b[y[n]]
  <2>1. x[n] \in DOMAIN a /\ y[n] \in DOMAIN b /\ n \in Nat
    BY <1>1, <1>2, <1>3, <1>4
  <2>2. a[x[n]] \in Nat /\ b[y[n]] \in Nat
    BY <2>1 DEF IsKeys
  <2>3. IsNthKey(a, n, a[x[n]])
    BY SortedIsNth
  <2>4. IsNthKey(b, n, b[y[n]])
    BY <1>1, SortedIsNth
  <2>5. IsNthKey(a, n, b[y[n]])
    BY <2>4, RearrangedNth
  <2> QED
    BY <2>1, <2>2, <2>3, <2>5, NthIsUnique
<1> QED
  BY <1>1, <1>5

-----------------------------------------------------------------------------
(* Entity graphs.                                                          *)

EntityKeys(groups) == [i \in DOMAIN groups |-> EntityRank[groups[i].entity_id]]
EntitiesOf(groups) == [i \in DOMAIN groups |-> Identity(groups[i])]
SortedEntities(groups) ==
  [n \in 1..Cardinality(DOMAIN groups) |-> Identity(groups[SortedBy(EntityKeys(groups))[n]])]

LEMMA EntityKeysOK ==
  ASSUME NEW groups \in Seq(AliasGroups)
  PROVE  /\ IsKeys(EntityKeys(groups)) /\ DOMAIN EntityKeys(groups) = DOMAIN groups
         /\ \A i \in DOMAIN groups : /\ groups[i].entity_id \in DOMAIN EntityRank
                                     /\ EntityKeys(groups)[i] = EntityRank[groups[i].entity_id]
<1>1. DOMAIN groups = 1..Len(groups) /\ Len(groups) \in Nat
  OBVIOUS
<1>2. \A i \in DOMAIN groups : groups[i] \in AliasGroups
  OBVIOUS
<1>3. \A i \in DOMAIN groups : groups[i].entity_id \in DOMAIN EntityRank
  BY <1>2 DEF AliasGroups
<1>4. \A i \in DOMAIN groups : EntityRank[groups[i].entity_id] \in Nat
  BY <1>3, GraphAssumption
<1>5. IsFiniteSet(DOMAIN groups) /\ DOMAIN groups \subseteq Nat
  BY <1>1, FS_Interval
<1> QED
  BY <1>3, <1>4, <1>5 DEF IsKeys, EntityKeys

LEMMA EntityVersionIs ==
  ASSUME NEW groups \in Seq(AliasGroups), NEW tenant, NEW project
  PROVE  EntityGraphVersion(tenant, project, groups) = <<"entity", tenant, project, SortedEntities(groups)>>
<1> PICK keys : keys = EntityKeys(groups)
  OBVIOUS
<1>1. DOMAIN keys = DOMAIN groups
  BY EntityKeysOK
<1>2. DOMAIN SortedBy(keys) = 1..Cardinality(DOMAIN groups)
  BY <1>1 DEF SortedBy
<1>3. keys = [i \in DOMAIN groups |-> EntityRank[groups[i].entity_id]]
  BY DEF EntityKeys
<1>4. SortedEntities(groups) = [n \in DOMAIN SortedBy(keys) |-> Identity(groups[SortedBy(keys)[n]])]
  BY <1>2 DEF SortedEntities
<1> QED
  BY <1>3, <1>4 DEF EntityGraphVersion

LEMMA SameIdSameIdentity ==
  ASSUME NEW groups, NoDuplicateEntityId(groups), NEW i \in DOMAIN groups, NEW j \in DOMAIN groups,
         groups[i].entity_id = groups[j].entity_id
  PROVE  Identity(groups[i]) = Identity(groups[j])
<1>1. /\ groups[i].canonical_name = groups[j].canonical_name
      /\ groups[i].entity_type = groups[j].entity_type
  BY DEF NoDuplicateEntityId
<1> QED
  BY <1>1 DEF Identity

LEMMA SameGroupsSameOrder ==
  ASSUME NEW s \in Seq(AliasGroups), NEW t \in Seq(AliasGroups), NoDuplicateEntityId(s), SameElements(s, t)
  PROVE  SortedEntities(s) = SortedEntities(t)
<1> PICK a : a = EntityKeys(s)
  OBVIOUS
<1> PICK b : b = EntityKeys(t)
  OBVIOUS
<1> PICK x : x = SortedBy(a)
  OBVIOUS
<1> PICK y : y = SortedBy(b)
  OBVIOUS
<1>1. /\ IsKeys(a) /\ DOMAIN a = DOMAIN s
      /\ \A i \in DOMAIN s : s[i].entity_id \in DOMAIN EntityRank /\ a[i] = EntityRank[s[i].entity_id]
  BY EntityKeysOK
<1>2. /\ IsKeys(b) /\ DOMAIN b = DOMAIN t
      /\ \A i \in DOMAIN t : t[i].entity_id \in DOMAIN EntityRank /\ b[i] = EntityRank[t[i].entity_id]
  BY EntityKeysOK
<1>3. PICK p \in [DOMAIN t -> DOMAIN s] :
        /\ \A i \in DOMAIN s : \E j \in DOMAIN t : p[j] = i
        /\ \A i, j \in DOMAIN t : p[i] = p[j] => i = j
        /\ \A j \in DOMAIN t : t[j] = s[p[j]]
  BY DEF SameElements
<1>4. Rearranges(p, a, b)
  <2>1. \A j \in DOMAIN b : b[j] = a[p[j]]
    BY <1>1, <1>2, <1>3
  <2> QED
    BY <1>1, <1>2, <1>3, <2>1 DEF Rearranges
<1>5. Sorts(x, a) /\ Sorts(y, b)
  BY <1>1, <1>2, SortingSorts
<1>6. /\ Cardinality(DOMAIN s) = Cardinality(DOMAIN t)
      /\ \A n \in 1..Cardinality(DOMAIN s) : a[x[n]] = b[y[n]]
  BY <1>1, <1>2, <1>4, <1>5, SortedKeysAgree
<1>7. x \in [1..Cardinality(DOMAIN s) -> DOMAIN s]
  BY <1>1, <1>5 DEF Sorts
<1>8. y \in [1..Cardinality(DOMAIN t) -> DOMAIN t]
  BY <1>2, <1>5 DEF Sorts
<1>9. ASSUME NEW n \in 1..Cardinality(DOMAIN s)
      PROVE  Identity(s[x[n]]) = Identity(t[y[n]])
  <2>1. x[n] \in DOMAIN s /\ y[n] \in DOMAIN t
    BY <1>6, <1>7, <1>8
  <2>2. p[y[n]] \in DOMAIN s /\ t[y[n]] = s[p[y[n]]]
    BY <1>3, <2>1
  <2>3. s[x[n]].entity_id = t[y[n]].entity_id
    BY <1>1, <1>2, <1>6, <2>1, GraphAssumption
  <2> QED
    BY <2>1, <2>2, <2>3, SameIdSameIdentity
<1> QED
  BY <1>6, <1>9 DEF SortedEntities

LEMMA SameOrderSameEntities ==
  ASSUME NEW s \in Seq(AliasGroups), NEW t \in Seq(AliasGroups), SortedEntities(s) = SortedEntities(t)
  PROVE  SameElements(EntitiesOf(s), EntitiesOf(t))
<1> PICK x : x = SortedBy(EntityKeys(s))
  OBVIOUS
<1> PICK y : y = SortedBy(EntityKeys(t))
  OBVIOUS
<1> PICK n : n = Cardinality(DOMAIN s)
  OBVIOUS
<1> PICK e : e = SortedEntities(s)
  OBVIOUS
<1>1. Sorts(x, EntityKeys(s)) /\ Sorts(y, EntityKeys(t))
  BY EntityKeysOK, SortingSorts
<1>2. /\ n \in Nat /\ x \in [1..n -> DOMAIN s]
      /\ \A k, l \in 1..n : x[k] = x[l] => k = l
      /\ \A i \in DOMAIN s : \E k \in 1..n : x[k] = i
  BY <1>1, EntityKeysOK DEF Sorts
<1>3. Cardinality(DOMAIN t) \in Nat
  BY <1>1, EntityKeysOK DEF Sorts
<1>4. DOMAIN e = 1..n /\ DOMAIN e = 1..Cardinality(DOMAIN t)
  BY DEF SortedEntities
<1>5. n = Cardinality(DOMAIN t)
  BY <1>2, <1>3, <1>4
<1>6. /\ y \in [1..n -> DOMAIN t]
      /\ \A k, l \in 1..n : y[k] = y[l] => k = l
      /\ \A i \in DOMAIN t : \E k \in 1..n : y[k] = i
  BY <1>1, <1>5, EntityKeysOK DEF Sorts
<1>7. \A k \in 1..n : e[k] = Identity(s[x[k]]) /\ e[k] = Identity(t[y[k]])
  BY <1>5 DEF SortedEntities
<1> DEFINE at(j) == CHOOSE k \in 1..n : y[k] = j
<1>8. \A j \in DOMAIN t : at(j) \in 1..n /\ y[at(j)] = j
  BY <1>6
<1> PICK p : p = [j \in DOMAIN t |-> x[at(j)]]
  OBVIOUS
<1>9. p \in [DOMAIN t -> DOMAIN s] /\ \A j \in DOMAIN t : p[j] = x[at(j)]
  BY <1>2, <1>8
<1>10. \A k \in 1..n : at(y[k]) = k
  BY <1>6, <1>8
<1> HIDE DEF at
<1>11. ASSUME NEW i \in DOMAIN s
       PROVE  \E j \in DOMAIN t : p[j] = i
  <2>1. PICK k \in 1..n : x[k] = i
    BY <1>2
  <2>2. y[k] \in DOMAIN t /\ p[y[k]] = x[k]
    BY <1>6, <1>9, <1>10
  <2> QED
    BY <2>1, <2>2
<1>12. \A i, j \in DOMAIN t : p[i] = p[j] => i = j
  BY <1>2, <1>8, <1>9
<1>13. \A j \in DOMAIN t : Identity(t[j]) = Identity(s[p[j]])
  BY <1>7, <1>8, <1>9
<1> PICK es : es = EntitiesOf(s)
  OBVIOUS
<1> PICK et : et = EntitiesOf(t)
  OBVIOUS
<1>14. /\ DOMAIN es = DOMAIN s /\ \A i \in DOMAIN s : es[i] = Identity(s[i])
       /\ DOMAIN et = DOMAIN t /\ \A i \in DOMAIN t : et[i] = Identity(t[i])
  BY DEF EntitiesOf
<1>15. \A j \in DOMAIN et : et[j] = es[p[j]]
  BY <1>9, <1>13, <1>14
<1>16. p \in [DOMAIN et -> DOMAIN es]
  BY <1>9, <1>14
<1>17. \A i \in DOMAIN es : \E j \in DOMAIN et : p[j] = i
  BY <1>11, <1>14
<1>18. \A i, j \in DOMAIN et : p[i] = p[j] => i = j
  BY <1>12, <1>14
<1>19. SameElements(es, et)
  BY <1>15, <1>16, <1>17, <1>18 DEF SameElements
<1> QED
  BY <1>19

LEMMA SameElementsRefl ==
  ASSUME NEW s
  PROVE  SameElements(s, s)
<1> PICK p : p = [i \in DOMAIN s |-> i]
  OBVIOUS
<1> QED
  BY DEF SameElements

-----------------------------------------------------------------------------
(* Demand graphs.                                                          *)

AllMatch(m) == m \in Seq(Materials) /\ \A i \in DOMAIN m : ~MatchesNone(m[i])
ClusterValue(intent, locale, n, texts, refs) ==
  [cluster_id |-> ClusterId(intent, locale), intent |-> intent, funnel |-> FunnelForIntent[intent],
   locale |-> locale, business_value |-> n * BUSINESS_VALUE_PER_MATERIAL,
   paraphrases |-> texts, provenance_refs |-> refs,
   confidence |-> IF n < CONFIDENCE_SATURATION THEN n ELSE CONFIDENCE_SATURATION]
DemandKeys(m) == [i \in FirstsOf(m) |-> ClusterRank[ClusterOf(m, i).cluster_id]]

LEMMA IntentIsKnown ==
  ASSUME NEW x \in Materials, ~MatchesNone(x)
  PROVE  ClassifyIntent(x) \in Intents
<1> PICK found : found = IntentsIn[x.text]
  OBVIOUS
<1>1. found \subseteq Intents /\ found # {}
  BY GraphAssumption DEF Materials, MatchesNone
<1> PICK T : T = {n \in DOMAIN IntentOrder : IntentOrder[n] \in found}
  OBVIOUS
<1>2. DOMAIN IntentOrder = 1..9
  BY DEF IntentOrder
<1>3. T # {} /\ T \subseteq Nat
  BY <1>1, <1>2 DEF Intents
<1>4. PICK n \in T : \A k \in T : n <= k
  BY <1>3, LeastNumber
<1>5. \E l \in DOMAIN IntentOrder : IntentOrder[l] \in found /\ \A k \in 1..(l - 1) : IntentOrder[k] \notin found
  <2>1. n \in 1..9 /\ IntentOrder[n] \in found
    BY <1>2
  <2>2. \A k \in 1..(n - 1) : k \in 1..9 /\ ~(n <= k)
    BY <2>1
  <2>3. \A k \in 1..(n - 1) : k \notin T
    BY <1>4, <2>2
  <2>4. \A k \in 1..(n - 1) : IntentOrder[k] \notin found
    BY <1>2, <2>2, <2>3
  <2> QED
    BY <1>2, <2>1, <2>4
<1>6. ClassifyIntent(x) =
        IntentOrder[CHOOSE l \in DOMAIN IntentOrder :
          IntentOrder[l] \in found /\ \A k \in 1..(l - 1) : IntentOrder[k] \notin found]
  BY DEF ClassifyIntent
<1> QED
  BY <1>5, <1>6 DEF Intents

LEMMA ClusterIs ==
  ASSUME NEW m, NEW i
  PROVE  ClusterOf(m, i) =
           ClusterValue(ClassifyIntent(m[i]), m[i].locale, Cardinality(MembersOf(m, i)),
                        {m[j].text : j \in MembersOf(m, i)}, {m[j].provenance_ref : j \in MembersOf(m, i)})
<1> PICK M : M = MembersOf(m, i)
  OBVIOUS
<1> PICK members : members = [j \in M |-> m[j]]
  OBVIOUS
<1>1. DOMAIN members = M /\ \A j \in M : members[j] = m[j]
  OBVIOUS
<1>2. {members[j].text : j \in DOMAIN members} = {m[j].text : j \in M}
  BY <1>1
<1>3. {members[j].provenance_ref : j \in DOMAIN members} = {m[j].provenance_ref : j \in M}
  BY <1>1
<1>4. ClusterOf(m, i) = BuildCluster(ClassifyIntent(m[i]), m[i].locale, members)
  BY DEF ClusterOf
<1> QED
  BY <1>1, <1>2, <1>3, <1>4 DEF BuildCluster, ClusterValue

LEMMA SameGroup ==
  ASSUME NEW m, NEW i, NEW j
  PROVE  GroupOf(m, i) = GroupOf(m, j)
           <=> ClassifyIntent(m[i]) = ClassifyIntent(m[j]) /\ m[i].locale = m[j].locale
BY DEF GroupOf

(* A group has one first material.                                         *)
LEMMA GroupHasAFirst ==
  ASSUME NEW m \in Seq(Materials), NEW i \in DOMAIN m
  PROVE  \E j \in FirstsOf(m) : GroupOf(m, j) = GroupOf(m, i)
<1>1. MembersOf(m, i) # {} /\ MembersOf(m, i) \subseteq Nat
  BY DEF MembersOf
<1>2. PICK j \in MembersOf(m, i) : \A k \in MembersOf(m, i) : j <= k
  BY <1>1, LeastNumber
<1>3. j \in DOMAIN m /\ GroupOf(m, j) = GroupOf(m, i)
  BY DEF MembersOf
<1>4. DOMAIN m = 1..Len(m) /\ Len(m) \in Nat
  OBVIOUS
<1>5. \A k \in 1..(j - 1) : k \in DOMAIN m /\ ~(j <= k)
  BY <1>3, <1>4
<1>6. \A k \in 1..(j - 1) : GroupOf(m, k) # GroupOf(m, j)
  BY <1>2, <1>3, <1>5 DEF MembersOf
<1> QED
  BY <1>3, <1>6 DEF FirstsOf

LEMMA FirstIsUnique ==
  ASSUME NEW m \in Seq(Materials), NEW i \in FirstsOf(m), NEW j \in FirstsOf(m), GroupOf(m, i) = GroupOf(m, j)
  PROVE  i = j
<1>1. i \in Nat /\ j \in Nat /\ i >= 1 /\ j >= 1
  BY DEF FirstsOf
<1>2. ~(i \in 1..(j - 1)) /\ ~(j \in 1..(i - 1))
  BY DEF FirstsOf
<1> QED
  BY <1>1, <1>2

LEMMA DemandKeysOK ==
  ASSUME NEW m, AllMatch(m)
  PROVE  /\ IsKeys(DemandKeys(m)) /\ DOMAIN DemandKeys(m) = FirstsOf(m) /\ FirstsOf(m) \subseteq DOMAIN m
         /\ \A i \in FirstsOf(m) : /\ ClusterOf(m, i).cluster_id \in DOMAIN ClusterRank
                                   /\ DemandKeys(m)[i] = ClusterRank[ClusterOf(m, i).cluster_id]
<1>1. FirstsOf(m) \subseteq DOMAIN m /\ DOMAIN m = 1..Len(m) /\ Len(m) \in Nat
  BY DEF FirstsOf, AllMatch
<1>2. IsFiniteSet(FirstsOf(m)) /\ FirstsOf(m) \subseteq Nat
  <2>1. IsFiniteSet(DOMAIN m) /\ DOMAIN m \subseteq Nat
    BY <1>1, FS_Interval
  <2> QED
    BY <1>1, <2>1, FS_Subset
<1>3. ASSUME NEW i \in FirstsOf(m)
      PROVE  ClusterOf(m, i).cluster_id \in DOMAIN ClusterRank
  <2>1. m[i] \in Materials /\ ~MatchesNone(m[i])
    BY <1>1 DEF AllMatch
  <2>2. ClassifyIntent(m[i]) \in Intents /\ m[i].locale \in DOMAIN LocaleForm
    BY <2>1, IntentIsKnown DEF Materials
  <2>3. ClusterOf(m, i).cluster_id = <<ClassifyIntent(m[i]), LocaleForm[m[i].locale]>>
    BY ClusterIs DEF ClusterValue, ClusterId
  <2>4. DOMAIN ClusterRank = Intents \X {LocaleForm[l] : l \in DOMAIN LocaleForm}
    BY GraphAssumption
  <2> QED
    BY <2>2, <2>3, <2>4
<1>4. \A i \in FirstsOf(m) : ClusterRank[ClusterOf(m, i).cluster_id] \in Nat
  BY <1>3, GraphAssumption
<1> QED
  BY <1>1, <1>2, <1>3, <1>4 DEF IsKeys, DemandKeys

LEMMA DemandClustersAre ==
  ASSUME NEW m, AllMatch(m)
  PROVE  DemandClusters(m) =
           [n \in 1..Cardinality(FirstsOf(m)) |-> ClusterOf(m, SortedBy(DemandKeys(m))[n])]
<1> PICK keys : keys = DemandKeys(m)
  OBVIOUS
<1>1. DOMAIN SortedBy(keys) = 1..Cardinality(FirstsOf(m))
  BY DemandKeysOK DEF SortedBy
<1>2. keys = [i \in FirstsOf(m) |-> ClusterRank[ClusterOf(m, i).cluster_id]]
  BY DEF DemandKeys
<1> QED
  BY <1>1, <1>2 DEF DemandClusters

LEMMA ClusterFields ==
  ASSUME NEW m, NEW f, NEW c, c = ClusterOf(m, f)
  PROVE  /\ c.locale = m[f].locale /\ c.business_value = Cardinality(MembersOf(m, f)) * 10
         /\ c.paraphrases = {m[j].text : j \in MembersOf(m, f)}
         /\ c.provenance_refs = {m[j].provenance_ref : j \in MembersOf(m, f)}
         /\ c.confidence = IF Cardinality(MembersOf(m, f)) < 5 THEN Cardinality(MembersOf(m, f)) ELSE 5
BY ClusterIs DEF ClusterValue, BUSINESS_VALUE_PER_MATERIAL, CONFIDENCE_SATURATION

LEMMA MaterialIsFinite ==
  ASSUME NEW m \in Seq(Materials)
  PROVE  IsFiniteSet(DOMAIN m)
<1>1. DOMAIN m = 1..Len(m) /\ Len(m) \in Nat
  OBVIOUS
<1> QED
  BY <1>1, FS_Interval

(* A cluster holds the material of its group.                              *)
LEMMA CountsInItsGroup ==
  ASSUME NEW m, NEW i \in DOMAIN m, NEW f \in DOMAIN m
  PROVE  CountsIn(m[i], ClusterOf(m, f)) <=> GroupOf(m, i) = GroupOf(m, f)
<1> PICK c : c = ClusterOf(m, f)
  OBVIOUS
<1> PICK M : M = MembersOf(m, f)
  OBVIOUS
<1>1. /\ c.locale = m[f].locale /\ c.paraphrases = {m[j].text : j \in M}
      /\ c.provenance_refs = {m[j].provenance_ref : j \in M}
  BY ClusterFields
<1>2. \A j \in DOMAIN m : j \in M <=> GroupOf(m, j) = GroupOf(m, f)
  BY DEF MembersOf
<1>3. M \subseteq DOMAIN m
  BY DEF MembersOf
<1>4. ASSUME GroupOf(m, i) = GroupOf(m, f)
      PROVE  CountsIn(m[i], c)
  <2>1. i \in M /\ m[i].locale = m[f].locale
    BY <1>2, <1>4, SameGroup
  <2> QED
    BY <1>1, <2>1 DEF CountsIn
<1>5. ASSUME CountsIn(m[i], c)
      PROVE  GroupOf(m, i) = GroupOf(m, f)
  <2>1. PICK j \in M : m[i].text = m[j].text
    BY <1>1, <1>5 DEF CountsIn
  <2>2. ClassifyIntent(m[i]) = ClassifyIntent(m[j])
    BY <2>1 DEF ClassifyIntent
  <2>3. ClassifyIntent(m[j]) = ClassifyIntent(m[f])
    BY <1>2, <1>3, SameGroup
  <2>4. m[i].locale = m[f].locale
    BY <1>1, <1>5 DEF CountsIn
  <2> QED
    BY <2>2, <2>3, <2>4, SameGroup
<1> QED
  BY <1>4, <1>5

(* The clusters are those of the first materials, each once.               *)
IsClustersOf(c, m, order) ==
  /\ Cardinality(FirstsOf(m)) \in Nat /\ DOMAIN c = 1..Cardinality(FirstsOf(m))
  /\ c = [n \in 1..Cardinality(FirstsOf(m)) |-> c[n]]
  /\ order \in [1..Cardinality(FirstsOf(m)) -> FirstsOf(m)]
  /\ \A n \in DOMAIN c : c[n] = ClusterOf(m, order[n]) /\ order[n] \in FirstsOf(m) /\ order[n] \in DOMAIN m
  /\ \A k, l \in DOMAIN c : order[k] = order[l] => k = l
  /\ \A i \in FirstsOf(m) : \E n \in DOMAIN c : order[n] = i

LEMMA ClustersAreOfFirsts ==
  ASSUME NEW m, AllMatch(m)
  PROVE  IsClustersOf(DemandClusters(m), m, SortedBy(DemandKeys(m)))
<1> PICK order : order = SortedBy(DemandKeys(m))
  OBVIOUS
<1> PICK c : c = DemandClusters(m)
  OBVIOUS
<1> PICK N : N = Cardinality(FirstsOf(m))
  OBVIOUS
<1>1. Sorts(order, DemandKeys(m)) /\ DOMAIN DemandKeys(m) = FirstsOf(m) /\ FirstsOf(m) \subseteq DOMAIN m
  BY DemandKeysOK, SortingSorts
<1>2. /\ N \in Nat /\ order \in [1..N -> FirstsOf(m)]
      /\ \A k, l \in 1..N : order[k] = order[l] => k = l
      /\ \A i \in FirstsOf(m) : \E k \in 1..N : order[k] = i
  BY <1>1 DEF Sorts
<1>3. c = [n \in 1..N |-> ClusterOf(m, order[n])]
  BY DemandClustersAre
<1>4. DOMAIN c = 1..N /\ c = [n \in 1..N |-> c[n]] /\ \A n \in 1..N : c[n] = ClusterOf(m, order[n])
  BY <1>3
<1> QED
  BY <1>1, <1>2, <1>4 DEF IsClustersOf

(* What ClustersDivideMaterial says of a graph.                            *)
Divides(c, m) ==
  /\ \A i \in DOMAIN m : Cardinality({n \in DOMAIN c : CountsIn(m[i], c[n])}) = 1
  /\ \A n \in DOMAIN c :
       /\ c[n].business_value = 10 * Cardinality({i \in DOMAIN m : CountsIn(m[i], c[n])})
       /\ QueryClusterOk(c[n])
  /\ UNION {c[n].provenance_refs : n \in DOMAIN c} = {m[i].provenance_ref : i \in DOMAIN m}

LEMMA ClustersDivide ==
  ASSUME NEW m, AllMatch(m), NEW c, NEW order, IsClustersOf(c, m, order)
  PROVE  Divides(c, m)
<1>1. \A n \in DOMAIN c : c[n] = ClusterOf(m, order[n]) /\ order[n] \in FirstsOf(m) /\ order[n] \in DOMAIN m
  BY DEF IsClustersOf
<1>2. \A n \in DOMAIN c : \A i \in DOMAIN m : CountsIn(m[i], c[n]) <=> GroupOf(m, i) = GroupOf(m, order[n])
  BY <1>1, CountsInItsGroup
<1>3. m \in Seq(Materials) /\ DOMAIN m = 1..Len(m) /\ Len(m) \in Nat
  BY DEF AllMatch
<1>4. ASSUME NEW i \in DOMAIN m
      PROVE  \E n \in DOMAIN c : {k \in DOMAIN c : CountsIn(m[i], c[k])} = {n}
  <2>1. PICK f \in FirstsOf(m) : GroupOf(m, f) = GroupOf(m, i)
    BY <1>3, GroupHasAFirst
  <2>2. PICK n \in DOMAIN c : order[n] = f
    BY DEF IsClustersOf
  <2>3. ASSUME NEW k \in DOMAIN c, CountsIn(m[i], c[k])
        PROVE  k = n
    <3>1. GroupOf(m, order[k]) = GroupOf(m, order[n])
      BY <1>2, <2>1, <2>2, <2>3
    <3>2. order[k] = order[n]
      BY <1>1, <1>3, <3>1, FirstIsUnique
    <3> QED
      BY <3>2 DEF IsClustersOf
  <2>4. CountsIn(m[i], c[n])
    BY <1>2, <2>1, <2>2
  <2> QED
    BY <2>3, <2>4
<1>5. ASSUME NEW i \in DOMAIN m
      PROVE  Cardinality({n \in DOMAIN c : CountsIn(m[i], c[n])}) = 1
  BY <1>4, FS_Singleton
<1>6. ASSUME NEW n \in DOMAIN c
      PROVE  /\ c[n].business_value = 10 * Cardinality({i \in DOMAIN m : CountsIn(m[i], c[n])})
             /\ QueryClusterOk(c[n])
  <2> PICK f : f = order[n]
    OBVIOUS
  <2> PICK M : M = MembersOf(m, f)
    OBVIOUS
  <2> PICK size : size = Cardinality(M)
    OBVIOUS
  <2>1. {i \in DOMAIN m : CountsIn(m[i], c[n])} = M
    BY <1>2 DEF MembersOf
  <2>2. order[n] \in M /\ M \subseteq DOMAIN m
    BY <1>1 DEF MembersOf
  <2>3. IsFiniteSet(DOMAIN m)
    BY <1>3, MaterialIsFinite
  <2>4. IsFiniteSet(M)
    BY <2>2, <2>3, FS_Subset
  <2>5. size \in Nat
    BY <2>4, FS_CardinalityType
  <2>6. /\ c[n].business_value = size * 10 /\ c[n].paraphrases = {m[j].text : j \in M}
        /\ c[n].provenance_refs = {m[j].provenance_ref : j \in M}
        /\ c[n].confidence = IF size < 5 THEN size ELSE 5
    <3>1. c[n] = ClusterOf(m, f)
      BY <1>1
    <3> QED
      BY <3>1, ClusterFields
  <2>7. c[n].business_value = 10 * size /\ c[n].business_value >= 0 /\ c[n].confidence \in 0..5
    BY <2>5, <2>6
  <2>8. c[n].paraphrases # {} /\ c[n].provenance_refs # {}
    BY <2>2, <2>6
  <2> QED
    BY <2>1, <2>7, <2>8 DEF QueryClusterOk, CONFIDENCE_SATURATION
<1>7. ASSUME NEW n \in DOMAIN c
      PROVE  c[n].provenance_refs = {m[j].provenance_ref : j \in MembersOf(m, order[n])}
  <2> PICK f : f = order[n]
    OBVIOUS
  <2>1. c[n] = ClusterOf(m, f)
    BY <1>1
  <2> QED
    BY <2>1, ClusterFields
<1>8. UNION {c[n].provenance_refs : n \in DOMAIN c} = {m[i].provenance_ref : i \in DOMAIN m}
  <2>1. ASSUME NEW n \in DOMAIN c, NEW r \in c[n].provenance_refs
        PROVE  r \in {m[i].provenance_ref : i \in DOMAIN m}
    BY <1>7, <2>1 DEF MembersOf
  <2>2. ASSUME NEW i \in DOMAIN m
        PROVE  \E n \in DOMAIN c : m[i].provenance_ref \in c[n].provenance_refs
    <3>1. PICK n \in DOMAIN c : CountsIn(m[i], c[n])
      BY <1>4
    <3> QED
      BY <3>1 DEF CountsIn
  <2> QED
    BY <2>1, <2>2
<1> QED
  BY <1>5, <1>6, <1>8 DEF Divides

(* t holds the material of s, and j of t is p[j] of s.                     *)
Reorders(p, s, t) ==
  /\ p \in [DOMAIN t -> DOMAIN s]
  /\ \A i \in DOMAIN s : \E j \in DOMAIN t : p[j] = i
  /\ \A i, j \in DOMAIN t : p[i] = p[j] => i = j
  /\ \A j \in DOMAIN t : t[j] = s[p[j]]
SameGroupIn(s, i, t, j) == ClassifyIntent(s[i]) = ClassifyIntent(t[j]) /\ s[i].locale = t[j].locale

LEMMA SameGroupSameMembers ==
  ASSUME NEW s, NEW t, NEW p, Reorders(p, s, t), NEW i \in DOMAIN s, NEW j \in DOMAIN t, SameGroupIn(s, i, t, j),
         NEW k \in DOMAIN t
  PROVE  k \in MembersOf(t, j) <=> p[k] \in MembersOf(s, i)
<1>1. p[k] \in DOMAIN s /\ t[k] = s[p[k]]
  BY DEF Reorders
<1>2. k \in MembersOf(t, j) <=> ClassifyIntent(t[k]) = ClassifyIntent(t[j]) /\ t[k].locale = t[j].locale
  BY SameGroup DEF MembersOf
<1>3. p[k] \in MembersOf(s, i) <=> ClassifyIntent(s[p[k]]) = ClassifyIntent(s[i]) /\ s[p[k]].locale = s[i].locale
  BY <1>1, SameGroup DEF MembersOf
<1> QED
  BY <1>1, <1>2, <1>3 DEF SameGroupIn

LEMMA SameGroupSameCluster ==
  ASSUME NEW s, NEW t, IsFiniteSet(DOMAIN t), NEW p, Reorders(p, s, t),
         NEW i \in DOMAIN s, NEW j \in DOMAIN t, SameGroupIn(s, i, t, j)
  PROVE  ClusterOf(s, i) = ClusterOf(t, j)
<1> PICK M : M = MembersOf(s, i)
  OBVIOUS
<1> PICK N : N = MembersOf(t, j)
  OBVIOUS
<1>1. M \subseteq DOMAIN s /\ N \subseteq DOMAIN t
  BY DEF MembersOf
<1>2. \A k \in DOMAIN t : k \in N <=> p[k] \in M
  BY SameGroupSameMembers
<1>3. /\ p \in [DOMAIN t -> DOMAIN s] /\ \A x \in DOMAIN s : \E k \in DOMAIN t : p[k] = x
      /\ \A x, k \in DOMAIN t : p[x] = p[k] => x = k
  BY DEF Reorders
<1>4. \A k \in DOMAIN t : t[k] = s[p[k]]
  BY DEF Reorders
<1>5. Cardinality(M) = Cardinality(N)
  BY <1>1, <1>2, <1>3, RestrictedSameSize
<1>6. \A k \in N : p[k] \in M /\ t[k] = s[p[k]]
  BY <1>1, <1>2, <1>4
<1>7. \A x \in M : \E k \in N : p[k] = x
  BY <1>1, <1>2, <1>3
<1>8. {s[x].text : x \in M} = {t[k].text : k \in N}
  BY <1>6, <1>7
<1>9. {s[x].provenance_ref : x \in M} = {t[k].provenance_ref : k \in N}
  BY <1>6, <1>7
<1>10. ClusterOf(s, i) =
         ClusterValue(ClassifyIntent(s[i]), s[i].locale, Cardinality(M),
                      {s[x].text : x \in M}, {s[x].provenance_ref : x \in M})
  BY ClusterIs
<1>11. ClusterOf(t, j) =
         ClusterValue(ClassifyIntent(t[j]), t[j].locale, Cardinality(N),
                      {t[k].text : k \in N}, {t[k].provenance_ref : k \in N})
  BY ClusterIs
<1> QED
  BY <1>5, <1>8, <1>9, <1>10, <1>11 DEF SameGroupIn

(* The first material of the same group, in either order.                  *)
LEMMA FirstInOther ==
  ASSUME NEW s \in Seq(Materials), NEW t \in Seq(Materials), NEW p, Reorders(p, s, t), NEW j \in FirstsOf(t)
  PROVE  \E i \in FirstsOf(s) : SameGroupIn(s, i, t, j)
<1>1. j \in DOMAIN t
  BY DEF FirstsOf
<1>2. p[j] \in DOMAIN s /\ t[j] = s[p[j]]
  BY <1>1 DEF Reorders
<1>3. PICK i \in FirstsOf(s) : GroupOf(s, i) = GroupOf(s, p[j])
  BY <1>2, GroupHasAFirst
<1>4. ClassifyIntent(s[i]) = ClassifyIntent(s[p[j]]) /\ s[i].locale = s[p[j]].locale
  BY <1>3, SameGroup
<1> QED
  BY <1>2, <1>4 DEF SameGroupIn

LEMMA OtherInFirst ==
  ASSUME NEW s \in Seq(Materials), NEW t \in Seq(Materials), NEW p, Reorders(p, s, t), NEW i \in FirstsOf(s)
  PROVE  \E j \in FirstsOf(t) : SameGroupIn(s, i, t, j)
<1>1. i \in DOMAIN s
  BY DEF FirstsOf
<1>2. PICK k \in DOMAIN t : p[k] = i /\ t[k] = s[i]
  BY <1>1 DEF Reorders
<1>3. PICK j \in FirstsOf(t) : GroupOf(t, j) = GroupOf(t, k)
  BY <1>2, GroupHasAFirst
<1>4. ClassifyIntent(t[j]) = ClassifyIntent(t[k]) /\ t[j].locale = t[k].locale
  BY <1>3, SameGroup
<1> QED
  BY <1>2, <1>4 DEF SameGroupIn

DistinctIds(c) == \A k, l \in DOMAIN c : k # l => c[k].cluster_id # c[l].cluster_id

LEMMA SameMaterialSameClusters ==
  ASSUME NEW s, AllMatch(s), NEW t, AllMatch(t), SameElements(s, t), DistinctIds(DemandClusters(s))
  PROVE  DemandClusters(s) = DemandClusters(t)
<1> PICK a : a = DemandKeys(s)
  OBVIOUS
<1> PICK b : b = DemandKeys(t)
  OBVIOUS
<1> PICK x : x = SortedBy(a)
  OBVIOUS
<1> PICK y : y = SortedBy(b)
  OBVIOUS
<1> PICK F : F = FirstsOf(s)
  OBVIOUS
<1> PICK G : G = FirstsOf(t)
  OBVIOUS
<1> PICK c : c = DemandClusters(s)
  OBVIOUS
<1> PICK d : d = DemandClusters(t)
  OBVIOUS
<1>1. PICK p : Reorders(p, s, t)
  BY DEF SameElements, Reorders
<1>2. s \in Seq(Materials) /\ t \in Seq(Materials) /\ IsFiniteSet(DOMAIN t)
  BY MaterialIsFinite DEF AllMatch
<1>3. /\ IsKeys(a) /\ DOMAIN a = F /\ F \subseteq DOMAIN s
      /\ \A i \in F : /\ ClusterOf(s, i).cluster_id \in DOMAIN ClusterRank
                      /\ a[i] = ClusterRank[ClusterOf(s, i).cluster_id]
  BY DemandKeysOK
<1>4. /\ IsKeys(b) /\ DOMAIN b = G /\ G \subseteq DOMAIN t
      /\ \A j \in G : /\ ClusterOf(t, j).cluster_id \in DOMAIN ClusterRank
                      /\ b[j] = ClusterRank[ClusterOf(t, j).cluster_id]
  BY DemandKeysOK
<1>5. \A i \in F : \A j \in G : SameGroupIn(s, i, t, j) => ClusterOf(s, i) = ClusterOf(t, j)
  BY <1>1, <1>2, <1>3, <1>4, SameGroupSameCluster
<1>6. IsClustersOf(c, s, x) /\ IsClustersOf(d, t, y)
  BY ClustersAreOfFirsts
<1>7. ASSUME NEW i \in F, NEW j \in F, a[i] = a[j]
      PROVE  i = j
  <2>1. ClusterOf(s, i).cluster_id = ClusterOf(s, j).cluster_id
    BY <1>3, <1>7, GraphAssumption
  <2>2. PICK k \in DOMAIN c : x[k] = i
    BY <1>6 DEF IsClustersOf
  <2>3. PICK l \in DOMAIN c : x[l] = j
    BY <1>6 DEF IsClustersOf
  <2>4. c[k].cluster_id = c[l].cluster_id
    BY <1>6, <2>1, <2>2, <2>3 DEF IsClustersOf
  <2> QED
    BY <2>2, <2>3, <2>4 DEF DistinctIds
<1>8. PICK q : q = [j \in G |-> CHOOSE i \in F : SameGroupIn(s, i, t, j)]
  OBVIOUS
<1>9. ASSUME NEW j \in G
      PROVE  q[j] \in F /\ SameGroupIn(s, q[j], t, j)
  <2>1. \E i \in F : SameGroupIn(s, i, t, j)
    BY <1>1, <1>2, FirstInOther
  <2> QED
    BY <1>8, <2>1
<1>10. q \in [G -> F]
  BY <1>8, <1>9
<1>11. \A j \in G : ClusterOf(s, q[j]) = ClusterOf(t, j)
  BY <1>5, <1>9
<1>12. \A j \in G : b[j] = a[q[j]]
  BY <1>3, <1>4, <1>9, <1>11
<1>13. ASSUME NEW i \in F
       PROVE  \E j \in G : q[j] = i
  <2>1. PICK j \in G : SameGroupIn(s, i, t, j)
    BY <1>1, <1>2, OtherInFirst
  <2>2. GroupOf(s, i) = GroupOf(s, q[j])
    BY <1>9, <2>1, SameGroup DEF SameGroupIn
  <2>3. i = q[j]
    BY <1>2, <1>9, <2>2, FirstIsUnique
  <2> QED
    BY <2>3
<1>14. ASSUME NEW j \in G, NEW k \in G, q[j] = q[k]
       PROVE  j = k
  <2>1. GroupOf(t, j) = GroupOf(t, k)
    BY <1>9, <1>14, SameGroup DEF SameGroupIn
  <2> QED
    BY <1>2, <2>1, FirstIsUnique
<1>15. Rearranges(q, a, b)
  BY <1>3, <1>4, <1>10, <1>12, <1>13, <1>14 DEF Rearranges
<1>16. Sorts(x, a) /\ Sorts(y, b)
  BY <1>3, <1>4, SortingSorts
<1>17. Cardinality(F) = Cardinality(G) /\ \A n \in 1..Cardinality(F) : a[x[n]] = b[y[n]]
  BY <1>3, <1>4, <1>15, <1>16, SortedKeysAgree
<1>18. DOMAIN c = 1..Cardinality(F) /\ DOMAIN d = 1..Cardinality(F)
  BY <1>6, <1>17 DEF IsClustersOf
<1>19. ASSUME NEW n \in 1..Cardinality(F)
       PROVE  c[n] = d[n]
  <2>1. x[n] \in F /\ y[n] \in G /\ c[n] = ClusterOf(s, x[n]) /\ d[n] = ClusterOf(t, y[n])
    BY <1>6, <1>18 DEF IsClustersOf
  <2>2. a[x[n]] = a[q[y[n]]]
    BY <1>12, <1>17, <2>1
  <2>3. x[n] = q[y[n]]
    BY <1>7, <1>9, <2>1, <2>2
  <2> QED
    BY <1>11, <2>1, <2>3
<1>20. c = [n \in 1..Cardinality(F) |-> c[n]]
  BY <1>6 DEF IsClustersOf
<1>21. d = [n \in 1..Cardinality(F) |-> d[n]]
  BY <1>6, <1>17 DEF IsClustersOf
<1>22. c = d
  BY <1>19, <1>20, <1>21
<1> QED
  BY <1>22

-----------------------------------------------------------------------------
(* What a builder makes of a request it accepts.                           *)

RequestOk(req) ==
  \/ req.kind = "entity" /\ req.input \in Seq(AliasGroups)
  \/ req.kind = "demand" /\ req.input \in Seq(Materials)
GraphOf(req) == IF req.kind = "entity" THEN BuildEntityGraph(req) ELSE BuildDemandGraph(req)
GraphHead(req, g) == g.ok /\ g.tenant = req.tenant /\ g.project = req.project
IsEntityGraph(req, g) ==
  /\ req.kind = "entity" /\ req.input \in Seq(AliasGroups) /\ GraphHead(req, g)
  /\ \A i \in DOMAIN req.input : NormalizeAliases(req.input[i]) # {} /\ OwnershipRule(req.input[i])
  /\ NoDuplicateEntityId(req.input) /\ NoCrossGroupAliasConflict(req.input)
  /\ g.nodes = EntitiesOf(req.input)
  /\ g.graph_version = <<"entity", req.tenant, req.project, SortedEntities(req.input)>>
IsDemandGraph(req, g) ==
  /\ req.kind = "demand" /\ AllMatch(req.input) /\ req.input # <<>> /\ GraphHead(req, g)
  /\ g.nodes = DemandClusters(req.input)
  /\ g.graph_version = <<"demand", req.tenant, req.project, DemandClusters(req.input)>>
  /\ g.provenance_ref = <<"sha256", {req.input[i].provenance_ref : i \in DOMAIN req.input}>>
IsGraph(req, g) == IsEntityGraph(req, g) \/ IsDemandGraph(req, g)

LEMMA EntityGraphIs ==
  ASSUME NEW req, req.kind = "entity", req.input \in Seq(AliasGroups), NEW g, g = BuildEntityGraph(req), g.ok
  PROVE  IsEntityGraph(req, g)
<1> PICK groups : groups = req.input
  OBVIOUS
<1> PICK v : v = EntityGraphVersion(req.tenant, req.project, groups)
  OBVIOUS
<1> PICK r : r = ResolveEntities(req)
  OBVIOUS
<1>1. r.ok
  BY DEF BuildEntityGraph
<1>2. /\ \A i \in DOMAIN groups : NormalizeAliases(groups[i]) # {} /\ OwnershipRule(groups[i])
      /\ NoDuplicateEntityId(groups) /\ NoCrossGroupAliasConflict(groups)
      /\ r = [ok |-> TRUE, entities |-> [i \in DOMAIN groups |-> Identity(groups[i])], graph_version |-> v]
  BY <1>1 DEF ResolveEntities, Refusal
<1>3. g = [ok |-> TRUE, tenant |-> req.tenant, project |-> req.project, graph_version |-> v,
           provenance_ref |-> <<"given", req.provenance>>, nodes |-> EntitiesOf(groups)]
  BY <1>1, <1>2 DEF BuildEntityGraph, EntitiesOf
<1>4. v = <<"entity", req.tenant, req.project, SortedEntities(groups)>>
  BY EntityVersionIs
<1> QED
  BY <1>2, <1>3, <1>4 DEF IsEntityGraph, GraphHead

LEMMA DemandGraphIs ==
  ASSUME NEW req, req.kind = "demand", req.input \in Seq(Materials), NEW g, g = BuildDemandGraph(req), g.ok
  PROVE  IsDemandGraph(req, g)
<1> PICK m : m = req.input
  OBVIOUS
<1> PICK c : c = DemandClusters(m)
  OBVIOUS
<1>1. /\ m # <<>> /\ \A i \in DOMAIN m : ~MatchesNone(m[i])
      /\ g = [ok |-> TRUE, tenant |-> req.tenant, project |-> req.project,
              graph_version |-> DemandGraphVersion(req.tenant, req.project, c),
              provenance_ref |-> ComputeProvenanceRef(m), nodes |-> c]
  BY DEF BuildDemandGraph, Refusal
<1>2. AllMatch(m)
  BY <1>1 DEF AllMatch
<1> QED
  BY <1>1, <1>2 DEF IsDemandGraph, GraphHead, DemandGraphVersion, ComputeProvenanceRef

LEMMA GraphIs ==
  ASSUME NEW req, RequestOk(req), NEW g, g = GraphOf(req), g.ok
  PROVE  IsGraph(req, g)
<1>1. CASE req.kind = "entity"
  <2>1. req.input \in Seq(AliasGroups) /\ g = BuildEntityGraph(req)
    BY <1>1 DEF RequestOk, GraphOf
  <2> QED
    BY <2>1, <1>1, EntityGraphIs DEF IsGraph
<1>2. CASE req.kind # "entity"
  <2>1. req.kind = "demand" /\ req.input \in Seq(Materials) /\ g = BuildDemandGraph(req)
    BY <1>2 DEF RequestOk, GraphOf
  <2> QED
    BY <2>1, DemandGraphIs DEF IsGraph
<1> QED
  BY <1>1, <1>2

LEMMA DemandGraphDivides ==
  ASSUME NEW req, NEW g, IsDemandGraph(req, g)
  PROVE  Divides(g.nodes, req.input) /\ Len(g.nodes) \in Nat /\ Len(g.nodes) >= 1
<1> PICK m : m = req.input
  OBVIOUS
<1> PICK c : c = DemandClusters(m)
  OBVIOUS
<1> PICK order : order = SortedBy(DemandKeys(m))
  OBVIOUS
<1> PICK N : N = Cardinality(FirstsOf(m))
  OBVIOUS
<1>1. AllMatch(m) /\ m # <<>> /\ g.nodes = c
  BY DEF IsDemandGraph
<1>2. IsClustersOf(c, m, order)
  BY <1>1, ClustersAreOfFirsts
<1>3. Divides(c, m)
  BY <1>1, <1>2, ClustersDivide
<1>4. N \in Nat /\ c = [n \in 1..N |-> c[n]] /\ DOMAIN c = 1..N
  BY <1>2 DEF IsClustersOf
<1>5. Len(c) = N
  BY <1>4, FunctionTuple
<1>6. 1 \in DOMAIN m /\ m \in Seq(Materials) /\ DOMAIN m = 1..Len(m) /\ Len(m) \in Nat
  BY <1>1 DEF AllMatch
<1>7. PICK f \in FirstsOf(m) : GroupOf(m, f) = GroupOf(m, 1)
  BY <1>6, GroupHasAFirst
<1>8. PICK n \in DOMAIN c : order[n] = f
  BY <1>2 DEF IsClustersOf
<1>9. N >= 1
  BY <1>4, <1>8
<1> QED
  BY <1>1, <1>3, <1>4, <1>5, <1>9

LEMMA GraphIsOfItsKind ==
  ASSUME NEW req, NEW g, IsGraph(req, g)
  PROVE  /\ req.kind \in {"entity", "demand"} /\ g.ok
         /\ req.kind = "entity" => IsEntityGraph(req, g)
         /\ req.kind = "demand" => IsDemandGraph(req, g)
         /\ g.tenant = req.tenant /\ g.project = req.project
BY DEF IsGraph, IsEntityGraph, IsDemandGraph, GraphHead

-----------------------------------------------------------------------------
(* Two graphs: what their versions say of their content.                   *)

SameVersion(ra, ga, rb, gb) ==
  /\ (/\ ra.kind = rb.kind /\ ra.tenant = rb.tenant /\ ra.project = rb.project
      /\ SameElements(ra.input, rb.input)
      /\ ra.kind = "demand" => DistinctIds(ga.nodes))
     => ga.graph_version = gb.graph_version
  /\ ga.graph_version = gb.graph_version => SameElements(ga.nodes, gb.nodes)

LEMMA EntityVersionsName ==
  ASSUME NEW ra, NEW ga, NEW rb, NEW gb, IsEntityGraph(ra, ga), IsEntityGraph(rb, gb)
  PROVE  SameVersion(ra, ga, rb, gb)
<1> PICK s : s = ra.input
  OBVIOUS
<1> PICK t : t = rb.input
  OBVIOUS
<1>1. /\ s \in Seq(AliasGroups) /\ t \in Seq(AliasGroups) /\ NoDuplicateEntityId(s)
      /\ ga.nodes = EntitiesOf(s) /\ gb.nodes = EntitiesOf(t)
  BY DEF IsEntityGraph
<1>2. /\ ga.graph_version = <<"entity", ra.tenant, ra.project, SortedEntities(s)>>
      /\ gb.graph_version = <<"entity", rb.tenant, rb.project, SortedEntities(t)>>
  BY DEF IsEntityGraph
<1>3. SameElements(s, t) => SortedEntities(s) = SortedEntities(t)
  BY <1>1, SameGroupsSameOrder
<1>4. SortedEntities(s) = SortedEntities(t) => SameElements(EntitiesOf(s), EntitiesOf(t))
  BY <1>1, SameOrderSameEntities
<1>5. ga.graph_version = gb.graph_version => SortedEntities(s) = SortedEntities(t)
  BY <1>2
<1> QED
  BY <1>1, <1>2, <1>3, <1>4, <1>5 DEF SameVersion

LEMMA DemandVersionsName ==
  ASSUME NEW ra, NEW ga, NEW rb, NEW gb, IsDemandGraph(ra, ga), IsDemandGraph(rb, gb)
  PROVE  SameVersion(ra, ga, rb, gb)
<1> PICK s : s = ra.input
  OBVIOUS
<1> PICK t : t = rb.input
  OBVIOUS
<1> PICK c : c = DemandClusters(s)
  OBVIOUS
<1> PICK d : d = DemandClusters(t)
  OBVIOUS
<1>1. AllMatch(s) /\ AllMatch(t) /\ ga.nodes = c /\ gb.nodes = d /\ ra.kind = "demand"
  BY DEF IsDemandGraph
<1>2. /\ ga.graph_version = <<"demand", ra.tenant, ra.project, c>>
      /\ gb.graph_version = <<"demand", rb.tenant, rb.project, d>>
  BY DEF IsDemandGraph
<1>3. SameElements(s, t) /\ DistinctIds(c) => c = d
  BY <1>1, SameMaterialSameClusters
<1>4. ga.graph_version = gb.graph_version => c = d
  BY <1>2
<1>5. c = d => SameElements(c, d)
  BY SameElementsRefl
<1> QED
  BY <1>1, <1>2, <1>3, <1>4, <1>5 DEF SameVersion

LEMMA KindsHaveOtherVersions ==
  ASSUME NEW ra, NEW ga, NEW rb, NEW gb, ra.kind # rb.kind, ga.graph_version # gb.graph_version
  PROVE  SameVersion(ra, ga, rb, gb)
BY DEF SameVersion

LEMMA VersionsName ==
  ASSUME NEW ra, NEW ga, NEW rb, NEW gb, IsGraph(ra, ga), IsGraph(rb, gb)
  PROVE  SameVersion(ra, ga, rb, gb)
<1>1. CASE IsEntityGraph(ra, ga) /\ IsEntityGraph(rb, gb)
  BY <1>1, EntityVersionsName
<1>2. CASE IsDemandGraph(ra, ga) /\ IsDemandGraph(rb, gb)
  BY <1>2, DemandVersionsName
<1>3. CASE IsEntityGraph(ra, ga) /\ IsDemandGraph(rb, gb)
  <2>1. /\ ra.kind = "entity" /\ rb.kind = "demand"
        /\ ga.graph_version[1] = "entity" /\ gb.graph_version[1] = "demand"
    BY <1>3 DEF IsEntityGraph, IsDemandGraph
  <2> QED
    BY <2>1, KindsHaveOtherVersions
<1>4. CASE IsDemandGraph(ra, ga) /\ IsEntityGraph(rb, gb)
  <2>1. /\ ra.kind = "demand" /\ rb.kind = "entity"
        /\ ga.graph_version[1] = "demand" /\ gb.graph_version[1] = "entity"
    BY <1>4 DEF IsEntityGraph, IsDemandGraph
  <2> QED
    BY <2>1, KindsHaveOtherVersions
<1> QED
  BY <1>1, <1>2, <1>3, <1>4 DEF IsGraph

LEMMA SameVersionSamePayload ==
  ASSUME NEW ra, NEW ga, NEW rb, NEW gb, IsDemandGraph(ra, ga), IsDemandGraph(rb, gb),
         ga.graph_version = gb.graph_version
  PROVE  DemandGraphPayload(ga) = DemandGraphPayload(gb)
<1> PICK s : s = ra.input
  OBVIOUS
<1> PICK t : t = rb.input
  OBVIOUS
<1> PICK c : c = DemandClusters(s)
  OBVIOUS
<1> PICK d : d = DemandClusters(t)
  OBVIOUS
<1> PICK u : u = {s[i].provenance_ref : i \in DOMAIN s}
  OBVIOUS
<1> PICK w : w = {t[i].provenance_ref : i \in DOMAIN t}
  OBVIOUS
<1>1. /\ ga.graph_version = <<"demand", ra.tenant, ra.project, c>>
      /\ ga.nodes = c /\ ga.project = ra.project /\ ga.provenance_ref = <<"sha256", u>>
  BY DEF IsDemandGraph, GraphHead
<1>2. /\ gb.graph_version = <<"demand", rb.tenant, rb.project, d>>
      /\ gb.nodes = d /\ gb.project = rb.project /\ gb.provenance_ref = <<"sha256", w>>
  BY DEF IsDemandGraph, GraphHead
<1> PICK x : x = ra.tenant
  OBVIOUS
<1> PICK y : y = rb.tenant
  OBVIOUS
<1> PICK q : q = ra.project
  OBVIOUS
<1> PICK r : r = rb.project
  OBVIOUS
<1>3. <<"demand", x, q, c>> = <<"demand", y, r, d>>
  BY <1>1, <1>2
<1>4. c = d /\ q = r
  BY <1>3, Zenon
<1>5. Divides(c, s)
  BY <1>1, DemandGraphDivides
<1>6. Divides(c, t)
  BY <1>2, <1>4, DemandGraphDivides
<1>7. UNION {c[n].provenance_refs : n \in DOMAIN c} = u
  BY <1>5 DEF Divides
<1>8. UNION {c[n].provenance_refs : n \in DOMAIN c} = w
  BY <1>6 DEF Divides
<1>9. u = w
  BY <1>7, <1>8
<1> QED
  BY <1>1, <1>2, <1>4, <1>9 DEF DemandGraphPayload

-----------------------------------------------------------------------------
(* The builders: a stored graph and an announced one are the graph some    *)
(* builder made of its request.                                            *)

GraphPlaces == {"start", "put", "announce", "refused", "cross_tenant", "done"}
BuildsOk(f) ==
  /\ f = [b \in Builders |-> f[b]] /\ DOMAIN f = Builders
  /\ \A b \in Builders : f[b] = [req |-> f[b].req, at |-> f[b].at, graph |-> f[b].graph]
HasGraph(x) == x.at \notin {"start", "refused"}
BuildOk(x) == /\ RequestOk(x.req) /\ x.at \in GraphPlaces
              /\ HasGraph(x) => IsGraph(x.req, x.graph)
GraphEvent(x) ==
  IF x.req.kind = "entity"
  THEN [kind |-> "entity", tenant |-> x.graph.tenant, payload |-> EntityGraphPayload(x.graph),
        key |-> <<x.graph.tenant, x.graph.project, x.graph.graph_version>>]
  ELSE [kind |-> "demand", tenant |-> x.graph.tenant, payload |-> DemandGraphPayload(x.graph),
        key |-> DemandIdempotencyKey(x.graph, x.req.run)]
StoredFrom(f, k, g) ==
  \E b \in Builders : /\ HasGraph(f[b]) /\ g = f[b].graph
                      /\ k = <<f[b].req.kind, f[b].graph.tenant, f[b].graph.project>>
AnnouncedFrom(f, e) == \E b \in Builders : HasGraph(f[b]) /\ e = GraphEvent(f[b])
AllBuildsOk(f) == \A b \in Builders : BuildOk(f[b])
GraphInv ==
  /\ BuildsOk(build) /\ AllBuildsOk(build)
  /\ \A k \in DOMAIN graph_store : StoredFrom(build, k, graph_store[k])
  /\ \A e \in graph_events : AnnouncedFrom(build, e)

LEMMA GraphInit_Inv == GraphInit => GraphInv
<1> SUFFICES ASSUME GraphInit PROVE GraphInv
  OBVIOUS
<1>1. PICK r \in GraphRequests :
        build = [b \in Builders |-> [req |-> r[b], at |-> "start", graph |-> Refusal("none")]]
  BY DEF GraphInit
<1>2. \A b \in Builders : RequestOk(r[b])
  BY GraphAssumption DEF RequestOk
<1>3. \A b \in Builders : build[b].req = r[b] /\ build[b].at = "start"
  BY <1>1
<1>4. \A b \in Builders : BuildOk(build[b])
  BY <1>2, <1>3 DEF BuildOk, HasGraph, GraphPlaces
<1>5. BuildsOk(build)
  BY <1>1 DEF BuildsOk
<1>6. DOMAIN graph_store = {} /\ graph_events = {}
  BY EmptyTuple DEF GraphInit
<1> QED
  BY <1>4, <1>5, <1>6 DEF GraphInv, AllBuildsOk

(* A step of one builder moves it on and leaves the others.                *)
Moves(f, h, b, at, graph) ==
  /\ \A c \in Builders : c # b => h[c] = f[c]
  /\ h[b] = [req |-> f[b].req, at |-> at, graph |-> graph]

LEMMA MovesOn ==
  ASSUME NEW f, BuildsOk(f), NEW b \in Builders, NEW h, NEW at, h = [f EXCEPT ![b].at = at]
  PROVE  BuildsOk(h) /\ Moves(f, h, b, at, f[b].graph)
<1>1. f[b] = [req |-> f[b].req, at |-> f[b].at, graph |-> f[b].graph]
  BY DEF BuildsOk
<1>2. h = [c \in Builders |-> IF c = b THEN [f[b] EXCEPT !.at = at] ELSE f[c]]
  BY DEF BuildsOk
<1>3. [f[b] EXCEPT !.at = at] = [req |-> f[b].req, at |-> at, graph |-> f[b].graph]
  BY <1>1
<1>4. /\ h[b] = [req |-> f[b].req, at |-> at, graph |-> f[b].graph]
      /\ \A c \in Builders : c # b => h[c] = f[c]
  BY <1>2, <1>3
<1>5. \A c \in Builders : h[c] = [req |-> h[c].req, at |-> h[c].at, graph |-> h[c].graph]
  BY <1>4 DEF BuildsOk
<1>6. h = [c \in Builders |-> h[c]] /\ DOMAIN h = Builders
  BY <1>2
<1> QED
  BY <1>4, <1>5, <1>6 DEF BuildsOk, Moves

LEMMA MovesWithGraph ==
  ASSUME NEW f, BuildsOk(f), NEW b \in Builders, NEW h, NEW at, NEW g, h = [f EXCEPT ![b].graph = g, ![b].at = at]
  PROVE  BuildsOk(h) /\ Moves(f, h, b, at, g)
<1> PICK e : e = [f EXCEPT ![b].graph = g]
  OBVIOUS
<1>1. f[b] = [req |-> f[b].req, at |-> f[b].at, graph |-> f[b].graph]
  BY DEF BuildsOk
<1>2. e = [c \in Builders |-> IF c = b THEN [f[b] EXCEPT !.graph = g] ELSE f[c]]
  BY DEF BuildsOk
<1>3. [f[b] EXCEPT !.graph = g] = [req |-> f[b].req, at |-> f[b].at, graph |-> g]
  BY <1>1
<1>4. /\ e[b] = [req |-> f[b].req, at |-> f[b].at, graph |-> g]
      /\ \A c \in Builders : c # b => e[c] = f[c]
  BY <1>2, <1>3
<1>5. \A c \in Builders : e[c] = [req |-> e[c].req, at |-> e[c].at, graph |-> e[c].graph]
  BY <1>4 DEF BuildsOk
<1>6. e = [c \in Builders |-> e[c]] /\ DOMAIN e = Builders
  BY <1>2
<1>7. BuildsOk(e) /\ h = [e EXCEPT ![b].at = at]
  BY <1>5, <1>6 DEF BuildsOk
<1>8. BuildsOk(h) /\ Moves(e, h, b, at, e[b].graph)
  BY <1>7, MovesOn
<1>9. e[b].req = f[b].req /\ e[b].graph = g
  BY <1>4
<1>10. h[b] = [req |-> e[b].req, at |-> at, graph |-> e[b].graph] /\ \A c \in Builders : c # b => h[c] = e[c]
  BY <1>8 DEF Moves
<1> QED
  BY <1>4, <1>8, <1>9, <1>10 DEF Moves

KeepsGraph(f, b, at, g) == HasGraph(f[b]) => at \notin {"start", "refused"} /\ g = f[b].graph
Keeps(f, h) ==
  /\ \A k, x : StoredFrom(f, k, x) => StoredFrom(h, k, x)
  /\ \A e : AnnouncedFrom(f, e) => AnnouncedFrom(h, e)
FitsGraph(f, b, at, g) == at \in GraphPlaces /\ (at \notin {"start", "refused"} => IsGraph(f[b].req, g))

(* What was stored or announced stays so when a builder moves on.          *)
LEMMA MovesKeep ==
  ASSUME NEW f, NEW h, NEW b \in Builders, NEW at, NEW g, Moves(f, h, b, at, g),
         KeepsGraph(f, b, at, g)
  PROVE  Keeps(f, h)
<1>1. ASSUME NEW c \in Builders, HasGraph(f[c])
      PROVE  HasGraph(h[c]) /\ h[c].graph = f[c].graph /\ h[c].req = f[c].req
  <2>1. CASE c = b
    BY <1>1, <2>1 DEF Moves, HasGraph, KeepsGraph
  <2>2. CASE c # b
    BY <1>1, <2>2 DEF Moves
  <2> QED
    BY <2>1, <2>2
<1>2. ASSUME NEW c \in Builders, HasGraph(f[c])
      PROVE  GraphEvent(h[c]) = GraphEvent(f[c])
  BY <1>1, <1>2 DEF GraphEvent
<1>3. ASSUME NEW k, NEW x, StoredFrom(f, k, x)
      PROVE  StoredFrom(h, k, x)
  <2>1. PICK c \in Builders : /\ HasGraph(f[c]) /\ x = f[c].graph
                              /\ k = <<f[c].req.kind, f[c].graph.tenant, f[c].graph.project>>
    BY <1>3 DEF StoredFrom
  <2>2. /\ HasGraph(h[c]) /\ x = h[c].graph
        /\ k = <<h[c].req.kind, h[c].graph.tenant, h[c].graph.project>>
    BY <1>1, <2>1
  <2> QED
    BY <2>2 DEF StoredFrom
<1>4. ASSUME NEW e, AnnouncedFrom(f, e)
      PROVE  AnnouncedFrom(h, e)
  <2>1. PICK c \in Builders : HasGraph(f[c]) /\ e = GraphEvent(f[c])
    BY <1>4 DEF AnnouncedFrom
  <2>2. HasGraph(h[c]) /\ e = GraphEvent(h[c])
    BY <1>1, <1>2, <2>1
  <2> QED
    BY <2>2 DEF AnnouncedFrom
<1> QED
  BY <1>3, <1>4 DEF Keeps

(* A builder that had its graph keeps it and stays well formed.            *)
LEMMA MovesOk ==
  ASSUME NEW f, NEW h, NEW b \in Builders, NEW at, NEW g, Moves(f, h, b, at, g),
         AllBuildsOk(f), FitsGraph(f, b, at, g)
  PROVE  AllBuildsOk(h)
<1>1. h[b].req = f[b].req /\ h[b].at = at /\ h[b].graph = g
  BY DEF Moves
<1>2. BuildOk(h[b])
  BY <1>1 DEF AllBuildsOk, BuildOk, HasGraph, FitsGraph
<1>3. ASSUME NEW c \in Builders, c # b
      PROVE  BuildOk(h[c])
  BY <1>3 DEF Moves, AllBuildsOk
<1> QED
  BY <1>2, <1>3 DEF AllBuildsOk

LEMMA BuildGraph_Inv ==
  ASSUME GraphInv, NEW b \in Builders, BuildGraph(b)
  PROVE  GraphInv'
<1> PICK g : g = GraphOf(build[b].req)
  OBVIOUS
<1> PICK at : at = IF g.ok THEN "put" ELSE "refused"
  OBVIOUS
<1>1. /\ build[b].at = "start" /\ build' = [build EXCEPT ![b].graph = g, ![b].at = at]
      /\ graph_store' = graph_store /\ graph_events' = graph_events
  BY DEF BuildGraph, GraphOf
<1>2. BuildsOk(build') /\ Moves(build, build', b, at, g)
  BY <1>1, MovesWithGraph DEF GraphInv
<1>3. ~HasGraph(build[b]) /\ RequestOk(build[b].req)
  BY <1>1 DEF HasGraph, GraphInv, AllBuildsOk, BuildOk
<1>4. FitsGraph(build, b, at, g)
  <2>1. g.ok => IsGraph(build[b].req, g)
    BY <1>3, GraphIs
  <2> QED
    BY <2>1 DEF FitsGraph, GraphPlaces
<1>5. KeepsGraph(build, b, at, g)
  BY <1>3 DEF KeepsGraph
<1>6. AllBuildsOk(build') /\ Keeps(build, build')
  BY <1>2, <1>4, <1>5, MovesOk, MovesKeep DEF GraphInv
<1> QED
  BY <1>1, <1>2, <1>6 DEF GraphInv, Keeps

(* A builder that has its graph moves on: it keeps the graph.              *)
LEMMA MovesOnWithGraph ==
  ASSUME GraphInv, NEW b \in Builders, HasGraph(build[b]), NEW at \in GraphPlaces \ {"start", "refused"},
         build' = [build EXCEPT ![b].at = at]
  PROVE  /\ BuildsOk(build') /\ AllBuildsOk(build') /\ Keeps(build, build')
         /\ HasGraph(build'[b]) /\ build'[b].graph = build[b].graph /\ build'[b].req = build[b].req
<1> PICK g : g = build[b].graph
  OBVIOUS
<1>1. BuildsOk(build') /\ Moves(build, build', b, at, g)
  BY MovesOn DEF GraphInv
<1>2. FitsGraph(build, b, at, g) /\ KeepsGraph(build, b, at, g)
  BY DEF GraphInv, AllBuildsOk, BuildOk, FitsGraph, KeepsGraph
<1>3. AllBuildsOk(build') /\ Keeps(build, build')
  BY <1>1, <1>2, MovesOk, MovesKeep DEF GraphInv
<1>4. build'[b] = [req |-> build[b].req, at |-> at, graph |-> g]
  BY <1>1 DEF Moves
<1>5. build'[b].req = build[b].req /\ build'[b].at = at /\ build'[b].graph = g
  BY <1>4
<1>6. HasGraph(build'[b])
  BY <1>5 DEF HasGraph
<1> QED
  BY <1>1, <1>3, <1>5, <1>6

LEMMA PutGraph_Inv ==
  ASSUME GraphInv, NEW b \in Builders, NEW kind, PutGraph(b, kind)
  PROVE  GraphInv'
<1> PICK g : g = build[b].graph
  OBVIOUS
<1> PICK as : as = build[b].req.store_as
  OBVIOUS
<1>1. build[b].at = "put" /\ build[b].req.kind = kind /\ graph_events' = graph_events
  BY DEF PutGraph
<1>2. HasGraph(build[b])
  BY <1>1 DEF HasGraph
<1>3. CASE as.tenant # g.tenant \/ as.project # g.project
  <2>1. build' = [build EXCEPT ![b].at = "cross_tenant"] /\ graph_store' = graph_store
    BY <1>3 DEF PutGraph
  <2>2. "cross_tenant" \in GraphPlaces \ {"start", "refused"}
    BY DEF GraphPlaces
  <2>3. /\ BuildsOk(build') /\ AllBuildsOk(build') /\ Keeps(build, build')
    BY <1>2, <2>1, <2>2, MovesOnWithGraph
  <2> QED
    BY <1>1, <2>1, <2>3 DEF GraphInv, Keeps
<1>4. CASE ~(as.tenant # g.tenant \/ as.project # g.project)
  <2> PICK key : key = <<kind, g.tenant, g.project>>
    OBVIOUS
  <2>1. build' = [build EXCEPT ![b].at = "announce"] /\ Keep(key, g)
    BY <1>4 DEF PutGraph
  <2>2. "announce" \in GraphPlaces \ {"start", "refused"}
    BY DEF GraphPlaces
  <2>3. /\ BuildsOk(build') /\ AllBuildsOk(build') /\ Keeps(build, build')
        /\ HasGraph(build'[b]) /\ build'[b].graph = g /\ build'[b].req = build[b].req
    BY <1>2, <2>1, <2>2, MovesOnWithGraph
  <2>4. key = <<build'[b].req.kind, build'[b].graph.tenant, build'[b].graph.project>>
    BY <1>1, <2>3
  <2>5. StoredFrom(build', key, g)
    BY <2>3, <2>4 DEF StoredFrom
  <2>6. /\ DOMAIN graph_store' = DOMAIN graph_store \cup {key} /\ graph_store'[key] = g
        /\ \A k \in DOMAIN graph_store : k # key => graph_store'[k] = graph_store[k]
    BY <2>1 DEF Keep
  <2>7. ASSUME NEW k \in DOMAIN graph_store'
        PROVE  StoredFrom(build', k, graph_store'[k])
    <3>1. CASE k = key
      BY <3>1, <2>5, <2>6
    <3>2. CASE k # key
      BY <3>2, <2>3, <2>6 DEF GraphInv, Keeps
    <3> QED
      BY <3>1, <3>2
  <2> QED
    BY <1>1, <2>3, <2>7 DEF GraphInv, Keeps
<1> QED
  BY <1>3, <1>4

LEMMA Announce_Inv ==
  ASSUME GraphInv, NEW b \in Builders, AnnounceEntityGraph(b) \/ EmitDemandGraphVersioned(b)
  PROVE  GraphInv'
<1> PICK e : e = GraphEvent(build[b])
  OBVIOUS
<1>1. /\ build[b].at = "announce" /\ build' = [build EXCEPT ![b].at = "done"]
      /\ graph_store' = graph_store /\ graph_events' = graph_events \cup {e}
  <2>1. CASE AnnounceEntityGraph(b)
    BY <2>1 DEF AnnounceEntityGraph, GraphEvent
  <2>2. CASE EmitDemandGraphVersioned(b)
    BY <2>2 DEF EmitDemandGraphVersioned, GraphEvent
  <2> QED
    BY <2>1, <2>2
<1>2. HasGraph(build[b])
  BY <1>1 DEF HasGraph
<1>3. "done" \in GraphPlaces \ {"start", "refused"}
  BY DEF GraphPlaces
<1>4. /\ BuildsOk(build') /\ AllBuildsOk(build') /\ Keeps(build, build')
  BY <1>1, <1>2, <1>3, MovesOnWithGraph
<1>5. AnnouncedFrom(build, e)
  BY <1>2 DEF AnnouncedFrom
<1> QED
  BY <1>1, <1>4, <1>5 DEF GraphInv, Keeps

LEMMA GraphNext_Inv == GraphInv /\ [GraphNext]_graphVars => GraphInv'
<1> SUFFICES ASSUME GraphInv, [GraphNext]_graphVars PROVE GraphInv'
  OBVIOUS
<1>1. CASE UNCHANGED graphVars
  BY <1>1 DEF graphVars, GraphInv
<1>2. CASE GraphNext
  <2>1. PICK b \in Builders :
          \/ BuildGraph(b) \/ PutEntityGraph(b) \/ PutDemandGraph(b)
          \/ AnnounceEntityGraph(b) \/ EmitDemandGraphVersioned(b)
    BY <1>2 DEF GraphNext
  <2>2. CASE BuildGraph(b)
    BY <2>2, BuildGraph_Inv
  <2>3. CASE PutEntityGraph(b) \/ PutDemandGraph(b)
    BY <2>3, PutGraph_Inv DEF PutEntityGraph, PutDemandGraph
  <2>4. CASE AnnounceEntityGraph(b) \/ EmitDemandGraphVersioned(b)
    BY <2>4, Announce_Inv
  <2> QED
    BY <2>1, <2>2, <2>3, <2>4
<1> QED
  BY <1>1, <1>2

-----------------------------------------------------------------------------
(* The property follows from the invariant, part by part.                  *)

LEMMA GraphTypeHolds == GraphInv => GraphTypeOK
<1> SUFFICES ASSUME GraphInv PROVE GraphTypeOK
  OBVIOUS
<1>1. \A b \in Builders :
        build[b].at \in {"start", "put", "announce", "refused", "cross_tenant", "done"}
  BY DEF GraphInv, AllBuildsOk, BuildOk, GraphPlaces
<1>2. ASSUME NEW k \in DOMAIN graph_store
      PROVE  \E g \in {GetEntityGraph(k[2], k[3]), GetDemandGraph(k[2], k[3])} :
               g.ok /\ g = graph_store[k] /\ <<g.tenant, g.project>> = <<k[2], k[3]>>
  <2> PICK g : g = graph_store[k]
    OBVIOUS
  <2>1. PICK b \in Builders : /\ HasGraph(build[b]) /\ g = build[b].graph
                              /\ k = <<build[b].req.kind, g.tenant, g.project>>
    BY DEF GraphInv, StoredFrom
  <2>2. IsGraph(build[b].req, g)
    BY <2>1 DEF GraphInv, AllBuildsOk, BuildOk
  <2>3. build[b].req.kind \in {"entity", "demand"} /\ g.ok
    BY <2>2, GraphIsOfItsKind
  <2>4. k[2] = g.tenant /\ k[3] = g.project
    BY <2>1
  <2>5. CASE build[b].req.kind = "entity"
    <3>1. k = <<"entity", k[2], k[3]>>
      BY <2>1, <2>4, <2>5
    <3>2. GetEntityGraph(k[2], k[3]) = g
      BY <3>1 DEF GetEntityGraph
    <3> QED
      BY <3>2, <2>3, <2>4
  <2>6. CASE build[b].req.kind = "demand"
    <3>1. k = <<"demand", k[2], k[3]>>
      BY <2>1, <2>4, <2>6
    <3>2. GetDemandGraph(k[2], k[3]) = g
      BY <3>1 DEF GetDemandGraph
    <3> QED
      BY <3>2, <2>3, <2>4
  <2> QED
    BY <2>3, <2>5, <2>6
<1>3. ASSUME NEW e \in graph_events
      PROVE  e.payload.count >= IF e.kind = "demand" THEN 1 ELSE 0
  <2>1. PICK b \in Builders : HasGraph(build[b]) /\ e = GraphEvent(build[b])
    BY DEF GraphInv, AnnouncedFrom
  <2> PICK g : g = build[b].graph
    OBVIOUS
  <2> PICK req : req = build[b].req
    OBVIOUS
  <2>2. IsGraph(req, g)
    BY <2>1 DEF GraphInv, AllBuildsOk, BuildOk
  <2>3. req.kind \in {"entity", "demand"}
    BY <2>2, GraphIsOfItsKind
  <2>4. CASE req.kind = "entity"
    <3>1. IsEntityGraph(req, g)
      BY <2>2, <2>4, GraphIsOfItsKind
    <3>2. req.input \in Seq(AliasGroups) /\ g.nodes = EntitiesOf(req.input)
      BY <3>1 DEF IsEntityGraph
    <3>3. Len(req.input) \in Nat /\ DOMAIN req.input = 1..Len(req.input)
      BY <3>2
    <3>4. Len(g.nodes) = Len(req.input)
      <4> PICK n : n = Len(req.input)
        OBVIOUS
      <4> PICK s : s = g.nodes
        OBVIOUS
      <4>1. n \in Nat /\ s = [i \in 1..n |-> s[i]]
        BY <3>2, <3>3 DEF EntitiesOf
      <4> QED
        BY <4>1, FunctionTuple
    <3>5. e.kind = "entity" /\ e.payload.count = Len(g.nodes)
      BY <2>1, <2>4 DEF GraphEvent, EntityGraphPayload
    <3> QED
      BY <3>3, <3>4, <3>5
  <2>5. CASE req.kind = "demand"
    <3>1. IsDemandGraph(req, g)
      BY <2>2, <2>5, GraphIsOfItsKind
    <3>2. Len(g.nodes) \in Nat /\ Len(g.nodes) >= 1
      BY <3>1, DemandGraphDivides
    <3>3. e.kind = "demand" /\ e.payload.count = Len(g.nodes)
      BY <2>1, <2>5 DEF GraphEvent, DemandGraphPayload
    <3> QED
      BY <3>2, <3>3
  <2> QED
    BY <2>3, <2>4, <2>5
<1> QED
  BY <1>1, <1>2, <1>3 DEF GraphTypeOK

LEMMA BuiltIsGraph ==
  ASSUME GraphInv, NEW b \in Builders, Built(b)
  PROVE  /\ IsGraph(build[b].req, build[b].graph)
         /\ build[b].req.kind = "entity" => IsEntityGraph(build[b].req, build[b].graph)
         /\ build[b].req.kind = "demand" => IsDemandGraph(build[b].req, build[b].graph)
<1>1. IsGraph(build[b].req, build[b].graph)
  BY DEF GraphInv, AllBuildsOk, BuildOk, HasGraph, Built
<1> QED
  BY <1>1, GraphIsOfItsKind

LEMMA VersionNamesContentHolds == GraphInv => VersionNamesContent
<1> SUFFICES ASSUME GraphInv, NEW a \in Builders, NEW b \in Builders, Built(a), Built(b)
             PROVE  LET ra == build[a].req  rb == build[b].req  ga == build[a].graph  gb == build[b].graph
                        NodesDiffer(g) ==
                          \A i, j \in DOMAIN g.nodes : i # j => g.nodes[i].cluster_id # g.nodes[j].cluster_id IN
                    /\ /\ <<ra.kind, ra.tenant, ra.project>> = <<rb.kind, rb.tenant, rb.project>>
                       /\ SameElements(ra.input, rb.input)
                       /\ ra.kind = "demand" => NodesDiffer(ga)
                       => ga.graph_version = gb.graph_version
                    /\ ga.graph_version = gb.graph_version => SameElements(ga.nodes, gb.nodes)
  BY DEF VersionNamesContent
<1> PICK ra : ra = build[a].req
  OBVIOUS
<1> PICK rb : rb = build[b].req
  OBVIOUS
<1> PICK ga : ga = build[a].graph
  OBVIOUS
<1> PICK gb : gb = build[b].graph
  OBVIOUS
<1>1. IsGraph(ra, ga) /\ IsGraph(rb, gb)
  BY BuiltIsGraph
<1>2. SameVersion(ra, ga, rb, gb)
  BY <1>1, VersionsName
<1>3. (/\ <<ra.kind, ra.tenant, ra.project>> = <<rb.kind, rb.tenant, rb.project>>
       /\ SameElements(ra.input, rb.input)
       /\ ra.kind = "demand" =>
            \A i, j \in DOMAIN ga.nodes : i # j => ga.nodes[i].cluster_id # ga.nodes[j].cluster_id)
      => ga.graph_version = gb.graph_version
  BY <1>2 DEF SameVersion, DistinctIds
<1>4. ga.graph_version = gb.graph_version => SameElements(ga.nodes, gb.nodes)
  BY <1>2 DEF SameVersion
<1> QED
  BY <1>3, <1>4

LEMMA ClustersDivideMaterialHolds == GraphInv => ClustersDivideMaterial
<1> SUFFICES ASSUME GraphInv, NEW b \in Builders, Built(b), build[b].req.kind = "demand"
             PROVE  /\ Divides(build[b].graph.nodes, build[b].req.input)
                    /\ build[b].graph.provenance_ref[2] =
                         {build[b].req.input[i].provenance_ref : i \in DOMAIN build[b].req.input}
  BY DEF ClustersDivideMaterial, Divides
<1> PICK req : req = build[b].req
  OBVIOUS
<1> PICK g : g = build[b].graph
  OBVIOUS
<1>1. IsDemandGraph(req, g)
  BY BuiltIsGraph
<1>2. Divides(g.nodes, req.input)
  BY <1>1, DemandGraphDivides
<1>3. g.provenance_ref = <<"sha256", {req.input[i].provenance_ref : i \in DOMAIN req.input}>>
  BY <1>1 DEF IsDemandGraph
<1> QED
  BY <1>2, <1>3

LEMMA AliasHasOneEntityHolds == GraphInv => AliasHasOneEntity
<1> SUFFICES ASSUME GraphInv, NEW b \in Builders, Built(b), build[b].req.kind = "entity",
                    NEW i \in DOMAIN build[b].req.input, NEW j \in DOMAIN build[b].req.input
             PROVE  LET g == build[b].req.input IN
                    /\ NormalizeAliases(g[i]) # {}
                    /\ (\E x \in g[i].aliases, y \in g[j].aliases : AliasForm[x] # "" /\ AliasForm[x] = AliasForm[y]) =>
                         build[b].graph.nodes[i] = build[b].graph.nodes[j]
                    /\ ~(g[i].entity_type = "competitor" /\ g[i].is_owned)
  BY DEF AliasHasOneEntity
<1> PICK req : req = build[b].req
  OBVIOUS
<1> PICK gr : gr = build[b].graph
  OBVIOUS
<1> PICK g : g = req.input
  OBVIOUS
<1>1. IsEntityGraph(req, gr)
  BY BuiltIsGraph
<1>2. /\ NormalizeAliases(g[i]) # {} /\ OwnershipRule(g[i])
      /\ NoDuplicateEntityId(g) /\ NoCrossGroupAliasConflict(g) /\ gr.nodes = EntitiesOf(g)
  BY <1>1 DEF IsEntityGraph
<1>3. ASSUME NEW x \in g[i].aliases, NEW y \in g[j].aliases, AliasForm[x] # "", AliasForm[x] = AliasForm[y]
      PROVE  gr.nodes[i] = gr.nodes[j]
  <2>1. AliasForm[x] \in NormalizeAliases(g[i]) /\ AliasForm[x] \in NormalizeAliases(g[j])
    BY <1>3 DEF NormalizeAliases
  <2>2. g[i].entity_id = g[j].entity_id
    BY <1>2, <2>1 DEF NoCrossGroupAliasConflict
  <2>3. Identity(g[i]) = Identity(g[j])
    BY <1>2, <2>2, SameIdSameIdentity
  <2> QED
    BY <1>2, <2>3 DEF EntitiesOf
<1>4. ~(g[i].entity_type = "competitor" /\ g[i].is_owned)
  BY <1>2 DEF OwnershipRule
<1> QED
  BY <1>2, <1>3, <1>4

LEMMA SameKeySamePayloadHolds == GraphInv => SameKeySamePayload
<1> SUFFICES ASSUME GraphInv, NEW e \in graph_events, NEW f \in graph_events,
                    e.kind = "demand", f.kind = "demand", e.key = f.key
             PROVE  e.payload = f.payload
  BY DEF SameKeySamePayload
<1>1. PICK a \in Builders : HasGraph(build[a]) /\ e = GraphEvent(build[a])
  BY DEF GraphInv, AnnouncedFrom
<1>2. PICK b \in Builders : HasGraph(build[b]) /\ f = GraphEvent(build[b])
  BY DEF GraphInv, AnnouncedFrom
<1> PICK ra : ra = build[a].req
  OBVIOUS
<1> PICK rb : rb = build[b].req
  OBVIOUS
<1> PICK ga : ga = build[a].graph
  OBVIOUS
<1> PICK gb : gb = build[b].graph
  OBVIOUS
<1>3. /\ ra.kind # "entity" /\ e.payload = DemandGraphPayload(ga)
      /\ e.key = <<ga.tenant, ra.run, ga.project, ga.graph_version>>
  BY <1>1 DEF GraphEvent, DemandIdempotencyKey
<1>4. /\ rb.kind # "entity" /\ f.payload = DemandGraphPayload(gb)
      /\ f.key = <<gb.tenant, rb.run, gb.project, gb.graph_version>>
  BY <1>2 DEF GraphEvent, DemandIdempotencyKey
<1>5. ga.graph_version = gb.graph_version
  <2>1. <<ga.tenant, ra.run, ga.project, ga.graph_version>> = <<gb.tenant, rb.run, gb.project, gb.graph_version>>
    BY <1>3, <1>4
  <2> QED
    BY <2>1, Zenon
<1>6. Built(a) /\ Built(b)
  BY <1>1, <1>2 DEF Built, HasGraph
<1>7. IsDemandGraph(ra, ga) /\ IsDemandGraph(rb, gb)
  BY <1>3, <1>4, <1>6, BuiltIsGraph, GraphIsOfItsKind
<1> QED
  BY <1>3, <1>4, <1>5, <1>7, SameVersionSamePayload

(* The graph builders, for any requests, aliases, texts and id orders: a   *)
(* version names the content and not the order it came in, clusters divide *)
(* the material, an alias has one entity, a stored graph lies under its    *)
(* own tenant and project, and one idempotency key stands for one payload  *)
(* (compute_graph_version, build_demand_graph, resolve_entities, put).     *)
THEOREM GraphsAreAlwaysVersioned == GraphSpec => []GraphsAreVersioned
<1>1. GraphInv => GraphsAreVersioned
  BY GraphTypeHolds, VersionNamesContentHolds, ClustersDivideMaterialHolds, AliasHasOneEntityHolds,
     SameKeySamePayloadHolds DEF GraphsAreVersioned
<1> QED
  BY <1>1, GraphInit_Inv, GraphNext_Inv, PTL DEF GraphSpec
=============================================================================
