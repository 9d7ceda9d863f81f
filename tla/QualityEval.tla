---------------------------- MODULE QualityEval ----------------------------
(***************************************************************************)
(* quality-eval-service: the release gates.  A patch is evaluated by every *)
(* gate, each a function of what a tool reported about the patch; one gate *)
(* that fails forbids the promotion, and the job of the evaluation ends    *)
(* succeeded or failed.  A patch changes between evaluations: defects come *)
(* in and are repaired, and every evaluation has a job of its own.         *)
(***************************************************************************)
EXTENDS JobKinds, FiniteSets, Integers

CONSTANTS
  CleanPatches,    \* reports on patches nothing is wrong with
  Defects,         \* names of what may be wrong with a patch
  MaxDefects       \* bound: defects at a time

(* Reports: counts, and sets of what was found.                            *)
Counts == [total : Nat, passed : Nat, failed : Nat]
Reports ==
  [artifact_base : {"approved", "other"}, build_ok : BOOLEAN, unit : Counts, integration : Counts,
   lint : Nat, types : Nat, contracts_ok : BOOLEAN, leaks : Nat, injections : Nat, anomalies : Nat,
   outside : SUBSET STRING, changed : SUBSET STRING, lines : Nat, covered : Nat,
   secrets : Nat, drifted : Nat, broken_links : Nat, redirect_errors : Nat, blocked : Nat,
   rendering_ok : BOOLEAN, syntax_errors : Nat, fabricated : Nat, parity_ok : BOOLEAN,
   claims : SUBSET [id : STRING, evidence : BOOLEAN], a11y : Nat, baseline : Nat, observed : Nat,
   threshold : Nat, hunks : SUBSET [id : STRING, unit : STRING]]

ALGORITHM_11_1_GATE_IDS ==
  {"build", "tests", "link_route", "crawlability", "structured_data", "content_fidelity",
   "security", "accessibility", "performance", "diff_rationality"}
ADDITIONAL_GATE_IDS ==
  {"commit_coherence", "schema_contract", "lint", "typecheck", "unit_tests", "integration_tests",
   "boundary", "changed_line_coverage", "forbidden_file", "secret_scan", "generated_code_drift"}
ALL_GATE_IDS == ALGORITHM_11_1_GATE_IDS \cup ADDITIONAL_GATE_IDS

APPROVED_UNITS == {"u"}
FORBIDDEN_PATHS == {"docs/specs/a", "deploy/a", ".claude/settings.json"}

(* The gates: how many failures they report, none for a pass.              *)
OneIf(bad) == IF bad THEN 1 ELSE 0
GateCommitCoherence(r) == OneIf(r.artifact_base # "approved")
GateBuild(r) == OneIf(~r.build_ok)
AllPassed(t) == t.failed = 0 /\ t.total = t.passed
CombinedTestOutcomeUnit(r) == r.unit      \* mutant: one suite for both
CombinedTestOutcome(r) ==
  [total |-> r.unit.total + r.integration.total, passed |-> r.unit.passed + r.integration.passed,
   failed |-> r.unit.failed + r.integration.failed]
TestGate(t) == OneIf(~AllPassed(t))
GateLint(r) == OneIf(r.lint # 0)
GateTypecheck(r) == OneIf(r.types # 0)
GateSchemaContract(r) == OneIf(~r.contracts_ok)
GateSecurity(r) == OneIf(r.leaks + r.injections + r.anomalies # 0)
GateBoundary(r) == OneIf(r.outside # {})
THRESHOLD_PCT == 90
CoveredPctIs(r, pct) == IF r.lines = 0 THEN 100 >= pct ELSE 100 * r.covered >= pct * r.lines
GateChangedLineCoverage(r) == OneIf(~CoveredPctIs(r, THRESHOLD_PCT))
GateForbiddenFile(r) == OneIf(r.changed \cap FORBIDDEN_PATHS # {})
GateSecretScan(r) == OneIf(r.secrets # 0)
GateGeneratedCodeDrift(r) == OneIf(r.drifted # 0)
GateLinkRoute(r) == OneIf(r.broken_links + r.redirect_errors # 0)
GateCrawlability(r) == OneIf(r.blocked # 0 \/ ~r.rendering_ok)
GateStructuredData(r) == OneIf(r.syntax_errors + r.fabricated # 0 \/ ~r.parity_ok)
GateContentFidelity(r) == Cardinality({c \in r.claims : ~c.evidence})
GateAccessibility(r) == OneIf(r.a11y # 0)
RegressionWithin(r) == 100 * (r.observed - r.baseline) <= r.threshold * r.baseline
GatePerformance(r) == OneIf(~RegressionWithin(r))
GateDiffRationality(r) == Cardinality({h \in r.hunks : h.unit \notin APPROVED_UNITS})

(* _run_all_gates: the failures of every gate.                             *)
RunAllGates(r) ==
  [g \in ALL_GATE_IDS |->
     CASE g = "commit_coherence" -> GateCommitCoherence(r)
       [] g = "build" -> GateBuild(r)
       [] g = "tests" -> TestGate(CombinedTestOutcome(r))
       [] g = "unit_tests" -> TestGate(r.unit)
       [] g = "integration_tests" -> TestGate(r.integration)
       [] g = "lint" -> GateLint(r)
       [] g = "typecheck" -> GateTypecheck(r)
       [] g = "schema_contract" -> GateSchemaContract(r)
       [] g = "security" -> GateSecurity(r)
       [] g = "boundary" -> GateBoundary(r)
       [] g = "changed_line_coverage" -> GateChangedLineCoverage(r)
       [] g = "forbidden_file" -> GateForbiddenFile(r)
       [] g = "secret_scan" -> GateSecretScan(r)
       [] g = "generated_code_drift" -> GateGeneratedCodeDrift(r)
       [] g = "link_route" -> GateLinkRoute(r)
       [] g = "crawlability" -> GateCrawlability(r)
       [] g = "structured_data" -> GateStructuredData(r)
       [] g = "content_fidelity" -> GateContentFidelity(r)
       [] g = "accessibility" -> GateAccessibility(r)
       [] g = "performance" -> GatePerformance(r)
       [] OTHER -> GateDiffRationality(r)]

(* One verification result, one event and one audit record of a gate.      *)
BuildVerificationResult(failures) == IF failures = 0 THEN "passed" ELSE "failed"
BuildGateEventPayload(failures) ==
  IF failures = 0 THEN "quality.gate.passed.v1" ELSE "quality.gate.failed.v1"
BuildGateAuditRecord(failures) ==
  [status |-> IF failures = 0 THEN "passed" ELSE "failed", errors |-> failures]

(* What may be wrong with a patch, and the gates that are there to find it. *)
Meant ==
  [base |-> {"commit_coherence"}, build |-> {"build"}, unit_fails |-> {"tests", "unit_tests"},
   unit_skipped |-> {"tests", "unit_tests"}, integration_fails |-> {"tests", "integration_tests"},
   lint |-> {"lint"}, types |-> {"typecheck"}, contracts |-> {"schema_contract"},
   leak |-> {"security"}, injection |-> {"security"}, anomaly |-> {"security"}, outside |-> {"boundary"},
   coverage |-> {"changed_line_coverage"}, protected |-> {"forbidden_file"},
   secret |-> {"secret_scan"}, drift |-> {"generated_code_drift"}, link |-> {"link_route"},
   redirect |-> {"link_route"}, blocked |-> {"crawlability"}, rendering |-> {"crawlability"},
   syntax |-> {"structured_data"}, fabricated |-> {"structured_data"},
   parity |-> {"structured_data"}, claim |-> {"content_fidelity"},
   a11y |-> {"accessibility"}, slow |-> {"performance"}, stray_hunk |-> {"diff_rationality"},
   no_unit |-> {"diff_rationality"}]

(* Nothing is wrong: that no test ran or no line changed is nothing wrong, *)
(* nor are a coverage and a regression at their thresholds.                *)
IsClean(p) ==
  /\ p \in Reports /\ IsFiniteSet(p.claims) /\ IsFiniteSet(p.hunks)
  /\ p.artifact_base = "approved" /\ p.build_ok /\ AllPassed(p.unit) /\ AllPassed(p.integration)
  /\ \A f \in {"lint", "types", "leaks", "injections", "anomalies", "secrets", "drifted",
               "broken_links", "redirect_errors", "blocked", "syntax_errors", "fabricated", "a11y"} :
       p[f] = 0
  /\ p.contracts_ok /\ p.rendering_ok /\ p.parity_ok
  /\ p.outside = {} /\ p.changed \cap FORBIDDEN_PATHS = {}
  /\ p.covered <= p.lines /\ 100 * p.covered >= THRESHOLD_PCT * p.lines
  /\ p.baseline > 0 /\ 100 * (p.observed - p.baseline) <= p.threshold * p.baseline
  /\ \A c \in p.claims : c.evidence
  /\ \A h \in p.hunks : h.unit \in APPROVED_UNITS
ASSUME QualityAssumption == (\A p \in CleanPatches : IsClean(p)) /\ Defects \subseteq DOMAIN Meant

(* What the tools report once the clean patch p has the defects D.  A test *)
(* that fails or is skipped is a new one, and what is not covered is just  *)
(* too much, as is a regression.                                           *)
Only(bad, x) == IF bad THEN {x} ELSE {}
ReportsOf(p, D) ==
  [artifact_base |-> IF "base" \in D THEN "other" ELSE p.artifact_base,
   build_ok |-> p.build_ok /\ "build" \notin D,
   unit |-> [total |-> p.unit.total + OneIf("unit_fails" \in D) + OneIf("unit_skipped" \in D),
             passed |-> p.unit.passed, failed |-> p.unit.failed + OneIf("unit_fails" \in D)],
   integration |-> [total |-> p.integration.total + OneIf("integration_fails" \in D),
                    passed |-> p.integration.passed,
                    failed |-> p.integration.failed + OneIf("integration_fails" \in D)],
   lint |-> OneIf("lint" \in D), types |-> OneIf("types" \in D),
   contracts_ok |-> p.contracts_ok /\ "contracts" \notin D,
   leaks |-> OneIf("leak" \in D), injections |-> OneIf("injection" \in D),
   anomalies |-> OneIf("anomaly" \in D),
   outside |-> Only("outside" \in D, "lib/b"),
   changed |-> p.changed \cup Only("outside" \in D, "lib/b") \cup Only("protected" \in D, "docs/specs/a"),
   lines |-> IF "coverage" \in D THEN (100 * p.covered) \div THRESHOLD_PCT + 1 ELSE p.lines,
   covered |-> p.covered, secrets |-> OneIf("secret" \in D), drifted |-> OneIf("drift" \in D),
   broken_links |-> OneIf("link" \in D), redirect_errors |-> OneIf("redirect" \in D),
   blocked |-> OneIf("blocked" \in D), rendering_ok |-> p.rendering_ok /\ "rendering" \notin D,
   syntax_errors |-> OneIf("syntax" \in D), fabricated |-> OneIf("fabricated" \in D),
   parity_ok |-> p.parity_ok /\ "parity" \notin D,
   claims |-> p.claims \cup Only("claim" \in D, [id |-> "d", evidence |-> FALSE]),
   a11y |-> OneIf("a11y" \in D), baseline |-> p.baseline,
   observed |-> IF "slow" \in D THEN p.baseline + (p.threshold * p.baseline) \div 100 + 1 ELSE p.observed,
   threshold |-> p.threshold,
   hunks |-> p.hunks \cup Only("stray_hunk" \in D, [id |-> "i", unit |-> "w"])
                     \cup Only("no_unit" \in D, [id |-> "j", unit |-> "none"])]

VARIABLES
  patch,           \* what the tools said of the patch while it was clean
  defects,         \* what is wrong with it
  verdict,         \* failures of each gate in the last evaluation
  evaluated,       \* the defects the patch had then
  qualityJob       \* the status of that evaluation's job
qualityVars == <<patch, defects, verdict, evaluated, qualityJob>>

NotEvaluated == [g \in ALL_GATE_IDS |-> 0]

QualityTypeOK ==
  /\ patch \in CleanPatches /\ defects \subseteq Defects /\ evaluated \subseteq Defects
  /\ verdict \in [ALL_GATE_IDS -> Nat] /\ qualityJob \in JobStatus

QualityInit ==
  /\ patch \in CleanPatches /\ defects = {} /\ evaluated = {}
  /\ verdict = NotEvaluated /\ qualityJob = "pending"

(* The patch is reworked: a defect comes in, or it starts over.  It is     *)
(* then evaluated in a new job.                                            *)
NewJob == verdict' = NotEvaluated /\ evaluated' = {} /\ qualityJob' = "pending"
ComeIn(d) ==
  /\ d \notin defects /\ Cardinality(defects) < MaxDefects
  /\ defects' = defects \cup {d} /\ UNCHANGED patch
  /\ NewJob
StartOver ==
  /\ defects # {}
  /\ defects' = {} /\ patch' \in CleanPatches
  /\ NewJob

ForbidsPromotion(failures) ==
  \E g \in ALL_GATE_IDS : BuildVerificationResult(failures[g]) = "failed"
NextJobStatus(failures) == IF ForbidsPromotion(failures) THEN "failed" ELSE "succeeded"

(* run_quality_evaluation in a new job, and advance_job_status.            *)
RunQualityEvaluation ==
  LET failures == RunAllGates(ReportsOf(patch, defects)) IN
  /\ verdict' = failures /\ evaluated' = defects
  /\ qualityJob = "pending" /\ qualityJob' = AdvanceTo(NextJobStatus(failures))
  /\ UNCHANGED <<patch, defects>>

QualityNext == (\E d \in Defects : ComeIn(d)) \/ StartOver \/ RunQualityEvaluation
QualitySpec == QualityInit /\ [][QualityNext]_qualityVars

(* A job succeeds just for a patch without a defect: defects hide neither  *)
(* behind one another nor behind a boundary (no test ran, no line changed, *)
(* coverage and regression at the threshold), and every gate blocks.       *)
PromotedIsClean ==
  /\ qualityJob = "succeeded" => evaluated = {}
  /\ qualityJob = "failed" => evaluated # {}

(* The gates that fail are those that are there for the defects, and the   *)
(* results, the events and the audit records tell the same story.          *)
FailuresAreExplained ==
  qualityJob # "pending" =>
    /\ {g \in ALL_GATE_IDS : BuildGateEventPayload(verdict[g]) = "quality.gate.failed.v1"}
         = UNION {Meant[d] : d \in evaluated}
    /\ \A g \in ALL_GATE_IDS : BuildGateAuditRecord(verdict[g]).status = BuildVerificationResult(verdict[g])

(* What is promoted has no defect, and every defect has its failed gate.   *)
QualityIsEarned ==
  /\ QualityTypeOK
  /\ PromotedIsClean
  /\ FailuresAreExplained
=============================================================================
