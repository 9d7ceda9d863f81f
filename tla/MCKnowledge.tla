---------------------------- MODULE MCKnowledge ----------------------------
(***************************************************************************)
(* Instances for TLC of the components that observe and collect: browser   *)
(* pool, schedules, site discovery, repository intake, the claim and       *)
(* experiment ledgers, the intelligence graphs, the analytics and the      *)
(* vector store, and the way of an outcome to the skill bank.  They share  *)
(* no state, so a behaviour exercises one of them and the others rest.     *)
(***************************************************************************)
EXTENDS BrowserPool, ObservationSchedule, AnalyticsStore, VectorStore, RepositoryIntake,
        ClaimLedger, SiteDiscovery, IntelligenceGraphs, OutcomeLearning, TLC

VARIABLE part
Parts == {"pool", "schedule", "capture", "crawl", "analytics", "vector", "intake", "claims", "graphs",
          "experiments", "learning"}

-----------------------------------------------------------------------------
(* Three runs compete for two sessions; a fourth names another engine.     *)
MCRunTenant == [r1 |-> "a", r2 |-> "b", r3 |-> "a", r4 |-> "a"]
MCRunQueries == [r1 |-> <<"p", "q">>, r2 |-> <<"p">>, r3 |-> <<"x">>, r4 |-> <<"p">>]
MCRunEngine == [r \in DOMAIN MCRunTenant |-> IF r = "r4" THEN "other-engine" ELSE "chatgpt-search"]

(* Cells, windows and policies around every limit; a day has ten seconds.  *)
MCPolicy(per_day, gap, lanes) ==
  [max_per_day |-> per_day, max_concurrent |-> lanes, min_gap |-> gap, base |-> 2, factor |-> 2, cap |-> 5,
   max_retries |-> 2, ratio_cap |-> 1]
MCRequest(repeats, length, p) ==
  [cell |-> [complete |-> TRUE, repeat_count |-> repeats, query_cluster_ref |-> "q", locale |-> "ko"],
   window |-> [start |-> 2, end |-> 2 + length], policy |-> p, provenance |-> "fixture", token |-> "none"]
QuietRequest == MCRequest(1, 20, MCPolicy(3, 1, 2))
MCScheduleRequests ==
  {MCRequest(n, length, MCPolicy(per_day, gap, lanes)) :
     n \in 0..3, length \in {0, 3, 8, 16, 20, 31, 32}, per_day \in {1, 3, 4, 20}, gap \in {1, 4}, lanes \in 1..2}
  \cup {[QuietRequest EXCEPT !.provenance = "production", !.token = t] : t \in {"none", "human-approval:x"}}
  \cup {[QuietRequest EXCEPT !.cell.locale = "fr"], [QuietRequest EXCEPT !.cell.complete = FALSE],
        [QuietRequest EXCEPT !.policy.cap = 1], [QuietRequest EXCEPT !.policy.max_per_day = 0]}
MCFixtures == {<<"q", "ko">>}
MCCaptureBudgets == {[max_queries |-> 2, max_retries |-> r, deadline |-> d] : r \in 0..1, d \in 1..2}

(* Crawls of one site: routes open, closed, unknown, badly referenced.     *)
MCRobots == [open |-> "allowed", shut |-> "disallowed", bad |-> "allowed", lost |-> "unknown"]
MCEvidence == [open |-> "ref", shut |-> "ref", bad |-> "malformed", lost |-> "none"]
MCCrawl(tenant, routes, as) ==
  [tenant |-> tenant, site |-> "s", routes |-> routes, store_as |-> as,
   budget |-> [max_routes |-> 3, max_retries |-> 1, deadline |-> 1]]
QuietCrawls == [k1 |-> MCCrawl("a", <<>>, "a"), k2 |-> MCCrawl("a", <<>>, "a")]
MCCrawlPlans ==
  {QuietCrawls,
   [k1 |-> MCCrawl("a", <<"open", "shut", "open">>, "a"), k2 |-> MCCrawl("a", <<"shut">>, "a")],
   [k1 |-> MCCrawl("a", <<"shut", "bad">>, "a"), k2 |-> MCCrawl("b", <<"open">>, "a")],
   [k1 |-> MCCrawl("a", <<"open", "lost">>, "a"),
    k2 |-> MCCrawl("a", <<"open", "open", "open", "open">>, "a")]}

-----------------------------------------------------------------------------
(* Appends of the analytics store.                                         *)
ARow(table, tenant, key, id, at) ==
  [table |-> table, tenant |-> tenant, key |-> key, id |-> id, at |-> at, fault |-> NoFault, query |-> "q",
   tries |-> 1]
Twice(r) == [r EXCEPT !.tries = 2]
Load(what, key, token, p) == [append |-> what, key |-> key, token |-> token, plan |-> p]
Three(a, b, c) == [w1 |-> a, w2 |-> b, w3 |-> c]
Cit(tenant, key, id, at) == ARow("citations", tenant, key, id, at)
Obs(tenant, key, id, at) == ARow("observations", tenant, key, id, at)
Out(tenant, key, id, at) == ARow("measurement_outcome", tenant, key, id, at)
QuietLoad == Load(Three(NoAppend, NoAppend, NoAppend), "s", TRUE, <<>>)
MCAnalyticsLoads ==
  {QuietLoad}
  \cup {Load(Three(Cit("a", "k", 2, 1), Cit("a", "k", 1, 1), Cit("a", "l", 3, 2)), "s", token, <<>>) : token \in BOOLEAN}
  \cup {Load(Three(Twice(Cit("a", "k", 2, 1)), Twice(Cit("a", "k", 1, 1)), NoAppend), "s", token, <<>>) : token \in BOOLEAN}
  \cup {Load(Three(Twice(Cit("a", "k", 2, 1)), Cit("a", x, 1, y), NoAppend), "s", TRUE, <<>>) :
          x \in {"k", "l"}, y \in {1, 3}}
  \cup {Load(Three(Obs("a", "k", 1, 1), Obs("b", "k", 1, 1), Obs("a", "m", 2, 0)), key, TRUE, <<>>) : key \in {"s", NoKey}}
  \cup {Load(Three(Out("a", "k", 2, 1), Out("a", "k", 1, 1), Out("a", "l", 3, 2)), "s", TRUE, <<>>)}
  \cup {Load(Three(Twice(Out("a", "k", 1, 1)), NoAppend, NoAppend), "s", token, p) :
          token \in BOOLEAN, p \in {<<"up">>, <<"up", "up">>, <<"up", "down">>}}
  \cup UNION {{Load(Three([ARow(t, "a", "k", 1, 1) EXCEPT !.fault = f], NoAppend, NoAppend), "s", TRUE, <<>>) :
                 f \in FaultsOf(t)} : t \in TABLE_NAMES}
MCTimeRanges == {<<0, 4>>, <<0, 2>>, <<1, 4>>}

(* Programs of the vector store: one client alone, and three that race.    *)
VRec(id, hash) == [tenant |-> "a", collection |-> "docs", record_id |-> id, hash |-> hash, dimension |-> 1]
VUpsert(recs) == [op |-> "upsert", tenant |-> "a", records |-> recs]
VDelete(ids) == [op |-> "delete", tenant |-> "a", collection |-> "docs", ids |-> ids]
VInvalidate(hash, by) == [op |-> "invalidate", tenant |-> "a", collection |-> "docs", hash |-> hash, by |-> by]
SoloCalls ==
  {VUpsert(<<VRec("x", "h1")>>), VUpsert(<<VRec("x", "h2"), VRec("y", "h1")>>), VDelete({"x"}),
   VInvalidate("h1", "h2"), VInvalidate("h2", NoHash)}
OddCalls ==
  {VUpsert(<<VRec("y", "h1"), [VRec("x", "h1") EXCEPT !.dimension = 2]>>),
   VUpsert(<<VRec("y", "h2"), [VRec("x", "h1") EXCEPT !.tenant = "b"]>>)}
QuietProgram == [c1 |-> <<>>, c2 |-> <<>>, c3 |-> <<>>]
MCPrograms ==
  {QuietProgram}
  \cup {[c1 |-> <<VUpsert(<<VRec("z", "h1")>>), a, b>>, c2 |-> <<>>, c3 |-> <<>>] :
          a \in SoloCalls, b \in SoloCalls \cup OddCalls}
  \cup {[c1 |-> <<a, b, VUpsert(<<VRec("z", "h1")>>)>>, c2 |-> <<>>, c3 |-> <<>>] :
          a \in OddCalls \cup {VUpsert(<<[VRec("x", "h1") EXCEPT !.dimension = 2]>>)}, b \in SoloCalls \cup OddCalls}
  \cup {[c1 |-> <<VUpsert(<<VRec("x", "h1"), VRec("y", "h1")>>), VUpsert(<<VRec("x", "h2")>>)>>,
         c2 |-> <<VUpsert(<<VRec("y", "h2"), VRec("x", "h2")>>)>>, c3 |-> <<VInvalidate("h1", NoHash)>>],
        [c1 |-> <<VUpsert(<<VRec("x", "h1")>>), VUpsert(<<VRec("x", "h2")>>)>>,
         c2 |-> <<VUpsert(<<VRec("x", "h3")>>)>>, c3 |-> <<VDelete({"x"}), VInvalidate("h2", "h3")>>]}

-----------------------------------------------------------------------------
(* Intakes: the same snapshot twice, the same content elsewhere, and one   *)
(* request for each way to be refused.                                     *)
Uri(name) == [name |-> name, scheme |-> "git", has_query |-> FALSE]
Intake(run_id, uri, hash) ==
  [direct |-> FALSE, header |-> "a", job_tenant |-> "a", run_id |-> run_id,
   payload |-> [tenant |-> "a", faults |-> {}, repo_commit |-> "c", content_hash |-> hash,
                snapshot_uri |-> uri, source_type |-> "git", sbom_uri |-> Uri("sbom")]]
MCContentAt == [here |-> "h1", there |-> "h1", leaky |-> "h2"]
Plain1 == Intake("r1", Uri("here"), "h1")
Refusable ==
  {[Plain1 EXCEPT !.payload.faults = f, !.direct = d] : d \in BOOLEAN,
     f \in {{"inline", "extra_field"}, {"missing_field"}, {"source_type", "repo_commit"}, {"content_hash"}}}
  \cup {[Plain1 EXCEPT !.header = "b"], [Plain1 EXCEPT !.payload.tenant = "b"],
        Intake("r1", [Uri("here") EXCEPT !.scheme = "file"], "h1"),
        Intake("r1", [Uri("here") EXCEPT !.has_query = TRUE], "h1"),
        Intake("r1", Uri("here"), "h2"), Intake("r1", Uri("leaky"), "h2")}
QuietIntake == [j1 |-> Plain1, j2 |-> Plain1, j3 |-> Plain1]
MCIntakeLoads ==
  {QuietIntake,
   [j1 |-> Plain1, j2 |-> Intake("r2", Uri("here"), "h1"), j3 |-> Intake("r3", Uri("there"), "h1")]}
  \cup {[j1 |-> Plain1, j2 |-> r, j3 |-> Intake("r3", Uri("there"), "h1")] : r \in Refusable}

(* Claims and evidence of two tenants.                                     *)
MCClaims == {[tenant |-> "a", id |-> "c1", entity |-> "e", text |-> x] : x \in {"x", "y"}}
            \cup {[tenant |-> "b", id |-> "c1", entity |-> "f", text |-> "x"]}
MCEvidenceRecords ==
  {[tenant |-> "a", id |-> "v1", claim |-> "c1", checked_at |-> 0, text |-> x] : x \in {"x", "y"}}
  \cup {[tenant |-> "a", id |-> "v2", claim |-> "c1", checked_at |-> 2, text |-> "x"],
        [tenant |-> "b", id |-> "v1", claim |-> "c2", checked_at |-> 1, text |-> "x"]}

(* Entity groups and demand material, in several orders.                   *)
Group(id, type, aliases, owned) ==
  [entity_id |-> id, entity_type |-> type, canonical_name |-> id, aliases |-> aliases, is_owned |-> owned]
MCEntityRank == [e1 |-> 1, e2 |-> 2]
MCAliasForm == [Acme |-> "acme", acme |-> "acme", Rival |-> "rival", blank |-> ""]
G1 == Group("e1", "brand", {"Acme"}, TRUE)
G2 == Group("e2", "competitor", {"Rival", "blank"}, FALSE)
G1Again == Group("e1", "brand", {"acme"}, TRUE)
Material(text, locale, ref) == [text |-> text, locale |-> locale, provenance_ref |-> ref]
MCIntentsIn ==
  [p1 |-> {"pricing", "support"}, p2 |-> {"pricing"}, p3 |-> {"pricing"}, s1 |-> {"support"}, x |-> {}]
MCLocaleForm == [us |-> 1, US |-> 1, kr |-> 0]
Alphabetical == <<"comparison", "definition", "implementation", "integration", "migration", "pricing",
                  "procurement", "security", "support">>
MCClusterRank ==
  [c \in Intents \X {0, 1} |-> 2 * (CHOOSE n \in DOMAIN Alphabetical : Alphabetical[n] = c[1]) + c[2]]
M1 == Material("p1", "us", "r1")
M2 == Material("p2", "us", "r2")
M3 == Material("s1", "kr", "r1")
M4 == Material("p3", "US", "r3")
GRequest(kind, project, input, provenance) ==
  [kind |-> kind, tenant |-> "a", project |-> project, input |-> input, provenance |-> provenance, run |-> "run",
   store_as |-> [tenant |-> "a", project |-> project]]
EntityInputs ==
  {<<G1, G2>>, <<G2, G1>>, <<G1, G1Again, G2>>, <<G2, G1Again, G1>>,
   <<G1, [G2 EXCEPT !.aliases = {"acme"}]>>, <<G1, [G1Again EXCEPT !.is_owned = FALSE]>>,
   <<[G2 EXCEPT !.is_owned = TRUE], G1>>, <<[G1 EXCEPT !.aliases = {"blank"}]>>, <<>>}
DemandInputs ==
  {<<M1, M2, M3>>, <<M3, M2, M1>>, <<M2, M1, M3, M4>>, <<M4, M3, M2, M1>>, <<M1, M3>>, <<M2, M3, M2>>, <<>>,
   <<M1, [M2 EXCEPT !.text = "x"]>>, <<[M2 EXCEPT !.provenance_ref = ""]>>}
GRequests ==
  {GRequest("entity", "p", i, x) : i \in EntityInputs, x \in {"one", "two"}}
  \cup {GRequest("demand", "p", i, "none") : i \in DemandInputs}
  \cup {[GRequest("demand", "p", <<M1, M2, M3>>, "none") EXCEPT !.store_as.project = "q"],
        [GRequest("entity", "p", <<G1, G2>>, "one") EXCEPT !.store_as.tenant = "b"],
        GRequest("demand", "q", <<M1, M2, M3>>, "none")}
QuietBuild == [b \in {"b1", "b2"} |-> GRequest("demand", "p", <<>>, "none")]
MCGraphRequests == [{"b1", "b2"} -> GRequests]

(* Experiments: two designs, and the same id registered differently.       *)
Arm(id, role) == [arm_id |-> id, role |-> role]
AssetArms == {Arm("1", "baseline"), Arm("2", "treatment"), Arm("3", "control")}
ClusterArms == {Arm("1", "baseline"), Arm("2", "matched_cluster")}
Experiment(id, arms, locale) ==
  [experiment_id |-> id, arms |-> arms, metric_definitions |-> {"m"}, locale |-> locale]
MCRegistrations ==
  {Experiment("x", AssetArms, "ko"), Experiment("x", ClusterArms, "ko"), Experiment("x", AssetArms, "en"),
   Experiment("y", ClusterArms, "ko"), Experiment("z", AssetArms, "ko")}

(* Evidence entries, good and refused; decisions around every condition of *)
(* a pass; cards with forbidden names at both depths.                      *)
MCNameMark == [note |-> "plain", card_candidate_ref |-> "plain", api_key |-> "raw", tenant |-> "tenant",
               homoglyph |-> "non_ascii", source_outcome |-> "plain"]
Leaf(path, shape) == [path |-> path, shape |-> shape]
Provenance == {"timestamp", "client_version", "asset_hash", "citation_present"}
EvEntry(kind, given, leaves) == [kind |-> kind, given |-> given, leaves |-> leaves]
Ev1 == EvEntry("baseline_observation", Provenance, {})
Ev2 == EvEntry("treatment_observation", Provenance, {Leaf(<<"note">>, "plain")})
Ev3 == EvEntry("metric_definition", {}, {Leaf(<<"note", "tenant">>, "plain")})
MCBundles ==
  {<<>>, <<Ev1, Ev2, Ev3>>, <<Ev2, Ev1, Ev3>>, <<[Ev1 EXCEPT !.given = {"timestamp"}]>>,
   <<Ev1, [Ev3 EXCEPT !.leaves = {Leaf(<<"note", "api_key">>, "plain")}]>>,
   <<[Ev3 EXCEPT !.leaves = {Leaf(<<"note">>, "oversize")}]>>}
OutcomeRequest ==
  [engine |-> "chatgpt-search", verdict |-> "pass", layers |-> 2, provenance |-> "production", is_production |-> TRUE,
   signals |-> {[lift |-> <<3>>, insufficient |-> FALSE]}]
MCOutcomeRequests ==
  {OutcomeRequest, [OutcomeRequest EXCEPT !.engine = "gemini"], [OutcomeRequest EXCEPT !.layers = 1],
   [OutcomeRequest EXCEPT !.provenance = "test_fixture", !.is_production = FALSE],
   [OutcomeRequest EXCEPT !.provenance = "test_fixture"],
   [OutcomeRequest EXCEPT !.verdict = "undetermined", !.layers = 0,
                          !.signals = {[lift |-> <<>>, insufficient |-> TRUE]}]}
CardPayload ==
  [whole |-> TRUE, verdict |-> "pass", provenance |-> "production",
   leaves |-> {Leaf(<<"card_candidate_ref">>, "plain")}]
MCCardPayloads ==
  {CardPayload, [CardPayload EXCEPT !.provenance = "test_fixture"], [CardPayload EXCEPT !.whole = FALSE],
   [CardPayload EXCEPT !.leaves = {Leaf(<<"card_candidate_ref">>, "secret")}]}
  \cup {[CardPayload EXCEPT !.verdict = v] : v \in {"fail", "undetermined", "bogus"}}
  \cup {[CardPayload EXCEPT !.leaves = @ \cup {Leaf(<<a, b>>, "plain")}] :
          a \in {"note", "tenant", "source_outcome"}, b \in {"note", "api_key", "homoglyph"}}

-----------------------------------------------------------------------------
(* The parts that are not exercised stay in one state.                     *)
MCInit ==
  /\ part \in Parts
  /\ ObserverInit
  /\ ScheduleInit /\ (part # "schedule" => request = QuietRequest)
  /\ CaptureInit /\ (part # "capture" => capture.engine = "gemini" /\ capture.queries = 0 /\ capture.budget = [max_queries |-> 2, max_retries |-> 1, deadline |-> 1])
  /\ DiscoveryInit /\ (part # "crawl" => \A c \in Crawls : crawl[c].plan = QuietCrawls[c])
  /\ AnalyticsInit /\ (part # "analytics" => append = QuietLoad.append)
  /\ VectorInit /\ (part # "vector" => program = QuietProgram)
  /\ IntakeInit /\ (part # "intake" => asked = QuietIntake)
  /\ LedgerInit
  /\ GraphInit /\ (part # "graphs" => \A b \in Builders : build[b].req = QuietBuild[b])
  /\ ExperimentInit
  /\ LearningInit

MCNext ==
  /\ UNCHANGED part
  /\ \/ /\ part = "pool" /\ ObserverNext
        /\ UNCHANGED <<scheduleVars, captureVars, discoveryVars, analyticsVars, vectorVars, intakeVars, ledgerVars, graphVars, experimentVars, learningVars>>
     \/ /\ part = "schedule" /\ ScheduleNext
        /\ UNCHANGED <<observerVars, captureVars, discoveryVars, analyticsVars, vectorVars, intakeVars, ledgerVars, graphVars, experimentVars, learningVars>>
     \/ /\ part = "capture" /\ CaptureNext
        /\ UNCHANGED <<observerVars, scheduleVars, discoveryVars, analyticsVars, vectorVars, intakeVars, ledgerVars, graphVars, experimentVars, learningVars>>
     \/ /\ part = "crawl" /\ DiscoveryNext
        /\ UNCHANGED <<observerVars, scheduleVars, captureVars, analyticsVars, vectorVars, intakeVars, ledgerVars, graphVars, experimentVars, learningVars>>
     \/ /\ part = "analytics" /\ AnalyticsNext
        /\ UNCHANGED <<observerVars, scheduleVars, captureVars, discoveryVars, vectorVars, intakeVars, ledgerVars, graphVars, experimentVars, learningVars>>
     \/ /\ part = "vector" /\ VectorNext
        /\ UNCHANGED <<observerVars, scheduleVars, captureVars, discoveryVars, analyticsVars, intakeVars, ledgerVars, graphVars, experimentVars, learningVars>>
     \/ /\ part = "intake" /\ IntakeNext
        /\ UNCHANGED <<observerVars, scheduleVars, captureVars, discoveryVars, analyticsVars, vectorVars, ledgerVars, graphVars, experimentVars, learningVars>>
     \/ /\ part = "claims" /\ LedgerNext
        /\ UNCHANGED <<observerVars, scheduleVars, captureVars, discoveryVars, analyticsVars, vectorVars, intakeVars, graphVars, experimentVars, learningVars>>
     \/ /\ part = "graphs" /\ GraphNext
        /\ UNCHANGED <<observerVars, scheduleVars, captureVars, discoveryVars, analyticsVars, vectorVars, intakeVars, ledgerVars, experimentVars, learningVars>>
     \/ /\ part = "experiments" /\ ExperimentNext
        /\ UNCHANGED <<observerVars, scheduleVars, captureVars, discoveryVars, analyticsVars, vectorVars, intakeVars, ledgerVars, graphVars, learningVars>>
     \/ /\ part = "learning" /\ LearningNext
        /\ UNCHANGED <<observerVars, scheduleVars, captureVars, discoveryVars, analyticsVars, vectorVars, intakeVars, ledgerVars, graphVars, experimentVars>>

mcVars == <<part, observerVars, scheduleVars, captureVars, discoveryVars, analyticsVars, vectorVars, intakeVars,
            ledgerVars, graphVars, experimentVars, learningVars>>
MCSpec == MCInit /\ [][MCNext]_mcVars

=============================================================================
