------------------------ MODULE IntelligenceGraphs ------------------------
(***************************************************************************)
(* entity-resolution and demand-graph: alias groups become an entity       *)
(* graph, approved first-party material becomes a demand graph; either is  *)
(* named by a hash of its content, stored under its tenant and project,    *)
(* and announced.  Builders run concurrently and several of them may work  *)
(* for one project.  A hash is the value it is computed from.              *)
(***************************************************************************)
EXTENDS Integers, Sequences, FiniteSets

CONSTANTS
  Builders,        \* concurrent builds
  GraphRequests,   \* what the builders may be asked: tenant, project, input, where to store
  AliasForm,       \* normal form of an alias; "" for a blank one
  LocaleForm,      \* the locale as it enters a cluster id: lower case, separators joined
  IntentsIn,       \* the intents that have a keyword in a text
  EntityRank,      \* place of an entity id in string order
  ClusterRank      \* place of a cluster id in string order

AliasGroups ==
  [entity_id : DOMAIN EntityRank, entity_type : {"brand", "product", "integration", "competitor"},
   canonical_name : STRING, aliases : SUBSET DOMAIN AliasForm, is_owned : BOOLEAN]
Materials == [text : DOMAIN IntentsIn, locale : DOMAIN LocaleForm, provenance_ref : STRING]

(* sorted(key=...), as the places in the input of what comes first,        *)
(* second, and so on: stable.                                              *)
ComesBefore(keys, j, i) == keys[j] < keys[i] \/ (keys[j] = keys[i] /\ j < i)
SortedBy(keys) ==
  [n \in 1..Cardinality(DOMAIN keys) |->
     CHOOSE i \in DOMAIN keys : Cardinality({j \in DOMAIN keys : ComesBefore(keys, j, i)}) = n - 1]

-----------------------------------------------------------------------------
(* entity-resolution: canonicalize and graph.                              *)
NormalizeAliases(group) == {AliasForm[a] : a \in group.aliases} \ {""}

NoDuplicateEntityId(groups) ==
  \A i, j \in DOMAIN groups :
    groups[i].entity_id = groups[j].entity_id =>
      \A f \in {"canonical_name", "entity_type", "is_owned"} : groups[i][f] = groups[j][f]
NoCrossGroupAliasConflict(groups) ==
  \A i, j \in DOMAIN groups :
    NormalizeAliases(groups[i]) \cap NormalizeAliases(groups[j]) # {} =>
      groups[i].entity_id = groups[j].entity_id
OwnershipRule(group) == ~(group.entity_type = "competitor" /\ group.is_owned)

Identity(group) ==
  [entity_id |-> group.entity_id, entity_type |-> group.entity_type, canonical_name |-> group.canonical_name]
(* Mutant: the groups are hashed as they came.                             *)
EntityGraphVersionUnsorted(tenant, project, groups) ==
  <<"entity", tenant, project, [i \in DOMAIN groups |-> Identity(groups[i])]>>

EntityGraphVersion(tenant, project, groups) ==
  LET sorted == SortedBy([i \in DOMAIN groups |-> EntityRank[groups[i].entity_id]]) IN
  <<"entity", tenant, project, [n \in DOMAIN sorted |-> Identity(groups[sorted[n]])]>>

Refusal(why) == [ok |-> FALSE, why |-> why]
(* resolve_entities: the first violation wins.                             *)
ResolveEntities(req) ==
  LET groups == req.input
      version == EntityGraphVersion(req.tenant, req.project, groups) IN
  IF \E i \in DOMAIN groups : NormalizeAliases(groups[i]) = {} THEN Refusal("empty_alias_set")
  ELSE IF ~NoDuplicateEntityId(groups) \/ ~NoCrossGroupAliasConflict(groups) THEN Refusal("alias_conflict")
  ELSE IF \E i \in DOMAIN groups : ~OwnershipRule(groups[i]) THEN Refusal("competitor_ownership")
  ELSE [ok |-> TRUE, entities |-> [i \in DOMAIN groups |-> Identity(groups[i])], graph_version |-> version]

(* build_entity_graph: the provenance is the caller's.                     *)
BuildEntityGraph(req) ==
  LET r == ResolveEntities(req) IN
  IF ~r.ok THEN r
  ELSE [ok |-> TRUE, tenant |-> req.tenant, project |-> req.project, graph_version |-> r.graph_version,
        provenance_ref |-> <<"given", req.provenance>>, nodes |-> r.entities]

EntityGraphPayload(graph) ==
  [project |-> graph.project, graph_version |-> graph.graph_version, count |-> Len(graph.nodes),
   provenance_ref |-> graph.provenance_ref]

-----------------------------------------------------------------------------
(* demand-graph: builder and records.                                      *)
IntentOrder == <<"pricing", "security", "integration", "comparison", "migration", "implementation",
                 "support", "procurement", "definition">>
Intents == {IntentOrder[n] : n \in DOMAIN IntentOrder}
FunnelForIntent ==
  [i \in Intents |->
     CASE i \in {"definition", "comparison"} -> "awareness"
       [] i \in {"pricing", "integration", "security"} -> "consideration"
       [] i \in {"procurement", "implementation", "migration"} -> "decision"
       [] OTHER -> "retention"]
CONFIDENCE_SATURATION == 5
BUSINESS_VALUE_PER_MATERIAL == 10

MaterialOk(m) == m.text # "" /\ m.locale # "" /\ m.provenance_ref # ""
(* The first intent, in table order, one of whose keywords is in the text. *)
MatchesNone(m) == IntentsIn[m.text] = {}
ClassifyIntent(m) ==
  IntentOrder[CHOOSE n \in DOMAIN IntentOrder :
    /\ IntentOrder[n] \in IntentsIn[m.text]
    /\ \A k \in 1..(n - 1) : IntentOrder[k] \notin IntentsIn[m.text]]
ClusterId(intent, locale) == <<intent, LocaleForm[locale]>>

(* Confidence in fifths.                                                   *)
BuildCluster(intent, locale, members) ==
  LET n == Cardinality(DOMAIN members) IN
  [cluster_id |-> ClusterId(intent, locale), intent |-> intent, funnel |-> FunnelForIntent[intent],
   locale |-> locale, business_value |-> n * BUSINESS_VALUE_PER_MATERIAL,
   paraphrases |-> {members[i].text : i \in DOMAIN members},
   provenance_refs |-> {members[i].provenance_ref : i \in DOMAIN members},
   confidence |-> IF n < CONFIDENCE_SATURATION THEN n ELSE CONFIDENCE_SATURATION]
QueryClusterOk(c) ==
  /\ c.paraphrases # {} /\ c.provenance_refs # {}
  /\ c.confidence \in 0..CONFIDENCE_SATURATION /\ c.business_value >= 0

DemandGraphVersion(tenant, project, clusters) == <<"demand", tenant, project, clusters>>
ComputeProvenanceRef(materials) == <<"sha256", {materials[i].provenance_ref : i \in DOMAIN materials}>>

(* The groups, in the order their first material was seen, then sorted by  *)
(* cluster id alone.                                                       *)
GroupOf(materials, i) == <<ClassifyIntent(materials[i]), materials[i].locale>>
MembersOf(materials, i) == {j \in DOMAIN materials : GroupOf(materials, j) = GroupOf(materials, i)}
FirstsOf(materials) ==
  {i \in DOMAIN materials : \A j \in 1..(i - 1) : GroupOf(materials, j) # GroupOf(materials, i)}
ClusterOf(materials, i) ==
  BuildCluster(ClassifyIntent(materials[i]), materials[i].locale,
               [j \in MembersOf(materials, i) |-> materials[j]])
DemandClusters(materials) ==
  LET sorted == SortedBy([i \in FirstsOf(materials) |-> ClusterRank[ClusterOf(materials, i).cluster_id]]) IN
  [n \in DOMAIN sorted |-> ClusterOf(materials, sorted[n])]
BuildDemandGraph(req) ==
  LET materials == req.input  clusters == DemandClusters(materials) IN
  IF \E i \in DOMAIN materials : ~MaterialOk(materials[i]) THEN Refusal("material_invalid")
  ELSE IF materials = <<>> THEN Refusal("empty_material_set")
  ELSE IF \E i \in DOMAIN materials : MatchesNone(materials[i]) THEN Refusal("unknown_intent")
  ELSE [ok |-> TRUE, tenant |-> req.tenant, project |-> req.project,
        graph_version |-> DemandGraphVersion(req.tenant, req.project, clusters),
        provenance_ref |-> ComputeProvenanceRef(materials), nodes |-> clusters]

DemandGraphPayload(graph) ==
  [project |-> graph.project, graph_version |-> graph.graph_version, count |-> Len(graph.nodes),
   provenance_ref |-> graph.provenance_ref]
DemandIdempotencyKey(graph, run) == <<graph.tenant, run, graph.project, graph.graph_version>>

(* Ranks tell ids apart, as their strings do, and an input is groups of    *)
(* aliases or material.                                                    *)
ASSUME GraphAssumption ==
  /\ EntityRank \in [DOMAIN EntityRank -> Nat]
  /\ \A x, y \in DOMAIN EntityRank : EntityRank[x] = EntityRank[y] => x = y
  /\ ClusterRank \in [Intents \X {LocaleForm[l] : l \in DOMAIN LocaleForm} -> Nat]
  /\ \A x, y \in DOMAIN ClusterRank : ClusterRank[x] = ClusterRank[y] => x = y
  /\ IntentsIn \in [DOMAIN IntentsIn -> SUBSET Intents]
  /\ \A r \in GraphRequests : \A b \in Builders :
       \/ r[b].kind = "entity" /\ r[b].input \in Seq(AliasGroups)
       \/ r[b].kind = "demand" /\ r[b].input \in Seq(Materials)

-----------------------------------------------------------------------------
VARIABLES
  build,           \* per builder: its request, where it is, the graph it made
  graph_store,     \* (kind, tenant, project) -> graph
  graph_events     \* envelopes announced: kind, tenant, key, payload
graphVars == <<build, graph_store, graph_events>>

GraphInit ==
  /\ \E r \in GraphRequests :
       build = [b \in Builders |-> [req |-> r[b], at |-> "start", graph |-> Refusal("none")]]
  /\ graph_store = <<>> /\ graph_events = {}

BuildGraph(b) ==
  LET req == build[b].req
      graph == IF req.kind = "entity" THEN BuildEntityGraph(req) ELSE BuildDemandGraph(req) IN
  /\ build[b].at = "start"
  /\ build' = [build EXCEPT ![b].graph = graph, ![b].at = IF graph.ok THEN "put" ELSE "refused"]
  /\ UNCHANGED <<graph_store, graph_events>>

Keep(key, graph) ==
  graph_store' = [k \in DOMAIN graph_store \cup {key} |-> IF k = key THEN graph ELSE graph_store[k]]
(* put of either store: the caller names tenant and project, both are      *)
(* compared with the graph's, and the later graph replaces the earlier.    *)
PutGraph(b, kind) ==
  LET as == build[b].req.store_as  graph == build[b].graph IN
  /\ build[b].at = "put" /\ build[b].req.kind = kind
  /\ IF as.tenant # graph.tenant \/ as.project # graph.project
     THEN build' = [build EXCEPT ![b].at = "cross_tenant"] /\ UNCHANGED graph_store
     ELSE /\ build' = [build EXCEPT ![b].at = "announce"]
          /\ Keep(<<kind, as.tenant, as.project>>, graph)
  /\ UNCHANGED graph_events
(* get: what is stored under exactly this tenant and project.              *)
GetEntityGraph(tenant, project) ==
  LET k == <<"entity", tenant, project>> IN IF k \in DOMAIN graph_store THEN graph_store[k] ELSE Refusal("not_found")
GetDemandGraph(tenant, project) ==
  LET k == <<"demand", tenant, project>> IN IF k \in DOMAIN graph_store THEN graph_store[k] ELSE Refusal("not_found")
PutEntityGraph(b) == PutGraph(b, "entity")
PutDemandGraph(b) == PutGraph(b, "demand")

(* The envelope: an entity graph's key is the caller's, the one the        *)
(* builder's documentation proposes.                                       *)
AnnounceEntityGraph(b) ==
  LET graph == build[b].graph IN
  /\ build[b].at = "announce" /\ build[b].req.kind = "entity"
  /\ graph_events' = graph_events \cup
       {[kind |-> "entity", tenant |-> graph.tenant, payload |-> EntityGraphPayload(graph),
         key |-> <<graph.tenant, graph.project, graph.graph_version>>]}
  /\ build' = [build EXCEPT ![b].at = "done"] /\ UNCHANGED graph_store
EmitDemandGraphVersioned(b) ==
  LET graph == build[b].graph IN
  /\ build[b].at = "announce" /\ build[b].req.kind = "demand"
  /\ graph_events' = graph_events \cup
       {[kind |-> "demand", tenant |-> graph.tenant, payload |-> DemandGraphPayload(graph),
         key |-> DemandIdempotencyKey(graph, build[b].req.run)]}
  /\ build' = [build EXCEPT ![b].at = "done"] /\ UNCHANGED graph_store

GraphNext ==
  \E b \in Builders :
    \/ BuildGraph(b) \/ PutEntityGraph(b) \/ PutDemandGraph(b)
    \/ AnnounceEntityGraph(b) \/ EmitDemandGraphVersioned(b)
GraphSpec == GraphInit /\ [][GraphNext]_graphVars

-----------------------------------------------------------------------------
GraphTypeOK ==
  /\ \A b \in Builders : build[b].at \in {"start", "put", "announce", "refused", "cross_tenant", "done"}
  /\ \A k \in DOMAIN graph_store :
       \E g \in {GetEntityGraph(k[2], k[3]), GetDemandGraph(k[2], k[3])} :
         g.ok /\ g = graph_store[k] /\ <<g.tenant, g.project>> = <<k[2], k[3]>>
  /\ \A e \in graph_events : e.payload.count >= IF e.kind = "demand" THEN 1 ELSE 0

Built(b) == build[b].at \notin {"start", "refused"}
SameElements(s, t) ==
  \E p \in [DOMAIN t -> DOMAIN s] :
    /\ \A i \in DOMAIN s : \E j \in DOMAIN t : p[j] = i
    /\ \A i, j \in DOMAIN t : p[i] = p[j] => i = j
    /\ \A j \in DOMAIN t : t[j] = s[p[j]]

(* The version names the content and not the order in which it arrived:    *)
(* two builds for one project from the same groups, or from the same       *)
(* material with distinct cluster ids, get one version, and builds that    *)
(* share a version have the same nodes (compute_graph_version).            *)
VersionNamesContent ==
  \A a, b \in Builders : Built(a) /\ Built(b) =>
    LET ra == build[a].req  rb == build[b].req  ga == build[a].graph  gb == build[b].graph
        NodesDiffer(g) == \A i, j \in DOMAIN g.nodes : i # j => g.nodes[i].cluster_id # g.nodes[j].cluster_id IN
    /\ /\ <<ra.kind, ra.tenant, ra.project>> = <<rb.kind, rb.tenant, rb.project>>
       /\ SameElements(ra.input, rb.input)
       /\ ra.kind = "demand" => NodesDiffer(ga)
       => ga.graph_version = gb.graph_version
    /\ ga.graph_version = gb.graph_version => SameElements(ga.nodes, gb.nodes)

(* The clusters of a demand graph divide its material: every piece counts  *)
(* in exactly one cluster, of its own locale, and none is lost or counted  *)
(* twice in the business value or the provenance (build_demand_graph).     *)
CountsIn(m, c) == /\ m.text \in c.paraphrases /\ m.locale = c.locale
                  /\ m.provenance_ref \in c.provenance_refs
ClustersDivideMaterial ==
  \A b \in Builders : Built(b) /\ build[b].req.kind = "demand" =>
    LET m == build[b].req.input  c == build[b].graph.nodes IN
    /\ \A i \in DOMAIN m : Cardinality({n \in DOMAIN c : CountsIn(m[i], c[n])}) = 1
    /\ \A n \in DOMAIN c :
         /\ c[n].business_value = 10 * Cardinality({i \in DOMAIN m : CountsIn(m[i], c[n])})
         /\ QueryClusterOk(c[n])
    /\ UNION {c[n].provenance_refs : n \in DOMAIN c} = build[b].graph.provenance_ref[2]

(* An alias an accepted request resolves belongs to one entity, and no     *)
(* accepted entity is a competitor that is owned (resolve_entities).       *)
AliasHasOneEntity ==
  \A b \in Builders : Built(b) /\ build[b].req.kind = "entity" =>
    LET g == build[b].req.input IN
    \A i, j \in DOMAIN g :
      /\ NormalizeAliases(g[i]) # {}
      /\ (\E x \in g[i].aliases, y \in g[j].aliases : AliasForm[x] # "" /\ AliasForm[x] = AliasForm[y]) =>
           build[b].graph.nodes[i] = build[b].graph.nodes[j]
      /\ ~(g[i].entity_type = "competitor" /\ g[i].is_owned)

(* Demand graph events with one idempotency key say the same, so that a    *)
(* consumer may drop the second (_idempotency_key).                        *)
SameKeySamePayload ==
  \A e, f \in graph_events : e.kind = "demand" /\ f.kind = "demand" /\ e.key = f.key => e.payload = f.payload

(* A version names one content, clusters divide the material, an alias has *)
(* one entity, and an idempotency key stands for one payload.              *)
GraphsAreVersioned ==
  /\ GraphTypeOK
  /\ VersionNamesContent
  /\ ClustersDivideMaterial
  /\ AliasHasOneEntity
  /\ SameKeySamePayload
=============================================================================
