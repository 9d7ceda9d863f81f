--------------------------- MODULE SiteDiscovery ---------------------------
(***************************************************************************)
(* site-discovery: read-only inventory runs over the routes of a site.     *)
(* Each route is put to the robots policy before it may be fetched, a      *)
(* fetch is retried while it fails for the moment, and a run that ends     *)
(* well leaves one observation, which is stored under its tenant and site. *)
(***************************************************************************)
EXTENDS JobKinds, Integers, Sequences, FiniteSets

CONSTANTS
  Crawls,          \* discovery runs
  CrawlPlans,      \* what the runs may be: tenant, site, routes, budget, storing tenant
  Robots,          \* per route: "allowed", "disallowed" or "unknown"
  Evidence,        \* per fetched route: "ref", "malformed" or "none"
  MaxCrawlClock    \* bound: how far the clock of a run is followed

VARIABLES
  crawl,           \* per run: its plan, where it is and what it has done
  inventory_store  \* (tenant, site) -> observation
discoveryVars == <<crawl, inventory_store>>

(* crawl_budget_for: the run's envelope comes from the job kind's limits.  *)
CrawlBudgetFor(kind) ==
  LET limits == DEFAULT_RESOURCE_LIMITS[kind] IN
  [max_routes |-> limits.max_artifact_mib, max_retries |-> limits.max_retries,
   deadline |-> limits.active_deadline_seconds]
ASSUME CrawlBudgetIsPositive ==
  \A f \in {"max_routes", "max_retries", "deadline"} : CrawlBudgetFor("site_discovery")[f] > 0

(* A run names routes the robots map knows about, if only as unknown, and  *)
(* its limits are counts.                                                  *)
ASSUME CrawlAssumption ==
  \A p \in CrawlPlans, c \in Crawls :
    /\ p[c].routes \in Seq(DOMAIN Robots)
    /\ p[c].budget.max_routes \in Nat /\ p[c].budget.max_retries \in Nat
    /\ p[c].budget.deadline \in Nat

DiscoveryInit ==
  /\ inventory_store = <<>>
  /\ \E p \in CrawlPlans :
       crawl = [c \in Crawls |->
         [plan |-> p[c], at |-> "start", status |-> "pending", clock |-> 0, attempt |-> 0,
          records |-> <<>>, audit |-> <<>>, fetches |-> <<>>, late |-> {}]]

Route(c) == crawl[c].plan.routes[Len(crawl[c].records) + 1]

(* A record is valid when a route that was not fetched has no evidence and *)
(* one that was has a well-formed reference.                               *)
NoEvidenceRef == "none"
ContentRecordOk(record) ==
  IF record.robots_allowed THEN record.evidence_ref = "ref" ELSE record.evidence_ref = NoEvidenceRef

StartCrawl(c) ==
  /\ crawl[c].at = "start"
  /\ crawl' = IF Len(crawl[c].plan.routes) > crawl[c].plan.budget.max_routes
              THEN [crawl EXCEPT ![c].at = "over_budget"]
              ELSE [crawl EXCEPT ![c].at = "route", ![c].status = JobTransition("pending", "running")]
  /\ UNCHANGED inventory_store

(* Mutant: every route that is known may be read.                          *)
CheckRobotsKnown(route) == IF Robots[route] = "unknown" THEN "unknown" ELSE "allowed"

(* check_robots of the next route: a fixture nobody registered raises, and *)
(* nothing in the run catches that.                                        *)
CheckRobots(route) == Robots[route]

(* The top of the loop: deadline, then robots, then a skip or the fetch.   *)
NextRoute(c) ==
  LET me == crawl[c] IN
  /\ me.at = "route" /\ Len(me.records) < Len(me.plan.routes)
  /\ crawl' =
       IF me.clock > me.plan.budget.deadline
       THEN [crawl EXCEPT ![c].at = "deadline", ![c].status = JobTransition(@, "failed")]
       ELSE CASE CheckRobots(Route(c)) = "allowed" ->
                   [crawl EXCEPT ![c].at = "fetch", ![c].attempt = 0]
              [] CheckRobots(Route(c)) = "disallowed" ->
                   [crawl EXCEPT ![c].records = Append(@, [route |-> Route(c), robots_allowed |-> FALSE,
                                                           evidence_ref |-> NoEvidenceRef]),
                                 ![c].audit = Append(@, <<Route(c), "skipped_robots_disallowed">>)]
              [] OTHER -> [crawl EXCEPT ![c].at = "unknown_route"]
  /\ UNCHANGED inventory_store

(* _fetch_with_retries: one call of the crawler.  It fails for the moment  *)
(* or answers, and the answer makes a record or an error.  `late` keeps    *)
(* the places of the routes fetched past the deadline, for the property.   *)
Overdue(me) == IF me.clock > me.plan.budget.deadline THEN {Len(me.records) + 1} ELSE {}
FetchRoute(c) ==
  LET me == crawl[c]
      called == [crawl EXCEPT ![c].fetches = Append(@, Len(me.records) + 1),
                              ![c].late = @ \cup Overdue(me)]
      record == [route |-> Route(c), robots_allowed |-> TRUE, evidence_ref |-> Evidence[Route(c)]] IN
  /\ me.at = "fetch"
  /\ \/ crawl' = IF me.attempt + 1 > me.plan.budget.max_retries
                 THEN [called EXCEPT ![c].at = "retries_exhausted", ![c].attempt = @ + 1,
                                     ![c].status = JobTransition(@, "failed")]
                 ELSE [called EXCEPT ![c].attempt = @ + 1]
     \/ crawl' = IF ContentRecordOk(record)
                 THEN [called EXCEPT ![c].at = "route", ![c].records = Append(@, record),
                                     ![c].audit = Append(@, <<Route(c), "fetched">>)]
                 ELSE [called EXCEPT ![c].at = "invalid_record"]
  /\ UNCHANGED inventory_store

CrawlTick(c) ==
  /\ crawl[c].at \in {"route", "fetch"} /\ crawl[c].clock < MaxCrawlClock
  /\ crawl' = [crawl EXCEPT ![c].clock = @ + 1] /\ UNCHANGED inventory_store

(* After the last route: the observation and its event.                    *)
FinishCrawl(c) ==
  /\ crawl[c].at = "route" /\ Len(crawl[c].records) = Len(crawl[c].plan.routes)
  /\ crawl' = [crawl EXCEPT ![c].at = "observed", ![c].status = JobTransition(@, "succeeded")]
  /\ UNCHANGED inventory_store

(* InMemorySiteInventoryStore: the caller names the tenant to store under; *)
(* the latest observation of a site replaces the one before.               *)
Observation(c) ==
  [run |-> c, tenant |-> crawl[c].plan.tenant, records |-> crawl[c].records, audit |-> crawl[c].audit]
PutInventory(c) ==
  LET key == <<crawl[c].plan.store_as, crawl[c].plan.site>> IN
  /\ crawl[c].at = "observed"
  /\ IF crawl[c].plan.store_as # crawl[c].plan.tenant
     THEN crawl' = [crawl EXCEPT ![c].at = "cross_tenant"] /\ UNCHANGED inventory_store
     ELSE /\ crawl' = [crawl EXCEPT ![c].at = "stored"]
          /\ inventory_store' = [k \in DOMAIN inventory_store \cup {key} |->
                                   IF k = key THEN Observation(c) ELSE inventory_store[k]]

(* get: another tenant's observation looks like none.                      *)
NotFound == [run |-> "none", tenant |-> "none", records |-> <<>>, audit |-> <<>>]
GetInventory(tenant, site) ==
  IF <<tenant, site>> \in DOMAIN inventory_store THEN inventory_store[<<tenant, site>>] ELSE NotFound

CrawlEnded == {"over_budget", "deadline", "unknown_route", "retries_exhausted", "invalid_record",
               "cross_tenant", "stored"}
DiscoveryNext ==
  \E c \in Crawls :
    StartCrawl(c) \/ NextRoute(c) \/ FetchRoute(c) \/ CrawlTick(c) \/ FinishCrawl(c) \/ PutInventory(c)
DiscoverySpec == DiscoveryInit /\ [][DiscoveryNext]_discoveryVars

-----------------------------------------------------------------------------
DiscoveryTypeOK ==
  \A c \in Crawls :
    /\ crawl[c].at \in CrawlEnded \cup {"start", "route", "fetch", "observed"}
    /\ crawl[c].status \in JobStatus
    /\ crawl[c].status = "succeeded" <=> crawl[c].at \in {"observed", "cross_tenant", "stored"}
    /\ crawl[c].status = "failed" <=> crawl[c].at \in {"deadline", "retries_exhausted"}

(* A run keeps to the site's robots policy and to its budget: no route it  *)
(* may not read is ever fetched, not even on a retry, no occurrence of a   *)
(* route is fetched more than max_retries + 1 times, no run looks at more  *)
(* routes than its budget allows, and past its deadline a run goes on with *)
(* the one route it had begun, retries included (run_site_discovery).      *)
CrawlKeepsBounds ==
  \A c \in Crawls :
    LET me == crawl[c] IN
    /\ \A i \in DOMAIN me.fetches :
         /\ Robots[me.plan.routes[me.fetches[i]]] = "allowed"
         /\ Cardinality({j \in DOMAIN me.fetches : me.fetches[j] = me.fetches[i]}) <= me.plan.budget.max_retries + 1
         /\ me.fetches[i] <= me.plan.budget.max_routes
    /\ \A m, n \in me.late : m = n

(* What is stored for a tenant and a site is a whole inventory of that     *)
(* tenant's: a record and an audit entry for every route in order, with    *)
(* evidence exactly where the run really fetched (SiteInventoryStore.put). *)
InventoryIsWhole ==
  \A k \in DOMAIN inventory_store :
    LET o == GetInventory(k[1], k[2])  me == crawl[o.run] IN
    /\ o.tenant = k[1] /\ Len(o.records) = Len(me.plan.routes) /\ Len(o.audit) = Len(o.records)
    /\ \A i \in DOMAIN o.records :
         /\ o.records[i].route = me.plan.routes[i] /\ o.audit[i][1] = me.plan.routes[i]
         /\ o.records[i].robots_allowed <=> o.audit[i][2] = "fetched"
         /\ o.records[i].evidence_ref # NoEvidenceRef <=> \E j \in DOMAIN me.fetches : me.fetches[j] = i

(* A crawl keeps its bounds, and what it stores is a whole inventory.      *)
CrawlIsKept ==
  /\ DiscoveryTypeOK
  /\ CrawlKeepsBounds
  /\ InventoryIsWhole
=============================================================================
