\* Observation, intake and knowledge stores, one of them at a time.
CONSTANTS
  Runs = {"r1", "r2", "r3", "r4"}
  RunTenant <- MCRunTenant
  RunQueries <- MCRunQueries
  RunEngine <- MCRunEngine
  SessionIds = {"s1", "s2", "s3"}
  MaxSize = 2
  MaxUses = 2
  Unregistered = {"x"}
  ScheduleRequests <- MCScheduleRequests
  SECONDS_PER_DAY = 10
  Fixtures <- MCFixtures
  CaptureBudgets <- MCCaptureBudgets
  MaxCaptureQueries = 3
  MaxCaptureClock = 3
  Crawls = {"k1", "k2"}
  CrawlPlans <- MCCrawlPlans
  Robots <- MCRobots
  Evidence <- MCEvidence
  MaxCrawlClock = 2
  Writers = {"w1", "w2", "w3"}
  AnalyticsLoads <- MCAnalyticsLoads
  MonthLength = 3
  DedupWindow = 1
  TimeRanges <- MCTimeRanges
  Limits = {1, 2}
  MaxTries = 2
  Clients = {"c1", "c2", "c3"}
  Programs <- MCPrograms
  TableDimension = 1
  Jobs = {"j1", "j2", "j3"}
  IntakeLoads <- MCIntakeLoads
  ContentAt <- MCContentAt
  Leaky = {"leaky"}
  LedgerTenants = {"a", "b"}
  ClaimRecords <- MCClaims
  EvidenceRecords <- MCEvidenceRecords
  MaxAgeSeconds = 1
  MaxLedgerClock = 3
  MaxEntries = 6
  Builders = {"b1", "b2"}
  GraphRequests <- MCGraphRequests
  AliasForm <- MCAliasForm
  LocaleForm <- MCLocaleForm
  EntityRank <- MCEntityRank
  ClusterRank <- MCClusterRank
  IntentsIn <- MCIntentsIn
  Registrations <- MCRegistrations
  MaxRegisterCalls = 4
  Bundles <- MCBundles
  NameMark <- MCNameMark
  OutcomeRequests <- MCOutcomeRequests
  CardPayloads <- MCCardPayloads
  MaxSealed = 2
  MaxPublished = 1
  MaxCards = 1
SPECIFICATION MCSpec
CHECK_DEADLOCK FALSE
INVARIANTS
  ScheduleIsKept
  CrawlIsKept
  IntakeIsVerified
  GraphsAreVersioned
  EvidenceStands
PROPERTIES
  PoolIsSafe
  AnalyticsIsLogical
  VectorsAreVersioned
  ClaimsAreCurrent
