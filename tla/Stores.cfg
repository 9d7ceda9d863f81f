CONSTANTS
  Writers = {"w1", "w2"}
  AuditTenants = {"t1", "t2"}
  AppendLoads <- MCAppendLoads
  AppendRequest <- MCAppendRequest
  MaxEntries = 2
  MaxDamage = 1
  Clients = {"c1", "c2"}
  StoreTenants = {"t1", "t2"}
  Workloads <- MCWorkloads
  Script <- MCScript
  MaxTransactions = 3
  Registrations = {"one", "two", "fields", "foreign", "anonymous", "posing", "shape", "coded", "broken", "link"}
  Registration <- MCRegistration
  TenantIds = {"t1", "t2", "Bad_Id"}
SPECIFICATION MCSpec
CHECK_DEADLOCK FALSE
INVARIANTS
  ChainsAreTrue
  RegistryIsTrue
  TenantsAreGated
PROPERTIES
  RowsAreTrue
