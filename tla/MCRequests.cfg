CONSTANTS
  Parts = {"identity", "tokens", "calls", "repository", "scoped", "filters", "snapshot", "pages"}
  Rest = Rest  None = None  Missing = None  Undefined = None  Bad = Bad
  \* RequestIdentity
  Users = {"u1", "u2"}  Codes = {"c1", "c2"}  Opaque = {"cycle"}  Secrets = {"", "k1", "k9"}  MaxGuards = 3
  Principals <- SomePrincipals  Gateways <- SomeGateways  Grants <- SomeGrants  Keys <- SomeKeys  Enriched <- SomeEnriched
  \* JwksKeys
  Kids = {"k1"}  Requests = {"r1", "r2", "r3"}  MAX_CLIENTS = 2  MaxRotations = 1
  Issuers <- SomeIssuers  Policies <- IssuerPolicies
  \* HttpPropagation
  MaxHops = 3
  Configs <- SomeConfigs  Urls <- SomeUrls  CallHeaders <- SomeCallHeaders  Lower <- LowerNames  Stores <- SomeStores
  \* ScopedRepository
  Callers = {"alice", "bob"}  Ids = {1, 2}  Vals = {"final"}  Deletable = {"draft"}  Columns = {"tenantCode"}
  Required = {"tenantCode"}  ScopeVals = {"A", "B"}  LogHistory = TRUE  MaxBatch = 2
  Contexts <- AliceAndBob  Parent <- SomeParent  Seed <- TwoRows  MaxCalls <- TwoAndOne
  \* ActionHistory: ceilings of 2, 3 and 4 for 100, 200 and 100,000
  Unspecified = None  Malformed = Bad  HistoryTenants = {"t1", "t2"}  Resources = {"r1"}  Stamps = {1, 2}  MaxHistory = 3
  PageNumbers <- SomePages  PageSizes <- SomeSizes  MaxPageSizes <- SomeMaxSizes
  DefaultMax = 2  AbsoluteMax = 3  MaxOffset = 4
SPECIFICATION PartsSpec
INVARIANTS
  InboundIdentity
  IssuerKeys
  OutboundIdentity
  SnapshotSafe
  HistoryPages
PROPERTIES
  ScopeKept
  HistoryKept
  RequestsScoped
CHECK_DEADLOCK FALSE
