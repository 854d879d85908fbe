\* The services may stop: clocks end at a bound and logs at theirs.
CHECK_DEADLOCK FALSE
SPECIFICATION Spec
SYMMETRY MCSymmetry
CONSTANTS
  Names <- MCNames
  NoName = ""
  Rates = {1}
  Bursts = {0}
  Counts = {1}
  InitialTokens = 3
  BurstSeconds = 2
  HitLimit = 2
  MaxBackoff = 2
  MaxTime = 2
  MaxHits = 3
  MaxLimits = 2
  WindowSize = 2
  MaxEvents = 2
  WindowTime = 5
  Payloads = {p, q}
  Origins = {o1, o2}
  Retention = 1
  Capacity = 2
  AuditTimes = {1, 3}
  MaxLogged = 3
  MaxChanges = 2
  Agents = {a, b}
  Ratings = {0, 10, 50}
  Times = {5, 60}
  MaxRecords = 4
  Subjects = {x}
  Issuers = {i}
  Capabilities = {c}
  Levels = {"basic", "master"}
  PeerRatings = {0, 10, 50}
  TrustTimes = {1, 2}
  MaxIssued = 2
  ApiKeys = {k1, k2}
  Providers = {o}
  IssuerUrls = {u, v}
  KeyLife = 1
  ServiceLife = 1
  SsoTimes = {1, 3}
  Walkers = {w1, w2}
  McpServers = {"s1", "s2"}
  Urls = {"u1"}
  ToolNames = {"t"}
  Stdio = "stdio"
  MaxExposed = 2
INVARIANTS
  ServicesTypeOK
  SpentWithinLimit
  WindowHolds
  VerdictIsExact
  GateIsSound
  TrustIsVouched
  RefusedKeyStaysRefused
  ExposedIsCallable
