SPECIFICATION ServicesSpec
CONSTANTS
  Focuses = {"accounts"}
  Users = {u1, u2}
  Handlers = {h1, h2}
  Nobody = Nobody
  LockThreshold = 2
  MaxRequests = 4
  Targets = {own, other}
  Owned = {own}
  Sockets = {s1, s2}
  Tokens = {t1}
  MaxChanges = 2
  Requests = {r1, r2}
  Free = Free
  Vms = {v1, v2}
  NoVm = NoVm
  Sizes = {1, 2}
  MaxOps = 3
  MaxJobs = 1
  Base = base
  Fresh = {f1, f2}
  MaxImageJobs = 4
  Faults = {}
  Callers = {scheduler, admin}
  Unlocked = Unlocked
  Keep = 2
  MaxBackups = 4
  MaxVersions = 3
  ClockBack = FALSE
  Last = 3
  NoAddress = NoAddress
  Holders = {d1, d2}
  Admissions = {a1, a2}
  NobodyAdmits = NobodyAdmits
  MaxNetEdits = 1
  Deps = {d1}
  Current = 2
  MaxDeaths = 2
  MaxRows = 2
  MaxEvents = 2
  LogLimit = 1
  Cleaners = {c1}
  MaxCuts = 1
  Placements = 2
  Curated = {i1}
  MaxConnections = 2
  MaxCatalogEdits = 2
  IdsReused = FALSE
  LateReply = FALSE
PROPERTIES RevocationRevokes
CHECK_DEADLOCK FALSE
