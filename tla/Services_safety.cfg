SPECIFICATION ServicesSpec
CONSTANTS
  Focuses = {"accounts", "consoles", "operations", "images", "backups", "pools", "schema", "history", "seeds"}
  Users = {u1, u2}
  Handlers = {h1, h2}
  Nobody = Nobody
  LockThreshold = 2
  MaxRequests = 3
  Targets = {own, other}
  Owned = {own}
  Sockets = {s1, s2}
  Tokens = {t1}
  MaxChanges = 1
  Requests = {r1, r2}
  Free = Free
  Vms = {v1, v2}
  NoVm = NoVm
  Sizes = {1, 2}
  MaxOps = 3
  MaxJobs = 1
  Base = base
  Fresh = {f1, f2}
  MaxImageJobs = 4
  Faults = {}
  Callers = {scheduler, admin}
  Unlocked = Unlocked
  Keep = 2
  MaxBackups = 4
  MaxVersions = 3
  ClockBack = FALSE
  Last = 3
  NoAddress = NoAddress
  Holders = {d1, d2}
  Admissions = {a1, a2}
  NobodyAdmits = NobodyAdmits
  MaxNetEdits = 1
  Deps = {d1}
  Current = 2
  MaxDeaths = 2
  MaxRows = 1
  MaxEvents = 3
  LogLimit = 2
  Cleaners = {c1, c2}
  MaxCuts = 1
  Placements = 2
  Curated = {i1}
  MaxConnections = 2
  MaxCatalogEdits = 2
  IdsReused = FALSE
  LateReply = FALSE
INVARIANTS TypeOK AdministratorRemains GuessesBounded OperatesOnOwnVm UsedIsComplete ReservationServes LogHasNoGap CredentialsResolve ServedCatalogSound
PROPERTIES RevokesUnlessOvertaken CommitAgrees UsedStays AnsweredIsDurable StoreImplemented NeverRefusedEarly RestartChangesNothing
CHECK_DEADLOCK FALSE
