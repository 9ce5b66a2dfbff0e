SPECIFICATION StepsSpec
CONSTANTS
  Requests = {r1, r2, r3}
  Deployments = {d1, d2}
  Entries = {e1, e2}
  None = None
INVARIANTS RegistryExact
PROPERTIES LocksImplemented EveryRequestServed UnrelatedNotSerialized
CHECK_DEADLOCK FALSE
