SPECIFICATION Spec
CONSTANTS
  MaxDeployments = 1
  MaxJobs = 3
  Vmids = {100}
  Ips = {1}
  PostBoot = {FALSE}
  Ops = {"deploy", "rebuildCurrent", "destroy", "retryCleanup", "cancel", "reconcile"}
  Faults = {"local", "reject", "lost", "taskfail", "stuck", "unreachable", "foreign"}
  MaxCrashes = 0
  NoRow = NoRow
  NoVmid = NoVmid
  NoIp = NoIp
  NoVm = NoVm
  Foreign = Foreign
  NoTask = NoTask
  NoRequest = NoRequest
INVARIANTS NoOrphanVm AddressReserved
PROPERTIES NothingDestroyedWhileUncertain
CHECK_DEADLOCK FALSE
