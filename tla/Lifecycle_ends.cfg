SPECIFICATION FairSpec
CONSTANTS
  MaxDeployments = 1
  MaxJobs = 3
  Vmids = {100}
  Ips = {}
  PostBoot = {TRUE, FALSE}
  Ops = {"deploy", "destroy", "configure", "cancel", "localCleanup"}
  Faults = {"local", "taskfail", "reject"}
  MaxCrashes = 0
  NoRow = NoRow
  NoVmid = NoVmid
  NoIp = NoIp
  NoVm = NoVm
  Foreign = Foreign
  NoTask = NoTask
  NoRequest = NoRequest
INVARIANTS NoStrandedWorking
PROPERTIES JobsEnd
CHECK_DEADLOCK FALSE
