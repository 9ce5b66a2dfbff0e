SPECIFICATION Spec
CONSTANTS
  MaxDeployments = 1
  MaxJobs = 2
  Vmids = {100}
  Ips = {}
  PostBoot = {FALSE}
  Ops = {"deploy", "destroy"}
  Faults = {"crash"}
  MaxCrashes = 1
  NoRow = NoRow
  NoVmid = NoVmid
  NoIp = NoIp
  NoVm = NoVm
  Foreign = Foreign
  NoTask = NoTask
  NoRequest = NoRequest
INVARIANTS NoOrphanVm
CHECK_DEADLOCK FALSE
