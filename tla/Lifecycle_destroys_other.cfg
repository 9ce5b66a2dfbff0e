SPECIFICATION Spec
CONSTANTS
  MaxDeployments = 2
  MaxJobs = 3
  Vmids = {100, 101}
  Ips = {}
  PostBoot = {FALSE}
  Ops = {"deploy", "destroy"}
  Faults = {"taskfail"}
  MaxCrashes = 0
  NoRow = NoRow
  NoVmid = NoVmid
  NoIp = NoIp
  NoVm = NoVm
  Foreign = Foreign
  NoTask = NoTask
  NoRequest = NoRequest
INVARIANTS DestroysOwnOnly
CHECK_DEADLOCK FALSE
