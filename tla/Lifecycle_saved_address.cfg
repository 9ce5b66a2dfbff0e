SPECIFICATION Spec
CONSTANTS
  MaxDeployments = 2
  MaxJobs = 3
  Vmids = {100, 101}
  Ips = {1}
  PostBoot = {FALSE}
  Ops = {"deploy", "rebuild"}
  Faults = {"local"}
  MaxCrashes = 0
  NoRow = NoRow
  NoVmid = NoVmid
  NoIp = NoIp
  NoVm = NoVm
  Foreign = Foreign
  NoTask = NoTask
  NoRequest = NoRequest
INVARIANTS AddressNotShared
CHECK_DEADLOCK FALSE
