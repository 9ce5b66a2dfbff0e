SPECIFICATION Spec
CONSTANTS
  MaxDeployments = 1
  MaxJobs = 2
  Vmids = {100}
  Ips = {}
  PostBoot = {TRUE}
  Ops = {"deploy", "rebuild", "destroy", "cancel", "configure", "localCleanup", "forcedCleanup", "disable", "reconcile"}
  Faults = {"local", "stuck", "crash", "eager", "unreachable"}
  MaxCrashes = 1
  NoRow = NoRow
  NoVmid = NoVmid
  NoIp = NoIp
  NoVm = NoVm
  Foreign = Foreign
  NoTask = NoTask
  NoRequest = NoRequest
INVARIANTS TypeOK OneActiveLifecycleJob
PROPERTIES EndedJobsStayEnded
CHECK_DEADLOCK FALSE
