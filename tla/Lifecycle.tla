------------------------------- MODULE Lifecycle -------------------------------
(* The API, the worker, the waiting thread and the cluster together.          *)
EXTENDS Admission, Reconciliation

WorkerNext ==
  \/ \E j \in JobIds : Claim(j)
  \/ Execute("worker")
  \/ ReconcileStep("worker")
  \/ \E d \in Deployments : RetryCleanup(d)
  \/ Recover \/ RecoverNext

WaiterNext == Wait \/ ReconcileStep("waiter")

ClusterNext == TaskStops \/ ForeignVm

Next == ApiNext \/ WorkerNext \/ WaiterNext \/ ClusterNext \/ Crash

Spec == Init /\ [][Next]_vars
\* Both threads run as long as the process does.
FairSpec == Spec /\ WF_vars(WorkerNext) /\ WF_vars(WaiterNext)

--------------------------------------------------------------------------------
TypeOK ==
  /\ dep \in [Deployments -> Row \cup {NoRow}]
  /\ alloc \in [Ips -> Deployments \cup {0}]
  /\ job \in [JobIds -> JobRow]
  /\ vm \in [Vmids -> JobIds \cup {Foreign, NoVm}]
  /\ running \subseteq Task
  /\ at \in [Actors -> Local]
  /\ todo \subseteq JobIds
  /\ request \in [op : RequestOps \cup CleanupOps, dep : Deployments, ip : Ips \cup {NoIp},
                  status : {"working", "live", "error", "cleanup_pending"}] \cup {NoRequest}
  /\ disabled \in BOOLEAN
  /\ crashes \in 0..MaxCrashes

\* "One in-flight lifecycle job per VM" (api.py:1272): no two active jobs name one
\* deployment, though the worker, the waiting thread and restarts change statuses
\* without the locks the API takes.
OneActiveLifecycleJob ==
  \A i, j \in JobIds :
    job[i].dep = job[j].dep /\ JobActive(i) /\ JobActive(j) => i = j

\* The deployment a job was admitted for still names the VM its create call made.
Owned(j, v) == VmidOf(job[j].dep) = v

\* Ownership is given up only when the VM is gone: every VM that a job created, or
\* that an accepted create may still make, belongs to a deployment that names it.
NoOrphanVm ==
  /\ \A v \in Vmids : vm[v] \in JobIds => Owned(vm[v], v)
  /\ \A t \in running : t.kind = "create" => Owned(t.job, t.vmid)

\* A deployment says "working" only while somebody is going to change that: a job is
\* active, or an actor is about to reconcile one.
AboutToReconcile(d) ==
  \/ \E a \in Actors : at[a].dep = d /\ at[a].pc # "idle"
  \/ \E j \in todo : job[j].dep = d
  \/ at["worker"].pc = "recover" /\ \E j \in JobIds : job[j].dep = d /\ job[j].status = "running"
NoStrandedWorking ==
  \A d \in Deployments :
    Exists(d) /\ dep[d].status = "working" => Active(d) \/ AboutToReconcile(d)

\* An address in use is reserved: whatever VM is configured with it, or an accepted
\* create is about to make, belongs to the deployment that holds the reservation.
Reserved(j) == job[j].ip # NoIp => alloc[job[j].ip] = job[j].dep
AddressReserved ==
  /\ \A v \in Vmids : vm[v] \in JobIds => Reserved(vm[v])
  /\ \A t \in running : t.kind = "create" => Reserved(t.job)
AddressNotShared ==
  \A v, w \in Vmids :
    /\ v # w /\ vm[v] \in JobIds /\ vm[w] \in JobIds
    /\ job[vm[v]].ip # NoIp
    => job[vm[v]].ip # job[vm[w]].ip

\* A deployment destroys no VM but its own: "a User only sees/controls their own VMs"
\* (README.md 292-293), and where the owner of a VM id is in doubt the id is kept "rather
\* than risking a destructive guess" (worker.py 775-777).
DestroysOwnOnly ==
  \A t \in running : t.kind = "destroy" => t.on \in JobIds /\ job[t.on].dep = job[t.job].dep

\* While the outcome of a deployment's remote work is uncertain, nothing destructive
\* is started for it.
NothingDestroyedWhileUncertain ==
  [][\A t \in running' \ running :
       t.kind = "destroy" /\ Exists(job[t.job].dep)
       => dep[job[t.job].dep].identity # "submitting"]_vars

\* A job that has ended never becomes active or ends another way.
EndedJobsStayEnded ==
  [][\A j \in JobIds : job[j].status \in Terminal => job'[j].status = job[j].status]_vars

\* Every admitted job ends.
JobsEnd == \A j \in JobIds : JobActive(j) ~> ~JobActive(j)
================================================================================
