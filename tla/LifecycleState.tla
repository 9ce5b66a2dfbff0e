----------------------------- MODULE LifecycleState ----------------------------
(* State of the life of a deployment: the API admits jobs, the worker claims  *)
(* and executes them against a Proxmox cluster, the waiting thread resumes    *)
(* jobs that wait for a guest IP, and every cancellation, failure or restart  *)
(* is reconciled with what the cluster really holds.  The tables are those of *)
(* app/models.py, the cluster is what app/proxmox.py talks to.  Admission,    *)
(* JobExecution and Reconciliation hold the actions; Lifecycle composes them. *)
(* One action is one database transaction or one Proxmox call, with the code  *)
(* between it and the next one.  What Proxmox does with an accepted task is   *)
(* the environment's.                                                         *)
EXTENDS Naturals, FiniteSets

CONSTANTS
  MaxDeployments, \* bound: deployment rows ever created
  MaxJobs,        \* bound: jobs ever admitted
  Vmids,          \* VM ids of the configured range
  Ips,            \* addresses of the static pool; {} is a DHCP network
  PostBoot,       \* may a recipe hold Ansible blocks: a subset of BOOLEAN
  Ops,            \* the API operations users call
  Faults,         \* what can go wrong
  MaxCrashes,     \* bound: process restarts
  NoRow, NoVmid, NoIp, NoVm, Foreign, NoTask, NoRequest

Deployments == 1..MaxDeployments
JobIds == 1..MaxJobs
Actors == {"worker", "waiter"}

AllOps == {"deploy", "rebuild", "rebuildCurrent", "destroy", "retryCleanup", "configure",
           "cancel", "localCleanup", "forcedCleanup", "reconcile", "disable"}
AllFaults == {"local", "reject", "lost", "taskfail", "stuck", "unreachable", "crash",
              "foreign", "eager"}

ASSUME ConstantsTyped ==
  /\ MaxDeployments \in Nat /\ MaxJobs \in Nat /\ MaxCrashes \in Nat
  /\ Vmids \subseteq Nat /\ Ips \subseteq Nat
  /\ PostBoot \subseteq BOOLEAN /\ Ops \subseteq AllOps /\ Faults \subseteq AllFaults
ASSUME NothingsDistinct ==
  /\ NoVmid \notin Vmids /\ NoIp \notin Ips
  /\ NoVm \notin JobIds /\ Foreign \notin JobIds /\ NoVm # Foreign

VARIABLES
  dep,      \* table deployments: id -> row, or NoRow
  alloc,    \* table ip_allocations: address -> the deployment that reserves it, or 0
  job,      \* table jobs: id -> row; status "unused" before it is inserted
  vm,       \* cluster: VM id -> the job whose create call made the VM, Foreign or NoVm
  running,  \* cluster: the tasks that were accepted and have not stopped
  at,       \* actor -> its place in the code and its local variables
  todo,     \* jobs _recover_orphans has failed and not yet reconciled
  request,  \* the admission handler between its guard and its commit, or NoRequest
  disabled, \* Connection.disabled, set and cleared by an administrator
  crashes   \* restarts so far

vars == <<dep, alloc, job, vm, running, at, todo, request, disabled, crashes>>
tables == <<dep, alloc, job>>
cluster == <<vm, running>>
control == <<at, todo, request>>
environment == <<disabled, crashes>>

LifecycleTypes == {"deploy", "rebuild", "destroy", "configure"}
ActiveStatuses == {"queued", "running", "waiting"}
Terminal == {"succeeded", "failed", "canceled"}
IdentityStates == {"", "submitting", "accepted", "rejected"}
TaskKinds == {"create", "destroy", "other"}

\* Deployment.status; "live" stands for both running and stopped: power is not modelled.
Row == [status : {"working", "live", "error", "cleanup_pending"},
        vmid : Vmids \cup {NoVmid},
        identity : IdentityStates,             \* identity_state
        origin : {"", "deploy", "destroy"},    \* cleanup_origin
        ip : Ips \cup {NoIp},                  \* static_ip in original_context_enc
        post : BOOLEAN]                        \* the plan holds Ansible blocks
ASSUME NoRowIsNoRow == NoRow \notin Row

JobRow == [type : LifecycleTypes,
           status : ActiveStatuses \cup Terminal \cup {"unused"},
           dep : Deployments \cup {0},
           cancel : BOOLEAN,                   \* cancel_requested
           create : IdentityStates,            \* create_state
           remote : TaskKinds \cup {""},       \* remote_task: the kind names the task
           ip : Ips \cup {NoIp}]               \* static_ip in context_json

Unused == [type |-> "deploy", status |-> "unused", dep |-> 0, cancel |-> FALSE,
           create |-> "", remote |-> "", ip |-> NoIp]

\* A Proxmox task; `on` is the VM it was submitted for.
Task == [job : JobIds, kind : TaskKinds, vmid : Vmids, on : JobIds \cup {Foreign, NoVm}]

ExecPlaces == {"load", "stop", "destroy", "recordDestroy", "erase", "confirm", "pick",
               "prepare", "create", "accept", "record", "import", "setup", "boot", "ansible",
               "finish", "drop", "succeed"}
ReconcilePlaces == {"retain", "read", "tearDown", "tearDownWait", "probe", "apply", "close"}
Places == {"idle", "resumed", "recover", "recoverNext"} \cup ExecPlaces \cup ReconcilePlaces

Local == [pc : Places, job : JobIds \cup {0}, dep : Deployments \cup {0},
          kind : LifecycleTypes \cup {""},              \* job.type, or cleanup_origin
          out : {"", "failed", "canceled", "cleanup"},  \* what is being reconciled
          vmid : Vmids \cup {NoVmid},                   \* the snapshot of dep.vmid
          seen : {"", "absent", "present", "unknown"},  \* the probe's answer
          task : Task \cup {NoTask}]                    \* the task being waited for

Idle == [pc |-> "idle", job |-> 0, dep |-> 0, kind |-> "", out |-> "", vmid |-> NoVmid,
         seen |-> "", task |-> NoTask]

Init ==
  /\ dep = [d \in Deployments |-> NoRow]
  /\ alloc = [i \in Ips |-> 0]
  /\ job = [j \in JobIds |-> Unused]
  /\ vm = [v \in Vmids |-> NoVm]
  /\ running = {}
  /\ at = [a \in Actors |-> Idle]
  /\ todo = {}
  /\ request = NoRequest
  /\ disabled = FALSE
  /\ crashes = 0

--------------------------------------------------------------------------------
(* Queries and updates of the tables                                          *)

Exists(d) == d \in Deployments /\ dep[d] # NoRow
VmidOf(d) == IF Exists(d) THEN dep[d].vmid ELSE NoVmid
JobActive(j) == job[j].status \in ActiveStatuses
\* Mutant of Active: a waiting job does not count.
ActiveButWaiting(d) == \E j \in JobIds : job[j].dep = d /\ job[j].status \in {"queued", "running"}

\* _active_lifecycle_job
Active(d) == \E j \in JobIds : job[j].dep = d /\ JobActive(j)
\* select(Job).where(deployment_id == d).order_by(id.desc()).first()
IsLatest(j, d) == job[j].dep = d /\ \A i \in JobIds : job[i].dep = d => i <= j

FreshJob(j) == \A i \in JobIds : job[i].status = "unused" <=> i >= j
FreshDeployment(d) == \A e \in Deployments : (\A i \in JobIds : job[i].dep # e) <=> e >= d

Least(S) == {x \in S : \A y \in S : x <= y}

\* allocate_ip: the reservation the deployment has, else the first free address.
AllocatedIps(d) ==
  LET mine == {i \in Ips : alloc[i] = d}
      free == {i \in Ips : alloc[i] = 0}
  IN IF Ips = {} THEN {NoIp}
     ELSE IF mine # {} THEN mine ELSE Least(free)
Reserve(d, i) == alloc' = IF i = NoIp THEN alloc ELSE [alloc EXCEPT ![i] = d]
Unreserved(d) == [i \in Ips |-> IF alloc[i] = d THEN 0 ELSE alloc[i]]

Insert(j, type, d, create, i) ==
  job' = [job EXCEPT ![j] = [Unused EXCEPT !.type = type, !.status = "queued", !.dep = d,
                                           !.create = create, !.ip = i]]

\* _drop_deployment
DropRow(d) ==
  /\ dep' = [dep EXCEPT ![d] = NoRow]
  /\ alloc' = Unreserved(d)

\* A row that is gone is not written.
Write(d, row) == dep' = IF Exists(d) THEN [dep EXCEPT ![d] = row] ELSE dep

--------------------------------------------------------------------------------
(* The cluster                                                                *)

Present(v) == vm[v] # NoVm
\* What probe_vm_presence may answer to a client that is already connected ...
Inventory(v) ==
  IF v = NoVmid THEN {"absent"}
  ELSE {IF Present(v) THEN "present" ELSE "absent"}
       \cup (IF "unreachable" \in Faults THEN {"unknown"} ELSE {})
\* ... and to one made by _px_for_conn, which never contacts a disabled connection.
Presence(v) == IF v # NoVmid /\ disabled THEN {"unknown"} ELSE Inventory(v)

Effect(t) ==
  CASE t.kind = "create"  -> [vm EXCEPT ![t.vmid] = t.job]
    [] t.kind = "destroy" -> [vm EXCEPT ![t.vmid] = IF @ = t.on THEN NoVm ELSE @]
    [] t.kind = "other"   -> vm

Succeeds(t) == running' = running \ {t} /\ vm' = Effect(t)
Fails(t) == running' = running \ {t} /\ UNCHANGED vm
Awaited(t) == \E a \in Actors : at[a].task = t

\* A task nobody waits for stops, with or without its effect.
TaskStops ==
  \E t \in running :
    /\ ~Awaited(t)
    /\ Succeeds(t) \/ Fails(t)
    /\ UNCHANGED <<tables, control, environment>>

\* Somebody else creates a VM, or removes theirs.
ForeignVm ==
  /\ "foreign" \in Faults
  /\ \E v \in Vmids :
       /\ vm[v] \in {NoVm, Foreign}
       /\ ~ \E t \in running : t.kind = "create" /\ t.vmid = v
       /\ vm' = [vm EXCEPT ![v] = IF @ = NoVm THEN Foreign ELSE NoVm]
  /\ UNCHANGED <<running, tables, control, environment>>
================================================================================
