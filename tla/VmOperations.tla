------------------------------ MODULE VmOperations ------------------------------
(* The short operations on one deployment: power, resize, disk growth,         *)
(* snapshots, and the preparation of a serial console (app/api.py 1207-1251,   *)
(* 1449-1570, 1634-1778, 1995-2018).  Each runs in its request under the lock  *)
(* of the deployment, calls Proxmox and commits; lifecycle jobs are admitted   *)
(* under the same lock but run later, without it, in the worker.               *)
EXTENDS Integers, Sequences, FiniteSets

CONSTANTS
  Requests,   \* handler threads
  Free,
  Vms,        \* VM ids
  NoVm,
  Sizes,      \* of cores and memory together, or of a disk
  MaxOps,     \* bound: operations begun
  MaxJobs     \* bound: lifecycle jobs admitted

ASSUME FreeIsNoRequest == Free \notin Requests
ASSUME NoVmIsNoVm == NoVm \notin Vms
ASSUME SizesNat == Sizes \subseteq Nat
ASSUME SomeVm == Vms # {} /\ Sizes # {}
ASSUME BoundsNat == MaxOps \in Nat /\ MaxJobs \in Nat

VARIABLES
  dep,       \* Deployment: vmid, status, cpu and ram, disk
  job,       \* its active lifecycle job
  lock,      \* its operation lock
  vm,        \* the VMs of the cluster: power and configured sizes; `pending` when the
             \* size takes effect only at the next start
  tasks,     \* Proxmox tasks of short operations; those of one VM run in turn
  call,      \* place and variables of each handler
  counted    \* operations and jobs begun

operations == <<dep, job, lock, vm, tasks, call, counted>>

\* A restart leaves what a start leaves; deleting a snapshot what taking one leaves.
TaskOps == {"start", "stop", "snapshot", "rollback"}
ConfigOps == {"resize", "grow", "serial"}
JobTypes == {"rebuild", "destroy", "configure"}
NoCall == [op |-> "none", pc |-> "idle", vmid |-> NoVm, size |-> 0]
NoRow == [there |-> FALSE, vmid |-> NoVm, status |-> "none", size |-> 0, disk |-> 0]
Gone == [there |-> FALSE, on |-> FALSE, size |-> 0, disk |-> 0, pending |-> FALSE]
Created(n, k) == [there |-> TRUE, on |-> TRUE, size |-> n, disk |-> k, pending |-> FALSE]

OperationsInit ==
  /\ LET v == CHOOSE w \in Vms : TRUE
         n == CHOOSE k \in Sizes : TRUE IN
       /\ dep = [there |-> TRUE, vmid |-> v, status |-> "running", size |-> n, disk |-> n]
       /\ vm = [w \in Vms |-> IF w = v THEN Created(n, n) ELSE Gone]
  /\ job = "none" /\ lock = Free /\ tasks = <<>>
  /\ call = [r \in Requests |-> NoCall]
  /\ counted = [ops |-> 0, jobs |-> 0]

At(r, pc) == call[r].pc = pc
To(r, pc) == call' = [call EXCEPT ![r].pc = pc]
\* Mutant of Ended: an error leaves the lock locked.
EndedHolding(r) == call' = [call EXCEPT ![r] = NoCall] /\ UNCHANGED lock

\* A handler ends; the context manager releases the lock.
Ended(r) ==
  /\ call' = [call EXCEPT ![r] = NoCall]
  /\ lock' = IF lock = r THEN Free ELSE lock

\* The authorization before any lock; its read transaction is ended.
Ask(r, op, n) ==
  /\ At(r, "idle") /\ dep.there /\ counted.ops < MaxOps
  /\ op \in {"resize", "grow"} \/ n = dep.size
  /\ call' = [call EXCEPT ![r] = [op |-> op, pc |-> "wait", vmid |-> NoVm, size |-> n]]
  /\ counted' = [counted EXCEPT !.ops = @ + 1]
  /\ UNCHANGED <<dep, job, lock, vm, tasks>>

Lock(r) ==
  /\ At(r, "wait") /\ lock = Free
  /\ lock' = r
  /\ To(r, "check")
  /\ UNCHANGED <<dep, job, vm, tasks, counted>>

\* Mutant of Quiescent: an active job is not looked for.
QuiescentRow == dep.there /\ dep.status # "cleanup_pending" /\ dep.vmid # NoVm

\* The second read: _reject_cleanup_pending, _active_lifecycle_job, a VM id.
Quiescent == dep.there /\ dep.status # "cleanup_pending" /\ job = "none" /\ dep.vmid # NoVm

Check(r) ==
  /\ At(r, "check") /\ Quiescent
  /\ call' = [call EXCEPT ![r].pc = IF call[r].op \in ConfigOps THEN "look" ELSE "call",
                          ![r].vmid = dep.vmid]
  /\ UNCHANGED <<dep, job, lock, vm, tasks, counted>>

\* A refusal, a failed call or a lost answer: nothing is committed.
Refuse(r) ==
  /\ call[r].pc \notin {"idle", "done"}
  /\ Ended(r)
  /\ tasks' = [i \in DOMAIN tasks |-> IF tasks[i].by = r THEN [tasks[i] EXCEPT !.by = Free] ELSE tasks[i]]
  /\ UNCHANGED <<dep, job, vm, counted>>

\* Proxmox accepts a task.
Started(r, kind) ==
  tasks' = Append(tasks, [kind |-> kind, vmid |-> call[r].vmid, size |-> call[r].size, by |-> r])

\* Proxmox does not configure a VM that another task works on.
Configurable(v) == vm[v].there /\ \A i \in DOMAIN tasks : tasks[i].vmid # v

\* What is asked of the VM before it is configured: whether it is stopped, whether its
\* disk is smaller, whether it has a serial port already.
Inspect(r) ==
  LET c == call[r] IN
  /\ At(r, "look") /\ vm[c.vmid].there
  /\ c.op = "resize" => ~vm[c.vmid].on
  /\ c.op = "grow" => c.size > vm[c.vmid].disk
  /\ \/ To(r, "call")
     \/ c.op = "serial" /\ To(r, "done")
  /\ UNCHANGED <<dep, job, lock, vm, tasks, counted>>

\* The call itself; an earlier task may have ended since. Proxmox shrinks no disk.
Submit(r) ==
  LET c == call[r] IN
  /\ At(r, "call")
  /\ c.op \in ConfigOps => Configurable(c.vmid)
  /\ c.op = "grow" => c.size >= vm[c.vmid].disk
  /\ Started(r, c.op)
  /\ To(r, "await")
  /\ UNCHANGED <<dep, job, lock, vm, counted>>

\* What a task does to its VM when it succeeds; a rollback restores the sizes too.
Outcomes(t, m) ==
  CASE t.kind = "start" -> {[m EXCEPT !.on = TRUE, !.pending = FALSE]}
    [] t.kind = "stop" -> {[m EXCEPT !.on = FALSE]}
    [] t.kind = "resize" -> [there : {TRUE}, on : {m.on}, size : {t.size}, disk : {m.disk},
                             pending : IF m.on THEN BOOLEAN ELSE {FALSE}]
    [] t.kind = "grow" -> {[m EXCEPT !.disk = t.size]}
    [] t.kind \in {"snapshot", "serial"} -> {m}
    [] t.kind = "rollback" -> [there : {TRUE}, on : BOOLEAN, size : Sizes, disk : Sizes,
                               pending : {FALSE}]

\* wait_task sees its task end well; others nobody waits for.
TaskSucceeds ==
  /\ tasks # <<>>
  /\ LET t == Head(tasks) IN
       /\ vm[t.vmid].there
       /\ \E m \in Outcomes(t, vm[t.vmid]) : vm' = [vm EXCEPT ![t.vmid] = m]
       /\ IF t.by = Free THEN UNCHANGED call
          ELSE To(t.by, IF t.kind = "rollback" THEN "boot" ELSE "done")
  /\ tasks' = Tail(tasks)
  /\ UNCHANGED <<dep, job, lock, counted>>

TaskFails ==
  /\ tasks # <<>>
  /\ LET t == Head(tasks) IN
       IF t.by = Free THEN UNCHANGED <<call, lock>> ELSE Ended(t.by)
  /\ tasks' = Tail(tasks)
  /\ UNCHANGED <<dep, job, vm, counted>>

\* rollback_vm_snapshot starts the VM again if it is asked to and the VM is off.
BootAgain(r) ==
  /\ At(r, "boot")
  /\ \/ To(r, "done") /\ UNCHANGED tasks
     \/ ~vm[call[r].vmid].on /\ Started(r, "start") /\ To(r, "await")
  /\ UNCHANGED <<dep, job, lock, vm, counted>>

\* Mutant of TimedOut: the handler goes on as if the task had ended.
TimedOutDone(r) == To(r, "done") /\ UNCHANGED <<dep, lock>>

\* wait_task gives up after its time; its attempt to stop the task, which is the last
\* one as only the holder of the lock submits, may be in vain.
TimedOut(r) == Ended(r) /\ UNCHANGED dep
WaitTimesOut(r) ==
  /\ At(r, "await")
  /\ \/ tasks' = SubSeq(tasks, 1, Len(tasks) - 1)
     \/ tasks' = [i \in DOMAIN tasks |-> IF tasks[i].by = r THEN [tasks[i] EXCEPT !.by = Free] ELSE tasks[i]]
  /\ TimedOut(r)
  /\ UNCHANGED <<job, vm, counted>>

\* What the operation leaves in the row.
Committed(op, n) ==
  CASE op = "start" -> [dep EXCEPT !.status = "running"]
    [] op = "stop" -> [dep EXCEPT !.status = "stopped"]
    [] op = "resize" -> [dep EXCEPT !.size = n]
    [] op = "grow" -> [dep EXCEPT !.disk = n]
    [] OTHER -> dep

Commit(r) ==
  /\ At(r, "done")
  /\ dep' = Committed(call[r].op, call[r].size)
  /\ Ended(r)
  /\ UNCHANGED <<job, vm, tasks, counted>>

--------------------------------------------------------------------------------
(* The lifecycle beside them, as far as it matters here.                       *)

\* vm_rebuild, vm_destroy, retry_configuration take the lock while they admit.
Admit(type) ==
  /\ lock = Free /\ counted.jobs < MaxJobs
  /\ Quiescent
  /\ job' = type
  /\ dep' = [dep EXCEPT !.status = "working"]
  /\ counted' = [counted EXCEPT !.jobs = @ + 1]
  /\ UNCHANGED <<lock, vm, tasks, call>>

\* The worker destroys the VM of a rebuild or destroy job.
JobDestroys ==
  /\ job \in {"rebuild", "destroy"} /\ dep.vmid # NoVm
  /\ vm' = [vm EXCEPT ![dep.vmid] = Gone]
  /\ dep' = [dep EXCEPT !.vmid = NoVm]
  /\ UNCHANGED <<job, lock, tasks, call, counted>>
JobCreates(v) ==
  /\ job = "rebuild" /\ dep.vmid = NoVm /\ ~vm[v].there
  /\ vm' = [vm EXCEPT ![v] = Created(dep.size, dep.disk)]
  /\ dep' = [dep EXCEPT !.vmid = v]
  /\ UNCHANGED <<job, lock, tasks, call, counted>>
JobEnds ==
  /\ job # "none"
  /\ job' = "none"
  /\ \/ job = "destroy" /\ dep.vmid = NoVm /\ dep' = NoRow
     \/ \E status \in {"running", "error", "cleanup_pending"} : dep' = [dep EXCEPT !.status = status]
  /\ UNCHANGED <<lock, vm, tasks, call, counted>>

\* _retry_cleanup_deployment, under the lock
Cleanup ==
  /\ lock = Free /\ dep.status = "cleanup_pending"
  /\ dep' \in {[dep EXCEPT !.status = "stopped"], [dep EXCEPT !.status = "error"]}
              \cup IF dep.vmid = NoVm \/ ~vm[dep.vmid].there THEN {NoRow} ELSE {}
  /\ UNCHANGED <<job, lock, vm, tasks, call, counted>>

OperationsNext ==
  \/ \E r \in Requests :
       \/ \E op \in TaskOps \cup ConfigOps, n \in Sizes : Ask(r, op, n)
       \/ Lock(r) \/ Check(r) \/ Refuse(r) \/ Inspect(r) \/ Submit(r) \/ BootAgain(r)
       \/ WaitTimesOut(r) \/ Commit(r)
  \/ TaskSucceeds \/ TaskFails
  \/ \E type \in JobTypes : Admit(type)
  \/ JobDestroys \/ (\E v \in Vms : JobCreates(v)) \/ JobEnds \/ Cleanup

\* A thread goes on until it waits for the lock or for a task, and no wait for a task
\* is longer than its timeout; a lock that is released again and again is got.
OperationsFairness ==
  \A r \in Requests :
    /\ SF_operations(Lock(r))
    /\ WF_operations(Check(r) \/ Inspect(r) \/ Submit(r)
                      \/ (Refuse(r) /\ ~At(r, "wait") /\ ~At(r, "await")))
    /\ WF_operations(BootAgain(r)) /\ WF_operations(WaitTimesOut(r)) /\ WF_operations(Commit(r))

OperationsSpec == OperationsInit /\ [][OperationsNext]_operations /\ OperationsFairness

--------------------------------------------------------------------------------
OperationsTypeOK ==
  /\ dep \in [there : BOOLEAN, vmid : Vms \cup {NoVm}, size : Sizes \cup {0}, disk : Sizes \cup {0},
              status : {"none", "running", "stopped", "working", "error", "cleanup_pending"}]
  /\ job \in JobTypes \cup {"none"}
  /\ lock \in Requests \cup {Free}
  /\ vm \in [Vms -> [there : BOOLEAN, on : BOOLEAN, size : Sizes \cup {0}, disk : Sizes \cup {0},
                     pending : BOOLEAN]]
  /\ tasks \in Seq([kind : TaskOps \cup ConfigOps, vmid : Vms, size : Sizes, by : Requests \cup {Free}])
  /\ call \in [Requests -> {NoCall} \cup
       [op : TaskOps \cup ConfigOps, pc : {"wait", "check", "look", "call", "await", "boot", "done"},
        vmid : Vms \cup {NoVm}, size : Sizes]]
  /\ counted \in [ops : 0..MaxOps, jobs : 0..MaxJobs]

\* From its check to its commit an operation has the deployment to itself (api.py
\* 1212-1224, 1661-1684): no lifecycle job is active, and the VM it works on is the
\* one the row names, however requests and the worker interleave.
OperatesOnOwnVm ==
  \A r \in Requests :
    call[r].pc \in {"look", "call", "await", "boot", "done"}
    => job = "none" /\ dep.there /\ dep.vmid = call[r].vmid

\* "the gate keeps GoblinDock's view and the hypervisor's identical" (api.py 1483-1485):
\* what a power action or a resize commits is what the VM is, whatever earlier tasks
\* outlived the wait for them. Of a VM that such a task starts between the look at its
\* power and the write, the size is the one it has from its next start on.
CommitAgrees ==
  [][\A r \in Requests :
       At(r, "done") /\ call'[r] = NoCall
       => LET m == vm'[dep'.vmid]
              op == call[r].op IN
          /\ op \in {"start", "stop"} => (m.on <=> dep'.status = "running")
          /\ op = "resize" => m.size = dep'.size /\ (m.on \/ ~m.pending)
          /\ op = "grow" => m.disk = dep'.disk]_operations

\* Every wait for Proxmox is bounded, so the lock of a deployment is released and every
\* request is answered, also if tasks never end.
OperationsEnd == \A r \in Requests : []<>At(r, "idle")
================================================================================
