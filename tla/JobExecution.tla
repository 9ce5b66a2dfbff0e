----------------------------- MODULE JobExecution ------------------------------
(* The worker thread of app/worker.py: _claim_next_job, _execute and the      *)
(* implementations it dispatches to (_run_deploy, _run_rebuild, _run_destroy, *)
(* _run_configure); and the waiting thread: _poll_waiting_job,                *)
(* _resume_waiting_ansible, _timeout_waiting_job.  Every way out that is not  *)
(* a success leads to "retain", where Reconciliation takes over.              *)
EXTENDS LifecycleState

Goto(a, place) == at' = [at EXCEPT ![a].pc = place, ![a].task = NoTask]
GotoAwaiting(a, place, t) == at' = [at EXCEPT ![a].pc = place, ![a].task = t]
\* impl raises: _execute goes on to reconcile the failure or the cancellation.
Abort(a, outcome) ==
  at' = [at EXCEPT ![a].pc = "retain", ![a].out = outcome, ![a].task = NoTask]
Canceled(a) == job[at[a].job].cancel
Fault(f) == f \in Faults

Start(a, place, j, outcome) ==
  at' = [at EXCEPT ![a] = [Idle EXCEPT !.pc = place, !.job = j, !.dep = job[j].dep,
                                       !.kind = job[j].type, !.out = outcome]]
SetStatus(j, status) == job' = [job EXCEPT ![j].status = status]

FirstPlace(type) == IF type = "deploy" THEN "pick" ELSE "load"

--------------------------------------------------------------------------------
(* The worker claims the queued job with the lowest id                        *)

NextQueued(j) ==
  /\ job[j].status = "queued"
  /\ \A i \in JobIds : job[i].status = "queued" => j <= i

Claim(j) ==
  /\ at["worker"].pc = "idle"
  /\ NextQueued(j)
  /\ \/ /\ job[j].cancel
        /\ SetStatus(j, "canceled")
        /\ Start("worker", "retain", j, "canceled")
     \/ /\ ~job[j].cancel /\ disabled
        /\ SetStatus(j, "failed")
        /\ Start("worker", "retain", j, "failed")
     \/ /\ ~job[j].cancel /\ ~disabled
        /\ SetStatus(j, "running")
        /\ Start("worker", FirstPlace(job[j].type), j, "")
  /\ UNCHANGED <<dep, alloc, cluster, todo, request, environment>>

--------------------------------------------------------------------------------
(* Waiting for an accepted task (Proxmox.wait_task)                           *)

\* The task stops with exit status OK.
TaskOk(a) == Succeeds(at[a].task)

\* The task fails; or the wait times out, or cannot ask, while the task goes on.
TaskFailed(a) ==
  /\ \/ Fault("taskfail") /\ Fails(at[a].task)
     \/ (Fault("stuck") \/ Fault("unreachable")) /\ UNCHANGED cluster
  /\ Abort(a, "failed")

\* A cancel deletes the task, which may have stopped by then or may go on.
TaskCanceled(a) ==
  /\ Canceled(a)
  /\ \/ Fails(at[a].task) \/ Succeeds(at[a].task)
     \/ Fault("stuck") /\ UNCHANGED cluster
  /\ Abort(a, "canceled")

\* A task of another kind (stop, configuration, resize, start), submitted, recorded
\* and waited for in one step; the VM is there and stays there.
OtherTask(a, v) == [job |-> at[a].job, kind |-> "other", vmid |-> v, on |-> vm[v]]
OtherTaskOk(a, next) ==
  /\ job' = [job EXCEPT ![at[a].job].remote = "other"]
  /\ Goto(a, next)
  /\ UNCHANGED cluster
OtherTaskAborts(a, v) ==
  /\ \/ /\ \/ Fault("taskfail") /\ UNCHANGED running /\ Abort(a, "failed")
           \/ Canceled(a) /\ UNCHANGED running /\ Abort(a, "canceled")
           \/ /\ Fault("stuck")
              /\ running' = running \cup {OtherTask(a, v)}
              /\ Abort(a, "failed") \/ (Canceled(a) /\ Abort(a, "canceled"))
        /\ job' = [job EXCEPT ![at[a].job].remote = "other"]
     \/ /\ Fault("reject") \/ Fault("lost")    \* no task to record
        /\ Abort(a, "failed")
        /\ UNCHANGED <<running, job>>
  /\ UNCHANGED vm

--------------------------------------------------------------------------------
(* _run_rebuild, _run_destroy and _run_configure begin                        *)

MissingTarget(a) == ~Exists(at[a].dep) \/ disabled

\* A configuration needs the VM.
Configurable(d) == VmidOf(d) # NoVmid /\ Present(VmidOf(d))

\* Targets, then the cancel that landed after the claim, then (rebuild) image and
\* snippet preflight while the old VM still exists.
Load(a) ==
  /\ at[a].pc = "load"
  /\ \/ (MissingTarget(a) \/ Fault("local")) /\ Abort(a, "failed")
     \/ ~MissingTarget(a) /\ Canceled(a) /\ Abort(a, "canceled")
     \/ /\ ~MissingTarget(a) /\ ~Canceled(a)
        /\ at' = [at EXCEPT ![a].vmid = dep[at[a].dep].vmid,
                            ![a].pc = IF at[a].kind = "configure" THEN "ansible" ELSE "stop"]
        /\ at[a].kind = "configure" => Configurable(at[a].dep)
     \/ ~MissingTarget(a) /\ at[a].kind = "configure" /\ ~Configurable(at[a].dep)
        /\ Abort(a, "failed")
  /\ UNCHANGED <<tables, cluster, todo, request, environment>>

\* _stop_vm_for_lifecycle: a VM that is absent needs no stop and no destroy.
Stop(a) ==
  /\ at[a].pc = "stop"
  /\ LET v == at[a].vmid IN
     \/ "absent" \in Inventory(v) /\ Goto(a, "confirm") /\ UNCHANGED <<job, cluster>>
     \/ "unknown" \in Inventory(v) /\ Abort(a, "failed") /\ UNCHANGED <<job, cluster>>
     \/ /\ v # NoVmid /\ Present(v)
        /\ \/ Goto(a, "destroy") /\ UNCHANGED <<job, cluster>>    \* it is stopped already
           \/ OtherTaskOk(a, "destroy") \/ OtherTaskAborts(a, v)
  /\ UNCHANGED <<dep, alloc, todo, request, environment>>

\* px.destroy: accepted; not accepted; or accepted with the answer lost.
Destroy(a) ==
  /\ at[a].pc = "destroy"
  /\ LET t == [job |-> at[a].job, kind |-> "destroy", vmid |-> at[a].vmid,
               on |-> vm[at[a].vmid]] IN
     \/ /\ Present(at[a].vmid)
        /\ running' = running \cup {t}
        /\ \/ GotoAwaiting(a, "recordDestroy", t)
           \/ Fault("lost") /\ Abort(a, "failed")
     \/ /\ ~Present(at[a].vmid) \/ Fault("reject") \/ Fault("lost")
        /\ UNCHANGED running
        /\ Abort(a, "failed")
  /\ UNCHANGED <<vm, tables, todo, request, environment>>

\* ctx.remote(upid, node): the accepted task is committed before it is waited for.
RecordDestroy(a) ==
  /\ at[a].pc = "recordDestroy"
  /\ job' = [job EXCEPT ![at[a].job].remote = "destroy"]
  /\ GotoAwaiting(a, "erase", at[a].task)
  /\ UNCHANGED <<dep, alloc, cluster, todo, request, environment>>

Erase(a) ==
  /\ at[a].pc = "erase"
  /\ \/ TaskOk(a) /\ Goto(a, "confirm")
     \/ TaskFailed(a) \/ TaskCanceled(a)
  /\ UNCHANGED <<tables, todo, request, environment>>

\* The probe must confirm absence: then a rebuild deploys, a destroy drops the row.
Confirm(a) ==
  /\ at[a].pc = "confirm"
  /\ \/ "absent" \in Inventory(at[a].vmid)
        /\ Goto(a, IF at[a].kind = "rebuild" THEN "pick" ELSE "drop")
     \/ Inventory(at[a].vmid) # {"absent"} /\ Abort(a, "failed")
  /\ UNCHANGED <<tables, cluster, todo, request, environment>>

\* _drop_deployment
Drop(a) ==
  /\ at[a].pc = "drop"
  /\ DropRow(at[a].dep)
  /\ Goto(a, "succeed")
  /\ UNCHANGED <<job, cluster, todo, request, environment>>

--------------------------------------------------------------------------------
(* _run_deploy, also the second half of a rebuild                             *)

FreeVmids == {v \in Vmids : ~Present(v)}

\* Targets; next_free_vmid, which asks the cluster only; and the choice persisted.
Pick(a) ==
  /\ at[a].pc = "pick"
  /\ LET d == at[a].dep IN
     \/ /\ MissingTarget(a) \/ Fault("local") \/ (VmidOf(d) = NoVmid /\ FreeVmids = {})
        /\ Abort(a, "failed")
        /\ UNCHANGED dep
     \/ /\ ~MissingTarget(a)
        /\ \E v \in IF dep[d].vmid # NoVmid THEN {dep[d].vmid} ELSE Least(FreeVmids) :
             /\ dep' = [dep EXCEPT ![d].vmid = v]
             /\ at' = [at EXCEPT ![a].vmid = v, ![a].pc = "prepare"]
  /\ UNCHANGED <<alloc, job, cluster, todo, request, environment>>

\* _clear_selected_vmid
Cleared(row, v) == IF row.vmid = v THEN [row EXCEPT !.vmid = NoVmid] ELSE row

\* Snippet preflight and base disk, then ctx.creation("submitting").
Prepare(a) ==
  /\ at[a].pc = "prepare"
  /\ LET d == at[a].dep IN
     \/ /\ Write(d, Cleared(dep[d], at[a].vmid))
        /\ \/ Fault("local") /\ Abort(a, "failed")
           \/ Canceled(a) /\ Abort(a, "canceled")
        /\ UNCHANGED job
     \/ /\ Write(d, [dep[d] EXCEPT !.identity = "submitting"])
        /\ job' = [job EXCEPT ![at[a].job].create = "submitting"]
        /\ Goto(a, "create")
  /\ UNCHANGED <<alloc, cluster, todo, request, environment>>

\* px.create_vm_import: refused (4xx); answer lost, accepted or not; or accepted.
Create(a) ==
  /\ at[a].pc = "create"
  /\ LET d == at[a].dep
         v == at[a].vmid
         taken == Present(v) \/ \E t \in running : t.kind = "create" /\ t.vmid = v
         t == [job |-> at[a].job, kind |-> "create", vmid |-> v, on |-> NoVm]
     IN
     \/ /\ taken \/ Fault("reject")
        /\ Write(d, [Cleared(dep[d], v) EXCEPT !.identity = "rejected"])
        /\ job' = [job EXCEPT ![at[a].job].create = "rejected"]
        /\ Abort(a, "failed")
        /\ UNCHANGED running
     \/ /\ Fault("lost")
        /\ running' \in {running} \cup (IF taken THEN {} ELSE {running \cup {t}})
        /\ Abort(a, "failed")
        /\ UNCHANGED <<dep, job>>
     \/ /\ ~taken
        /\ running' = running \cup {t}
        /\ GotoAwaiting(a, "accept", t)
        /\ UNCHANGED <<dep, job>>
  /\ UNCHANGED <<vm, alloc, todo, request, environment>>

\* ctx.creation("accepted")
Accept(a) ==
  /\ at[a].pc = "accept"
  /\ Write(at[a].dep, [dep[at[a].dep] EXCEPT !.identity = "accepted"])
  /\ job' = [job EXCEPT ![at[a].job].create = "accepted"]
  /\ GotoAwaiting(a, "record", at[a].task)
  /\ UNCHANGED <<alloc, cluster, todo, request, environment>>

\* ctx.remote(upid, node)
Record(a) ==
  /\ at[a].pc = "record"
  /\ job' = [job EXCEPT ![at[a].job].remote = "create"]
  /\ GotoAwaiting(a, "import", at[a].task)
  /\ UNCHANGED <<dep, alloc, cluster, todo, request, environment>>

Import(a) ==
  /\ at[a].pc = "import"
  /\ \/ TaskOk(a) /\ Goto(a, "setup")
     \/ TaskFailed(a) \/ TaskCanceled(a)
  /\ UNCHANGED <<tables, todo, request, environment>>

\* Configuration, resize and start, each a recorded task.
Setup(a) ==
  /\ at[a].pc = "setup"
  /\ \/ Present(at[a].vmid) /\ (OtherTaskOk(a, "boot") \/ OtherTaskAborts(a, at[a].vmid))
     \/ ~Present(at[a].vmid) /\ Abort(a, "failed") /\ UNCHANGED <<job, cluster>>
  /\ UNCHANGED <<dep, alloc, todo, request, environment>>

\* wait_guest_ready and _wait_for_ip.  With a static address there is always one;
\* without, Ansible may have to wait for the guest: _defer_for_guest_ip.
Boot(a) ==
  /\ at[a].pc = "boot"
  /\ \/ Fault("local") /\ Abort(a, "failed") /\ UNCHANGED job
     \/ Canceled(a) /\ Abort(a, "canceled") /\ UNCHANGED job
     \/ ~Exists(at[a].dep) /\ Abort(a, "failed") /\ UNCHANGED job
     \/ /\ Exists(at[a].dep)
        /\ Goto(a, IF dep[at[a].dep].post THEN "ansible" ELSE "finish")
        /\ UNCHANGED job
     \/ /\ Exists(at[a].dep) /\ dep[at[a].dep].post /\ job[at[a].job].ip = NoIp
        /\ SetStatus(at[a].job, "waiting")
        /\ at' = [at EXCEPT ![a] = Idle]
  /\ UNCHANGED <<dep, alloc, cluster, todo, request, environment>>

--------------------------------------------------------------------------------
(* Ansible and the end of a successful job                                    *)

Ansible(a) ==
  /\ at[a].pc = "ansible"
  /\ \/ Goto(a, "finish")
     \/ Fault("local") /\ Abort(a, "failed")
     \/ Canceled(a) /\ Abort(a, "canceled")
  /\ UNCHANGED <<tables, cluster, todo, request, environment>>

\* The row becomes running; _set_dep_status, for a configuration, only if it still
\* names the same VM.
Finish(a) ==
  /\ at[a].pc = "finish"
  /\ LET d == at[a].dep IN
     \/ /\ Exists(d)
        /\ dep' = IF at[a].kind = "configure" /\ dep[d].vmid # at[a].vmid THEN dep
                  ELSE [dep EXCEPT ![d].status = "live", ![d].origin = ""]
        /\ Goto(a, "succeed")
     \/ /\ ~Exists(d)
        /\ IF at[a].kind = "configure" THEN Goto(a, "succeed") ELSE Abort(a, "failed")
        /\ UNCHANGED dep
  /\ UNCHANGED <<alloc, job, cluster, todo, request, environment>>

Succeed(a) ==
  /\ at[a].pc = "succeed"
  /\ SetStatus(at[a].job, "succeeded")
  /\ at' = [at EXCEPT ![a] = Idle]
  /\ UNCHANGED <<dep, alloc, cluster, todo, request, environment>>

Execute(a) ==
  \/ Load(a) \/ Stop(a) \/ Destroy(a) \/ RecordDestroy(a) \/ Erase(a) \/ Confirm(a) \/ Drop(a)
  \/ Pick(a) \/ Prepare(a) \/ Create(a) \/ Accept(a) \/ Record(a) \/ Import(a) \/ Setup(a) \/ Boot(a)
  \/ Ansible(a) \/ Finish(a) \/ Succeed(a)

--------------------------------------------------------------------------------
(* The waiting thread                                                         *)

Waiting(j) == at["waiter"].pc = "idle" /\ job[j].status = "waiting"
NoTarget(j) == VmidOf(job[j].dep) = NoVmid

\* _finish_waiting_error on a job that still waits: the job ends, then is reconciled.
EndWait(j, outcome) ==
  /\ SetStatus(j, outcome)
  /\ Start("waiter", "retain", j, outcome)
  /\ UNCHANGED <<dep, alloc, cluster, todo, request, environment>>

WaitCanceled(j) == Waiting(j) /\ job[j].cancel /\ EndWait(j, "canceled")
WaitLost(j) == Waiting(j) /\ ~job[j].cancel /\ NoTarget(j) /\ EndWait(j, "failed")

\* Mutant of WaitTimeout: the row is forgotten.
TimeoutForgetsRow(j) ==
  /\ Waiting(j) /\ ~job[j].cancel /\ ~NoTarget(j) /\ ~disabled
  /\ SetStatus(j, "failed")
  /\ UNCHANGED <<dep, alloc, cluster, control, environment>>

\* No address within WAITING_TIMEOUT (_timeout_waiting_job): job and row in one commit.
WaitTimeout(j) ==
  /\ Waiting(j) /\ ~job[j].cancel /\ ~NoTarget(j) /\ ~disabled
  /\ SetStatus(j, "failed")
  /\ dep' = [dep EXCEPT ![job[j].dep].status = "error", ![job[j].dep].origin = ""]
  /\ UNCHANGED <<alloc, cluster, control, environment>>

\* The guest reports an address (_resume_waiting_ansible): the job runs again.  The
\* cancel flag was looked at before the address was asked for.
Resume(j) ==
  /\ Waiting(j) /\ ~NoTarget(j) /\ ~disabled
  /\ Present(dep[job[j].dep].vmid)
  /\ SetStatus(j, "running")
  /\ Start("waiter", "resumed", j, "")
  /\ UNCHANGED <<dep, alloc, cluster, todo, request, environment>>

\* Mutant of ResumedOk: a job that was ended meanwhile succeeds all the same.
ResumedOkUnchecked ==
  LET j == at["waiter"].job
      d == at["waiter"].dep
  IN /\ at["waiter"].pc = "resumed"
     /\ IF Exists(d)
          THEN /\ SetStatus(j, "succeeded")
               /\ dep' = [dep EXCEPT ![d].status = "live", ![d].origin = ""]
          ELSE UNCHANGED <<job, dep>>
     /\ at' = [at EXCEPT !["waiter"] = Idle]
     /\ UNCHANGED <<alloc, cluster, todo, request, environment>>

\* Ansible succeeds: job and row in one commit, unless the job was ended meanwhile.
ResumedOk ==
  LET j == at["waiter"].job
      d == at["waiter"].dep
  IN /\ at["waiter"].pc = "resumed"
     /\ IF job[j].status = "running" /\ Exists(d)
          THEN /\ SetStatus(j, "succeeded")
               /\ dep' = [dep EXCEPT ![d].status = "live", ![d].origin = ""]
          ELSE UNCHANGED <<job, dep>>
     /\ at' = [at EXCEPT !["waiter"] = Idle]
     /\ UNCHANGED <<alloc, cluster, todo, request, environment>>

\* Ansible fails or is canceled (_finish_waiting_error): the job ends, then it is
\* reconciled, unless it was ended meanwhile.
ResumedAborts ==
  LET j == at["waiter"].job IN
  /\ at["waiter"].pc = "resumed"
  /\ \E outcome \in (IF Fault("local") THEN {"failed"} ELSE {})
                    \cup (IF job[j].cancel THEN {"canceled"} ELSE {}) :
       IF job[j].status \in {"waiting", "running"}
         THEN EndWait(j, outcome)
         ELSE /\ at' = [at EXCEPT !["waiter"] = Idle]
              /\ UNCHANGED <<tables, cluster, todo, request, environment>>

Wait ==
  \/ \E j \in JobIds : WaitCanceled(j) \/ WaitLost(j) \/ WaitTimeout(j) \/ Resume(j)
  \/ ResumedOk \/ ResumedAborts
================================================================================
