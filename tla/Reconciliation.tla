----------------------------- MODULE Reconciliation ----------------------------
(* app/worker.py after a failure, a cancellation or a restart: what the rows  *)
(* say is brought in line with what the cluster holds, and a deployment is    *)
(* given up only if its VM is seen to be absent.                              *)
(*   _reconcile_canceled_job, _reconcile_failed_job, _retain_unsettled_task,  *)
(*   _best_effort_destroy, _retry_cleanup_deployment, _recover_orphans        *)
(* The worker reconciles the job it executes (the job stays "running" until   *)
(* it is done), the queued job it ended in a claim, the jobs a restart left   *)
(* behind, and pending cleanups; the waiting thread the wait it ended.        *)
EXTENDS JobExecution

\* Mutant of Retain: the task is not asked about.
RetainNothing(a) ==
  /\ at[a].pc = "retain"
  /\ Goto(a, "read")
  /\ UNCHANGED <<tables, cluster, todo, request, environment>>

\* _retain_unsettled_task: while the job's last task may go on, the identity of its
\* VM is uncertain and nothing is concluded from the cluster.
Retain(a) ==
  LET d == at[a].dep
      j == at[a].job
      task == {t \in running : t.job = j /\ t.kind = job[j].remote}
  IN
  /\ at[a].pc = "retain"
  /\ \/ /\ Exists(d) /\ job[j].remote # ""
        /\ disabled \/ Fault("unreachable") \/ task # {}
        /\ dep' = [dep EXCEPT ![d].identity = "submitting", ![d].status = "error"]
        /\ Goto(a, "close")
     \/ /\ ~Exists(d) \/ job[j].remote = "" \/ (~disabled /\ task = {})
        /\ Goto(a, "read")
        /\ UNCHANGED dep
  /\ UNCHANGED <<alloc, job, cluster, todo, request, environment>>

\* The row is read: an unconfirmed create ends the matter, else the VM id is kept for
\* the rest.  A canceled deploy first tears its VM down.
Read(a) ==
  LET d == at[a].dep
      j == at[a].job
      uncertain == Exists(d) /\ "submitting" \in {dep[d].identity, job[j].create}
  IN
  /\ at[a].pc = "read"
  /\ \/ ~Exists(d) /\ Goto(a, "close") /\ UNCHANGED dep
     \/ /\ uncertain
        /\ dep' = [dep EXCEPT ![d].status = "error"]
        /\ Goto(a, "close")
     \/ /\ Exists(d) /\ ~uncertain
        /\ at' = [at EXCEPT
             ![a].vmid = dep[d].vmid,
             ![a].pc = IF at[a].kind = "deploy" /\ at[a].out = "canceled" /\ dep[d].vmid # NoVmid
                         THEN "tearDown" ELSE "probe"]
        /\ UNCHANGED dep
  /\ UNCHANGED <<alloc, job, cluster, todo, request, environment>>

--------------------------------------------------------------------------------
(* _best_effort_destroy                                                       *)

\* It finds the row, and its last job, by the VM id.
NamesVm(d, v) == VmidOf(d) = v
FirstNaming(v) == {d \in Deployments : NamesVm(d, v) /\ \A e \in Deployments : NamesVm(e, v) => d <= e}

\* Stop or destroy was sent, and refused, failed or not heard of: the caller gives up.
TearDownUnconfirmed(a) ==
  /\ dep' = [d \in Deployments |->
       IF d \in FirstNaming(at[a].vmid)
         THEN [dep[d] EXCEPT !.identity = "submitting", !.status = "error"] ELSE dep[d]]
  /\ Goto(a, "close")

\* No client, no VM, or no answer before anything was sent: on to the probe.
\* Otherwise the VM is stopped and its destruction submitted and recorded.
TearDown(a) ==
  /\ at[a].pc = "tearDown"
  /\ LET v == at[a].vmid IN
     \/ /\ disabled \/ Fault("unreachable") \/ ~Present(v)
        /\ Goto(a, "probe")
        /\ UNCHANGED <<dep, job, running>>
     \/ /\ ~disabled /\ Present(v)
        /\ \E d \in FirstNaming(v), j \in JobIds :
             /\ IsLatest(j, d)
             /\ LET t == [job |-> j, kind |-> "destroy", vmid |-> v, on |-> vm[v]] IN
                \/ /\ running' = running \cup {t}
                   /\ job' = [job EXCEPT ![j].remote = "destroy"]
                   /\ GotoAwaiting(a, "tearDownWait", t)
                   /\ UNCHANGED dep
                \/ /\ \/ Fault("lost") /\ running' \in {running, running \cup {t}}
                      \/ Fault("reject") /\ UNCHANGED running
                   /\ job' \in {job, [job EXCEPT ![j].remote = "other"]}
                   /\ TearDownUnconfirmed(a)
                \/ /\ Fault("taskfail") /\ UNCHANGED running
                   /\ job' = [job EXCEPT ![j].remote = "other"]
                   /\ TearDownUnconfirmed(a)
                \/ /\ Fault("stuck") /\ running' = running \cup {[t EXCEPT !.kind = "other"]}
                   /\ job' = [job EXCEPT ![j].remote = "other"]
                   /\ TearDownUnconfirmed(a)
     \/ \* the row is gone: the VM is destroyed all the same, and nothing is recorded
        /\ ~disabled /\ Present(v) /\ FirstNaming(v) = {}
        /\ \E j \in JobIds :
             /\ IsLatest(j, at[a].dep)
             /\ LET t == [job |-> j, kind |-> "destroy", vmid |-> v, on |-> vm[v]] IN
                \/ running' = running \cup {t} /\ GotoAwaiting(a, "tearDownWait", t)
                \/ /\ \/ Fault("lost") /\ running' \in {running, running \cup {t}}
                      \/ (Fault("reject") \/ Fault("taskfail")) /\ UNCHANGED running
                      \/ Fault("stuck") /\ running' = running \cup {[t EXCEPT !.kind = "other"]}
                   /\ Goto(a, "close")
        /\ UNCHANGED <<dep, job>>
  /\ UNCHANGED <<vm, alloc, todo, request, environment>>

TearDownWait(a) ==
  /\ at[a].pc = "tearDownWait"
  /\ \/ TaskOk(a) /\ Goto(a, "probe") /\ UNCHANGED dep
     \/ Fault("taskfail") /\ Fails(at[a].task) /\ TearDownUnconfirmed(a)
     \/ (Fault("stuck") \/ Fault("unreachable")) /\ TearDownUnconfirmed(a) /\ UNCHANGED cluster
  /\ UNCHANGED <<alloc, job, todo, request, environment>>

--------------------------------------------------------------------------------
(* The verdict                                                                *)

Probe(a) ==
  /\ at[a].pc = "probe"
  /\ \E answer \in Presence(at[a].vmid) :
       at' = [at EXCEPT ![a].seen = answer, ![a].pc = "apply"]
  /\ UNCHANGED <<tables, cluster, todo, request, environment>>

\* The row still names the VM the probe was about.
StillNames(a) == Exists(at[a].dep) /\ VmidOf(at[a].dep) = at[a].vmid

\* _drop_deployment_if_matches
DropIfMatches(a, matches) ==
  IF matches THEN DropRow(at[a].dep) ELSE UNCHANGED <<dep, alloc>>

\* _set_dep_status
SetRow(a, status, origin) ==
  /\ dep' = IF StillNames(a)
              THEN [dep EXCEPT ![at[a].dep].status = status, ![at[a].dep].origin = origin]
              ELSE dep
  /\ UNCHANGED alloc

\* Mutant of ApplyCanceled: every canceled job that is not settled is left pending.
ApplyCanceledPending(a) ==
  LET kind == at[a].kind
      seen == at[a].seen
      newVm == kind = "rebuild" /\ job[at[a].job].create = "accepted"
  IN
  IF seen = "absent" THEN
    IF kind \in {"deploy", "destroy"} THEN DropIfMatches(a, StillNames(a))
                                      ELSE SetRow(a, "error", "")
  ELSE IF seen = "present" /\ kind \in {"rebuild", "destroy"} /\ ~newVm THEN
    SetRow(a, "live", "")
  ELSE SetRow(a, "cleanup_pending", kind)

\* A rebuild that got as far as its new VM is left for review; a rebuild or destroy
\* that left the VM alone leaves it as it runs, if that can be asked.
ApplyCanceled(a) ==
  LET kind == at[a].kind
      seen == at[a].seen
      newVm == kind = "rebuild" /\ job[at[a].job].create = "accepted"
  IN
  IF seen = "absent" THEN
    IF kind \in {"deploy", "destroy"} THEN DropIfMatches(a, StillNames(a))
                                      ELSE SetRow(a, "error", "")
  ELSE IF seen = "present" /\ kind \in {"rebuild", "destroy"} /\ ~newVm THEN
    \/ SetRow(a, "live", "")
    \/ Fault("unreachable") /\ SetRow(a, "error", "")
  ELSE IF kind \in {"deploy", "destroy"} THEN SetRow(a, "cleanup_pending", kind)
  ELSE SetRow(a, "error", "")

\* Mutant of ApplyFailed: a failed deploy gives its address back unless its VM is seen.
ApplyFailedUnseen(a) ==
  LET d == at[a].dep IN
  IF at[a].seen = "absent" /\ at[a].kind = "destroy" THEN DropIfMatches(a, StillNames(a))
  ELSE IF ~StillNames(a) THEN UNCHANGED <<dep, alloc>>
  ELSE /\ dep' = [dep EXCEPT ![d].status = "error", ![d].origin = ""]
       /\ alloc' = IF at[a].seen # "present" /\ at[a].kind = "deploy" THEN Unreserved(d) ELSE alloc

\* A failed deploy without a VM gives its address back but keeps its row.
ApplyFailed(a) ==
  LET d == at[a].dep
      absent == at[a].seen = "absent"
  IN
  IF absent /\ at[a].kind = "destroy" THEN DropIfMatches(a, StillNames(a))
  ELSE IF ~StillNames(a) THEN UNCHANGED <<dep, alloc>>
  ELSE /\ dep' = [dep EXCEPT ![d].status = "error", ![d].origin = ""]
       /\ alloc' = IF absent /\ at[a].kind = "deploy" THEN Unreserved(d) ELSE alloc

\* _retry_cleanup_deployment
ApplyCleanup(a) ==
  LET d == at[a].dep IN
  IF at[a].seen = "absent"
    THEN DropIfMatches(a, StillNames(a) /\ dep[d].status = "cleanup_pending")
  ELSE IF at[a].seen = "present" /\ at[a].kind = "destroy" THEN SetRow(a, "live", "")
  ELSE SetRow(a, "cleanup_pending", IF Exists(d) THEN dep[d].origin ELSE "")

Apply(a) ==
  /\ at[a].pc = "apply"
  /\ \/ at[a].out = "canceled" /\ ApplyCanceled(a)
     \/ at[a].out = "failed" /\ ApplyFailed(a)
     \/ at[a].out = "cleanup" /\ ApplyCleanup(a)
  /\ at' = [at EXCEPT ![a].pc = "close"]
  /\ UNCHANGED <<job, cluster, todo, request, environment>>

\* Mutant of Close: the job is left running.
CloseForgetsJob(a) ==
  /\ at[a].pc = "close"
  /\ at' = [at EXCEPT ![a] = IF a = "worker" /\ todo # {} THEN [Idle EXCEPT !.pc = "recoverNext"]
                                                          ELSE Idle]
  /\ UNCHANGED <<tables, cluster, todo, request, environment>>

\* _execute gives the job its final status only now; everywhere else it had one before.
Close(a) ==
  LET j == at[a].job IN
  /\ at[a].pc = "close"
  /\ job' = IF j # 0 /\ job[j].status = "running" THEN [job EXCEPT ![j].status = at[a].out] ELSE job
  /\ at' = [at EXCEPT ![a] = IF a = "worker" /\ todo # {} THEN [Idle EXCEPT !.pc = "recoverNext"]
                                                          ELSE Idle]
  /\ UNCHANGED <<dep, alloc, cluster, todo, request, environment>>

ReconcileStep(a) ==
  \/ Retain(a) \/ Read(a) \/ TearDown(a) \/ TearDownWait(a) \/ Probe(a) \/ Apply(a) \/ Close(a)

--------------------------------------------------------------------------------
\* The idle worker takes up a pending cleanup, under the deployment's operation lock.
RetryCleanup(d) ==
  /\ at["worker"].pc = "idle"
  /\ ~ \E j \in JobIds : job[j].status = "queued"
  /\ Exists(d) /\ dep[d].status = "cleanup_pending"
  /\ request # NoRequest => request.dep # d
  /\ at' = [at EXCEPT !["worker"] =
       [Idle EXCEPT !.dep = d, !.kind = dep[d].origin, !.out = "cleanup", !.vmid = dep[d].vmid,
                    !.pc = IF dep[d].origin = "deploy" /\ dep[d].vmid # NoVmid
                             THEN "tearDown" ELSE "probe"]]
  /\ UNCHANGED <<tables, cluster, todo, request, environment>>

\* The process stops and starts again: threads and requests are gone, tasks are not.
Crash ==
  /\ Fault("crash") /\ crashes < MaxCrashes
  /\ crashes' = crashes + 1
  /\ at' = [a \in Actors |-> IF a = "worker" THEN [Idle EXCEPT !.pc = "recover"] ELSE Idle]
  /\ todo' = {}
  /\ request' = NoRequest
  /\ UNCHANGED <<tables, cluster, disabled>>

\* _recover_orphans: every running job is failed in one commit ...
Recover ==
  /\ at["worker"].pc = "recover"
  /\ LET orphans == {j \in JobIds : job[j].status = "running"} IN
     /\ job' = [j \in JobIds |-> IF j \in orphans THEN [job[j] EXCEPT !.status = "failed"] ELSE job[j]]
     /\ todo' = orphans
  /\ at' = [at EXCEPT !["worker"].pc = "recoverNext"]
  /\ UNCHANGED <<dep, alloc, cluster, request, environment>>

\* ... and then reconciled, one after the other.
RecoverNext ==
  /\ at["worker"].pc = "recoverNext"
  /\ \/ todo = {} /\ at' = [at EXCEPT !["worker"] = Idle] /\ UNCHANGED todo
     \/ \E j \in Least(todo) :
          /\ todo' = todo \ {j}
          /\ Start("worker", "retain", j, "failed")
  /\ UNCHANGED <<tables, cluster, request, environment>>
================================================================================
