------------------------------- MODULE Admission -------------------------------
(* The handlers of app/api.py and app/operations.py that admit, cancel and    *)
(* recover.  Handlers that name a deployment run under its operation lock,    *)
(* and those that insert a job or delete a row under the admission lock too   *)
(* (module OperationLock): so at most one is between its first read and its   *)
(* commit, which is `request`.  SQLite reads are not in a transaction with    *)
(* the writes that follow, so the row a handler guards on is the one of       *)
(* BeginRequest while the jobs it looks at are those of FinishRequest.        *)
EXTENDS LifecycleState

\* The worker holds the operation lock of the cleanup it retries.
CleanupLocks(d) == at["worker"].out = "cleanup" /\ at["worker"].dep = d
\* A handler on d that takes both locks may start.
MayStart(d) == request = NoRequest /\ Exists(d) /\ ~CleanupLocks(d)

\* Mutant of NotPending: the identity is not looked at.
NotPendingOnly(d) == dep[d].status # "cleanup_pending"

\* _reject_cleanup_pending
NotPending(d) == dep[d].identity # "submitting" /\ dep[d].status # "cleanup_pending"

\* deploy, _deploy_transaction: row, reservation and job in one commit
Deploy ==
  /\ "deploy" \in Ops /\ request = NoRequest /\ ~disabled
  /\ \E d \in Deployments, j \in JobIds, post \in PostBoot :
       /\ FreshDeployment(d) /\ FreshJob(j)
       /\ \E i \in AllocatedIps(d) :
            /\ dep' = [dep EXCEPT ![d] = [status |-> "working", vmid |-> NoVmid, identity |-> "",
                                          origin |-> "", ip |-> i, post |-> post]]
            /\ Reserve(d, i)
            /\ Insert(j, "deploy", d, "", i)
  /\ UNCHANGED <<cluster, control, environment>>

\* The guard each handler evaluates on the row it has read.
RowAllows(op, d) ==
  CASE op \in {"rebuild", "rebuildCurrent", "destroy"} -> NotPending(d)
    [] op = "retryCleanup" -> dep[d].identity # "submitting"
    [] op = "configure" ->
         NotPending(d) /\ dep[d].vmid # NoVmid /\ dep[d].identity # "rejected" /\ dep[d].post

RequestOps == {"rebuild", "rebuildCurrent", "destroy", "retryCleanup", "configure"}
CleanupOps == {"localCleanup", "forcedCleanup"}

\* vm_rebuild, vm_destroy, retry_cleanup, retry_configuration: the row is read and
\* its guard evaluated.  What was read is kept: SQLAlchemy writes a column back only
\* if it differs from that.
BeginRequest(op, d) ==
  /\ op \in Ops \cap RequestOps
  /\ MayStart(d)
  /\ "eager" \in Faults \/ ~Active(d)
  /\ RowAllows(op, d)
  /\ request' = [op |-> op, dep |-> d, status |-> dep[d].status, ip |-> dep[d].ip]
  /\ UNCHANGED <<tables, cluster, at, todo, environment>>

\* Another job is active, the connection is disabled, the pool or the user's quota is
\* exhausted, the prior job's create is unconfirmed, or the row to write is gone.
RefuseRequest ==
  /\ request # NoRequest
  /\ request' = NoRequest
  /\ UNCHANGED <<tables, cluster, at, todo, environment>>

JobType(op) ==
  CASE op \in {"rebuild", "rebuildCurrent"} -> "rebuild"
    [] op \in {"destroy", "retryCleanup"} -> "destroy"
    [] op = "configure" -> "configure"

\* The last job with a plan is not one whose create is unconfirmed.
PriorConfirmed(d) ==
  \A j \in JobIds :
    /\ job[j].dep = d /\ job[j].type # "destroy"
    /\ \A i \in JobIds : job[i].dep = d /\ job[i].type # "destroy" => i <= j
    => job[j].create # "submitting"

\* The address in the new job's context: the saved one, or the reserved one.
ContextIps(op, d) == IF op = "rebuildCurrent" THEN AllocatedIps(d) ELSE {request.ip}

\* No active job: the row becomes "working" and the job is queued.  A row that was
\* read as "working" needs no update, so nothing notices if it is gone by now.
FinishRequest ==
  /\ request # NoRequest /\ request.op \in RequestOps
  /\ LET d == request.dep
         op == request.op
     IN /\ Exists(d) \/ request.status = "working"
        /\ ~Active(d) /\ ~disabled
        /\ op = "configure" => PriorConfirmed(d)
        /\ \E j \in JobIds, i \in ContextIps(op, d) :
             /\ FreshJob(j)
             /\ Insert(j, JobType(op), d, IF op = "configure" THEN "accepted" ELSE "", i)
             /\ IF op = "rebuildCurrent" THEN Reserve(d, i) ELSE UNCHANGED alloc
        /\ Write(d, [dep[d] EXCEPT
             !.status = IF request.status = "working" THEN @ ELSE "working",
             !.origin = IF op = "configure" THEN @ ELSE ""])
  /\ request' = NoRequest
  /\ UNCHANGED <<cluster, at, todo, environment>>

\* cancel_job
Cancel(j) ==
  /\ "cancel" \in Ops
  /\ JobActive(j) /\ ~job[j].cancel
  /\ job' = [job EXCEPT ![j].cancel = TRUE]
  /\ UNCHANGED <<dep, alloc, cluster, control, environment>>

\* vm_cleanup_local: if the VM was seen to be absent, or was not and an administrator
\* takes the word for it ("forcedCleanup"), the row is going to be forgotten.
BeginCleanup(op, d) ==
  /\ op \in Ops \cap CleanupOps
  /\ MayStart(d) /\ ~Active(d)
  /\ (IF op = "localCleanup" THEN "absent" ELSE "unknown") \in Presence(dep[d].vmid)
  /\ request' = [op |-> op, dep |-> d, status |-> dep[d].status, ip |-> dep[d].ip]
  /\ UNCHANGED <<tables, cluster, at, todo, environment>>

\* Neither the jobs nor the cluster are asked again.
FinishCleanup ==
  /\ request # NoRequest /\ request.op \in CleanupOps
  /\ Exists(request.dep)
  /\ DropRow(request.dep)
  /\ request' = NoRequest
  /\ UNCHANGED <<job, cluster, at, todo, environment>>

\* The task the job names has surely not stopped, or is not asked about.
SurelyUnsettled(j) ==
  /\ job[j].remote # ""
  /\ \/ disabled
     \/ \E t \in running : t.job = j /\ t.kind = job[j].remote

\* reconcile with confirmIdentity: the user has checked that the VM is theirs.
Reconcile(d) ==
  /\ "reconcile" \in Ops
  /\ MayStart(d) /\ ~Active(d) /\ ~disabled
  /\ dep[d].vmid # NoVmid
  /\ vm[dep[d].vmid] \in JobIds /\ job[vm[dep[d].vmid]].dep = d
  /\ \E j \in JobIds :
       /\ IsLatest(j, d)
       /\ LET uncertain == "submitting" \in {dep[d].identity, job[j].create}
              row == IF dep[d].status = "cleanup_pending"
                       THEN [dep[d] EXCEPT !.status = "error", !.origin = ""]
                       ELSE dep[d]
          IN /\ uncertain => ~SurelyUnsettled(j)
             /\ dep' = [dep EXCEPT ![d] = IF uncertain THEN [row EXCEPT !.identity = "accepted"]
                                                       ELSE row]
             /\ job' = IF uncertain THEN [job EXCEPT ![j].create = "accepted"] ELSE job
  /\ UNCHANGED <<alloc, cluster, control, environment>>

\* edit_connection: an administrator disables the connection, or enables it again.
ToggleDisabled ==
  /\ "disable" \in Ops
  /\ disabled' = ~disabled
  /\ UNCHANGED <<tables, cluster, control, crashes>>

ApiNext ==
  \/ Deploy \/ RefuseRequest \/ FinishRequest \/ FinishCleanup \/ ToggleDisabled
  \/ \E d \in Deployments :
       \/ Reconcile(d)
       \/ (\E op \in RequestOps : BeginRequest(op, d)) \/ (\E op \in CleanupOps : BeginCleanup(op, d))
  \/ \E j \in JobIds : Cancel(j)
================================================================================
