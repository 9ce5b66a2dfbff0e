--------------------------- MODULE DeploymentProofs ----------------------------
(* What the invariant of OwnershipProofs has for every deployment, again for  *)
(* every number of them, of jobs, VM ids and addresses:                       *)
(*   - a VM's address stays reserved for its deployment (Reserving,           *)
(*     AddressesKept);                                                        *)
(*   - no row says "working" with nobody about to end that (OwnTeardowns,     *)
(*     WorkingPromised);                                                      *)
(*   - nothing is destroyed while its remote work is uncertain (Attended,     *)
(*     DoubtsInv).                                                            *)
(* Each has an assumption on the operations and failures there are; outside   *)
(* it the README has an execution that breaks the property.                   *)
EXTENDS OwnershipProofs

--------------------------------------------------------------------------------
(* Reserved addresses                                                         *)

\* Nobody rebuilds on a saved address, or rebuilds while deploys are failed unbegun.
Reserving ==
  /\ Undisturbed /\ "rebuild" \notin Ops
  /\ "disable" \notin Ops \/ "rebuildCurrent" \notin Ops

\* A job that may still create a VM, and one that has created it.
Makes(j) ==
  /\ job[j].type \in {"deploy", "rebuild"} /\ Exists(job[j].dep)
  /\ job[j].status = "queued" \/ (Worker.job = j /\ Worker.pc \in ExecPlaces)
Made(j) ==
  \/ \E v \in Vmids : vm[v] = j
  \/ \E t \in running : t.kind = "create" /\ t.job = j
Keeper(j) == Makes(j) \/ Made(j)
AddressesKept ==
  \A j \in JobIds : Keeper(j) /\ job[j].ip # NoIp => alloc[job[j].ip] = job[j].dep

DeployedOnce ==
  \A i, j \in JobIds :
    /\ job[i].type = "deploy" /\ job[j].type = "deploy"
    /\ job[i].dep = job[j].dep /\ job[i].dep # 0
    => i = j

\* What may be a rebuild reserves its address first.
RebuildsReserve ==
  /\ request # NoRequest => request.op # "rebuild"
  /\ "rebuildCurrent" \notin Ops =>
       /\ \A j \in JobIds : job[j].type # "rebuild"
       /\ request # NoRequest => request.op # "rebuildCurrent"

\* A job that has failed runs until its reservation is given back.
FailedRuns ==
  /\ Worker.pc \in ReconcilePlaces /\ Worker.out = "failed" => Worker.job \in JobIds
  /\ "disable" \notin Ops =>
       /\ ~disabled
       /\ TRUE \notin PostBoot /\ Worker.pc \in ReconcilePlaces /\ Worker.out = "failed" =>
            job[Worker.job].status = "running"

\* Only a deploy or a rebuild gets to create a VM.
MakersOnly == Worker.pc \in CreatePlaces => Worker.kind \in {"deploy", "rebuild"}

AddressInv == MakersOnly /\ DeployedOnce /\ RebuildsReserve /\ FailedRuns /\ AddressesKept

\* No step but an insertion changes what a job is.
JobsStand ==
  \A j \in JobIds :
    job'[j].dep = job[j].dep /\ job'[j].type = job[j].type /\ job'[j].ip = job[j].ip
RowsFewer == \A d \in Deployments : Exists(d)' => Exists(d)
\* Creates are sent by the worker, VMs come from them.
MadeBefore ==
  \A j \in JobIds : Made(j)' =>
    Made(j) \/ (Worker.pc = "create" /\ Worker.job = j /\ Exists(Worker.dep))
QueuedBefore == \A j \in JobIds : job'[j].status = "queued" => job[j].status = "queued"
\* An address is given back that belongs to a deployment without keepers.
AllocKept ==
  \A j \in JobIds, i \in Ips : Keeper(j)' /\ alloc[i] = job[j].dep => alloc'[i] = alloc[i]

LEMMA KeeperOf ==
  ASSUME Inv, NEW j \in JobIds, Keeper(j)
  PROVE  job[j].dep \in Deployments /\ job[j].dep # 0 /\ Exists(job[j].dep)
<1>1. CASE Makes(j)
  BY <1>1, Ids DEF Makes, Exists
<1>2. CASE \E v \in Vmids : vm[v] = j
  BY <1>2, OwnerExists DEF Inv, LifecycleInv, OwnershipInv, NoOrphanVm, Owned
<1>3. CASE \E t \in running : t.kind = "create" /\ t.job = j
  BY <1>3, CreateOwned
<1> QED
  BY <1>1, <1>2, <1>3 DEF Keeper, Made

LEMMA KeepersStay ==
  ASSUME Inv, AddressInv, JobsStand, RowsFewer, MadeBefore, QueuedBefore, AllocKept,
         \A j \in JobIds : Worker'.job = j /\ Worker'.pc \in ExecPlaces =>
           (Worker.job = j /\ Worker.pc \in ExecPlaces) \/ job[j].status = "queued"
  PROVE  AddressesKept'
<1> SUFFICES ASSUME NEW j \in JobIds, Keeper(j)', job'[j].ip # NoIp
             PROVE  alloc'[job'[j].ip] = job'[j].dep
  BY DEF AddressesKept
<1>1. job'[j].dep = job[j].dep /\ job'[j].type = job[j].type /\ job'[j].ip = job[j].ip
  BY DEF JobsStand
<1>2. job[j].ip \in Ips
  BY <1>1 DEF Inv, LifecycleInv, Typed, TypeOK, JobRow
<1>3. Keeper(j)
  <2>1. CASE Makes(j)'
    <3>1. job[j].type \in {"deploy", "rebuild"} /\ \E d : d = job[j].dep /\ Exists(d)'
      BY <1>1, <2>1 DEF Makes, Exists
    <3>2. Exists(job[j].dep)
      BY <3>1 DEF RowsFewer, Exists
    <3> QED
      BY <2>1, <3>1, <3>2 DEF Makes, Keeper, QueuedBefore
  <2>2. CASE Made(j)'
    <3>1. CASE Worker.pc = "create" /\ Worker.job = j /\ Exists(Worker.dep)
      <4>1. job[j].dep = Worker.dep /\ Worker.pc \in CreatePlaces
        BY <3>1, Ids DEF Inv, OwnershipInv, LocalsAgree, Worker, Actors, CreatePlaces
      <4>2. job[j].type \in {"deploy", "rebuild"}
        BY <3>1, <4>1, Ids
           DEF AddressInv, MakersOnly, Inv, OwnershipInv, LocalsAgree, Worker, Actors
      <4> QED
        BY <3>1, <4>1, <4>2 DEF Keeper, Makes, ExecPlaces
    <3> QED
      BY <2>2, <3>1 DEF MadeBefore, Keeper
  <2> QED
    BY <2>1, <2>2 DEF Keeper
<1>4. alloc[job[j].ip] = job[j].dep
  BY <1>1, <1>3 DEF AddressInv, AddressesKept
<1> QED
  BY <1>1, <1>2, <1>4 DEF AllocKept

--------------------------------------------------------------------------------
LEMMA PlacingFollows ==
  ASSUME Typed, NEW a \in Actors, NEW p, Goto(a, p) \/ \E t : GotoAwaiting(a, p, t)
  PROVE  at'[a].pc = p /\ at'[a].kind = at[a].kind /\ at'[a].dep = at[a].dep /\ at'[a].out = at[a].out
         /\ at'[a].vmid = at[a].vmid /\ at'[a].seen = at[a].seen /\ at'[a].job = at[a].job
<1>1. at \in [Actors -> Local] /\ at[a] \in Local
  BY DEF Typed, TypeOK
<1>2. PICK t : at' = [at EXCEPT ![a] = [at[a] EXCEPT !.pc = p, !.task = t]]
  BY <1>1 DEF Goto, GotoAwaiting
<1>3. at'[a] = [at[a] EXCEPT !.pc = p, !.task = t]
  BY <1>1, <1>2
<1> QED
  BY <1>1, <1>3 DEF Local

LEMMA AbortFollows ==
  ASSUME Typed, NEW a \in Actors, NEW o, Abort(a, o)
  PROVE  at'[a].pc = "retain" /\ at'[a].kind = at[a].kind /\ at'[a].dep = at[a].dep
         /\ at'[a].out = o /\ at'[a].job = at[a].job
<1>1. at \in [Actors -> Local] /\ at[a] \in Local
  BY DEF Typed, TypeOK
<1>2. at' = [at EXCEPT ![a] = [at[a] EXCEPT !.pc = "retain", !.out = o, !.task = NoTask]]
  BY <1>1 DEF Abort
<1>3. at'[a] = [at[a] EXCEPT !.pc = "retain", !.out = o, !.task = NoTask]
  BY <1>1, <1>2
<1> QED
  BY <1>1, <1>3 DEF Local
LEMMA ExecMakers ==
  ASSUME Typed, MakersOnly, Execute("worker"), ~Boot("worker"), ~Succeed("worker")
  PROVE  MakersOnly'
<1>0. "worker" \in Actors /\ at \in [Actors -> Local]
  BY DEF Actors, Typed, TypeOK
<1>1. ASSUME NEW p, Goto("worker", p) \/ \E t : GotoAwaiting("worker", p, t),
             p \notin CreatePlaces \/ at["worker"].pc \in CreatePlaces \/ at["worker"].kind = "rebuild"
      PROVE  MakersOnly'
  BY <1>0, <1>1, PlacingFollows DEF MakersOnly, Worker
<1>2. ASSUME NEW o, Abort("worker", o)
      PROVE  MakersOnly'
  BY <1>0, <1>2, AbortFollows DEF MakersOnly, CreatePlaces, Worker
<1>3. CASE Load("worker")
  <2>1. CASE Abort("worker", "failed") \/ Abort("worker", "canceled")
    BY <1>2, <2>1
  <2>2. CASE \E p \in {"ansible", "stop"} :
               at' = [at EXCEPT !["worker"].vmid = dep[at["worker"].dep].vmid, !["worker"].pc = p]
    <3>1. PICK p \in {"ansible", "stop"} :
            at' = [at EXCEPT !["worker"] =
                     [at["worker"] EXCEPT !.vmid = dep[at["worker"].dep].vmid, !.pc = p]]
      BY <1>0, <2>2
    <3>2. at'["worker"].pc = p
      BY <1>0, <3>1 DEF Local
    <3> QED
      BY <3>2 DEF MakersOnly, CreatePlaces, Worker
  <2> QED
    BY <1>3, <2>1, <2>2 DEF Load
<1>4. CASE Stop("worker")
  BY <1>1, <1>2, <1>4 DEF Stop, OtherTaskOk, OtherTaskAborts, CreatePlaces
<1>5. CASE Destroy("worker")
  BY <1>1, <1>2, <1>5 DEF Destroy, CreatePlaces
<1>6. CASE RecordDestroy("worker") \/ Erase("worker") \/ Drop("worker")
  BY <1>1, <1>2, <1>6
     DEF RecordDestroy, Erase, Drop, TaskFailed, TaskCanceled, CreatePlaces
<1>7. CASE Confirm("worker")
  BY <1>1, <1>2, <1>7 DEF Confirm, CreatePlaces
<1>8. CASE Pick("worker")
  <2>1. CASE \E v : at' = [at EXCEPT !["worker"].vmid = v, !["worker"].pc = "prepare"]
    <3>1. PICK v : at' = [at EXCEPT !["worker"] = [at["worker"] EXCEPT !.vmid = v, !.pc = "prepare"]]
      BY <1>0, <2>1
    <3>2. at'["worker"].kind = at["worker"].kind
      BY <1>0, <3>1 DEF Local
    <3> QED
      BY <1>8, <3>2 DEF MakersOnly, CreatePlaces, Pick, Worker
  <2> QED
    BY <1>2, <1>8, <2>1 DEF Pick
<1>9. CASE Prepare("worker") \/ Create("worker") \/ Accept("worker")
  BY <1>1, <1>2, <1>9 DEF Prepare, Create, Accept, CreatePlaces
<1>10. CASE Record("worker") \/ Import("worker") \/ Setup("worker")
  BY <1>1, <1>2, <1>10
     DEF Record, Import, Setup, TaskFailed, TaskCanceled, OtherTaskOk, OtherTaskAborts, CreatePlaces
<1>11. CASE Ansible("worker") \/ Finish("worker")
  BY <1>1, <1>2, <1>11 DEF Ansible, Finish, CreatePlaces
<1> QED
  BY <1>3, <1>4, <1>5, <1>6, <1>7, <1>8, <1>9, <1>10, <1>11 DEF Execute

\* What is reconciled stays what it was.
StaysReconciled(a) ==
  /\ at'[a].pc \in ReconcilePlaces /\ at'[a].out = at[a].out
  /\ at'[a].kind = at[a].kind /\ at'[a].dep = at[a].dep /\ at'[a].job = at[a].job

LEMMA ReconcilePath ==
  ASSUME Typed, NEW a \in Actors, ReconcileStep(a), ~Close(a)
  PROVE  StaysReconciled(a)
<1>0. at \in [Actors -> Local] /\ at[a] \in Local
  BY DEF Typed, TypeOK
<1>1. ASSUME NEW p \in ReconcilePlaces, Goto(a, p) \/ \E t : GotoAwaiting(a, p, t)
      PROVE  StaysReconciled(a)
  BY <1>1, PlacingFollows DEF StaysReconciled
<1>2. ASSUME NEW p \in ReconcilePlaces, NEW v, at' = [at EXCEPT ![a].vmid = v, ![a].pc = p]
      PROVE  StaysReconciled(a)
  <2>1. at' = [at EXCEPT ![a] = [at[a] EXCEPT !.vmid = v, !.pc = p]]
    BY <1>0, <1>2
  <2> QED
    BY <1>0, <2>1 DEF Local, StaysReconciled
<1>3. CASE Probe(a)
  <2>1. PICK s : at' = [at EXCEPT ![a] = [at[a] EXCEPT !.seen = s, !.pc = "apply"]]
    BY <1>0, <1>3 DEF Probe
  <2> QED
    BY <1>0, <2>1 DEF Local, ReconcilePlaces, StaysReconciled
<1>4. CASE Apply(a)
  <2>1. at' = [at EXCEPT ![a] = [at[a] EXCEPT !.pc = "close"]]
    BY <1>0, <1>4 DEF Apply
  <2> QED
    BY <1>0, <2>1 DEF Local, ReconcilePlaces, StaysReconciled
<1>5. CASE Retain(a)
  <2>1. Goto(a, "close") \/ Goto(a, "read")
    BY <1>5 DEF Retain
  <2> QED
    BY <1>1, <2>1 DEF ReconcilePlaces
<1>6. CASE Read(a)
  <2>1. CASE Goto(a, "close")
    BY <1>1, <2>1 DEF ReconcilePlaces
  <2>2. CASE \E v : at' = [at EXCEPT ![a].vmid = v, ![a].pc = "probe"]
    BY <1>2, <2>2 DEF ReconcilePlaces
  <2>3. CASE \E v : at' = [at EXCEPT ![a].vmid = v, ![a].pc = "tearDown"]
    BY <1>2, <2>3 DEF ReconcilePlaces
  <2> QED
    BY <1>6, <2>1, <2>2, <2>3 DEF Read
<1>7. CASE TearDown(a) \/ TearDownWait(a)
  <2>1. \/ Goto(a, "probe") \/ Goto(a, "close")
        \/ \E t : GotoAwaiting(a, "tearDownWait", t)
    BY <1>7 DEF TearDown, TearDownWait, TearDownUnconfirmed
  <2> QED
    BY <1>1, <2>1 DEF ReconcilePlaces
<1> QED
  BY <1>3, <1>4, <1>5, <1>6, <1>7 DEF ReconcileStep

--------------------------------------------------------------------------------
LEMMA JobEdited ==
  ASSUME Typed, NEW k, NEW x,
         \/ job' = job
         \/ job' = [job EXCEPT ![k].remote = x] \/ job' = [job EXCEPT ![k].create = x]
         \/ job' = [job EXCEPT ![k].status = x] \/ job' = [job EXCEPT ![k].cancel = x]
  PROVE  JobsStand
<1> SUFFICES ASSUME NEW j \in JobIds
             PROVE  job'[j].dep = job[j].dep /\ job'[j].type = job[j].type /\ job'[j].ip = job[j].ip
  BY DEF JobsStand
<1>1. job \in [JobIds -> JobRow] /\ job[j] \in JobRow
  BY DEF Typed, TypeOK
<1>2. \/ job'[j] = job[j]
      \/ job'[j] = [job[j] EXCEPT !.remote = x] \/ job'[j] = [job[j] EXCEPT !.create = x]
      \/ job'[j] = [job[j] EXCEPT !.status = x] \/ job'[j] = [job[j] EXCEPT !.cancel = x]
  BY <1>1
<1> QED
  BY <1>1, <1>2 DEF JobRow

\* A thread writes one column of one job.
LEMMA ThreadEdits ==
  ASSUME NEW a \in Actors, Execute(a) \/ ReconcileStep(a)
  PROVE  \E k, x :
           \/ job' = job
           \/ job' = [job EXCEPT ![k].remote = x] \/ job' = [job EXCEPT ![k].create = x]
           \/ job' = [job EXCEPT ![k].status = x]
<1>1. CASE Load(a) \/ Destroy(a) \/ Erase(a) \/ Confirm(a) \/ Drop(a) \/ Pick(a) \/ Import(a)
           \/ Ansible(a) \/ Finish(a)
  BY <1>1 DEF Load, Destroy, Erase, Confirm, Drop, Pick, Import, Ansible, Finish, tables
<1>2. CASE Stop(a) \/ Setup(a)
  BY <1>2 DEF Stop, Setup, OtherTaskOk, OtherTaskAborts
<1>3. CASE RecordDestroy(a) \/ Record(a)
  BY <1>3 DEF RecordDestroy, Record
<1>4. CASE Prepare(a) \/ Create(a) \/ Accept(a)
  BY <1>4 DEF Prepare, Create, Accept
<1>5. CASE Boot(a) \/ Succeed(a)
  BY <1>5 DEF Boot, Succeed, SetStatus
<1>6. CASE TearDown(a)
  BY <1>6 DEF TearDown
<1>7. CASE Close(a)
  BY <1>7 DEF Close
<1>8. CASE Retain(a) \/ Read(a) \/ TearDownWait(a) \/ Probe(a) \/ Apply(a)
  BY <1>8 DEF Retain, Read, TearDownWait, Probe, Apply, tables
<1> QED
  BY <1>1, <1>2, <1>3, <1>4, <1>5, <1>6, <1>7, <1>8 DEF Execute, ReconcileStep

LEMMA ThreadJobs ==
  ASSUME Typed, NEW a \in Actors, Execute(a) \/ ReconcileStep(a)
  PROVE  JobsStand
BY ThreadEdits, JobEdited

LEMMA UnconfirmedFewer ==
  ASSUME Typed, NEW a \in Actors, at[a].pc \in {"tearDown", "tearDownWait"}, TearDownUnconfirmed(a)
  PROVE  RowsFewer
<1>1. at[a].vmid \in Vmids
  BY LocalsTyped DEF VmPlaces
<1>2. \A d \in FirstNaming(at[a].vmid) : Exists(d)
  BY <1>1, OwnerExists DEF FirstNaming, NamesVm
<1> QED
  BY <1>2 DEF TearDownUnconfirmed, RowsFewer, Exists

LEMMA ThreadRows ==
  ASSUME Typed, NEW a \in Actors, Execute(a) \/ ReconcileStep(a)
  PROVE  RowsFewer
<1>0. dep \in [Deployments -> Row \cup {NoRow}]
  BY DEF Typed, TypeOK
<1>1. CASE Load(a) \/ Stop(a) \/ Destroy(a) \/ RecordDestroy(a) \/ Erase(a) \/ Confirm(a)
           \/ Record(a) \/ Import(a) \/ Setup(a) \/ Boot(a) \/ Ansible(a) \/ Succeed(a)
           \/ Probe(a) \/ Close(a)
  <2>1. dep' = dep
    BY <1>1 DEF Load, Stop, Destroy, RecordDestroy, Erase, Confirm, Record, Import, Setup, Boot,
                Ansible, Succeed, Probe, Close, tables
  <2> QED
    BY <2>1 DEF RowsFewer, Exists
<1>2. CASE Drop(a)
  BY <1>0, <1>2 DEF Drop, DropRow, RowsFewer, Exists
<1>3. CASE Prepare(a) \/ Create(a) \/ Accept(a)
  <2>1. dep' = dep \/ \E r : Exists(at[a].dep) /\ dep' = [dep EXCEPT ![at[a].dep] = r]
    BY <1>3 DEF Prepare, Create, Accept, Write
  <2> QED
    BY <1>0, <2>1 DEF RowsFewer, Exists
<1>4. CASE Pick(a)
  BY <1>0, <1>4 DEF Pick, MissingTarget, RowsFewer, Exists
<1>5. CASE Finish(a)
  BY <1>0, <1>5 DEF Finish, RowsFewer, Exists
<1>6. CASE Retain(a) \/ Read(a)
  BY <1>0, <1>6 DEF Retain, Read, RowsFewer, Exists
<1>7. CASE TearDown(a)
  BY <1>7, UnconfirmedFewer DEF TearDown, RowsFewer, Exists
<1>8. CASE TearDownWait(a)
  BY <1>8, UnconfirmedFewer DEF TearDownWait, RowsFewer, Exists
<1>9. CASE Apply(a)
  BY <1>0, <1>9, ApplyRows DEF RowsFewer, Exists
<1> QED
  BY <1>1, <1>2, <1>3, <1>4, <1>5, <1>6, <1>7, <1>8, <1>9 DEF Execute, ReconcileStep

\* What a task does, and what is submitted.
LEMMA EffectMade ==
  ASSUME Typed, NEW t, t \in Task, t.kind = "create" => t \in running, running' \subseteq running,
         vm' = vm \/ vm' = Effect(t)
  PROVE  MadeBefore
<1>1. vm \in [Vmids -> JobIds \cup {Foreign, NoVm}]
  BY DEF Typed, TypeOK
<1>2. \A v \in Vmids : vm'[v] \in JobIds => vm'[v] = vm[v] \/ (t.kind = "create" /\ vm'[v] = t.job)
  <2>1. CASE vm' = vm
    BY <2>1
  <2>2. CASE t.kind = "create" /\ vm' = [vm EXCEPT ![t.vmid] = t.job]
    BY <1>1, <2>2
  <2>3. CASE vm' = [vm EXCEPT ![t.vmid] = IF @ = t.on THEN NoVm ELSE @]
    BY <1>1, <2>3, Ids
  <2> QED
    BY <2>1, <2>2, <2>3 DEF Effect, TaskKinds, Task
<1> QED
  BY <1>2 DEF MadeBefore, Made

LEMMA SentMade ==
  ASSUME NEW u, u.kind # "create", running' \subseteq running \cup {u}, vm' = vm
  PROVE  MadeBefore
BY DEF MadeBefore, Made

LEMMA RestMade ==
  ASSUME running' = running, vm' = vm
  PROVE  MadeBefore
BY DEF MadeBefore, Made

LEMMA AwaitMade ==
  ASSUME Typed, NEW a, at[a].task \in Task,
         at[a].task.kind = "create" => at[a].task \in running,
         TaskOk(a) \/ TaskFailed(a) \/ TaskCanceled(a)
  PROVE  MadeBefore
<1>1. running' \subseteq running /\ (vm' = vm \/ vm' = Effect(at[a].task))
  BY DEF TaskOk, TaskFailed, TaskCanceled, Succeeds, Fails, cluster
<1> QED
  BY <1>1, EffectMade

LEMMA OtherMade ==
  ASSUME NEW a, NEW v, NEW p, OtherTaskOk(a, p) \/ OtherTaskAborts(a, v)
  PROVE  MadeBefore
<1>1. OtherTask(a, v).kind # "create"
  BY DEF OtherTask
<1>2. running' \subseteq running \cup {OtherTask(a, v)} /\ vm' = vm
  BY DEF OtherTaskOk, OtherTaskAborts, cluster
<1> QED
  BY <1>1, <1>2, SentMade

LEMMA ExecuteMade ==
  ASSUME Inv, Execute("worker")
  PROVE  MadeBefore
<1>0. Typed /\ "worker" \in Actors /\ Worker = at["worker"] /\ TaskMeant("worker")
  BY DEF Inv, LifecycleInv, OwnershipInv, TasksMeant, Actors, Worker
<1>1. CASE Load("worker") \/ RecordDestroy("worker") \/ Confirm("worker") \/ Drop("worker")
           \/ Pick("worker") \/ Prepare("worker") \/ Accept("worker") \/ Record("worker")
           \/ Boot("worker") \/ Ansible("worker") \/ Finish("worker") \/ Succeed("worker")
  <2>1. running' = running /\ vm' = vm
    BY <1>1 DEF Load, RecordDestroy, Confirm, Drop, Pick, Prepare, Accept, Record, Boot, Ansible, Finish,
                Succeed, cluster
  <2> QED
    BY <2>1, RestMade
<1>2. CASE Stop("worker") \/ Setup("worker")
  <2>1. (running' = running /\ vm' = vm)
        \/ \E v, p : OtherTaskOk("worker", p) \/ OtherTaskAborts("worker", v)
    BY <1>2 DEF Stop, Setup, cluster
  <2> QED
    BY <2>1, RestMade, OtherMade
<1>3. CASE Destroy("worker")
  <2> DEFINE u == [job |-> at["worker"].job, kind |-> "destroy", vmid |-> at["worker"].vmid,
                   on |-> vm[at["worker"].vmid]]
  <2>1. u.kind # "create"
    OBVIOUS
  <2>2. running' \subseteq running \cup {u} /\ vm' = vm
    BY <1>3 DEF Destroy
  <2> QED
    BY <2>1, <2>2, SentMade
<1>4. CASE Erase("worker") \/ Import("worker")
  <2>1. /\ at["worker"].task.kind = "create" => at["worker"].task \in running
        /\ at["worker"].task \in Task
    BY <1>0, <1>4, LocalsTyped DEF TaskMeant, Erase, Import, TaskPlaces
  <2>2. TaskOk("worker") \/ TaskFailed("worker") \/ TaskCanceled("worker")
    BY <1>4 DEF Erase, Import
  <2> QED
    BY <1>0, <2>1, <2>2, AwaitMade
<1>5. CASE Create("worker")
  <2> DEFINE u == [job |-> at["worker"].job, kind |-> "create", vmid |-> at["worker"].vmid,
                   on |-> NoVm]
  <2>1. running' \subseteq running \cup {u} /\ vm' = vm /\ at["worker"].pc = "create"
    BY <1>5 DEF Create
  <2>2. u.job = Worker.job
    BY <1>0
  <2>3. VmidOf(Worker.dep) = Worker.vmid /\ Worker.vmid \in Vmids
    BY <1>0, <2>1, LocalsTyped DEF VmPlaces, Inv, OwnershipInv, Selected
  <2>4. Exists(Worker.dep)
    BY <1>0, <2>3, OwnerExists
  <2> HIDE DEF u
  <2> QED
    BY <1>0, <2>1, <2>2, <2>4 DEF MadeBefore, Made
<1> QED
  BY <1>1, <1>2, <1>3, <1>4, <1>5 DEF Execute

LEMMA ReconcileMade ==
  ASSUME Inv, NEW a \in Actors, ReconcileStep(a)
  PROVE  MadeBefore
<1>0. Typed /\ TaskMeant(a)
  BY DEF Inv, LifecycleInv, OwnershipInv, TasksMeant
<1>1. CASE Retain(a) \/ Read(a) \/ Probe(a) \/ Apply(a) \/ Close(a)
  <2>1. running' = running /\ vm' = vm
    BY <1>1 DEF Retain, Read, Probe, Apply, Close, cluster
  <2> QED
    BY <2>1, RestMade
<1>2. CASE TearDown(a)
  <2>1. \E u : u.kind # "create" /\ running' \subseteq running \cup {u} /\ vm' = vm
    <3>1. CASE running' = running
      <4> DEFINE u == [kind |-> "other"]
      <4>1. u.kind # "create" /\ running' \subseteq running \cup {u} /\ vm' = vm
        BY <1>2, <3>1 DEF TearDown
      <4> QED
        BY <4>1
    <3>2. ASSUME NEW j, NEW u, u = [job |-> j, kind |-> "destroy", vmid |-> at[a].vmid,
                                    on |-> vm[at[a].vmid]],
                 running' = running \cup {u} \/ running' = running \cup {[u EXCEPT !.kind = "other"]}
          PROVE  \E w : w.kind # "create" /\ running' \subseteq running \cup {w} /\ vm' = vm
      <4>1. u.kind # "create" /\ [u EXCEPT !.kind = "other"].kind # "create"
        BY <3>2
      <4>2. vm' = vm
        BY <1>2 DEF TearDown
      <4> QED
        BY <3>2, <4>1, <4>2
    <3> QED
      BY <1>2, <3>1, <3>2 DEF TearDown
  <2> QED
    BY <2>1, SentMade
<1>3. CASE TearDownWait(a)
  <2>1. /\ at[a].task.kind = "create" => at[a].task \in running
        /\ at[a].task \in Task
    BY <1>0, <1>3, LocalsTyped DEF TaskMeant, TearDownWait, TaskPlaces
  <2>2. running' \subseteq running /\ (vm' = vm \/ vm' = Effect(at[a].task))
    BY <1>3 DEF TearDownWait, TaskOk, Succeeds, Fails, cluster
  <2> QED
    BY <1>0, <2>1, <2>2, EffectMade
<1> QED
  BY <1>1, <1>2, <1>3 DEF ReconcileStep

--------------------------------------------------------------------------------
(* The steps                                                                  *)

\* What the worker executes afterwards it executed before, or took from the queue.
Continues ==
  at'["worker"].pc \in ExecPlaces =>
    \/ at["worker"].pc \in ExecPlaces /\ at'["worker"].job = at["worker"].job
    \/ \A j \in JobIds : at'["worker"].job = j => job[j].status = "queued"

LEMMA Reserves ==
  ASSUME Inv, AddressInv, JobsStand, RowsFewer, MadeBefore, QueuedBefore, AllocKept, Continues,
         UNCHANGED request, MakersOnly', FailedRuns'
  PROVE  AddressInv'
<1>1. AddressesKept'
  BY KeepersStay DEF Continues, Worker
<1>2. DeployedOnce' /\ RebuildsReserve'
  BY DEF JobsStand, AddressInv, DeployedOnce, RebuildsReserve
<1> QED
  BY <1>1, <1>2 DEF AddressInv

LEMMA AllocRests == ASSUME alloc' = alloc PROVE AllocKept
BY DEF AllocKept

\* The row is forgotten, or its address given back, when nobody keeps the deployment.
LEMMA AllocReleased ==
  ASSUME JobsStand, NEW d, alloc' = Unreserved(d) \/ alloc' = alloc,
         alloc' # alloc => \A j \in JobIds : job[j].dep = d => ~Keeper(j)'
  PROVE  AllocKept
BY DEF AllocKept, Unreserved

LEMMA NotMade ==
  ASSUME Inv, UNCHANGED <<vm, running>>, NEW d, Vmless(d), Uncreated(d),
         NEW j \in JobIds, job[j].dep = d
  PROVE  ~Made(j)'
BY DEF Made, Vmless, Uncreated

\* The worker executes.
LEMMA ExecuteReserves ==
  ASSUME Inv, AddressInv, Execute("worker"), ~Boot("worker"), ~Succeed("worker"), AllocKept
  PROVE  AddressInv'
<1>0. Typed /\ Held /\ "worker" \in Actors
  BY DEF Inv, LifecycleInv, Actors
<1>5. at["worker"].pc \in ExecPlaces
  BY DEF Execute, Load, Stop, Destroy, RecordDestroy, Erase, Confirm, Drop, Pick, Prepare, Create,
         Accept, Record, Import, Setup, Boot, Ansible, Finish, Succeed, ExecPlaces
<1>1. Unmoved /\ MovesAt("worker")
  <2>1. ~Close("worker")
    BY <1>5 DEF Close, ExecPlaces
  <2> QED
    BY <1>0, <2>1, StepMoves DEF Moves
<1>2. JobsStand /\ RowsFewer /\ MadeBefore
  BY <1>0, ThreadJobs, ThreadRows, ExecuteMade
<1>3. QueuedBefore /\ Continues
  BY <1>1 DEF Unmoved, MovesAt, QueuedBefore, Continues
<1>4. MakersOnly'
  BY <1>0, ExecMakers DEF AddressInv
<1>6. request' = request /\ disabled' = disabled
  BY DEF Execute, Load, Stop, Destroy, RecordDestroy, Erase, Confirm, Drop, Pick, Prepare, Create,
         Accept, Record, Import, Setup, Boot, Ansible, Finish, Succeed, environment
<1>7. FailedRuns'
  <2>1. at["worker"].job \in JobIds /\ job[at["worker"].job].status = "running"
    BY <1>0, <1>5, LocalsTyped DEF Held
  <2> QED
    BY <1>1, <1>6, <2>1 DEF FailedRuns, AddressInv, Worker, Unmoved, MovesAt
<1> QED
  BY <1>2, <1>3, <1>4, <1>6, <1>7, Reserves

LEMMA DropReserves ==
  ASSUME Inv, AddressInv, Drop("worker")
  PROVE  AddressInv'
<1>1. /\ at["worker"].pc = "drop" /\ job' = job /\ UNCHANGED <<vm, running>>
      /\ DropRow(at["worker"].dep)
  BY DEF Drop, cluster
<1>2. Vmless(Worker.dep) /\ Uncreated(Worker.dep)
  BY <1>1, WorkerUncreated DEF Inv, OwnershipInv, Selected, Worker
<1>3. ASSUME NEW j \in JobIds, job[j].dep = Worker.dep
      PROVE  ~Keeper(j)'
  <2>1. ~Made(j)'
    BY <1>1, <1>2, <1>3, NotMade
  <2>2. dep'[job'[j].dep] = NoRow \/ job'[j].dep \notin Deployments
    BY <1>1, <1>3 DEF DropRow, Worker, Inv, LifecycleInv, Typed, TypeOK
  <2> QED
    BY <2>1, <2>2 DEF Keeper, Makes, Exists
<1>4. JobsStand /\ alloc' = Unreserved(Worker.dep)
  BY <1>1 DEF JobsStand, DropRow, Worker
<1>5. AllocKept
  BY <1>3, <1>4, AllocReleased
<1>6. Execute("worker") /\ ~Boot("worker") /\ ~Succeed("worker")
  BY <1>1 DEF Execute, Boot, Succeed
<1> QED
  BY <1>5, <1>6, ExecuteReserves

\* It leaves what it executed.
LEMMA LeaveReserves ==
  ASSUME Inv, AddressInv, Boot("worker") \/ Succeed("worker")
  PROVE  AddressInv'
<1>0. Typed /\ Held /\ "worker" \in Actors /\ at \in [Actors -> Local]
      /\ job \in [JobIds -> JobRow] /\ at["worker"].pc \in ExecPlaces
  BY DEF Inv, LifecycleInv, Typed, TypeOK, Actors, Boot, Succeed, ExecPlaces
<1>1. Execute("worker") /\ alloc' = alloc /\ request' = request /\ disabled' = disabled
  BY DEF Execute, Boot, Succeed, environment
<1>2. JobsStand /\ RowsFewer /\ MadeBefore /\ AllocKept
  BY <1>0, <1>1, ThreadJobs, ThreadRows, ExecuteMade, AllocRests
<1>3. at["worker"].job \in JobIds /\ job[at["worker"].job].status = "running"
  BY <1>0, LocalsTyped DEF Held
<1>4. QueuedBefore
  <2>1. job' = job \/ \E st \in {"waiting", "succeeded"} : SetStatus(at["worker"].job, st)
    BY DEF Boot, Succeed
  <2>2. ASSUME NEW j \in JobIds
        PROVE  job'[j] = job[j] \/ job'[j].status \in {"waiting", "succeeded"}
    BY <1>0, <2>1 DEF SetStatus, JobRow
  <2> QED
    BY <2>2 DEF QueuedBefore
<1>5. \/ at'["worker"].pc \in {"ansible", "finish", "retain"} /\ at'["worker"].job = at["worker"].job
         /\ job' = job
      \/ at'["worker"].pc = "idle"
  <2>1. CASE at' = [at EXCEPT !["worker"] = Idle]
    BY <1>0, <2>1 DEF Idle
  <2>2. CASE job' = job /\ \E p \in {"ansible", "finish"} : Goto("worker", p)
    BY <1>0, <2>2, PlacingFollows
  <2>3. CASE job' = job /\ \E o : Abort("worker", o)
    BY <1>0, <2>3, AbortFollows
  <2> QED
    BY <2>1, <2>2, <2>3 DEF Boot, Succeed
<1>6. Continues /\ MakersOnly'
  BY <1>0, <1>5 DEF Continues, MakersOnly, ExecPlaces, CreatePlaces, Worker
<1>7. FailedRuns'
  BY <1>1, <1>3, <1>5 DEF FailedRuns, ReconcilePlaces, AddressInv, Worker
<1> QED
  BY <1>1, <1>2, <1>4, <1>6, <1>7, Reserves

\* Somebody reconciles.
LEMMA WorkerReconciles ==
  ASSUME Inv, NEW a \in Actors, ReconcileStep(a)
  PROVE  /\ UNCHANGED <<request, disabled>>
         /\ at[a].pc \in ReconcilePlaces
         /\ \A b \in Actors \ {a} : at'[b] = at[b]
<1>1. UNCHANGED <<request, disabled>> /\ at[a].pc \in ReconcilePlaces
  BY DEF ReconcileStep, Retain, Read, TearDown, TearDownWait, Probe, Apply, Close,
         ReconcilePlaces, environment
<1>2. CASE Close(a)
  <2>1. at \in [Actors -> Local] /\ \E l : at' = [at EXCEPT ![a] = l]
    BY <1>2 DEF Close, Inv, LifecycleInv, Typed, TypeOK
  <2> QED
    BY <1>1, <2>1
<1>3. CASE ~Close(a)
  <2>1. ~Boot(a) /\ ~Succeed(a)
    BY <1>1 DEF Boot, Succeed, ReconcilePlaces
  <2> QED
    BY <1>1, <1>3, <2>1, StepMoves DEF Moves, MovesAt, Inv, LifecycleInv
<1> QED
  BY <1>1, <1>2, <1>3

LEMMA ReconcileReserves ==
  ASSUME Inv, AddressInv, NEW a \in Actors, ReconcileStep(a), ~Close(a), AllocKept
  PROVE  AddressInv'
<1>0. Typed
  BY DEF Inv, LifecycleInv
<1>1. Unmoved /\ ~Boot(a) /\ ~Succeed(a)
  <2>1. at[a].pc \in ReconcilePlaces
    BY WorkerReconciles
  <2>2. ~Boot(a) /\ ~Succeed(a)
    BY <2>1 DEF Boot, Succeed, ReconcilePlaces
  <2> QED
    BY <1>0, <2>2, StepMoves DEF Moves
<1>2. JobsStand /\ RowsFewer /\ MadeBefore /\ QueuedBefore
  BY <1>0, <1>1, ThreadJobs, ThreadRows, ReconcileMade DEF QueuedBefore, Unmoved
<1>3. /\ UNCHANGED <<request, disabled>> /\ at[a].pc \in ReconcilePlaces
      /\ \A b \in Actors \ {a} : at'[b] = at[b]
  BY WorkerReconciles
<1>4. StaysReconciled(a)
  BY <1>0, ReconcilePath
<1>5. \/ at'["worker"] = at["worker"]
      \/ /\ at["worker"].pc \in ReconcilePlaces /\ at'["worker"].pc \in ReconcilePlaces
         /\ at'["worker"].out = at["worker"].out /\ at'["worker"].job = at["worker"].job
  BY <1>3, <1>4 DEF StaysReconciled, Actors
<1>6. Continues
  BY <1>5 DEF Continues, ReconcilePlaces, ExecPlaces
<1>7. MakersOnly'
  BY <1>5 DEF MakersOnly, AddressInv, ReconcilePlaces, CreatePlaces, Worker
<1>8. FailedRuns'
  BY <1>1, <1>3, <1>5 DEF FailedRuns, AddressInv, Worker, Unmoved
<1> QED
  BY <1>2, <1>3, <1>6, <1>7, <1>8, Reserves

LEMMA CloseReserves ==
  ASSUME Inv, AddressInv, NEW a \in Actors, Close(a)
  PROVE  AddressInv'
<1>0. Typed /\ at \in [Actors -> Local] /\ job \in [JobIds -> JobRow] /\ ReconcileStep(a)
  BY DEF Inv, LifecycleInv, Typed, TypeOK, ReconcileStep
<1>1. alloc' = alloc /\ UNCHANGED <<request, disabled>> /\ at[a].pc = "close"
  BY DEF Close, environment
<1>2. JobsStand /\ RowsFewer /\ MadeBefore /\ AllocKept
  BY <1>0, <1>1, ThreadJobs, ThreadRows, ReconcileMade, AllocRests
<1>3. QueuedBefore
  <2>1. at[a].job # 0 => at[a].out \in {"failed", "canceled"}
    BY <1>0, <1>1, LocalsTyped DEF ReconcilePlaces
  <2>2. job' = job \/ \E st \in {"failed", "canceled"} : SetStatus(at[a].job, st)
    BY <2>1 DEF Close, SetStatus
  <2>3. ASSUME NEW j \in JobIds
        PROVE  job'[j] = job[j] \/ job'[j].status \in {"failed", "canceled"}
    BY <1>0, <2>2 DEF SetStatus, JobRow
  <2> QED
    BY <2>3 DEF QueuedBefore
<1>4. at'["worker"] = at["worker"] \/ at'["worker"].pc \in {"idle", "recoverNext"}
  BY <1>0 DEF Close, Idle, Actors
<1>5. Continues /\ MakersOnly'
  BY <1>4 DEF Continues, MakersOnly, ExecPlaces, CreatePlaces, Worker, AddressInv
<1>6. FailedRuns'
  <2>1. CASE at'["worker"].pc \in {"idle", "recoverNext"}
    BY <1>1, <2>1 DEF FailedRuns, AddressInv, ReconcilePlaces, Worker
  <2>2. CASE at'["worker"] = at["worker"] /\ at'["worker"].pc \notin {"idle", "recoverNext"}
    <3>1. a = "waiter" /\ Waiter.pc # "idle"
      BY <1>0, <1>1, <2>2 DEF Close, Idle, Actors, Waiter
    <3>2. TRUE \in PostBoot
      BY <3>1 DEF Inv, OwnershipInv, WaitsApart
    <3> QED
      BY <1>1, <2>2, <3>2 DEF FailedRuns, AddressInv, Worker
  <2> QED
    BY <1>4, <2>1, <2>2
<1> QED
  BY <1>1, <1>2, <1>3, <1>5, <1>6, Reserves

\* A failed deploy gives its address back: no job of its deployment can create a VM.
LEMMA FailedUnkept ==
  ASSUME Reserving, Inv, AddressInv, NEW a \in Actors, Apply(a), at[a].out = "failed",
         at[a].kind = "deploy", NEW j \in JobIds, job[j].dep = at[a].dep, at[a].dep # 0
  PROVE  ~Makes(j)'
<1> SUFFICES ASSUME Makes(j)'
             PROVE  FALSE
  OBVIOUS
<1>0. Typed /\ Held /\ OneActiveLifecycleJob /\ at[a].pc = "apply" /\ job' = job
  BY DEF Inv, LifecycleInv, Apply
<1>1. ReconcileStep(a) /\ ~Close(a) /\ StaysReconciled(a)
  BY <1>0, ReconcilePath DEF ReconcileStep, Close
<1>2. \A b \in Actors \ {a} : at'[b] = at[b]
  BY <1>1, WorkerReconciles
<1>3. /\ job[j].type \in {"deploy", "rebuild"}
      /\ \/ job[j].status = "queued"
         \/ at["worker"].pc \in ExecPlaces /\ at["worker"].job = j /\ a = "waiter"
  BY <1>0, <1>1, <1>2 DEF Makes, StaysReconciled, Worker, Actors, ReconcilePlaces, ExecPlaces
<1>4. at[a].job \in JobIds
  BY <1>0 DEF Actors, Held, ReconcilePlaces, AddressInv, FailedRuns, Worker
<1>5. job[at[a].job].type = "deploy" /\ job[at[a].job].dep = at[a].dep
  BY <1>4, Ids DEF Inv, OwnershipInv, LocalsAgree
<1>6. job[at[a].job].status \in {"running"} \cup Terminal
  BY <1>0, <1>4, Ids DEF Actors, Held, ReconcilePlaces, Inv, OwnershipInv, LocalsAgree, Worker
<1>7. a = "waiter" => TRUE \in PostBoot /\ job[at[a].job].status \in Terminal
  BY <1>0 DEF Inv, OwnershipInv, WaitsApart, Waiter, Held, ReconcilePlaces
<1>8. at[a].job # j
  <2>1. at["worker"].pc \in ExecPlaces => job[at["worker"].job].status = "running"
    BY <1>0 DEF Held
  <2> QED
    BY <1>3, <1>6, <1>7, <2>1 DEF Terminal
<1>9. CASE TRUE \in PostBoot \/ "disable" \in Ops
  <2>1. job[j].type # "rebuild"
    BY <1>9 DEF Reserving, Inv, OwnershipInv, WaitsApart, AddressInv, RebuildsReserve
  <2> QED
    BY <1>3, <1>4, <1>5, <1>8, <2>1 DEF AddressInv, DeployedOnce
<1>10. CASE TRUE \notin PostBoot /\ "disable" \notin Ops
  <2>1. a = "worker" /\ job[j].status = "queued"
    BY <1>3, <1>7, <1>10 DEF Actors
  <2>2. job[at[a].job].status = "running"
    BY <1>0, <1>10, <2>1 DEF AddressInv, FailedRuns, Worker, ReconcilePlaces
  <2> QED
    BY <1>0, <1>4, <1>5, <1>8, <2>1, <2>2
       DEF OneActiveLifecycleJob, JobActive, ActiveStatuses
<1> QED
  BY <1>9, <1>10

LEMMA ApplyReserves ==
  ASSUME Reserving, Inv, AddressInv, NEW a \in Actors, Apply(a)
  PROVE  AddressInv'
<1> SUFFICES ASSUME NEW d, d = at[a].dep
             PROVE  AddressInv'
  OBVIOUS
<1>1. at[a].pc = "apply" /\ job' = job /\ UNCHANGED <<vm, running>> /\ dep \in [Deployments -> Row \cup {NoRow}]
  BY DEF Apply, cluster, Inv, LifecycleInv, Typed, TypeOK
<1>2. Uncreated(d)
  BY <1>1, ReconcilerUncreated
<1>3. \/ alloc' = alloc
      \/ /\ at[a].seen = "absent" /\ StillNames(a) /\ alloc' = Unreserved(d)
         /\ \/ dep' = [dep EXCEPT ![d] = NoRow]
            \/ at[a].out = "failed" /\ at[a].kind = "deploy"
  <2>1. CASE at[a].out = "canceled" /\ ApplyCanceled(a)
    BY <2>1 DEF ApplyCanceled, DropIfMatches, DropRow, SetRow
  <2>2. CASE at[a].out = "failed" /\ ApplyFailed(a)
    BY <2>2 DEF ApplyFailed, DropIfMatches, DropRow
  <2>3. CASE at[a].out = "cleanup" /\ ApplyCleanup(a)
    BY <2>3 DEF ApplyCleanup, DropIfMatches, DropRow, SetRow
  <2> QED
    BY <2>1, <2>2, <2>3 DEF Apply
<1>4. ASSUME alloc' # alloc, NEW j \in JobIds, job[j].dep = d
      PROVE  ~Keeper(j)'
  <2>1. Vmless(d) /\ d \in Deployments
    BY <1>1, <1>3, <1>4 DEF StillNames, Exists, Inv, OwnershipInv, Verdict, RightVerdict
  <2>2. ~Made(j)'
    BY <1>1, <1>2, <1>4, <2>1, NotMade
  <2>3. ~Makes(j)'
    <3>1. CASE dep' = [dep EXCEPT ![d] = NoRow]
      BY <1>1, <1>4, <2>1, <3>1 DEF Makes, Exists
    <3>2. CASE at[a].out = "failed" /\ at[a].kind = "deploy"
      BY <1>4, <2>1, <3>2, FailedUnkept, Ids
    <3> QED
      BY <1>3, <1>4, <3>1, <3>2
  <2> QED
    BY <2>2, <2>3 DEF Keeper
<1>5. AllocKept
  <2>1. JobsStand /\ (alloc' = Unreserved(d) \/ alloc' = alloc)
    BY <1>1, <1>3 DEF JobsStand
  <2> QED
    BY <1>4, <2>1, AllocReleased
<1> QED
  BY <1>1, <1>5, ReconcileReserves DEF ReconcileStep, Close

LEMMA ReconcilersReserve ==
  ASSUME Reserving, Inv, AddressInv, NEW a \in Actors, ReconcileStep(a)
  PROVE  AddressInv'
<1>1. CASE Apply(a) \/ Close(a)
  BY <1>1, ApplyReserves, CloseReserves
<1>2. CASE ~Apply(a) /\ ~Close(a)
  <2>1. alloc' = alloc
    BY <1>2 DEF ReconcileStep, Retain, Read, TearDown, TearDownWait, Probe, tables
  <2> QED
    BY <1>2, <2>1, AllocRests, ReconcileReserves
<1> QED
  BY <1>1, <1>2

LEMMA WorkReserves ==
  ASSUME Inv, AddressInv, Execute("worker")
  PROVE  AddressInv'
<1>1. CASE Drop("worker") \/ Boot("worker") \/ Succeed("worker")
  BY <1>1, DropReserves, LeaveReserves
<1>2. CASE ~Drop("worker") /\ ~Boot("worker") /\ ~Succeed("worker")
  <2>1. alloc' = alloc
    BY <1>2 DEF Execute, Load, Stop, Destroy, RecordDestroy, Erase, Confirm, Pick, Prepare, Create,
                Accept, Record, Import, Setup, Ansible, Finish, tables
  <2> QED
    BY <1>2, <2>1, AllocRests, ExecuteReserves
<1> QED
  BY <1>1, <1>2

LEMMA StatusEdited ==
  ASSUME Typed, NEW S, "queued" \notin S, job' = job \/ \E k \in JobIds : \E st \in S : SetStatus(k, st)
  PROVE  JobsStand /\ QueuedBefore
<1>1. job \in [JobIds -> JobRow]
  BY DEF Typed, TypeOK
<1>2. CASE job' = job
  BY <1>2 DEF JobsStand, QueuedBefore
<1>3. CASE \E k \in JobIds : \E st \in S : SetStatus(k, st)
  <2>1. PICK k \in JobIds, st \in S : job' = [job EXCEPT ![k].status = st]
    BY <1>3 DEF SetStatus
  <2>2. JobsStand
    BY <2>1, JobEdited
  <2>3. \A j \in JobIds : job'[j] = job[j] \/ job'[j].status = st
    BY <1>1, <2>1 DEF JobRow
  <2> QED
    BY <2>2, <2>3 DEF QueuedBefore
<1> QED
  BY <1>2, <1>3

\* The worker takes a job, or a cleanup.
LEMMA ClaimReserves ==
  ASSUME Inv, AddressInv, NEW j \in JobIds, Claim(j)
  PROVE  AddressInv'
<1>0. at \in [Actors -> Local] /\ job \in [JobIds -> JobRow] /\ "worker" \in Actors
      /\ job[j].status = "queued"
  BY DEF Inv, LifecycleInv, Typed, TypeOK, Actors, Claim, NextQueued
<1>1. /\ UNCHANGED <<dep, alloc, vm, running, request, disabled>>
      /\ \E st \in Terminal \cup {"running"} : SetStatus(j, st)
      /\ \/ Start("worker", "retain", j, "canceled")
         \/ disabled /\ Start("worker", "retain", j, "failed")
         \/ Start("worker", FirstPlace(job[j].type), j, "")
  BY DEF Claim, cluster, environment, Terminal
<1>2. JobsStand /\ QueuedBefore
  BY <1>1, StatusEdited DEF Terminal, Inv, LifecycleInv
<1>3. RowsFewer /\ MadeBefore /\ AllocKept
  BY <1>1, RestMade, AllocRests DEF RowsFewer, Exists
<1>4. /\ at'["worker"].job = j /\ at'["worker"].kind = job[j].type
      /\ \/ at'["worker"].pc = "retain" /\ (at'["worker"].out # "failed" \/ disabled)
         \/ at'["worker"].pc = FirstPlace(job[j].type)
  BY <1>0, <1>1 DEF Start, Idle
<1>5. at'["worker"].pc \in CreatePlaces => at'["worker"].kind = "deploy"
  BY <1>4 DEF FirstPlace, CreatePlaces
<1>6. Continues /\ MakersOnly'
  BY <1>0, <1>4, <1>5 DEF Continues, MakersOnly, Worker
<1>7. FailedRuns'
  BY <1>1, <1>4 DEF FailedRuns, FirstPlace, ReconcilePlaces, Worker, AddressInv
<1> QED
  BY <1>1, <1>2, <1>3, <1>6, <1>7, Reserves

LEMMA RetryCleanupReserves ==
  ASSUME Inv, AddressInv, NEW d \in Deployments, RetryCleanup(d)
  PROVE  AddressInv'
<1>1. UNCHANGED <<dep, alloc, job, vm, running, request, disabled>>
  BY DEF RetryCleanup, tables, cluster, environment
<1>2. at'["worker"].pc \in {"tearDown", "probe"} /\ at'["worker"].out = "cleanup"
  BY DEF RetryCleanup, Idle, Actors, Inv, LifecycleInv, Typed, TypeOK
<1>3. JobsStand /\ RowsFewer /\ MadeBefore /\ QueuedBefore /\ AllocKept
  BY <1>1, RestMade, AllocRests DEF JobsStand, RowsFewer, Exists, QueuedBefore
<1>4. Continues /\ MakersOnly' /\ FailedRuns'
  BY <1>1, <1>2
     DEF Continues, ExecPlaces, MakersOnly, CreatePlaces, FailedRuns, Worker, AddressInv
<1> QED
  BY <1>1, <1>3, <1>4, Reserves

\* The waiting thread waits.
Waits(j, st) ==
  /\ UNCHANGED <<alloc, vm, running, request, disabled>>
  /\ at'["worker"] = at["worker"]
  /\ SetStatus(j, st)

LEMMA EndWaits ==
  ASSUME Typed, NEW j \in JobIds, NEW o, EndWait(j, o)
  PROVE  Waits(j, o) /\ RowsFewer
<1>1. at \in [Actors -> Local]
  BY DEF Typed, TypeOK
<1> QED
  BY <1>1 DEF EndWait, Start, cluster, environment, Actors, Waits, RowsFewer, Exists

LEMMA WaitEffect ==
  ASSUME Typed, Wait
  PROVE  /\ RowsFewer
         /\ \/ UNCHANGED <<alloc, vm, running, request, disabled, job>> /\ at'["worker"] = at["worker"]
            \/ \E j \in JobIds : \E st \in Terminal \cup {"running"} : Waits(j, st)
<1>0. at \in [Actors -> Local] /\ dep \in [Deployments -> Row \cup {NoRow}]
  BY DEF Typed, TypeOK
<1>1. CASE \E j \in JobIds : WaitCanceled(j) \/ WaitLost(j)
  BY <1>1, EndWaits DEF WaitCanceled, WaitLost, Terminal
<1>2. ASSUME NEW j \in JobIds, WaitTimeout(j)
      PROVE  RowsFewer /\ Waits(j, "failed")
  <2>1. Exists(job[j].dep)
    BY <1>2 DEF WaitTimeout, NoTarget, VmidOf
  <2>2. RowsFewer
    BY <1>0, <1>2, <2>1 DEF WaitTimeout, RowsFewer, Exists
  <2> QED
    BY <1>2, <2>2 DEF WaitTimeout, cluster, environment, control, Waits
<1>3. ASSUME NEW j \in JobIds, Resume(j)
      PROVE  RowsFewer /\ Waits(j, "running")
  BY <1>0, <1>3 DEF Resume, Start, cluster, environment, Actors, RowsFewer, Exists, Waits
<1>4. CASE ResumedOk
  <2>1. RowsFewer
    BY <1>0, <1>4 DEF ResumedOk, RowsFewer, Exists
  <2>2. at["waiter"].job \in JobIds
    BY <1>4, LocalsTyped DEF ResumedOk, Actors
  <2>3. /\ UNCHANGED <<alloc, vm, running, request, disabled>>
        /\ job' = job \/ SetStatus(at["waiter"].job, "succeeded")
    BY <1>4 DEF ResumedOk, cluster, environment
  <2>4. at'["worker"] = at["worker"]
    BY <1>0, <1>4 DEF ResumedOk, Actors
  <2> QED
    BY <2>1, <2>2, <2>3, <2>4 DEF Waits, Terminal
<1>5. CASE ResumedAborts
  <2>1. CASE \E o \in {"failed", "canceled"} : EndWait(at["waiter"].job, o)
    <3>1. at["waiter"].job \in JobIds
      BY <1>5, LocalsTyped DEF ResumedAborts, Actors
    <3> QED
      BY <2>1, <3>1, EndWaits DEF Terminal
  <2>2. CASE at' = [at EXCEPT !["waiter"] = Idle] /\ UNCHANGED <<tables, cluster, todo, request, environment>>
    BY <1>0, <2>2 DEF tables, cluster, environment, Actors, RowsFewer, Exists
  <2>3. \A o : o \in (IF Fault("local") THEN {"failed"} ELSE {})
                      \cup (IF job[at["waiter"].job].cancel THEN {"canceled"} ELSE {})
               => o \in {"failed", "canceled"}
    OBVIOUS
  <2> QED
    BY <1>5, <2>1, <2>2, <2>3 DEF ResumedAborts
<1> QED
  BY <1>1, <1>2, <1>3, <1>4, <1>5 DEF Wait, Terminal

LEMMA WaitReserves ==
  ASSUME Inv, AddressInv, Wait
  PROVE  AddressInv'
<1>1. /\ UNCHANGED <<alloc, vm, running, request, disabled>>
      /\ at'["worker"] = at["worker"]
      /\ job' = job \/ \E j \in JobIds : \E st \in Terminal \cup {"running"} : SetStatus(j, st)
      /\ RowsFewer
  BY WaitEffect DEF Waits, Inv, LifecycleInv
<1>2. JobsStand /\ QueuedBefore
  <2>1. "queued" \notin Terminal \cup {"running"}
    BY DEF Terminal
  <2> QED
    BY <1>1, <2>1, StatusEdited DEF Inv, LifecycleInv
<1>3. MadeBefore /\ AllocKept
  BY <1>1, RestMade, AllocRests
<1>4. Continues /\ MakersOnly'
  BY <1>1 DEF Continues, MakersOnly, AddressInv, Worker
<1>5. TRUE \in PostBoot
  <2>1. Waiter.pc # "idle" \/ \E j \in JobIds : job[j].status = "waiting"
    BY DEF Wait, WaitCanceled, WaitLost, WaitTimeout, Resume, Waiting, ResumedOk, ResumedAborts, Waiter
  <2> QED
    BY <2>1 DEF Inv, OwnershipInv, WaitsApart
<1>6. FailedRuns'
  BY <1>1, <1>5 DEF FailedRuns, AddressInv, Worker
<1> QED
  BY <1>1, <1>2, <1>3, <1>4, <1>6, Reserves

\* The cluster, and the handlers that insert no job.
LEMMA QuietReserves ==
  ASSUME Inv, AddressInv, JobsStand, RowsFewer, MadeBefore, QueuedBefore, alloc' = alloc, at' = at,
         \A j \in JobIds : job'[j].status = job[j].status,
         RebuildsReserve', disabled' = disabled \/ "disable" \in Ops
  PROVE  AddressInv'
<1>1. Continues /\ AllocKept
  BY AllocRests DEF Continues
<1>4. MakersOnly' /\ FailedRuns'
  <2>1. Worker' = Worker
    BY DEF Worker
  <2>2. MakersOnly'
    BY <2>1 DEF MakersOnly, AddressInv
  <2>3. Worker.pc \in ReconcilePlaces /\ Worker.out = "failed" =>
          Worker.job \in JobIds /\ job'[Worker.job].status = job[Worker.job].status
    BY DEF FailedRuns, AddressInv
  <2>4. FailedRuns'
    <3>1. FailedRuns
      BY DEF AddressInv
    <3>2. CASE "disable" \in Ops
      BY <2>1, <3>1, <3>2 DEF FailedRuns
    <3>3. CASE disabled' = disabled
      BY <2>1, <2>3, <3>1, <3>3 DEF FailedRuns
    <3> QED
      BY <3>2, <3>3
  <2> QED
    BY <2>2, <2>4
<1>2. AddressesKept'
  BY <1>1, KeepersStay DEF Continues, Worker
<1>3. DeployedOnce'
  BY DEF JobsStand, AddressInv, DeployedOnce
<1> QED
  BY <1>2, <1>3, <1>4 DEF AddressInv

LEMMA ClusterReserves ==
  ASSUME Inv, AddressInv, ClusterNext
  PROVE  AddressInv'
<1>1. UNCHANGED <<dep, alloc, job, at, request, disabled>>
  BY DEF ClusterNext, TaskStops, ForeignVm, tables, control, environment
<1>2. MadeBefore
  <2>1. CASE TaskStops
    <3>1. PICK t \in running : Succeeds(t) \/ Fails(t)
      BY <2>1 DEF TaskStops
    <3>2. t \in Task /\ running' \subseteq running /\ (vm' = vm \/ vm' = Effect(t))
      BY <3>1 DEF Succeeds, Fails, Inv, LifecycleInv, Typed, TypeOK
    <3> QED
      BY <3>2, EffectMade DEF Inv, LifecycleInv
  <2>2. CASE ForeignVm
    BY <2>2, Ids DEF ForeignVm, MadeBefore, Made, Inv, LifecycleInv, Typed, TypeOK
  <2> QED
    BY <2>1, <2>2 DEF ClusterNext
<1>3. JobsStand /\ RowsFewer /\ QueuedBefore /\ RebuildsReserve'
  BY <1>1 DEF JobsStand, RowsFewer, Exists, QueuedBefore, RebuildsReserve, AddressInv
<1> QED
  BY <1>1, <1>2, <1>3, QuietReserves

LEMMA HandlerReserves ==
  ASSUME Reserving, Inv, AddressInv,
         \/ RefuseRequest \/ ToggleDisabled
         \/ \E d \in Deployments : Reconcile(d) \/ \E op \in RequestOps : BeginRequest(op, d)
         \/ \E j \in JobIds : Cancel(j)
  PROVE  AddressInv'
<1>0. job \in [JobIds -> JobRow] /\ dep \in [Deployments -> Row \cup {NoRow}]
  BY DEF Inv, LifecycleInv, Typed, TypeOK
<1>1. /\ UNCHANGED <<alloc, vm, running, at>>
      /\ disabled' = disabled \/ "disable" \in Ops
  BY DEF RefuseRequest, ToggleDisabled, Reconcile, BeginRequest, Cancel, tables, cluster, control,
         environment
<1>2. job' = job \/ \E j : job' = [job EXCEPT ![j].cancel = TRUE]
                             \/ job' = [job EXCEPT ![j].create = "accepted"]
  BY DEF RefuseRequest, ToggleDisabled, Reconcile, BeginRequest, Cancel, tables
<1>3. JobsStand
  BY <1>2, JobEdited DEF Inv, LifecycleInv
<1>4. ASSUME NEW j \in JobIds
      PROVE  job'[j].status = job[j].status
  <2>1. \/ job'[j] = job[j]
        \/ job'[j] = [job[j] EXCEPT !.cancel = TRUE] \/ job'[j] = [job[j] EXCEPT !.create = "accepted"]
    BY <1>0, <1>2
  <2> QED
    BY <1>0, <2>1 DEF JobRow
<1>5. RowsFewer
  BY <1>0 DEF RefuseRequest, ToggleDisabled, Reconcile, BeginRequest, Cancel, tables, RowsFewer,
              Exists, MayStart
<1>6. RebuildsReserve'
  <2>1. \/ request' \in {request, NoRequest}
        \/ request'.op \in Ops
    <3>1. CASE RefuseRequest
      BY <3>1 DEF RefuseRequest
    <3>2. CASE ToggleDisabled \/ \E d \in Deployments : Reconcile(d)
      BY <3>2 DEF ToggleDisabled, Reconcile, control
    <3>3. CASE \E d \in Deployments, op \in RequestOps : BeginRequest(op, d)
      BY <3>3 DEF BeginRequest
    <3>4. CASE \E j \in JobIds : Cancel(j)
      BY <3>4 DEF Cancel, control
    <3> QED
      BY <3>1, <3>2, <3>3, <3>4
  <2> QED
    BY <1>3, <2>1 DEF RebuildsReserve, AddressInv, JobsStand, Reserving
<1>7. MadeBefore /\ QueuedBefore
  BY <1>1, <1>4, RestMade DEF QueuedBefore
<1> QED
  BY <1>1, <1>3, <1>4, <1>5, <1>6, <1>7, QuietReserves

--------------------------------------------------------------------------------
(* The handlers that insert a job                                             *)

\* A job is inserted for a deployment; an address is reserved for it that was free or
\* its own.
LEMMA InsertReserves ==
  ASSUME Inv, AddressInv, NEW j \in JobIds, NEW d \in Deployments, NEW i,
         job[j].status = "unused", job'[j].dep = d, job'[j].ip = i,
         \A k \in JobIds \ {j} : job'[k] = job[k],
         \A e \in Deployments : Exists(e)' => Exists(e) \/ (e = d /\ \A k \in JobIds : job[k].dep # d),
         UNCHANGED <<vm, running, at, disabled>>,
         alloc' = alloc \/ (i \in AllocatedIps(d) /\ Reserve(d, i)),
         job'[j].type \in {"deploy", "rebuild"} => i \in AllocatedIps(d) /\ Reserve(d, i),
         job'[j].type = "deploy" => \A k \in JobIds : job[k].dep # d,
         RebuildsReserve'
  PROVE  AddressInv'
<1>0. j # 0 /\ d # 0 /\ d \in Nat /\ alloc \in [Ips -> Deployments \cup {0}] /\ Typed
  BY Ids DEF Inv, LifecycleInv, Typed, TypeOK
<1>1. job[j].dep = 0
  BY DEF Inv, OwnershipInv, Unstarted
<1>2. MakersOnly'
  BY DEF MakersOnly, AddressInv, Worker
<1>3. DeployedOnce'
  BY DEF DeployedOnce, AddressInv
<1>4. FailedRuns'
  <2>1. Worker' = Worker
    BY DEF Worker
  <2>2. FailedRuns
    BY DEF AddressInv
  <2>3. \A k \in JobIds : job[k].status = "running" => job'[k].status = "running"
    OBVIOUS
  <2> QED
    BY <2>1, <2>2, <2>3 DEF FailedRuns
<1>5. ASSUME NEW k \in JobIds \ {j}, Keeper(k)', job[k].ip # NoIp
      PROVE  alloc'[job[k].ip] = job[k].dep
  <2>1. Made(k)' => Made(k)
    BY DEF Made
  <2>2. Makes(k)' => Makes(k)
    <3> SUFFICES ASSUME Makes(k)'
                 PROVE  Makes(k)
      OBVIOUS
    <3>1. job'[k] = job[k] /\ Worker' = Worker
      BY DEF Worker
    <3>2. \E e : e = job[k].dep /\ Exists(e)'
      BY <3>1 DEF Makes, Exists
    <3>3. Exists(job[k].dep)
      BY <3>2 DEF Exists
    <3> QED
      BY <3>1, <3>3 DEF Makes
  <2>3. Keeper(k)
    BY <1>5, <2>1, <2>2 DEF Keeper
  <2>4. alloc[job[k].ip] = job[k].dep /\ job[k].dep # 0 /\ job[k].ip \in Ips
    BY <1>0, <1>5, <2>3, KeeperOf DEF AddressInv, AddressesKept, Typed, TypeOK, JobRow
  <2>5. i \in AllocatedIps(d) => i = NoIp \/ alloc[i] \in {d, 0}
    BY DEF AllocatedIps, Least
  <2>6. CASE alloc' = [alloc EXCEPT ![i] = d] /\ i \in AllocatedIps(d) /\ i # NoIp
    BY <1>0, <2>4, <2>5, <2>6
  <2>7. CASE alloc' = alloc
    BY <2>4, <2>7
  <2> QED
    BY <2>6, <2>7 DEF Reserve
<1>6. ASSUME Keeper(j)', i # NoIp
      PROVE  alloc'[i] = d
  <2>1. ~Made(j)'
    <3>1. ~Made(j)
      BY <1>1, KeeperOf DEF Keeper
    <3> QED
      BY <3>1 DEF Made
  <2>2. job'[j].type \in {"deploy", "rebuild"}
    BY <1>6, <2>1 DEF Keeper, Makes
  <2>3. i \in Ips
    BY <1>6, <2>2 DEF AllocatedIps, Least
  <2> QED
    BY <1>0, <1>6, <2>2, <2>3 DEF Reserve
<1>7. AddressesKept'
  BY <1>5, <1>6 DEF AddressesKept
<1> QED
  BY <1>2, <1>3, <1>4, <1>7 DEF AddressInv

LEMMA InsertedAs ==
  ASSUME Inv, NEW j \in JobIds, NEW type, NEW d, NEW c, NEW i, Insert(j, type, d, c, i)
  PROVE  /\ job'[j].dep = d /\ job'[j].ip = i /\ job'[j].type = type
         /\ \A k \in JobIds \ {j} : job'[k] = job[k]
BY DEF Insert, Unused, Inv, LifecycleInv, Typed, TypeOK

LEMMA DeployReserves ==
  ASSUME Inv, AddressInv, Deploy
  PROVE  AddressInv'
<1>1. PICK d \in Deployments, j \in JobIds, i \in Ips \cup {NoIp} :
        /\ FreshDeployment(d) /\ FreshJob(j)
        /\ \E r : dep' = [dep EXCEPT ![d] = r]
        /\ i \in AllocatedIps(d) /\ Reserve(d, i) /\ Insert(j, "deploy", d, "", i)
  BY AllocatedTyped DEF Deploy
<1>2. /\ job \in [JobIds -> JobRow] /\ dep \in [Deployments -> Row \cup {NoRow}]
      /\ d \in Nat /\ j \in Nat
  BY Ids DEF Inv, LifecycleInv, Typed, TypeOK
<1>3. job[j].status = "unused" /\ \A k \in JobIds : job[k].dep # d
  <2>1. d >= d
    BY <1>2
  <2> QED
    BY <1>1, <2>1, Inserted DEF FreshDeployment
<1>4. /\ job'[j].dep = d /\ job'[j].ip = i /\ job'[j].type = "deploy"
      /\ \A k \in JobIds \ {j} : job'[k] = job[k]
  BY <1>1, <1>2, InsertedAs
<1>5. \A e \in Deployments : Exists(e)' => Exists(e) \/ (e = d /\ \A k \in JobIds : job[k].dep # d)
  BY <1>1, <1>2, <1>3 DEF Exists
<1>6. UNCHANGED <<vm, running, at, request, disabled>>
  BY DEF Deploy, cluster, control, environment
<1>7. RebuildsReserve'
  BY <1>4, <1>6 DEF RebuildsReserve, AddressInv
<1> QED
  BY <1>1, <1>3, <1>4, <1>5, <1>6, <1>7, InsertReserves

LEMMA FinishRequestReserves ==
  ASSUME Inv, AddressInv, FinishRequest
  PROVE  AddressInv'
<1> SUFFICES ASSUME NEW d, d = request.dep, NEW op, op = request.op
             PROVE  AddressInv'
  OBVIOUS
<1>1. PICK j \in JobIds, i \in ContextIps(op, d) :
        /\ FreshJob(j)
        /\ Insert(j, JobType(op), d, IF op = "configure" THEN "accepted" ELSE "", i)
        /\ IF op = "rebuildCurrent" THEN Reserve(d, i) ELSE UNCHANGED alloc
  BY DEF FinishRequest
<1>2. /\ job \in [JobIds -> JobRow] /\ dep \in [Deployments -> Row \cup {NoRow}]
      /\ j \in Nat /\ d \in Deployments /\ op \in RequestOps
  BY Ids DEF FinishRequest, Inv, LifecycleInv, Typed, TypeOK
<1>3. job[j].status = "unused"
  BY <1>1, Inserted
<1>4. /\ job'[j].dep = d /\ job'[j].ip = i /\ job'[j].type = JobType(op)
      /\ \A k \in JobIds \ {j} : job'[k] = job[k]
  BY <1>1, <1>2, InsertedAs
<1>5. \A e \in Deployments : Exists(e)' => Exists(e) \/ (e = d /\ \A k \in JobIds : job[k].dep # d)
  <2>1. dep' = dep \/ \E r : Exists(d) /\ dep' = [dep EXCEPT ![d] = r]
    BY DEF FinishRequest, Write
  <2> QED
    BY <1>2, <2>1 DEF Exists
<1>6. UNCHANGED <<vm, running, at, disabled>> /\ request' = NoRequest /\ request # NoRequest
  BY DEF FinishRequest, cluster, environment
<1>7. /\ op # "rebuild"
      /\ "rebuildCurrent" \notin Ops => op # "rebuildCurrent"
  BY <1>6 DEF AddressInv, RebuildsReserve
<1>8. JobType(op) # "deploy" /\ (JobType(op) = "rebuild" => op = "rebuildCurrent")
  BY <1>2, <1>7 DEF JobType, RequestOps
<1>9. RebuildsReserve'
  BY <1>4, <1>6, <1>7, <1>8 DEF RebuildsReserve, AddressInv
<1>10. op = "rebuildCurrent" => i \in AllocatedIps(d)
  BY <1>1 DEF ContextIps
<1> QED
  <2>1. alloc' = alloc \/ (i \in AllocatedIps(d) /\ Reserve(d, i))
    BY <1>1, <1>10
  <2>2. job'[j].type \in {"deploy", "rebuild"} => i \in AllocatedIps(d) /\ Reserve(d, i)
    BY <1>1, <1>4, <1>8, <1>10
  <2>3. job'[j].type # "deploy"
    BY <1>4, <1>8
  <2> QED
    BY <1>2, <1>3, <1>4, <1>5, <1>6, <1>9, <2>1, <2>2, <2>3, InsertReserves

--------------------------------------------------------------------------------
LEMMA AddressStep ==
  ASSUME Reserving, Inv, AddressInv, Next
  PROVE  AddressInv'
<1>1. CASE ApiNext
  <2>1. ~FinishCleanup /\ ~ \E d \in Deployments, op \in CleanupOps : BeginCleanup(op, d)
    BY NoCleanup DEF Reserving
  <2> QED
    BY <1>1, <2>1, DeployReserves, FinishRequestReserves, HandlerReserves DEF ApiNext
<1>2. CASE WorkerNext
  <2>1. ~Recover /\ ~RecoverNext
    BY DEF Recover, RecoverNext, Inv, OwnershipInv, Uncrashed, Worker
  <2> QED
    BY <1>2, <2>1, ClaimReserves, WorkReserves, ReconcilersReserve, RetryCleanupReserves
       DEF WorkerNext, Actors
<1>3. CASE WaiterNext
  BY <1>3, WaitReserves, ReconcilersReserve DEF WaiterNext, Actors
<1>4. ~Crash
  BY DEF Crash, Fault, Reserving, Undisturbed
<1> QED
  BY <1>1, <1>2, <1>3, <1>4, ClusterReserves DEF Next

LEMMA AddressInit ==
  ASSUME Init
  PROVE  AddressInv
<1>1. /\ job = [j \in JobIds |-> Unused] /\ dep = [d \in Deployments |-> NoRow]
      /\ vm = [v \in Vmids |-> NoVm] /\ running = {} /\ request = NoRequest /\ ~disabled
      /\ Worker = Idle
  BY DEF Init, Worker, Actors
<1>2. Unused.dep = 0 /\ Unused.type = "deploy" /\ Idle.pc = "idle"
  BY DEF Unused, Idle
<1>3. \A j \in JobIds : ~Keeper(j)
  BY <1>1, <1>2, Ids DEF Keeper, Makes, Made, Exists
<1> QED
  BY <1>1, <1>2, <1>3 DEF AddressInv, MakersOnly, CreatePlaces, DeployedOnce, RebuildsReserve,
     FailedRuns, ReconcilePlaces, AddressesKept

LEMMA AddressStutter ==
  ASSUME AddressInv, UNCHANGED vars
  PROVE  AddressInv'
<1>1. UNCHANGED <<dep, alloc, job, vm, running, at, request, disabled>>
  BY DEF vars
<1>2. \A j \in JobIds : Keeper(j)' => Keeper(j)
  BY <1>1 DEF Keeper, Makes, Made, Exists, Worker
<1>3. Worker' = Worker
  BY <1>1 DEF Worker
<1> QED
  BY <1>1, <1>2, <1>3
     DEF AddressInv, MakersOnly, DeployedOnce, RebuildsReserve, FailedRuns, AddressesKept

\* The address of every VM that a job created, or is about to, is reserved for that job's
\* deployment:
\* under the assumption of NoVmOrphaned, unless a rebuild returns to a saved address, or
\* deploys are failed unbegun while others rebuild (worker.py, _drop_deployment and
\* _reconcile_failed_job, which give addresses back; network_pool.py, allocate_ip).
THEOREM AddressesReserved == ASSUME Reserving PROVE Spec => []AddressReserved
<1>1. Inv /\ AddressInv /\ [Next]_vars => (Inv /\ AddressInv)'
  <2>1. ASSUME Inv, AddressInv, Next
        PROVE  Inv' /\ AddressInv'
    BY <2>1, AddressStep, OwnershipStep, StepPreserves
       DEF Inv, LifecycleInv, Preserves, Reserving
  <2>2. ASSUME Inv, AddressInv, UNCHANGED vars
        PROVE  Inv' /\ AddressInv'
    BY <2>2, AddressStutter, OwnershipStutter, StutterInv DEF Inv
  <2> QED
    BY <2>1, <2>2
<1>2. Init => Inv /\ AddressInv
  BY InitInv, OwnershipInit, AddressInit DEF Inv
<1>3. Inv /\ AddressInv => AddressReserved
  <2>1. ASSUME AddressInv, NEW j \in JobIds, Made(j)
        PROVE  Reserved(j)
    BY <2>1 DEF AddressInv, AddressesKept, Keeper, Reserved
  <2>2. ASSUME Typed, NEW t \in running
        PROVE  t.job \in JobIds
    BY <2>2, TaskFields DEF Typed, TypeOK
  <2> QED
    BY <2>1, <2>2 DEF AddressReserved, Made, Inv, LifecycleInv
<1> QED
  BY <1>1, <1>2, <1>3, PTL DEF Spec

\* So no two VMs are configured with one address, which is what reservations are for: the
\* run saved_address shows how a rebuild on a saved address breaks that (network_pool.py).
THEOREM AddressesNotShared == ASSUME Reserving PROVE Spec => []AddressNotShared
<1>1. NoOrphanVm /\ AddressReserved => AddressNotShared
  BY DEF NoOrphanVm, Owned, AddressReserved, Reserved, AddressNotShared
<1>2. Undisturbed
  BY DEF Reserving
<1> QED
  BY <1>1, <1>2, NoVmOrphaned, AddressesReserved, PTL


--------------------------------------------------------------------------------
(* Who changes a row that says "working"                                      *)

\* The VM of one deployment is not torn down while the answer is lost by a thread that
\* finds another deployment's row by the VM id.
OwnTeardowns ==
  /\ Undisturbed
  /\ \/ MaxDeployments = 1 \/ "cancel" \notin Ops
     \/ Faults \cap {"reject", "lost", "taskfail", "stuck", "unreachable"} = {}

\* An actor that will not change the row of its deployment any more.
Past(a) == at[a].pc \in {"idle", "close", "succeed"}
\* Somebody is about to change the row: an actor, or one that will take the job.
Promised(d) ==
  \/ \E a \in Actors : at[a].dep = d /\ ~Past(a)
  \/ \E j \in JobIds : job[j].dep = d /\ JobActive(j) /\ \A a \in Actors : Past(a) => at[a].job # j
WorkingPromised ==
  \A d \in Deployments : Exists(d) /\ dep[d].status = "working" => Promised(d)

\* The row names the VM that is torn down, probed or configured, or is gone.
TearingDown == {"tearDown", "tearDownWait"}
Minds(a) ==
  \/ at[a].pc \in TearingDown \cup {"probe", "apply"}
  \/ at[a].pc \in {"ansible", "finish"} /\ at[a].kind = "configure"
VmidKept ==
  \A a \in Actors : Minds(a) /\ Exists(at[a].dep) => dep[at[a].dep].vmid = at[a].vmid

\* The threads are about different jobs, and nobody ends the one that is resumed.
JobsApart == Waiter.job # 0 => Waiter.job # Worker.job
ResumedRuns == Waiter.pc = "resumed" => job[Waiter.job].status = "running"

\* A cleanup keeps the handlers from the row.
CleanupLocked ==
  Worker.out = "cleanup" =>
    /\ request # NoRequest => request.dep # Worker.dep
    /\ Exists(Worker.dep) => dep[Worker.dep].status # "working"

\* Only what was canceled is torn down.
CanceledOnly ==
  "cancel" \notin Ops =>
    /\ \A j \in JobIds : ~job[j].cancel
    /\ \A d \in Deployments : Exists(d) => dep[d].origin # "deploy"
    /\ \A a \in Actors : at[a].out # "canceled" /\ at[a].pc \notin TearingDown

WorkingInv ==
  /\ MakersOnly /\ JobsApart /\ ResumedRuns /\ CleanupLocked /\ CanceledOnly
  /\ VmidKept /\ WorkingPromised

--------------------------------------------------------------------------------
(* What the threads do to the rows                                            *)

AtWork(d) == Exists(d) /\ dep[d].status = "working"

\* A row that thread a writes: nobody but an admission makes it "working".
Settled(a, e) ==
  /\ \/ dep'[e].status = dep[e].status
     \/ dep'[e].status # "working"
  /\ \/ dep'[e].origin \in {dep[e].origin, ""}
     \/ at[a].out = "canceled"
  /\ \/ dep'[e].vmid = dep[e].vmid
     \/ a = "worker" /\ e = at[a].dep /\ at[a].pc \in {"pick", "prepare", "create"}
RowsSettle(a) == \A e \in Deployments : Exists(e)' => Exists(e) /\ Settled(a, e)

LEMMA RowsUnchanged ==
  ASSUME NEW a, dep' = dep
  PROVE  RowsSettle(a)
BY DEF RowsSettle, Settled, Exists

LEMMA UnconfirmedSettles ==
  ASSUME Typed, NEW a \in Actors, at[a].pc \in {"tearDown", "tearDownWait"}, TearDownUnconfirmed(a)
  PROVE  RowsSettle(a)
<1>0. dep \in [Deployments -> Row \cup {NoRow}] /\ at[a].vmid \in Vmids
  BY LocalsTyped DEF Typed, TypeOK, VmPlaces
<1>1. \A e \in Deployments : e \in FirstNaming(at[a].vmid) => Exists(e) /\ dep[e] \in Row
  BY <1>0, OwnerExists DEF FirstNaming, NamesVm, Exists
<1>2. \A e \in Deployments :
        dep'[e] = dep[e] \/ (Exists(e) /\ dep[e] \in Row
                             /\ dep'[e] = [dep[e] EXCEPT !.identity = "submitting", !.status = "error"])
  BY <1>1 DEF TearDownUnconfirmed
<1> QED
  BY <1>2 DEF RowsSettle, Settled, Exists, Row

\* One row is written.
LEMMA WrittenSettles ==
  ASSUME Typed, NEW a, NEW d, Exists(d), NEW r, dep' = [dep EXCEPT ![d] = r],
         (r.status = dep[d].status \/ r.status # "working"),
         (r.origin \in {dep[d].origin, ""} \/ at[a].out = "canceled"),
         (r.vmid = dep[d].vmid
          \/ (a = "worker" /\ d = at[a].dep /\ at[a].pc \in {"pick", "prepare", "create"}))
  PROVE  RowsSettle(a)
<1>1. dep \in [Deployments -> Row \cup {NoRow}] /\ d \in Deployments
  BY DEF Typed, TypeOK, Exists
<1>2. dep'[d] = r /\ \A e \in Deployments \ {d} : dep'[e] = dep[e]
  BY <1>1
<1>3. Settled(a, d)
  BY <1>2 DEF Settled
<1> QED
  BY <1>2, <1>3 DEF RowsSettle, Settled, Exists

LEMMA ExecuteSettles ==
  ASSUME Typed, Execute("worker")
  PROVE  RowsSettle("worker")
<1> SUFFICES ASSUME NEW d, d = at["worker"].dep
             PROVE  RowsSettle("worker")
  OBVIOUS
<1>0. dep \in [Deployments -> Row \cup {NoRow}] /\ (Exists(d) => d \in Deployments /\ dep[d] \in Row)
  BY DEF Typed, TypeOK, Exists
<1>1. CASE dep' = dep
  BY <1>1, RowsUnchanged
<1>2. CASE Load("worker") \/ Stop("worker") \/ Destroy("worker") \/ RecordDestroy("worker")
           \/ Erase("worker") \/ Confirm("worker") \/ Record("worker") \/ Import("worker")
           \/ Setup("worker") \/ Boot("worker") \/ Ansible("worker") \/ Succeed("worker")
  BY <1>1, <1>2 DEF Load, Stop, Destroy, RecordDestroy, Erase, Confirm, Record, Import, Setup, Boot,
                    Ansible, Succeed, tables
<1>3. CASE Drop("worker")
  BY <1>0, <1>3 DEF Drop, DropRow, RowsSettle, Settled, Exists
<1>4. CASE Pick("worker") \/ Prepare("worker") \/ Create("worker")
  <2>1. ASSUME Exists(d), NEW r, dep' = [dep EXCEPT ![d] = r],
               r.status = dep[d].status, r.origin = dep[d].origin
        PROVE  RowsSettle("worker")
    BY <1>4, <2>1, WrittenSettles DEF Pick, Prepare, Create
  <2>2. ASSUME NEW r, Write(d, r), Exists(d) => r.status = dep[d].status /\ r.origin = dep[d].origin
        PROVE  RowsSettle("worker")
    BY <1>1, <2>1, <2>2 DEF Write
  <2>3. ASSUME NEW v, Exists(d)
        PROVE  /\ [dep[d] EXCEPT !.vmid = v].status = dep[d].status
               /\ [dep[d] EXCEPT !.vmid = v].origin = dep[d].origin
               /\ Cleared(dep[d], v) \in {dep[d], [dep[d] EXCEPT !.vmid = NoVmid]}
    BY <1>0, <2>3 DEF Row, Cleared
  <2>4. ASSUME NEW v, NEW i, Exists(d)
        PROVE  /\ [dep[d] EXCEPT !.identity = i].status = dep[d].status
               /\ [dep[d] EXCEPT !.identity = i].origin = dep[d].origin
               /\ Cleared(dep[d], v).status = dep[d].status
               /\ Cleared(dep[d], v).origin = dep[d].origin
               /\ [Cleared(dep[d], v) EXCEPT !.identity = i].status = dep[d].status
               /\ [Cleared(dep[d], v) EXCEPT !.identity = i].origin = dep[d].origin
    <3>1. dep[d] \in Row /\ [dep[d] EXCEPT !.vmid = NoVmid] \in Row
      BY <1>0, <2>4 DEF Row
    <3>2. [dep[d] EXCEPT !.vmid = NoVmid].status = dep[d].status
          /\ [dep[d] EXCEPT !.vmid = NoVmid].origin = dep[d].origin
      BY <2>3, <2>4
    <3>3. PICK r : r = Cleared(dep[d], v)
      OBVIOUS
    <3>4. r \in Row /\ r.status = dep[d].status /\ r.origin = dep[d].origin
      BY <3>1, <3>2, <3>3 DEF Cleared
    <3>5. [r EXCEPT !.identity = i].status = r.status /\ [r EXCEPT !.identity = i].origin = r.origin
          /\ [dep[d] EXCEPT !.identity = i].status = dep[d].status
          /\ [dep[d] EXCEPT !.identity = i].origin = dep[d].origin
      BY <3>1, <3>4 DEF Row
    <3> QED
      BY <3>3, <3>4, <3>5
  <2>5. CASE Pick("worker")
    <3>1. CASE \E v : Exists(d) /\ dep' = [dep EXCEPT ![d].vmid = v]
      <4>1. PICK v : Exists(d) /\ dep' = [dep EXCEPT ![d] = [dep[d] EXCEPT !.vmid = v]]
        BY <1>0, <3>1
      <4> QED
        BY <2>1, <2>3, <4>1
    <3> QED
      BY <1>1, <2>5, <3>1 DEF Pick, MissingTarget
  <2>6. CASE Prepare("worker")
    BY <2>2, <2>4, <2>6 DEF Prepare
  <2>7. CASE Create("worker")
    <3>1. CASE \E v : Write(d, [Cleared(dep[d], v) EXCEPT !.identity = "rejected"])
      BY <2>2, <2>4, <3>1
    <3> QED
      BY <1>1, <2>7, <3>1 DEF Create
  <2> QED
    BY <1>4, <2>5, <2>6, <2>7
<1>5. CASE Finish("worker")
  <2>1. CASE Exists(d) /\ dep' = [dep EXCEPT ![d].status = "live", ![d].origin = ""]
    <3>1. dep' = [dep EXCEPT ![d] = [dep[d] EXCEPT !.status = "live", !.origin = ""]]
      BY <1>0, <2>1
    <3>2. PICK r : dep' = [dep EXCEPT ![d] = r]
                   /\ r.status = "live" /\ r.origin = "" /\ r.vmid = dep[d].vmid
      BY <1>0, <2>1, <3>1 DEF Row
    <3>3. Exists(d) /\ r.status # "working" /\ r.origin \in {dep[d].origin, ""}
      BY <2>1, <3>2
    <3> QED
      BY <3>2, <3>3, WrittenSettles, Zenon
  <2> QED
    BY <1>1, <1>5, <2>1 DEF Finish
<1>6. CASE Accept("worker")
  <2>1. CASE Exists(d) /\ dep' = [dep EXCEPT ![d] = [dep[d] EXCEPT !.identity = "accepted"]]
    <3>1. PICK r : r = [dep[d] EXCEPT !.identity = "accepted"]
      OBVIOUS
    <3>2. dep' = [dep EXCEPT ![d] = r]
      BY <2>1, <3>1
    <3>3. r.status = dep[d].status /\ r.origin = dep[d].origin /\ r.vmid = dep[d].vmid
      BY <1>0, <2>1, <3>1 DEF Row
    <3>4. r.status = dep[d].status /\ r.origin \in {dep[d].origin, ""}
      BY <3>3
    <3> QED
      BY <2>1, <3>2, <3>3, <3>4, WrittenSettles, Zenon
  <2> QED
    BY <1>1, <1>6, <2>1 DEF Accept, Write
<1> QED
  BY <1>2, <1>3, <1>4, <1>5, <1>6 DEF Execute

LEMMA StatusSettles ==
  ASSUME Typed, NEW a, NEW d, Exists(d), NEW s, NEW o, s # "working",
         (o \in {dep[d].origin, ""} \/ at[a].out = "canceled"),
         dep' = [dep EXCEPT ![d].status = s, ![d].origin = o]
  PROVE  RowsSettle(a)
<1>1. dep \in [Deployments -> Row \cup {NoRow}] /\ d \in Deployments /\ dep[d] \in Row
  BY DEF Typed, TypeOK, Exists
<1>2. dep' = [dep EXCEPT ![d] = [dep[d] EXCEPT !.status = s, !.origin = o]]
  BY <1>1
<1>3. PICK r : dep' = [dep EXCEPT ![d] = r] /\ r.status = s /\ r.origin = o /\ r.vmid = dep[d].vmid
  BY <1>1, <1>2 DEF Row
<1>4. r.status # "working" /\ (r.origin \in {dep[d].origin, ""} \/ at[a].out = "canceled")
  BY <1>3
<1> QED
  BY <1>3, <1>4, WrittenSettles, Zenon

LEMMA ReconcileSettles ==
  ASSUME Typed, NEW a \in Actors, ReconcileStep(a)
  PROVE  RowsSettle(a)
<1> SUFFICES ASSUME NEW d, d = at[a].dep
             PROVE  RowsSettle(a)
  OBVIOUS
<1>0. dep \in [Deployments -> Row \cup {NoRow}] /\ (Exists(d) => d \in Deployments /\ dep[d] \in Row)
  BY DEF Typed, TypeOK, Exists
<1>1. CASE dep' = dep
  BY <1>1, RowsUnchanged
<1>2. CASE Probe(a) \/ Close(a)
  BY <1>1, <1>2 DEF Probe, Close, tables
<1>3. CASE TearDown(a) \/ TearDownWait(a)
  BY <1>1, <1>3, UnconfirmedSettles DEF TearDown, TearDownWait
<1>4. CASE Retain(a) \/ Read(a)
  <2>1. CASE Exists(d) /\ dep' = [dep EXCEPT ![d].identity = "submitting", ![d].status = "error"]
    <3>1. dep' = [dep EXCEPT ![d] = [dep[d] EXCEPT !.identity = "submitting", !.status = "error"]]
      BY <1>0, <2>1
    <3>2. Exists(d) /\ \E r : /\ dep' = [dep EXCEPT ![d] = r] /\ r.status = "error"
                              /\ r.origin = dep[d].origin /\ r.vmid = dep[d].vmid
      BY <1>0, <2>1, <3>1 DEF Row
    <3> QED
      BY <3>2, WrittenSettles
  <2>2. CASE Exists(d) /\ dep' = [dep EXCEPT ![d].status = "error"]
    <3>1. dep' = [dep EXCEPT ![d] = [dep[d] EXCEPT !.status = "error"]]
      BY <1>0, <2>2
    <3>2. \E r : /\ dep' = [dep EXCEPT ![d] = r]
                 /\ r.status = "error" /\ r.origin = dep[d].origin /\ r.vmid = dep[d].vmid
      BY <1>0, <2>2, <3>1 DEF Row
    <3> QED
      BY <2>2, <3>2, WrittenSettles
  <2> QED
    BY <1>1, <1>4, <2>1, <2>2 DEF Retain, Read
<1>5. CASE Apply(a)
  <2>1. CASE Exists(d) /\ dep' = [dep EXCEPT ![d] = NoRow]
    BY <1>0, <2>1 DEF RowsSettle, Settled, Exists
  <2>2. ASSUME NEW s, NEW o, SetRow(a, s, o), s # "working",
               (Exists(d) => o \in {dep[d].origin, ""} \/ at[a].out = "canceled")
        PROVE  RowsSettle(a)
    BY <1>1, <2>2, StatusSettles DEF SetRow, StillNames
  <2>3. ASSUME NEW m, DropIfMatches(a, m), m => StillNames(a)
        PROVE  RowsSettle(a)
    BY <1>1, <2>1, <2>3 DEF DropIfMatches, DropRow, StillNames
  <2>4. CASE at[a].out = "canceled" /\ ApplyCanceled(a)
    BY <2>2, <2>3, <2>4 DEF ApplyCanceled
  <2>5. CASE at[a].out = "failed" /\ ApplyFailed(a)
    BY <1>1, <2>3, <2>5, StatusSettles DEF ApplyFailed, StillNames
  <2>6. CASE at[a].out = "cleanup" /\ ApplyCleanup(a)
    BY <2>2, <2>3, <2>6 DEF ApplyCleanup
  <2> QED
    BY <1>5, <2>4, <2>5, <2>6 DEF Apply
<1> QED
  BY <1>2, <1>3, <1>4, <1>5 DEF ReconcileStep

\* Nor does a thread cancel a job.
CancelsStand == \A j \in JobIds : job'[j].cancel = job[j].cancel

LEMMA CancelsEdited ==
  ASSUME Typed, NEW k, NEW x,
         \/ job' = job
         \/ job' = [job EXCEPT ![k].remote = x] \/ job' = [job EXCEPT ![k].create = x]
         \/ job' = [job EXCEPT ![k].status = x]
  PROVE  CancelsStand
<1> SUFFICES ASSUME NEW j \in JobIds
             PROVE  job'[j].cancel = job[j].cancel
  BY DEF CancelsStand
<1>1. job \in [JobIds -> JobRow] /\ job[j] \in JobRow
  BY DEF Typed, TypeOK
<1>2. \/ job'[j] = job[j]
      \/ job'[j] = [job[j] EXCEPT !.remote = x] \/ job'[j] = [job[j] EXCEPT !.create = x]
      \/ job'[j] = [job[j] EXCEPT !.status = x]
  BY <1>1
<1> QED
  BY <1>1, <1>2 DEF JobRow

--------------------------------------------------------------------------------
(* A thread goes on                                                           *)

\* Thread a stays with its job and its deployment; it minds the VM it minded, or the one
\* that it reads in the row; and it leaves the row only when that has ceased to say
\* "working".
GoesAlong(a) ==
  /\ at'[a].dep = at[a].dep /\ at'[a].job = at[a].job
  /\ \A b \in Actors \ {a} : at'[b] = at[b]
  /\ at'[a].pc # "resumed"
  /\ \/ at'[a].out \in {at[a].out, "failed"}
     \/ at'[a].out = "canceled" /\ at[a].job \in JobIds /\ job[at[a].job].cancel
  /\ at'[a].pc \in TearingDown => at[a].pc \in TearingDown \/ at[a].out = "canceled"
  /\ Minds(a)' =>
       \/ Minds(a) /\ at'[a].vmid = at[a].vmid
       \/ dep' = dep /\ at'[a].vmid = VmidOf(at[a].dep)
  /\ Past(a)' => Past(a) \/ \A d \in Deployments : AtWork(d)' => d # at[a].dep

LEMMA PromisedStays ==
  ASSUME Inv, WorkingPromised, NEW a \in Actors, Unmoved, RowsSettle(a), GoesAlong(a)
  PROVE  WorkingPromised'
<1> SUFFICES ASSUME NEW d \in Deployments, AtWork(d)'
             PROVE  Promised(d)'
  BY DEF WorkingPromised, AtWork
<1>1. Promised(d)
  BY DEF WorkingPromised, RowsSettle, Settled, AtWork
<1>2. ASSUME NEW b \in Actors, at[b].dep = d, ~Past(b)
      PROVE  Promised(d)'
  BY <1>2 DEF GoesAlong, Promised, Past
<1>3. ASSUME NEW j \in JobIds, job[j].dep = d, JobActive(j), \A b \in Actors : Past(b) => at[b].job # j
      PROVE  Promised(d)'
  <2>1. job'[j].dep = d /\ JobActive(j)'
    BY <1>3 DEF Unmoved, JobActive
  <2>2. ASSUME NEW b \in Actors, Past(b)', at'[b].job = j
        PROVE  FALSE
    <3>1. b = a /\ at[a].job = j /\ ~Past(a)
      BY <1>3, <2>2 DEF GoesAlong, Past
    <3>2. at[a].dep = d
      BY <1>3, <3>1, Ids DEF Inv, OwnershipInv, LocalsAgree
    <3> QED
      BY <2>2, <3>1, <3>2 DEF GoesAlong
  <2> QED
    BY <2>1, <2>2 DEF Promised
<1> QED
  BY <1>1, <1>2, <1>3 DEF Promised

LEMMA VmidStays ==
  ASSUME Inv, VmidKept, NEW a \in Actors, RowsSettle(a), GoesAlong(a)
  PROVE  VmidKept'
<1> SUFFICES ASSUME NEW b \in Actors, Minds(b)', NEW d \in Deployments, d = at[b].dep, Exists(d)'
             PROVE  dep'[d].vmid = at'[b].vmid
  <2>1. \A b \in Actors : at'[b].dep = at[b].dep
    BY DEF GoesAlong
  <2> QED
    BY <2>1 DEF VmidKept, Exists
<1>1. Exists(d) /\ Settled(a, d)
  BY DEF RowsSettle
<1>2. ASSUME Minds(b), at'[b].vmid = at[b].vmid
      PROVE  dep'[d].vmid = at'[b].vmid
  <2>1. dep[d].vmid = at[b].vmid
    BY <1>1, <1>2 DEF VmidKept
  <2>2. ~(a = "worker" /\ d = at[a].dep /\ at[a].pc \in {"pick", "prepare", "create"})
    <3>1. b = a => at[a].pc \notin {"pick", "prepare", "create"}
      BY <1>2 DEF Minds, TearingDown
    <3>2. b # a /\ a = "worker" /\ at[a].pc \in {"pick", "prepare", "create"} => Waiter.dep # Worker.dep \/ Worker.dep = 0
      BY WaiterElsewhere DEF CreatePlaces, Worker
    <3> QED
      BY <3>1, <3>2, Ids DEF Actors, Worker, Waiter
  <2> QED
    BY <1>1, <1>2, <2>1, <2>2 DEF Settled
<1>3. CASE b # a
  <2>1. at'[b] = at[b]
    BY <1>3 DEF GoesAlong
  <2>2. Minds(b)
    BY <2>1 DEF Minds
  <2> QED
    BY <1>2, <2>1, <2>2
<1>4. CASE b = a /\ dep' = dep /\ at'[a].vmid = VmidOf(at[a].dep)
  BY <1>1, <1>4 DEF VmidOf
<1> QED
  BY <1>2, <1>3, <1>4 DEF GoesAlong

LEMMA CanceledStays ==
  ASSUME Inv, CanceledOnly, NEW a \in Actors, CancelsStand, RowsSettle(a), GoesAlong(a)
  PROVE  CanceledOnly'
<1> SUFFICES ASSUME "cancel" \notin Ops
             PROVE  /\ \A j \in JobIds : ~job'[j].cancel
                    /\ \A d \in Deployments : Exists(d)' => dep'[d].origin # "deploy"
                    /\ \A b \in Actors : at'[b].out # "canceled" /\ at'[b].pc \notin TearingDown
  BY DEF CanceledOnly
<1>1. /\ \A j \in JobIds : ~job[j].cancel
      /\ \A d \in Deployments : Exists(d) => dep[d].origin # "deploy"
      /\ \A b \in Actors : at[b].out # "canceled" /\ at[b].pc \notin TearingDown
  BY DEF CanceledOnly
<1>2. \A j \in JobIds : ~job'[j].cancel
  BY <1>1 DEF CancelsStand
<1>3. \A d \in Deployments : Exists(d)' => dep'[d].origin # "deploy"
  BY <1>1 DEF RowsSettle, Settled
<1>4. ASSUME NEW b \in Actors
      PROVE  at'[b].out # "canceled" /\ at'[b].pc \notin TearingDown
  BY <1>1 DEF GoesAlong
<1> QED
  BY <1>2, <1>3, <1>4

LEMMA WorkGoesOn ==
  ASSUME Inv, WorkingInv, NEW a \in Actors, Unmoved, CancelsStand, RowsSettle(a), GoesAlong(a),
         request' = request, MakersOnly'
  PROVE  WorkingInv'
<1>1. WorkingPromised' /\ VmidKept' /\ CanceledOnly'
  BY PromisedStays, VmidStays, CanceledStays DEF WorkingInv
<1>2. JobsApart'
  BY DEF WorkingInv, JobsApart, GoesAlong, Actors, Worker, Waiter
<1>3. ResumedRuns'
  <2>1. Waiter.pc = "resumed" => Waiter.job \in JobIds
    BY LocalsTyped DEF Inv, LifecycleInv, Actors, Waiter
  <2>2. Waiter'.pc = "resumed" => Waiter' = Waiter
    BY DEF GoesAlong, Actors, Waiter
  <2> QED
    BY <2>1, <2>2 DEF WorkingInv, ResumedRuns, Unmoved
<1>4. CleanupLocked'
  <2> SUFFICES ASSUME Worker'.out = "cleanup", NEW d, d = Worker.dep
               PROVE  /\ request # NoRequest => request.dep # d
                      /\ Exists(d)' => dep'[d].status # "working"
    BY DEF CleanupLocked, Exists, GoesAlong, Actors, Worker
  <2>1. Worker.out = "cleanup"
    BY DEF GoesAlong, Actors, Worker
  <2>2. Exists(d)' => d \in Deployments
    BY DEF Exists
  <2> QED
    BY <2>1, <2>2 DEF WorkingInv, CleanupLocked, RowsSettle, Settled
<1> QED
  BY <1>1, <1>2, <1>3, <1>4 DEF WorkingInv

\* The worker executes.
LEMMA ExecuteGoes ==
  ASSUME Inv, WorkingInv, Execute("worker"), ~Boot("worker"), ~Succeed("worker")
  PROVE  GoesAlong("worker")
<1> SUFFICES ASSUME NEW a, a = "worker"
             PROVE  GoesAlong(a)
  OBVIOUS
<1>0. /\ a \in Actors /\ Typed /\ at \in [Actors -> Local] /\ at[a] \in Local /\ at[a].job \in JobIds
      /\ dep \in [Deployments -> Row \cup {NoRow}] /\ at[a].pc \in ExecPlaces
  <2>1. at[a].pc \in ExecPlaces
    BY DEF Execute, Load, Stop, Destroy, RecordDestroy, Erase, Confirm, Drop, Pick, Prepare, Create,
           Accept, Record, Import, Setup, Boot, Ansible, Finish, Succeed, ExecPlaces
  <2> QED
    BY <2>1, LocalsTyped DEF Actors, Inv, LifecycleInv, Typed, TypeOK
<1>1. at'[a].job = at[a].job /\ \A b \in Actors \ {a} : at'[b] = at[b]
  <2>1. ~Close(a)
    BY <1>0 DEF Close, ExecPlaces
  <2> QED
    BY <1>0, <2>1, StepMoves DEF Moves, MovesAt
<1>2. ASSUME NEW p \in ExecPlaces \ {"ansible", "finish", "succeed"},
             Goto(a, p) \/ \E t : GotoAwaiting(a, p, t)
      PROVE  GoesAlong(a)
  <2>1. at'[a].pc = p /\ at'[a].dep = at[a].dep /\ at'[a].out = at[a].out
    BY <1>0, <1>2, PlacingFollows
  <2> QED
    BY <1>1, <2>1 DEF GoesAlong, Minds, TearingDown, Past, ExecPlaces
<1>3. ASSUME NEW o, Abort(a, o), o = "failed" \/ (o = "canceled" /\ Canceled(a))
      PROVE  GoesAlong(a)
  <2>1. at'[a].pc = "retain" /\ at'[a].dep = at[a].dep /\ at'[a].out = o
    BY <1>0, <1>3, AbortFollows
  <2> QED
    BY <1>0, <1>1, <1>3, <2>1 DEF GoesAlong, Minds, TearingDown, Past, Canceled
<1>4. ASSUME NEW p \in ExecPlaces \ {"succeed"}, NEW v, at' = [at EXCEPT ![a].vmid = v, ![a].pc = p],
             p \in {"ansible", "finish"} => dep' = dep /\ v = VmidOf(at[a].dep)
      PROVE  GoesAlong(a)
  <2>1. at' = [at EXCEPT ![a] = [at[a] EXCEPT !.vmid = v, !.pc = p]]
    BY <1>0, <1>4
  <2>2. at'[a].pc = p /\ at'[a].dep = at[a].dep /\ at'[a].out = at[a].out /\ at'[a].vmid = v
    BY <1>0, <2>1 DEF Local
  <2> QED
    BY <1>1, <1>4, <2>2 DEF GoesAlong, Minds, TearingDown, Past, ExecPlaces
<1>5. CASE Load(a)
  <2>1. CASE Abort(a, "failed") \/ (Canceled(a) /\ Abort(a, "canceled"))
    BY <1>3, <2>1
  <2>2. CASE /\ ~MissingTarget(a)
             /\ at' = [at EXCEPT ![a].vmid = dep[at[a].dep].vmid,
                                 ![a].pc = IF at[a].kind = "configure" THEN "ansible" ELSE "stop"]
    <3>1. PICK p \in {"ansible", "stop"} : at' = [at EXCEPT ![a].vmid = dep[at[a].dep].vmid, ![a].pc = p]
      BY <2>2
    <3>2. dep' = dep /\ dep[at[a].dep].vmid = VmidOf(at[a].dep)
      BY <1>5, <2>2 DEF Load, tables, MissingTarget, VmidOf
    <3> QED
      BY <1>4, <3>1, <3>2 DEF ExecPlaces
  <2> QED
    BY <1>5, <2>1, <2>2 DEF Load
<1>6. CASE Stop(a)
  BY <1>2, <1>3, <1>6 DEF Stop, OtherTaskOk, OtherTaskAborts, ExecPlaces
<1>7. CASE Destroy(a)
  BY <1>2, <1>3, <1>7 DEF Destroy, ExecPlaces
<1>8. CASE RecordDestroy(a) \/ Erase(a)
  BY <1>2, <1>3, <1>8 DEF RecordDestroy, Erase, TaskFailed, TaskCanceled, ExecPlaces
<1>9. CASE Confirm(a)
  BY <1>2, <1>3, <1>9 DEF Confirm, ExecPlaces
<1>10. CASE Pick(a)
  <2>1. ASSUME NEW v, at' = [at EXCEPT ![a].vmid = v, ![a].pc = "prepare"]
        PROVE  GoesAlong(a)
    <3>1. PICK p : p = "prepare" /\ at' = [at EXCEPT ![a].vmid = v, ![a].pc = p]
      BY <2>1
    <3>2. p \in ExecPlaces \ {"succeed"} /\ p \notin {"ansible", "finish"}
      BY <3>1 DEF ExecPlaces
    <3> QED
      BY <1>4, <3>1, <3>2
  <2> QED
    BY <1>3, <1>10, <2>1 DEF Pick
<1>11. CASE Prepare(a) \/ Create(a) \/ Accept(a)
  BY <1>2, <1>3, <1>11 DEF Prepare, Create, Accept, ExecPlaces
<1>12. CASE Record(a) \/ Import(a)
  BY <1>2, <1>3, <1>12 DEF Record, Import, TaskFailed, TaskCanceled, ExecPlaces
<1>13. CASE Setup(a)
  BY <1>2, <1>3, <1>13 DEF Setup, OtherTaskOk, OtherTaskAborts, ExecPlaces
<1>14. CASE Ansible(a)
  <2>1. CASE Goto(a, "finish")
    <3>1. /\ at'[a].pc = "finish" /\ at'[a].dep = at[a].dep /\ at'[a].out = at[a].out
          /\ at'[a].kind = at[a].kind /\ at'[a].vmid = at[a].vmid
      BY <1>0, <2>1, PlacingFollows
    <3> QED
      BY <1>1, <1>14, <3>1 DEF GoesAlong, Ansible, Minds, TearingDown, Past
  <2> QED
    BY <1>3, <1>14, <2>1 DEF Ansible
<1>15. ASSUME Goto(a, "succeed"), \A d \in Deployments : AtWork(d)' => d # at[a].dep
       PROVE  GoesAlong(a)
  <2>1. at'[a].pc = "succeed" /\ at'[a].dep = at[a].dep /\ at'[a].out = at[a].out
    BY <1>0, <1>15, PlacingFollows
  <2> QED
    BY <1>1, <1>15, <2>1 DEF GoesAlong, Minds, TearingDown
<1>16. CASE Drop(a)
  <2>1. Goto(a, "succeed") /\ dep' = [dep EXCEPT ![at[a].dep] = NoRow]
    BY <1>16 DEF Drop, DropRow
  <2> QED
    BY <1>0, <1>15, <2>1 DEF AtWork, Exists
<1>17. CASE Finish(a)
  <2>1. CASE Abort(a, "failed")
    BY <1>3, <2>1
  <2>2. CASE Goto(a, "succeed")
    <3> SUFFICES ASSUME NEW d \in Deployments, AtWork(d)', d = at[a].dep
                 PROVE  FALSE
      BY <1>15, <2>2
    <3>1. Exists(d) /\ dep' = IF at[a].kind = "configure" /\ dep[d].vmid # at[a].vmid THEN dep
                              ELSE [dep EXCEPT ![d].status = "live", ![d].origin = ""]
      BY <1>17 DEF Finish, AtWork, Exists
    <3>2. at[a].kind = "configure" => dep[d].vmid = at[a].vmid
      BY <1>0, <1>17, <3>1 DEF WorkingInv, VmidKept, Minds, Finish
    <3>3. dep' = [dep EXCEPT ![d] = [dep[d] EXCEPT !.status = "live", !.origin = ""]] /\ dep[d] \in Row
      BY <1>0, <3>1, <3>2 DEF Exists
    <3>4. dep'[d].status = "live"
      BY <1>0, <3>3 DEF Row
    <3> QED
      BY <3>4 DEF AtWork
  <2> QED
    BY <1>17, <2>1, <2>2 DEF Finish
<1> QED
  BY <1>5, <1>6, <1>7, <1>8, <1>9, <1>10, <1>11, <1>12, <1>13, <1>14, <1>16, <1>17 DEF Execute

\* Somebody reconciles.  A tear-down whose answer is lost marks the row that it finds by
\* the VM id: its own, if there is but one deployment.
LEMMA NamedFirst ==
  ASSUME OwnTeardowns, Inv, WorkingInv, NEW a \in Actors, at[a].pc \in TearingDown,
         Faults \cap {"reject", "lost", "taskfail", "stuck", "unreachable"} # {},
         NEW d \in Deployments, d = at[a].dep, Exists(d)
  PROVE  d \in FirstNaming(at[a].vmid)
<1>1. "cancel" \in Ops
  BY DEF WorkingInv, CanceledOnly
<1>2. Deployments = {d}
  BY <1>1, Ids DEF OwnTeardowns, Deployments
<1>3. dep[d].vmid = at[a].vmid
  BY DEF WorkingInv, VmidKept, Minds
<1> QED
  BY <1>2, <1>3, Ids DEF FirstNaming, NamesVm, VmidOf

LEMMA UnconfirmedOwn ==
  ASSUME OwnTeardowns, Inv, WorkingInv, NEW a \in Actors, at[a].pc \in TearingDown,
         TearDownUnconfirmed(a),
         Faults \cap {"reject", "lost", "taskfail", "stuck", "unreachable"} # {},
         NEW d \in Deployments, d = at[a].dep, AtWork(d)'
  PROVE  FALSE
<1>0. dep \in [Deployments -> Row \cup {NoRow}] /\ Typed
  BY DEF Inv, LifecycleInv, Typed, TypeOK
<1>3. Exists(d)
  <2>1. RowsSettle(a)
    BY <1>0, UnconfirmedSettles DEF TearingDown
  <2> QED
    BY <2>1 DEF RowsSettle, AtWork
<1>5. d \in FirstNaming(at[a].vmid)
  BY <1>3, NamedFirst
<1>6. dep'[d] = [dep[d] EXCEPT !.identity = "submitting", !.status = "error"] /\ dep[d] \in Row
  BY <1>0, <1>3, <1>5 DEF TearDownUnconfirmed, Exists
<1> QED
  BY <1>6 DEF AtWork, Row

LEMMA ApplySettled ==
  ASSUME Inv, WorkingInv, NEW a \in Actors, Apply(a),
         NEW d \in Deployments, d = at[a].dep, AtWork(d)'
  PROVE  FALSE
<1>0. dep \in [Deployments -> Row \cup {NoRow}] /\ Typed
  BY DEF Inv, LifecycleInv, Typed, TypeOK
<1>1. Exists(d) /\ dep[d] \in Row /\ AtWork(d)
  <2>1. RowsSettle(a)
    BY <1>0, ReconcileSettles DEF ReconcileStep
  <2> QED
    BY <1>0, <2>1 DEF RowsSettle, Settled, AtWork, Exists
<1>2. StillNames(a)
  BY <1>1 DEF WorkingInv, VmidKept, Minds, Apply, StillNames, VmidOf
<1>3. ASSUME NEW s, NEW o, s # "working", dep' = [dep EXCEPT ![d].status = s, ![d].origin = o]
      PROVE  FALSE
  <2>1. dep' = [dep EXCEPT ![d] = [dep[d] EXCEPT !.status = s, !.origin = o]]
    BY <1>0, <1>1, <1>3
  <2>2. dep'[d].status = s
    BY <1>0, <1>1, <2>1 DEF Row
  <2> QED
    BY <1>3, <2>2 DEF AtWork
<1>4. ASSUME NEW s, NEW o, s # "working", SetRow(a, s, o)
      PROVE  FALSE
  BY <1>2, <1>3, <1>4 DEF SetRow
<1>5. ASSUME DropIfMatches(a, StillNames(a))
      PROVE  FALSE
  BY <1>0, <1>2, <1>5 DEF DropIfMatches, DropRow, AtWork, Exists
<1>6. CASE at[a].out = "canceled" /\ ApplyCanceled(a)
  BY <1>4, <1>5, <1>6 DEF ApplyCanceled
<1>7. CASE at[a].out = "failed" /\ ApplyFailed(a)
  BY <1>2, <1>3, <1>5, <1>7 DEF ApplyFailed
<1>8. CASE at[a].out = "cleanup" /\ ApplyCleanup(a)
  <2>1. a = "worker"
    <3>1. Waiter.pc \in ReconcilePlaces => Waiter.job # 0 /\ Waiter.out \in {"failed", "canceled"}
      BY <1>0, LocalsTyped, Ids DEF Inv, LifecycleInv, Held, Waiter, Actors
    <3> QED
      BY <1>8, <3>1 DEF Apply, ReconcilePlaces, Actors, Waiter
  <2> QED
    BY <1>1, <1>8, <2>1 DEF WorkingInv, CleanupLocked, Worker, AtWork
<1> QED
  BY <1>6, <1>7, <1>8 DEF Apply

LEMMA ReconcileGoes ==
  ASSUME OwnTeardowns, Inv, WorkingInv, NEW a \in Actors, ReconcileStep(a), ~Close(a)
  PROVE  GoesAlong(a)
<1>0. /\ Typed /\ at \in [Actors -> Local] /\ at[a] \in Local
      /\ dep \in [Deployments -> Row \cup {NoRow}]
  BY DEF Inv, LifecycleInv, Typed, TypeOK
<1>1. StaysReconciled(a) /\ (\A b \in Actors \ {a} : at'[b] = at[b]) /\ at[a].pc \in ReconcilePlaces
  BY <1>0, ReconcilePath, WorkerReconciles
<1>2. ASSUME at'[a].pc \in TearingDown => at[a].pc \in TearingDown \/ at[a].out = "canceled",
             Minds(a)' => \/ Minds(a) /\ at'[a].vmid = at[a].vmid
                          \/ dep' = dep /\ at'[a].vmid = VmidOf(at[a].dep),
             at'[a].pc = "close" => \A d \in Deployments : AtWork(d)' => d # at[a].dep
      PROVE  GoesAlong(a)
  BY <1>1, <1>2 DEF GoesAlong, StaysReconciled, Past, ReconcilePlaces
<1>3. CASE Retain(a)
  <2>1. at'[a].pc \in {"close", "read"}
    BY <1>0, <1>3, PlacingFollows DEF Retain
  <2>2. ASSUME NEW d \in Deployments, d = at[a].dep, AtWork(d)', at'[a].pc = "close"
        PROVE  FALSE
    <3>0. ASSUME Goto(a, "read")
          PROVE  FALSE
      <4>1. at'[a].pc = "read"
        BY <1>0, <3>0, PlacingFollows
      <4> QED
        BY <2>2, <4>1
    <3>1. dep' = [dep EXCEPT ![d].identity = "submitting", ![d].status = "error"] /\ Exists(d)
      BY <1>3, <2>2, <3>0 DEF Retain
    <3>2. dep' = [dep EXCEPT ![d] = [dep[d] EXCEPT !.identity = "submitting", !.status = "error"]]
          /\ dep[d] \in Row
      BY <1>0, <3>1 DEF Exists
    <3>3. dep'[d].status = "error"
      BY <1>0, <3>2 DEF Row
    <3> QED
      BY <2>2, <3>3 DEF AtWork
  <2> QED
    BY <1>2, <2>1, <2>2 DEF Minds, TearingDown
<1>4. CASE Read(a)
  <2>1. CASE Goto(a, "close")
    <3>1. at'[a].pc = "close"
      BY <1>0, <2>1, PlacingFollows
    <3>2. ASSUME NEW d \in Deployments, d = at[a].dep, AtWork(d)'
          PROVE  FALSE
      <4>1. CASE ~Exists(d) /\ dep' = dep
        BY <3>2, <4>1 DEF AtWork, Exists
      <4>2. CASE Exists(d) /\ dep' = [dep EXCEPT ![d].status = "error"]
        <5>1. dep' = [dep EXCEPT ![d] = [dep[d] EXCEPT !.status = "error"]] /\ dep[d] \in Row
          BY <1>0, <4>2 DEF Exists
        <5>2. dep'[d].status = "error"
          BY <1>0, <5>1 DEF Row
        <5> QED
          BY <3>2, <5>2 DEF AtWork
      <4>3. CASE \E v, p : /\ p # "close" /\ at' = [at EXCEPT ![a].vmid = v, ![a].pc = p]
        <5>1. PICK v, p : p # "close" /\ at' = [at EXCEPT ![a] = [at[a] EXCEPT !.vmid = v, !.pc = p]]
          BY <1>0, <4>3
        <5> QED
          BY <1>0, <3>1, <5>1 DEF Local
      <4> QED
        BY <1>4, <3>2, <4>1, <4>2, <4>3 DEF Read
    <3> QED
      BY <1>2, <3>1, <3>2 DEF Minds, TearingDown
  <2>2. CASE /\ Exists(at[a].dep) /\ dep' = dep
             /\ at' = [at EXCEPT
                  ![a].vmid = dep[at[a].dep].vmid,
                  ![a].pc = IF at[a].kind = "deploy" /\ at[a].out = "canceled" /\ dep[at[a].dep].vmid # NoVmid
                              THEN "tearDown" ELSE "probe"]
    <3>1. PICK p \in {"tearDown", "probe"} :
            /\ p = "tearDown" => at[a].out = "canceled"
            /\ at' = [at EXCEPT ![a] = [at[a] EXCEPT !.vmid = dep[at[a].dep].vmid, !.pc = p]]
      BY <1>0, <2>2
    <3>2. at'[a].pc = p /\ at'[a].vmid = dep[at[a].dep].vmid
      BY <1>0, <3>1 DEF Local
    <3>3. at'[a].vmid = VmidOf(at[a].dep)
      BY <2>2, <3>2 DEF VmidOf
    <3> QED
      BY <1>2, <2>2, <3>1, <3>2, <3>3 DEF TearingDown
  <2> QED
    BY <1>4, <2>1, <2>2 DEF Read
<1>5. CASE TearDown(a) \/ TearDownWait(a)
  <2>1. at[a].pc \in TearingDown
    BY <1>5 DEF TearDown, TearDownWait, TearingDown
  <2>2. CASE Goto(a, "probe") \/ \E t : GotoAwaiting(a, "tearDownWait", t)
    <3>1. at'[a].pc \in {"probe", "tearDownWait"} /\ at'[a].vmid = at[a].vmid
      BY <1>0, <2>2, PlacingFollows
    <3> QED
      BY <1>2, <2>1, <3>1 DEF Minds
  <2>3. CASE TearDownUnconfirmed(a)
    <3>1. Faults \cap {"reject", "lost", "taskfail", "stuck", "unreachable"} # {} \/ at'[a].pc # "close"
      <4>1. at'[a].pc = "close"
        BY <1>0, <2>3, PlacingFollows DEF TearDownUnconfirmed
      <4>2. ASSUME Goto(a, "probe") \/ \E t : GotoAwaiting(a, "tearDownWait", t)
            PROVE  FALSE
        <5>1. at'[a].pc \in {"probe", "tearDownWait"}
          BY <1>0, <4>2, PlacingFollows
        <5> QED
          BY <4>1, <5>1
      <4> QED
        BY <1>5, <4>2 DEF TearDown, TearDownWait, Fault
    <3>2. at'[a].pc = "close"
      BY <1>0, <2>3, PlacingFollows DEF TearDownUnconfirmed
    <3> QED
      BY <1>2, <2>1, <2>3, <3>1, <3>2, UnconfirmedOwn DEF Minds, TearingDown
  <2>4. CASE FirstNaming(at[a].vmid) = {} /\ dep' = dep /\ Goto(a, "close")
             /\ Faults \cap {"reject", "lost", "taskfail", "stuck", "unreachable"} # {}
    <3>1. at'[a].pc = "close"
      BY <1>0, <2>4, PlacingFollows
    <3>2. \A d \in Deployments : AtWork(d)' => d # at[a].dep
      BY <2>1, <2>4, NamedFirst DEF AtWork, Exists
    <3> QED
      BY <1>2, <3>1, <3>2 DEF Minds, TearingDown
  <2> QED
    BY <1>5, <2>2, <2>3, <2>4 DEF TearDown, TearDownWait, Fault
<1>6. CASE Probe(a)
  <2>1. PICK s : at' = [at EXCEPT ![a] = [at[a] EXCEPT !.seen = s, !.pc = "apply"]]
    BY <1>0, <1>6 DEF Probe
  <2>2. at'[a].pc = "apply" /\ at'[a].vmid = at[a].vmid
    BY <1>0, <2>1 DEF Local
  <2> QED
    BY <1>2, <1>6, <2>2 DEF Minds, Probe, TearingDown
<1>7. CASE Apply(a)
  <2>1. at' = [at EXCEPT ![a] = [at[a] EXCEPT !.pc = "close"]]
    BY <1>0, <1>7 DEF Apply
  <2>2. at'[a].pc = "close"
    BY <1>0, <2>1 DEF Local
  <2> QED
    BY <1>2, <1>7, <2>2, ApplySettled DEF Minds, TearingDown
<1> QED
  BY <1>3, <1>4, <1>5, <1>6, <1>7 DEF ReconcileStep

LEMMA BootWorks ==
  ASSUME Inv, WorkingInv, Boot("worker"), job' = job
  PROVE  WorkingInv'
<1> SUFFICES ASSUME NEW a, a = "worker"
             PROVE  WorkingInv'
  OBVIOUS
<1>0. /\ a \in Actors /\ Typed /\ at \in [Actors -> Local] /\ job \in [JobIds -> JobRow] /\ at[a].pc = "boot"
      /\ at[a].job \in JobIds
  BY LocalsTyped DEF Actors, Inv, LifecycleInv, Typed, TypeOK, Boot, ExecPlaces
<1>1. /\ Unmoved /\ CancelsStand /\ dep' = dep /\ request' = request /\ RowsSettle(a)
  BY RowsUnchanged DEF Unmoved, CancelsStand, Boot
<1>2. ASSUME \A b \in Actors \ {a} : at'[b] = at[b], at'[a].job = at[a].job, at'[a].dep = at[a].dep,
             at'[a].kind = at[a].kind,
             \/ at'[a].pc \in {"ansible", "finish"} /\ at'[a].out = at[a].out
             \/ /\ at'[a].pc = "retain"
                /\ at'[a].out = "failed" \/ (at'[a].out = "canceled" /\ Canceled(a))
      PROVE  WorkingInv'
  <2>1. at'[a].kind # "configure"
    BY <1>0, <1>2 DEF WorkingInv, MakersOnly, CreatePlaces, Worker
  <2>2. GoesAlong(a)
    BY <1>0, <1>2, <2>1 DEF GoesAlong, Minds, TearingDown, Past, Canceled
  <2>3. MakersOnly'
    BY <1>2 DEF MakersOnly, CreatePlaces, Worker
  <2> QED
    BY <1>0, <1>1, <2>2, <2>3, WorkGoesOn
<1>3. ASSUME NEW p \in {"ansible", "finish"}, Goto(a, p)
      PROVE  WorkingInv'
  <2>1. \A b \in Actors \ {a} : at'[b] = at[b]
    BY <1>0, <1>3 DEF Goto
  <2> QED
    BY <1>0, <1>2, <1>3, <2>1, PlacingFollows
<1>4. ASSUME NEW o, Abort(a, o), o = "failed" \/ (o = "canceled" /\ Canceled(a))
      PROVE  WorkingInv'
  <2>1. \A b \in Actors \ {a} : at'[b] = at[b]
    BY <1>0, <1>4 DEF Abort
  <2> QED
    BY <1>0, <1>2, <1>4, <2>1, AbortFollows
<1>5. ~(\E j \in JobIds : JobActive(j) /\ job[j].status = "running" /\ SetStatus(j, "waiting"))
  <2> SUFFICES ASSUME NEW j \in JobIds, job[j].status = "running", SetStatus(j, "waiting")
               PROVE  FALSE
    OBVIOUS
  <2>1. job[j] \in JobRow /\ job'[j] = [job[j] EXCEPT !.status = "waiting"]
    BY <1>0 DEF SetStatus
  <2>2. job'[j].status = "waiting"
    BY <2>1 DEF JobRow
  <2> QED
    BY <2>2
<1>6. job[at[a].job].status = "running"
  BY <1>0 DEF Inv, LifecycleInv, Held, ExecPlaces
<1> QED
  BY <1>0, <1>3, <1>4, <1>5, <1>6 DEF Boot, JobActive, ActiveStatuses

--------------------------------------------------------------------------------
(* A thread ends its job, or leaves it to wait                                *)

LEMMA LeaveWorks ==
  ASSUME Inv, WorkingInv, NEW a \in Actors, at' = [at EXCEPT ![a] = Idle], request' = request,
         at[a].pc \in {"boot", "succeed", "close", "resumed"}, RowsSettle(a),
         NEW s, job' = job \/ (at[a].job \in JobIds /\ SetStatus(at[a].job, s)),
         \/ Past(a) \/ \A d \in Deployments : AtWork(d)' => d # at[a].dep
         \/ a = "worker" /\ at[a].pc = "boot" /\ s = "waiting" /\ SetStatus(at[a].job, s)
  PROVE  WorkingInv'
<1>0. /\ Typed /\ at \in [Actors -> Local] /\ job \in [JobIds -> JobRow]
  BY DEF Inv, LifecycleInv, Typed, TypeOK
<1>1. at'[a] = Idle /\ \A b \in Actors \ {a} : at'[b] = at[b]
  BY <1>0
<1>2. /\ Idle.pc = "idle" /\ Idle.job = 0 /\ Idle.dep = 0 /\ Idle.out = ""
  BY DEF Idle
<1>3. \A j \in JobIds : /\ job'[j].dep = job[j].dep /\ job'[j].cancel = job[j].cancel
                        /\ j # at[a].job => job'[j] = job[j]
                        /\ job'[j].status \in {job[j].status, s}
  <2> SUFFICES ASSUME NEW j \in JobIds
               PROVE  /\ job'[j].dep = job[j].dep /\ job'[j].cancel = job[j].cancel
                      /\ j # at[a].job => job'[j] = job[j]
                      /\ job'[j].status \in {job[j].status, s}
    OBVIOUS
  <2>1. job[j] \in JobRow
    BY <1>0
  <2>2. \/ job'[j] = job[j]
        \/ j = at[a].job /\ job'[j] = [job[j] EXCEPT !.status = s]
    BY <1>0 DEF SetStatus
  <2> QED
    BY <2>1, <2>2 DEF JobRow
<1>4. WorkingPromised'
  <2> SUFFICES ASSUME NEW d \in Deployments, AtWork(d)'
               PROVE  Promised(d)'
    BY DEF WorkingPromised, AtWork
  <2>1. Promised(d)
    BY DEF WorkingInv, WorkingPromised, AtWork, RowsSettle, Settled
  <2>2. ASSUME NEW b \in Actors \ {a}, at[b].dep = d, ~Past(b)
        PROVE  Promised(d)'
    BY <1>1, <2>2 DEF Promised, Past
  <2>3. ASSUME NEW j \in JobIds \ {at[a].job}, job[j].dep = d, JobActive(j),
               \A b \in Actors : Past(b) => at[b].job # j
        PROVE  Promised(d)'
    <3>1. JobActive(j)' /\ job'[j].dep = d
      BY <1>3, <2>3 DEF JobActive
    <3>2. \A b \in Actors : Past(b)' => at'[b].job # j
      BY <1>1, <1>2, <2>3, Ids DEF Past
    <3> QED
      BY <3>1, <3>2 DEF Promised
  <2>4. ASSUME ~Past(a), at[a].dep = d \/ (at[a].job \in JobIds /\ job[at[a].job].dep = d)
        PROVE  Promised(d)'
    <3>1. a = "worker" /\ at[a].pc = "boot" /\ s = "waiting" /\ SetStatus(at[a].job, s)
      BY <2>4, Ids DEF Inv, OwnershipInv, LocalsAgree
    <3>2. PICK j \in JobIds : j = at[a].job
      BY <1>0, <3>1, LocalsTyped DEF ExecPlaces
    <3>3. job[j].dep = d
      BY <2>4, <3>2, Ids DEF Inv, OwnershipInv, LocalsAgree
    <3>4. JobActive(j)'
      BY <1>0, <3>1, <3>2 DEF SetStatus, JobRow, JobActive, ActiveStatuses
    <3>5. \A b \in Actors : at'[b].job # j
      BY <1>1, <1>2, <3>1, <3>2, Ids DEF WorkingInv, JobsApart, Actors, Worker, Waiter
    <3> QED
      BY <1>3, <3>2, <3>3, <3>4, <3>5 DEF Promised
  <2>5. CASE Past(a)
    BY <2>1, <2>2, <2>3, <2>5 DEF Promised
  <2> QED
    BY <2>1, <2>2, <2>3, <2>4, <2>5 DEF Promised
<1>5. VmidKept' /\ MakersOnly'
  <2>1. \A b \in Actors : Minds(b)' => Minds(b) /\ at'[b] = at[b]
    BY <1>1, <1>2 DEF Minds, TearingDown
  <2>2. VmidKept'
    <3> SUFFICES ASSUME NEW b \in Actors, Minds(b)', NEW d, d = at[b].dep, Exists(d)'
                 PROVE  dep'[d].vmid = at'[b].vmid
      BY <2>1 DEF VmidKept, Exists
    <3>1. d \in Deployments
      BY DEF Exists
    <3>2. Exists(d) /\ dep'[d].vmid = dep[d].vmid
      BY <3>1 DEF RowsSettle, Settled
    <3> QED
      BY <2>1, <3>2 DEF WorkingInv, VmidKept
  <2>3. Worker'.pc = "idle" \/ Worker' = Worker
    BY <1>1, <1>2 DEF Worker, Actors
  <2> QED
    BY <2>2, <2>3 DEF WorkingInv, MakersOnly, CreatePlaces
<1>6. JobsApart'
  BY <1>1, <1>2 DEF WorkingInv, JobsApart, Worker, Waiter, Actors
<1>7. ResumedRuns'
  <2>1. Waiter.pc = "resumed" => Waiter.job \in JobIds /\ Waiter.job # 0
    BY <1>0, LocalsTyped, Ids DEF Actors, Waiter
  <2> SUFFICES ASSUME Waiter'.pc = "resumed"
               PROVE  job'[Waiter'.job].status = "running"
    BY DEF ResumedRuns
  <2>2. a = "worker" /\ Waiter' = Waiter
    BY <1>1, <1>2 DEF Actors, Waiter
  <2> QED
    BY <1>3, <2>1, <2>2 DEF WorkingInv, ResumedRuns, JobsApart, Worker
<1>8. CleanupLocked'
  <2> SUFFICES ASSUME Worker'.out = "cleanup", NEW d, d = Worker.dep
               PROVE  /\ request # NoRequest => request.dep # d
                      /\ Exists(d)' => dep'[d].status # "working"
    BY <1>1, <1>2 DEF CleanupLocked, Exists, Actors, Worker
  <2>1. Worker.out = "cleanup"
    BY <1>1, <1>2 DEF Actors, Worker
  <2>2. Exists(d)' => d \in Deployments
    BY DEF Exists
  <2> QED
    BY <2>1, <2>2 DEF WorkingInv, CleanupLocked, RowsSettle, Settled
<1>9. CanceledOnly'
  <2> SUFFICES ASSUME "cancel" \notin Ops
               PROVE  /\ \A j \in JobIds : ~job'[j].cancel
                      /\ \A d \in Deployments : Exists(d)' => dep'[d].origin # "deploy"
                      /\ \A b \in Actors : at'[b].out # "canceled" /\ at'[b].pc \notin TearingDown
    BY DEF CanceledOnly
  <2>1. /\ \A j \in JobIds : ~job[j].cancel
        /\ \A d \in Deployments : Exists(d) => dep[d].origin # "deploy"
        /\ \A b \in Actors : at[b].out # "canceled" /\ at[b].pc \notin TearingDown
    BY DEF WorkingInv, CanceledOnly
  <2>2. \A d \in Deployments : Exists(d)' => dep'[d].origin # "deploy"
    BY <2>1 DEF RowsSettle, Settled
  <2> QED
    BY <1>1, <1>2, <1>3, <2>1, <2>2 DEF TearingDown
<1> QED
  BY <1>4, <1>5, <1>6, <1>7, <1>8, <1>9 DEF WorkingInv

LEMMA ExecuteWorks ==
  ASSUME Inv, WorkingInv, Execute("worker")
  PROVE  WorkingInv'
<1>0. /\ Typed /\ "worker" \in Actors /\ request' = request /\ MakersOnly
  BY DEF Inv, LifecycleInv, WorkingInv, Actors, Execute, Load, Stop, Destroy, RecordDestroy, Erase, Confirm,
         Drop, Pick, Prepare, Create, Accept, Record, Import, Setup, Boot, Ansible, Finish, Succeed
<1>1. RowsSettle("worker")
  BY <1>0, ExecuteSettles
<1>2. CASE ~Boot("worker") /\ ~Succeed("worker")
  <2>1. ~Close("worker")
    BY DEF Execute, Close, Load, Stop, Destroy, RecordDestroy, Erase, Confirm,
         Drop, Pick, Prepare, Create, Accept, Record, Import, Setup, Boot, Ansible, Finish, Succeed
  <2>2. Unmoved /\ CancelsStand
    BY <1>0, <1>2, <2>1, StepMoves, ThreadEdits, CancelsEdited DEF Moves
  <2>3. GoesAlong("worker") /\ MakersOnly'
    BY <1>0, <1>2, ExecuteGoes, ExecMakers
  <2> QED
    BY <1>0, <1>1, <2>2, <2>3, WorkGoesOn
<1>3. CASE Succeed("worker")
  <2>1. at["worker"].job \in JobIds
    BY <1>0, <1>3, LocalsTyped DEF Succeed, ExecPlaces
  <2>2. Past("worker") /\ at["worker"].pc = "succeed"
    BY <1>3 DEF Past, Succeed
  <2> QED
    BY <1>0, <1>1, <1>3, <2>1, <2>2, LeaveWorks DEF Succeed
<1>4. CASE Boot("worker") /\ job' # job
  <2>1. at["worker"].job \in JobIds /\ at["worker"].pc = "boot"
    BY <1>0, <1>4, LocalsTyped DEF Boot, ExecPlaces
  <2>2. SetStatus(at["worker"].job, "waiting") /\ at' = [at EXCEPT !["worker"] = Idle]
    BY <1>4 DEF Boot
  <2> QED
    BY <1>0, <1>1, <2>1, <2>2, LeaveWorks
<1> QED
  BY <1>2, <1>3, <1>4, BootWorks

LEMMA ReconcilersWork ==
  ASSUME OwnTeardowns, Inv, WorkingInv, NEW a \in Actors, ReconcileStep(a)
  PROVE  WorkingInv'
<1>0. Typed /\ request' = request /\ at[a].pc \in ReconcilePlaces /\ \A b \in Actors \ {a} : at'[b] = at[b]
  BY WorkerReconciles DEF Inv, LifecycleInv
<1>1. RowsSettle(a)
  BY <1>0, ReconcileSettles
<1>2. CASE ~Close(a)
  <2>1. ~Boot(a) /\ ~Succeed(a)
    BY <1>0 DEF Boot, Succeed, ReconcilePlaces
  <2>2. Unmoved /\ CancelsStand
    BY <1>0, <1>2, <2>1, StepMoves, ThreadEdits, CancelsEdited DEF Moves
  <2>3. GoesAlong(a) /\ StaysReconciled(a)
    BY <1>0, <1>2, ReconcileGoes, ReconcilePath
  <2>4. MakersOnly'
    BY <1>0, <2>3 DEF StaysReconciled, MakersOnly, WorkingInv, Worker, Actors, ReconcilePlaces, CreatePlaces
  <2> QED
    BY <1>0, <1>1, <2>2, <2>3, <2>4, WorkGoesOn
<1>3. CASE Close(a)
  <2>1. at' = [at EXCEPT ![a] = Idle]
    BY <1>3 DEF Close, Inv, OwnershipInv, Uncrashed
  <2>2. PICK s : s = at[a].out
    OBVIOUS
  <2>3. job' = job \/ (at[a].job \in JobIds /\ SetStatus(at[a].job, s))
    <3>1. at[a].job \in JobIds \cup {0}
      BY <1>0, LocalsTyped DEF Typed, TypeOK, Local
    <3> QED
      BY <1>3, <2>2, <3>1 DEF Close, SetStatus
  <2>4. Past(a) /\ at[a].pc = "close"
    BY <1>3 DEF Past, Close
  <2> QED
    BY <1>0, <1>1, <2>1, <2>3, <2>4, LeaveWorks
<1> QED
  BY <1>2, <1>3

--------------------------------------------------------------------------------
(* A thread takes a job, or a cleanup                                         *)

\* The job of a thread runs or has ended.
LEMMA HeldJobs ==
  ASSUME Inv, NEW a \in Actors, at[a].job # 0
  PROVE  at[a].job \in JobIds /\ job[at[a].job].status \in {"running"} \cup Terminal
<1>1. at[a].job \in JobIds
  BY LocalsTyped DEF Inv, LifecycleInv, Typed, TypeOK, Local
<1>2. a = "worker" => job[at[a].job].status \in {"running"} \cup Terminal
  BY DEF Inv, OwnershipInv, LocalsAgree, Worker
<1>3. a = "waiter" => job[at[a].job].status \in {"running"} \cup Terminal
  BY DEF Inv, OwnershipInv, LocalsAgree, LifecycleInv, Held
<1> QED
  BY <1>1, <1>2, <1>3 DEF Actors

LEMMA TakeWorks ==
  ASSUME Inv, WorkingInv, NEW a \in Actors, NEW j \in JobIds, NEW st, NEW p, NEW o,
         SetStatus(j, st), Start(a, p, j, o), UNCHANGED <<dep, request>>,
         p \in {"retain", "resumed", "load", "pick"},
         p = "resumed" => a = "waiter" /\ st = "running",
         o \in {"", "failed"} \/ (o = "canceled" /\ job[j].cancel),
         \/ at[a].pc = "idle" /\ job[j].status \in {"queued", "waiting"}
         \/ at[a].job = j,
         MakersOnly'
  PROVE  WorkingInv'
<1>0. /\ Typed /\ at \in [Actors -> Local] /\ job \in [JobIds -> JobRow] /\ j # 0
  BY Ids DEF Inv, LifecycleInv, Typed, TypeOK
<1>1. /\ \A b \in Actors \ {a} : at'[b] = at[b]
      /\ at'[a].pc = p /\ at'[a].job = j /\ at'[a].dep = job[j].dep /\ at'[a].out = o
  BY <1>0 DEF Start, Idle
<1>2. \A i \in JobIds : /\ job'[i].dep = job[i].dep /\ job'[i].cancel = job[i].cancel
                        /\ i # j => job'[i] = job[i]
                        /\ i = j => job'[i].status = st
  <2> SUFFICES ASSUME NEW i \in JobIds
               PROVE  /\ job'[i].dep = job[i].dep /\ job'[i].cancel = job[i].cancel
                      /\ i # j => job'[i] = job[i]
                      /\ i = j => job'[i].status = st
    OBVIOUS
  <2>1. job[i] \in JobRow
    BY <1>0
  <2>2. \/ i # j /\ job'[i] = job[i]
        \/ i = j /\ job'[i] = [job[i] EXCEPT !.status = st]
    BY <1>0 DEF SetStatus
  <2> QED
    BY <2>1, <2>2 DEF JobRow
<1>3. \A b \in Actors \ {a} : at[b].job # j
  <2>1. CASE job[j].status \in {"queued", "waiting"}
    BY <1>0, <2>1, HeldJobs DEF Terminal
  <2>2. CASE at[a].job = j
    BY <1>0, <2>2 DEF WorkingInv, JobsApart, Actors, Worker, Waiter
  <2> QED
    BY <2>1, <2>2
<1>4. ~Past(a)'
  BY <1>1 DEF Past
<1>5. WorkingPromised'
  <2> SUFFICES ASSUME NEW d \in Deployments, AtWork(d)
               PROVE  Promised(d)'
    BY DEF WorkingPromised, AtWork, Exists
  <2>1. Promised(d)
    BY DEF WorkingInv, WorkingPromised, AtWork
  <2>2. CASE job[j].dep = d
    BY <1>1, <1>4, <2>2 DEF Promised
  <2>3. ASSUME NEW b \in Actors, at[b].dep = d, ~Past(b), job[j].dep # d
        PROVE  Promised(d)'
    <3>1. b # a
      BY <1>0, <2>3 DEF Past, Inv, OwnershipInv, LocalsAgree
    <3> QED
      BY <1>1, <2>3, <3>1 DEF Promised, Past
  <2>4. ASSUME NEW i \in JobIds, job[i].dep = d, JobActive(i), job[j].dep # d,
               \A b \in Actors : Past(b) => at[b].job # i
        PROVE  Promised(d)'
    <3>1. job'[i] = job[i] /\ JobActive(i)'
      BY <1>2, <2>4 DEF JobActive
    <3>2. \A b \in Actors : Past(b)' => at'[b].job # i
      BY <1>1, <1>4, <2>4 DEF Past
    <3> QED
      BY <2>4, <3>1, <3>2 DEF Promised
  <2> QED
    BY <2>1, <2>2, <2>3, <2>4 DEF Promised
<1>6. VmidKept'
  <2>1. \A b \in Actors : Minds(b)' => Minds(b) /\ at'[b] = at[b]
    BY <1>1 DEF Minds, TearingDown
  <2> QED
    BY <2>1 DEF WorkingInv, VmidKept, Exists
<1>7. JobsApart'
  <2>1. CASE a = "worker"
    <3>1. at'["worker"].job = j /\ at'["waiter"].job = at["waiter"].job /\ at["waiter"].job # j
      BY <1>1, <1>3, <2>1 DEF Actors
    <3> QED
      BY <3>1 DEF JobsApart, Worker, Waiter
  <2>2. CASE a = "waiter"
    <3>1. at'["waiter"].job = j /\ at'["worker"].job = at["worker"].job /\ at["worker"].job # j
      BY <1>1, <1>3, <2>2 DEF Actors
    <3> QED
      BY <3>1 DEF JobsApart, Worker, Waiter
  <2> QED
    BY <2>1, <2>2 DEF Actors
<1>8. ResumedRuns'
  <2> SUFFICES ASSUME Waiter'.pc = "resumed"
               PROVE  job'[Waiter'.job].status = "running"
    BY DEF ResumedRuns
  <2>1. CASE a = "waiter"
    BY <1>1, <1>2, <2>1 DEF Waiter
  <2>2. CASE a = "worker"
    <3>1. Waiter' = Waiter /\ Waiter.job # j
      BY <1>1, <1>3, <2>2 DEF Waiter, Actors
    <3>2. Waiter.job \in JobIds
      BY <1>0, <3>1, LocalsTyped DEF Actors, Waiter
    <3> QED
      BY <1>2, <3>1, <3>2 DEF WorkingInv, ResumedRuns
  <2> QED
    BY <2>1, <2>2 DEF Actors
<1>9. CleanupLocked'
  <2>1. Worker'.out = "cleanup" => Worker' = Worker
    BY <1>1 DEF Worker, Actors
  <2> QED
    BY <2>1 DEF CleanupLocked, WorkingInv, Exists
<1>10. CanceledOnly'
  BY <1>1, <1>2 DEF CanceledOnly, WorkingInv, Exists, TearingDown
<1> QED
  BY <1>5, <1>6, <1>7, <1>8, <1>9, <1>10 DEF WorkingInv

LEMMA ClaimWorks ==
  ASSUME Inv, WorkingInv, NEW j \in JobIds, Claim(j)
  PROVE  WorkingInv'
<1>0. /\ "worker" \in Actors /\ job[j].status = "queued" /\ at["worker"].pc = "idle"
      /\ UNCHANGED <<dep, request>> /\ at \in [Actors -> Local]
  BY DEF Actors, Claim, NextQueued, Inv, LifecycleInv, Typed, TypeOK
<1>1. \E st, p, o :
        /\ SetStatus(j, st) /\ Start("worker", p, j, o)
        /\ p \in {"retain", FirstPlace(job[j].type)}
        /\ o \in {"", "failed"} \/ (o = "canceled" /\ job[j].cancel)
  BY DEF Claim
<1>2. PICK st, p, o :
        /\ SetStatus(j, st) /\ Start("worker", p, j, o)
        /\ p \in {"retain", FirstPlace(job[j].type)}
        /\ o \in {"", "failed"} \/ (o = "canceled" /\ job[j].cancel)
  BY <1>1
<1>3. MakersOnly'
  <2>1. at'["worker"].kind = job[j].type /\ at'["worker"].pc = p
    BY <1>0, <1>2 DEF Start, Idle
  <2> QED
    BY <1>2, <2>1 DEF MakersOnly, FirstPlace, CreatePlaces, Worker
<1>4. p \in {"retain", "load", "pick"}
  BY <1>2 DEF FirstPlace
<1> QED
  BY <1>0, <1>2, <1>3, <1>4, TakeWorks

LEMMA RetryCleanupWorks ==
  ASSUME Inv, WorkingInv, NEW d \in Deployments, RetryCleanup(d)
  PROVE  WorkingInv'
<1>0. /\ "worker" \in Actors /\ at \in [Actors -> Local] /\ at["worker"].pc = "idle"
      /\ UNCHANGED <<dep, job, request>>
      /\ Exists(d) /\ dep[d].status = "cleanup_pending" /\ (request # NoRequest => request.dep # d)
  BY DEF Actors, RetryCleanup, Inv, LifecycleInv, Typed, TypeOK, tables
<1>1. /\ at'["waiter"] = at["waiter"]
      /\ at'["worker"].dep = d /\ at'["worker"].job = 0 /\ at'["worker"].out = "cleanup"
      /\ at'["worker"].vmid = dep[d].vmid
      /\ at'["worker"].pc \in {"tearDown", "probe"}
      /\ at'["worker"].pc = "tearDown" => dep[d].origin = "deploy"
  BY <1>0 DEF RetryCleanup, Idle, Actors
<1>2. at["worker"].job = 0 /\ Past("worker")
  BY <1>0 DEF Inv, OwnershipInv, LocalsAgree, Past
<1>3. WorkingPromised'
  <2> SUFFICES ASSUME NEW e \in Deployments, AtWork(e)
               PROVE  Promised(e)'
    BY <1>0 DEF WorkingPromised, AtWork, Exists
  <2>1. Promised(e)
    BY DEF WorkingInv, WorkingPromised, AtWork
  <2>2. ASSUME NEW b \in Actors, at[b].dep = e, ~Past(b)
        PROVE  Promised(e)'
    BY <1>1, <1>2, <2>2 DEF Promised, Past, Actors
  <2>3. ASSUME NEW i \in JobIds, job[i].dep = e, JobActive(i), \A b \in Actors : Past(b) => at[b].job # i
        PROVE  Promised(e)'
    BY <1>0, <1>1, <2>3 DEF Promised, Past, Actors, JobActive
  <2> QED
    BY <2>1, <2>2, <2>3 DEF Promised
<1>4. VmidKept'
  BY <1>0, <1>1 DEF VmidKept, WorkingInv, Minds, Actors, Exists
<1>5. MakersOnly' /\ JobsApart' /\ ResumedRuns'
  BY <1>0, <1>1 DEF WorkingInv, MakersOnly, CreatePlaces, JobsApart, ResumedRuns, Worker, Waiter
<1>6. CleanupLocked'
  BY <1>0, <1>1 DEF CleanupLocked, Worker, Exists
<1>7. CanceledOnly'
  BY <1>0, <1>1 DEF CanceledOnly, WorkingInv, Actors, TearingDown, Exists
<1> QED
  BY <1>3, <1>4, <1>5, <1>6, <1>7 DEF WorkingInv

--------------------------------------------------------------------------------
(* The threads stand still                                                    *)

\* The rows the threads are about keep their VM, those at work their promises.
StandsStillAt(d) ==
  Exists(d)' => \/ ~Known(d)
                \/ Exists(d) /\ dep'[d].vmid = dep[d].vmid

LEMMA QuietWorks ==
  ASSUME Inv, WorkingInv, at' = at, \A d \in Deployments : StandsStillAt(d),
         ResumedRuns', CleanupLocked', CanceledOnly', WorkingPromised'
  PROVE  WorkingInv'
<1>1. MakersOnly' /\ JobsApart'
  BY DEF WorkingInv, MakersOnly, JobsApart, Worker, Waiter
<1>2. VmidKept'
  <2> SUFFICES ASSUME NEW b \in Actors, Minds(b), NEW d, d = at[b].dep, Exists(d)'
               PROVE  dep'[d].vmid = at[b].vmid
    BY DEF VmidKept, Minds, Exists
  <2>1. d \in Deployments /\ d # 0
    BY Ids DEF Exists
  <2>2. Known(d)
    BY <2>1 DEF Inv, OwnershipInv, LocalsAgree
  <2> QED
    BY <2>1, <2>2 DEF StandsStillAt, WorkingInv, VmidKept
<1> QED
  BY <1>1, <1>2 DEF WorkingInv

\* The rows stay at work or cease to be so, and the jobs stay active or are about others.
LEMMA PromisesRest ==
  ASSUME WorkingPromised, at' = at, NEW e,
         \A d \in Deployments \ {e} : AtWork(d)' => AtWork(d),
         \A j \in JobIds : job[j].dep # e /\ JobActive(j) => job'[j].dep = job[j].dep /\ JobActive(j)',
         AtWork(e)' => Promised(e)'
  PROVE  WorkingPromised'
<1> SUFFICES ASSUME NEW d \in Deployments \ {e}, AtWork(d)'
             PROVE  Promised(d)'
  BY DEF WorkingPromised, AtWork
<1>1. Promised(d)
  BY DEF WorkingPromised, AtWork
<1>2. ASSUME NEW b \in Actors, at[b].dep = d, ~Past(b)
      PROVE  Promised(d)'
  BY <1>2 DEF Promised, Past
<1>3. ASSUME NEW j \in JobIds, job[j].dep = d, JobActive(j), \A b \in Actors : Past(b) => at[b].job # j
      PROVE  Promised(d)'
  <2>1. job'[j].dep = d /\ JobActive(j)'
    BY <1>3
  <2> QED
    BY <1>3, <2>1 DEF Promised, Past
<1> QED
  BY <1>1, <1>2, <1>3 DEF Promised

\* Nothing but the cluster changes, or a request begins or is refused.
LEMMA TablesRest ==
  ASSUME Inv, WorkingInv, UNCHANGED <<dep, job, at>>, CleanupLocked'
  PROVE  WorkingInv'
<1>1. \A d \in Deployments : StandsStillAt(d)
  BY DEF StandsStillAt, Exists
<1>2. ResumedRuns' /\ CanceledOnly' /\ WorkingPromised'
  BY DEF WorkingInv, ResumedRuns, Waiter, CanceledOnly, WorkingPromised, Promised, Past, JobActive, Exists
<1> QED
  BY <1>1, <1>2, QuietWorks

LEMMA WaitTimeoutWorks ==
  ASSUME Inv, WorkingInv, NEW j \in JobIds, WaitTimeout(j)
  PROVE  WorkingInv'
<1> SUFFICES ASSUME NEW e, e = job[j].dep
             PROVE  WorkingInv'
  OBVIOUS
<1>0. /\ dep \in [Deployments -> Row \cup {NoRow}] /\ job \in [JobIds -> JobRow]
      /\ at' = at /\ request' = request /\ Waiter.pc = "idle"
  BY DEF Inv, LifecycleInv, Typed, TypeOK, WaitTimeout, Waiting, control, Waiter
<1>1. Exists(e) /\ e \in Deployments /\ dep[e] \in Row
  BY <1>0 DEF WaitTimeout, NoTarget, VmidOf, Exists
<1>2. dep' = [dep EXCEPT ![e] = [dep[e] EXCEPT !.status = "error", !.origin = ""]]
  BY <1>0, <1>1 DEF WaitTimeout
<1>3. /\ dep'[e].status = "error" /\ dep'[e].origin = "" /\ dep'[e].vmid = dep[e].vmid
      /\ \A d \in Deployments \ {e} : dep'[d] = dep[d]
  BY <1>0, <1>1, <1>2 DEF Row
<1>4. \A i \in JobIds : job'[i].cancel = job[i].cancel /\ (i # j => job'[i] = job[i])
  <2> SUFFICES ASSUME NEW i \in JobIds
               PROVE  job'[i].cancel = job[i].cancel /\ (i # j => job'[i] = job[i])
    OBVIOUS
  <2>1. job[i] \in JobRow /\ (job'[i] = job[i] \/ (i = j /\ job'[i] = [job[i] EXCEPT !.status = "failed"]))
    BY <1>0 DEF WaitTimeout, SetStatus
  <2> QED
    BY <2>1 DEF JobRow
<1>5. \A d \in Deployments : StandsStillAt(d)
  BY <1>1, <1>3 DEF StandsStillAt, Exists
<1>6. ResumedRuns'
  BY <1>0 DEF ResumedRuns, Waiter
<1>7. CleanupLocked'
  <2>1. \A d \in Deployments : AtWork(d)' => AtWork(d)
    BY <1>3 DEF AtWork, Exists
  <2> SUFFICES ASSUME Worker.out = "cleanup", NEW d, d = Worker.dep
               PROVE  /\ request # NoRequest => request.dep # d
                      /\ ~AtWork(d)'
    BY <1>0 DEF CleanupLocked, AtWork, Exists, Worker
  <2>2. AtWork(d)' => d \in Deployments
    BY DEF AtWork, Exists
  <2> QED
    BY <2>1, <2>2 DEF WorkingInv, CleanupLocked, AtWork
<1>8. CanceledOnly'
  BY <1>0, <1>1, <1>3, <1>4 DEF CanceledOnly, WorkingInv, Exists
<1>9. WorkingPromised'
  <2>1. \A d \in Deployments \ {e} : AtWork(d)' => AtWork(d)
    BY <1>3 DEF AtWork, Exists
  <2>2. \A i \in JobIds : job[i].dep # e /\ JobActive(i) => job'[i].dep = job[i].dep /\ JobActive(i)'
    BY <1>4 DEF JobActive
  <2>3. ~AtWork(e)'
    BY <1>3 DEF AtWork
  <2> QED
    BY <1>0, <2>1, <2>2, <2>3, PromisesRest DEF WorkingInv
<1> QED
  BY <1>0, <1>5, <1>6, <1>7, <1>8, <1>9, QuietWorks

\* The waiting thread.
LEMMA EndWaitWorks ==
  ASSUME Inv, WorkingInv, NEW j \in JobIds, NEW o, EndWait(j, o),
         o = "failed" \/ (o = "canceled" /\ job[j].cancel),
         Waiting(j) \/ Waiter.job = j
  PROVE  WorkingInv'
<1>1. "waiter" \in Actors /\ at'["worker"] = at["worker"]
  BY DEF EndWait, Start, Actors, Inv, LifecycleInv, Typed, TypeOK
<1>2. SetStatus(j, o) /\ Start("waiter", "retain", j, o) /\ UNCHANGED <<dep, request>>
  BY DEF EndWait
<1>3. MakersOnly'
  BY <1>1 DEF WorkingInv, MakersOnly, Worker
<1>4. (at["waiter"].pc = "idle" /\ job[j].status \in {"queued", "waiting"}) \/ at["waiter"].job = j
  BY DEF Waiting, Waiter
<1> QED
  BY <1>1, <1>2, <1>3, <1>4, TakeWorks

LEMMA ResumedOkWorks ==
  ASSUME Inv, WorkingInv, ResumedOk
  PROVE  WorkingInv'
<1> SUFFICES ASSUME NEW d, d = at["waiter"].dep, NEW j, j = at["waiter"].job
             PROVE  WorkingInv'
  OBVIOUS
<1>0. /\ "waiter" \in Actors /\ Typed /\ at["waiter"].pc = "resumed" /\ at["waiter"].job \in JobIds
      /\ dep \in [Deployments -> Row \cup {NoRow}]
  BY LocalsTyped DEF Actors, Inv, LifecycleInv, Typed, TypeOK, ResumedOk
<1>1. job[j].status = "running"
  BY <1>0 DEF WorkingInv, ResumedRuns, Waiter
<1>2. request' = request /\ at' = [at EXCEPT !["waiter"] = Idle]
  BY DEF ResumedOk
<1>3. CASE Exists(d)
  <2>1. d \in Deployments /\ dep[d] \in Row
    BY <1>0, <1>3 DEF Exists
  <2>2. SetStatus(j, "succeeded") /\ dep' = [dep EXCEPT ![d].status = "live", ![d].origin = ""]
    BY <1>1, <1>3 DEF ResumedOk
  <2>3. RowsSettle("waiter")
    BY <1>0, <1>3, <2>2, StatusSettles
  <2>4. dep' = [dep EXCEPT ![d] = [dep[d] EXCEPT !.status = "live", !.origin = ""]]
    BY <1>0, <2>1, <2>2
  <2>5. dep'[d].status = "live"
    BY <1>0, <2>1, <2>4 DEF Row
  <2>6. \A e \in Deployments : AtWork(e)' => e # d
    BY <2>5 DEF AtWork
  <2> QED
    BY <1>0, <1>2, <2>2, <2>3, <2>6, LeaveWorks
<1>4. CASE ~Exists(d)
  <2>1. UNCHANGED <<job, dep>>
    BY <1>4 DEF ResumedOk
  <2>2. RowsSettle("waiter") /\ \A e \in Deployments : AtWork(e)' => e # d
    BY <1>4, <2>1, RowsUnchanged DEF AtWork, Exists
  <2> QED
    BY <1>0, <1>2, <2>1, <2>2, LeaveWorks
<1> QED
  BY <1>3, <1>4

LEMMA WaitWorks ==
  ASSUME Inv, WorkingInv, Wait
  PROVE  WorkingInv'
<1>1. CASE \E j \in JobIds : WaitCanceled(j) \/ WaitLost(j)
  BY <1>1, EndWaitWorks DEF WaitCanceled, WaitLost
<1>2. CASE \E j \in JobIds : WaitTimeout(j)
  BY <1>2, WaitTimeoutWorks
<1>3. ASSUME NEW j \in JobIds, Resume(j)
      PROVE  WorkingInv'
  <2>1. /\ SetStatus(j, "running") /\ Start("waiter", "resumed", j, "") /\ UNCHANGED <<dep, request>>
        /\ at["waiter"].pc = "idle" /\ job[j].status = "waiting" /\ "waiter" \in Actors
    BY <1>3 DEF Resume, Waiting, Actors
  <2>2. at'["worker"] = at["worker"]
    BY <2>1 DEF Start, Actors, Inv, LifecycleInv, Typed, TypeOK
  <2>3. MakersOnly'
    BY <2>2 DEF WorkingInv, MakersOnly, Worker
  <2> QED
    BY <2>1, <2>3, TakeWorks
<1>4. CASE ResumedAborts
  <2>1. Waiter.job \in JobIds /\ job[Waiter.job].status = "running"
    <3>1. at["waiter"].job \in JobIds /\ Waiter.pc = "resumed"
      BY <1>4, LocalsTyped DEF ResumedAborts, Actors, Inv, LifecycleInv, Waiter
    <3> QED
      BY <3>1 DEF WorkingInv, ResumedRuns, Waiter
  <2>2. PICK j \in JobIds : j = at["waiter"].job
    BY <2>1 DEF Waiter
  <2>3. PICK o : (o = "failed" \/ (o = "canceled" /\ job[j].cancel)) /\ EndWait(j, o)
    BY <1>4, <2>1, <2>2 DEF ResumedAborts, Waiter
  <2> QED
    BY <2>2, <2>3, EndWaitWorks DEF Waiter
<1> QED
  BY <1>1, <1>2, <1>3, <1>4, ResumedOkWorks DEF Wait

--------------------------------------------------------------------------------
(* The cluster and the handlers                                               *)

LEMMA QuietlyWorks ==
  ASSUME OwnTeardowns, Inv, WorkingInv,
         \/ ClusterNext \/ RefuseRequest \/ ToggleDisabled
         \/ \E d \in Deployments, op \in RequestOps : BeginRequest(op, d)
  PROVE  WorkingInv'
<1>1. UNCHANGED <<dep, job, at>>
  BY DEF ClusterNext, TaskStops, ForeignVm, RefuseRequest, ToggleDisabled, BeginRequest, tables, control
<1>2. \/ request' \in {request, NoRequest}
      \/ ~CleanupLocks(request'.dep)
  BY DEF ClusterNext, TaskStops, ForeignVm, RefuseRequest, ToggleDisabled, BeginRequest, MayStart, control
<1>3. CleanupLocked'
  BY <1>1, <1>2 DEF CleanupLocked, CleanupLocks, WorkingInv, Worker, Exists
<1> QED
  BY <1>1, <1>3, TablesRest

LEMMA CancelWorks ==
  ASSUME Inv, WorkingInv, NEW k \in JobIds, Cancel(k)
  PROVE  WorkingInv'
<1>0. /\ job \in [JobIds -> JobRow] /\ UNCHANGED <<dep, at, request>> /\ "cancel" \in Ops
  BY DEF Inv, LifecycleInv, Typed, TypeOK, Cancel, control
<1>1. \A j \in JobIds : job'[j].status = job[j].status /\ job'[j].dep = job[j].dep
  <2> SUFFICES ASSUME NEW j \in JobIds
               PROVE  job'[j].status = job[j].status /\ job'[j].dep = job[j].dep
    OBVIOUS
  <2>1. job[j] \in JobRow /\ (job'[j] = job[j] \/ job'[j] = [job[j] EXCEPT !.cancel = TRUE])
    BY <1>0 DEF Cancel
  <2> QED
    BY <2>1 DEF JobRow
<1>2. \A d \in Deployments : StandsStillAt(d)
  BY <1>0 DEF StandsStillAt, Exists
<1>3. ResumedRuns'
  <2>1. Waiter.pc = "resumed" => Waiter.job \in JobIds
    BY LocalsTyped DEF Inv, LifecycleInv, Actors, Waiter
  <2> QED
    BY <1>0, <1>1, <2>1 DEF WorkingInv, ResumedRuns, Waiter
<1>4. CleanupLocked' /\ CanceledOnly'
  BY <1>0 DEF CleanupLocked, CanceledOnly, WorkingInv, Worker, Exists
<1>5. WorkingPromised'
  <2>1. \A d \in Deployments : AtWork(d)' => AtWork(d)
    BY <1>0 DEF AtWork, Exists
  <2>2. \A j \in JobIds : JobActive(j) => job'[j].dep = job[j].dep /\ JobActive(j)'
    BY <1>1 DEF JobActive
  <2>3. 0 \notin Deployments
    BY Ids
  <2>4. ~AtWork(0)'
    BY <2>3 DEF AtWork, Exists
  <2> QED
    BY <1>0, <2>1, <2>2, <2>4, PromisesRest DEF WorkingInv
<1> QED
  BY <1>0, <1>2, <1>3, <1>4, <1>5, QuietWorks

\* The user vouches for the VM: a row at work stays so, no other becomes so.
LEMMA ReconcileWorks ==
  ASSUME Inv, WorkingInv, NEW d \in Deployments, Reconcile(d)
  PROVE  WorkingInv'
<1>0. /\ job \in [JobIds -> JobRow] /\ UNCHANGED <<at, request>>
      /\ dep \in [Deployments -> Row \cup {NoRow}] /\ Exists(d) /\ dep[d] \in Row
  BY DEF Inv, LifecycleInv, Typed, TypeOK, Reconcile, control, MayStart, Exists
<1>1. \A j \in JobIds : job'[j].status = job[j].status /\ job'[j].dep = job[j].dep /\ job'[j].cancel = job[j].cancel
  <2> SUFFICES ASSUME NEW j \in JobIds
               PROVE  job'[j].status = job[j].status /\ job'[j].dep = job[j].dep
                      /\ job'[j].cancel = job[j].cancel
    OBVIOUS
  <2>1. job[j] \in JobRow /\ (job'[j] = job[j] \/ job'[j] = [job[j] EXCEPT !.create = "accepted"])
    BY <1>0 DEF Reconcile
  <2> QED
    BY <2>1 DEF JobRow
<1>2. PICK row : /\ row \in {dep[d], [dep[d] EXCEPT !.status = "error", !.origin = ""]}
                 /\ \/ dep' = [dep EXCEPT ![d] = row]
                    \/ dep' = [dep EXCEPT ![d] = [row EXCEPT !.identity = "accepted"]]
  BY DEF Reconcile
<1>3. /\ row \in Row /\ row.vmid = dep[d].vmid /\ row.origin \in {dep[d].origin, ""}
      /\ row.status \in {dep[d].status, "error"}
  BY <1>0, <1>2 DEF Row
<1>4. /\ dep'[d].vmid = dep[d].vmid /\ dep'[d].origin \in {dep[d].origin, ""}
      /\ dep'[d].status \in {dep[d].status, "error"}
      /\ \A e \in Deployments \ {d} : dep'[e] = dep[e]
  <2>1. dep'[d] = row \/ dep'[d] = [row EXCEPT !.identity = "accepted"]
    BY <1>0, <1>2
  <2>2. \A e \in Deployments \ {d} : dep'[e] = dep[e]
    BY <1>0, <1>2
  <2> QED
    BY <1>3, <2>1, <2>2 DEF Row
<1>5. \A e \in Deployments : /\ StandsStillAt(e) /\ (AtWork(e)' => AtWork(e))
                             /\ Exists(e)' => Exists(e) /\ dep'[e].origin \in {dep[e].origin, ""}
  BY <1>0, <1>4 DEF StandsStillAt, Exists, AtWork
<1>6. ResumedRuns'
  <2>1. Waiter.pc = "resumed" => Waiter.job \in JobIds
    BY LocalsTyped DEF Inv, LifecycleInv, Actors, Waiter
  <2> QED
    BY <1>0, <1>1, <2>1 DEF WorkingInv, ResumedRuns, Waiter
<1>7. CleanupLocked'
  <2> SUFFICES ASSUME Worker.out = "cleanup", NEW e, e = Worker.dep
               PROVE  /\ request # NoRequest => request.dep # e
                      /\ ~AtWork(e)'
    BY <1>0 DEF CleanupLocked, AtWork, Exists, Worker
  <2>1. AtWork(e)' => e \in Deployments
    BY DEF AtWork, Exists
  <2> QED
    BY <1>5, <2>1 DEF WorkingInv, CleanupLocked, AtWork
<1>8. CanceledOnly'
  BY <1>0, <1>1, <1>5 DEF CanceledOnly, WorkingInv
<1>9. WorkingPromised'
  <2>1. \A j \in JobIds : JobActive(j) => job'[j].dep = job[j].dep /\ JobActive(j)'
    BY <1>1 DEF JobActive
  <2>2. 0 \notin Deployments
    BY Ids
  <2>3. ~AtWork(0)'
    BY <2>2 DEF AtWork, Exists
  <2> QED
    BY <1>0, <1>5, <2>1, <2>3, PromisesRest DEF WorkingInv
<1> QED
  BY <1>0, <1>5, <1>6, <1>7, <1>8, <1>9, QuietWorks

\* A job is admitted: the row that it puts to work has its promise.
LEMMA AdmitWorks ==
  ASSUME Inv, WorkingInv, NEW j \in JobIds, NEW type, NEW d, d # 0, NEW c, NEW i,
         FreshJob(j), Insert(j, type, d, c, i), at' = at, request' \in {request, NoRequest},
         \A e \in Deployments \ {d} : dep'[e] = dep[e],
         StandsStillAt(d), Worker.out = "cleanup" => Worker.dep # d,
         Exists(d)' => dep'[d].origin = "" \/ (Exists(d) /\ dep'[d].origin = dep[d].origin)
  PROVE  WorkingInv'
<1>0. /\ job \in [JobIds -> JobRow]
  BY DEF Inv, LifecycleInv, Typed, TypeOK
<1>1. /\ job'[j].dep = d /\ job'[j].status = "queued" /\ job[j].status = "unused" /\ job[j].dep = 0
      /\ \A k \in JobIds \ {j} : job'[k] = job[k]
  BY Inserted
<1>2. job'[j].cancel = FALSE
  BY <1>0 DEF Insert, Unused
<1>3. \A b \in Actors : at[b].job # j
  BY <1>1, Ids, HeldJobs DEF Terminal
<1>4. \A e \in Deployments : StandsStillAt(e)
  BY DEF StandsStillAt, Exists
<1>5. ResumedRuns'
  BY <1>1, <1>3, LocalsTyped
     DEF ResumedRuns, WorkingInv, Waiter, Actors, Inv, LifecycleInv
<1>6. CleanupLocked'
  BY DEF CleanupLocked, WorkingInv, Worker, Exists
<1>7. CanceledOnly'
  BY <1>1, <1>2 DEF CanceledOnly, WorkingInv, Exists
<1>8. WorkingPromised'
  <2>1. \A e \in Deployments \ {d} : AtWork(e)' => AtWork(e)
    BY DEF AtWork, Exists
  <2>2. \A k \in JobIds : job[k].dep # d /\ JobActive(k) => job'[k].dep = job[k].dep /\ JobActive(k)'
    BY <1>1 DEF JobActive, ActiveStatuses
  <2>3. Promised(d)'
    BY <1>1, <1>3 DEF Promised, JobActive, ActiveStatuses
  <2> QED
    BY <2>1, <2>2, <2>3, PromisesRest DEF WorkingInv
<1> QED
  BY <1>4, <1>5, <1>6, <1>7, <1>8, QuietWorks

LEMMA DeployWorks ==
  ASSUME Inv, WorkingInv, Deploy
  PROVE  WorkingInv'
<1>1. PICK d \in Deployments, j \in JobIds, i \in Ips \cup {NoIp}, post \in BOOLEAN :
        /\ FreshDeployment(d) /\ FreshJob(j)
        /\ dep' = [dep EXCEPT ![d] = [status |-> "working", vmid |-> NoVmid, identity |-> "",
                                      origin |-> "", ip |-> i, post |-> post]]
        /\ Insert(j, "deploy", d, "", i)
  BY AllocatedTyped, ConstantsTyped DEF Deploy, ConstantsTyped
<1>2. dep \in [Deployments -> Row \cup {NoRow}] /\ d # 0 /\ d \in Nat
  BY Ids DEF Inv, LifecycleInv, Typed, TypeOK
<1>3. dep'[d].origin = "" /\ \A e \in Deployments \ {d} : dep'[e] = dep[e]
  BY <1>1, <1>2
<1>4. ~Known(d)
  <2>1. d >= d
    BY <1>2
  <2> QED
    BY <1>1, <2>1 DEF FreshDeployment, Known
<1>5. StandsStillAt(d)
  BY <1>4 DEF StandsStillAt
<1>6. Worker.dep # d
  BY <1>2, <1>4 DEF Inv, OwnershipInv, LocalsAgree, Worker, Actors
<1>7. at' = at /\ request' = request
  BY DEF Deploy, control
<1> QED
  BY <1>1, <1>2, <1>3, <1>5, <1>6, <1>7, AdmitWorks

LEMMA FinishRequestWorks ==
  ASSUME Inv, WorkingInv, FinishRequest
  PROVE  WorkingInv'
<1> SUFFICES ASSUME NEW d, d = request.dep, NEW op, op = request.op
             PROVE  WorkingInv'
  OBVIOUS
<1>1. PICK j \in JobIds, i \in ContextIps(op, d) :
        /\ FreshJob(j)
        /\ Insert(j, JobType(op), d, IF op = "configure" THEN "accepted" ELSE "", i)
  BY DEF FinishRequest
<1>2. /\ dep \in [Deployments -> Row \cup {NoRow}] /\ d \in Deployments /\ d # 0
      /\ at' = at /\ request' = NoRequest /\ request # NoRequest
  BY Ids DEF FinishRequest, Inv, LifecycleInv, Typed, TypeOK
<1>3. Worker.out = "cleanup" => Worker.dep # d
  BY <1>2 DEF WorkingInv, CleanupLocked
<1>4. CASE dep' = dep
  BY <1>1, <1>2, <1>3, <1>4, AdmitWorks DEF StandsStillAt, Exists
<1>5. CASE Exists(d) /\ \E s, o : /\ o \in {dep[d].origin, ""}
                                  /\ dep' = [dep EXCEPT ![d] = [dep[d] EXCEPT !.status = s, !.origin = o]]
  <2>1. PICK s, o : /\ o \in {dep[d].origin, ""}
                    /\ dep' = [dep EXCEPT ![d] = [dep[d] EXCEPT !.status = s, !.origin = o]]
    BY <1>5
  <2>2. dep[d] \in Row
    BY <1>2, <1>5 DEF Exists
  <2>3. /\ dep'[d] = [dep[d] EXCEPT !.status = s, !.origin = o]
        /\ \A e \in Deployments \ {d} : dep'[e] = dep[e]
    BY <1>2, <2>1
  <2>4. dep'[d].vmid = dep[d].vmid /\ dep'[d].origin = o
    BY <2>2, <2>3 DEF Row
  <2>5. StandsStillAt(d)
    BY <1>5, <2>4 DEF StandsStillAt
  <2> QED
    BY <1>1, <1>2, <1>3, <1>5, <2>1, <2>3, <2>4, <2>5, AdmitWorks
<1> QED
  <2>1. \E s, o : /\ o \in {dep[d].origin, ""}
                  /\ Write(d, [dep[d] EXCEPT !.status = s, !.origin = o])
    BY DEF FinishRequest
  <2> QED
    BY <1>4, <1>5, <2>1 DEF Write

--------------------------------------------------------------------------------
LEMMA WorkingStep ==
  ASSUME OwnTeardowns, Inv, WorkingInv, Next
  PROVE  WorkingInv'
<1>1. CASE ApiNext
  <2>1. ~FinishCleanup /\ ~ \E d \in Deployments, op \in CleanupOps : BeginCleanup(op, d)
    BY NoCleanup DEF OwnTeardowns
  <2> QED
    BY <1>1, <2>1, DeployWorks, FinishRequestWorks, QuietlyWorks, CancelWorks, ReconcileWorks DEF ApiNext
<1>2. CASE WorkerNext
  <2>1. ~Recover /\ ~RecoverNext
    BY DEF Recover, RecoverNext, Inv, OwnershipInv, Uncrashed, Worker
  <2> QED
    BY <1>2, <2>1, ClaimWorks, ExecuteWorks, ReconcilersWork, RetryCleanupWorks DEF WorkerNext, Actors
<1>3. CASE WaiterNext
  BY <1>3, WaitWorks, ReconcilersWork DEF WaiterNext, Actors
<1>4. ~Crash
  BY DEF Crash, Fault, OwnTeardowns, Undisturbed
<1> QED
  BY <1>1, <1>2, <1>3, <1>4, QuietlyWorks DEF Next

LEMMA WorkingInit ==
  ASSUME Init
  PROVE  WorkingInv
<1>1. /\ job = [j \in JobIds |-> Unused] /\ dep = [d \in Deployments |-> NoRow]
      /\ at = [a \in Actors |-> Idle] /\ request = NoRequest
  BY DEF Init
<1>2. /\ Idle.pc = "idle" /\ Idle.out = "" /\ Idle.job = 0 /\ Unused.cancel = FALSE
  BY DEF Idle, Unused
<1> QED
  BY <1>1, <1>2 DEF WorkingInv, MakersOnly, CreatePlaces, JobsApart, ResumedRuns, CleanupLocked, CanceledOnly,
     VmidKept, Minds, TearingDown, WorkingPromised, Exists, Worker, Waiter, Actors

LEMMA WorkingStutter ==
  ASSUME Inv, WorkingInv, UNCHANGED vars
  PROVE  WorkingInv'
<1>1. UNCHANGED <<dep, job, at, request>>
  BY DEF vars
<1>2. CleanupLocked'
  BY <1>1 DEF CleanupLocked, WorkingInv, Worker, Exists
<1> QED
  BY <1>1, <1>2, TablesRest

\* A deployment says "working" only while somebody is going to change that, whatever
\* else fails: as long as nothing is lost of a tear-down of a VM that another deployment
\* names too (worker.py, _reconcile_canceled_job, _reconcile_failed_job, _best_effort_destroy).
THEOREM WorkingEnds == ASSUME OwnTeardowns PROVE Spec => []NoStrandedWorking
<1>1. Inv /\ WorkingInv /\ [Next]_vars => (Inv /\ WorkingInv)'
  <2>1. ASSUME Inv, WorkingInv, Next
        PROVE  Inv' /\ WorkingInv'
    BY <2>1, WorkingStep, OwnershipStep, StepPreserves
       DEF Inv, LifecycleInv, Preserves, OwnTeardowns
  <2>2. ASSUME Inv, WorkingInv, UNCHANGED vars
        PROVE  Inv' /\ WorkingInv'
    BY <2>2, WorkingStutter, OwnershipStutter, StutterInv DEF Inv
  <2> QED
    BY <2>1, <2>2
<1>2. Init => Inv /\ WorkingInv
  BY InitInv, OwnershipInit, WorkingInit DEF Inv
<1>3. WorkingInv => NoStrandedWorking
  BY DEF WorkingInv, WorkingPromised, Promised, Past, NoStrandedWorking, AboutToReconcile, Active
<1> QED
  BY <1>1, <1>2, <1>3, PTL DEF Spec

--------------------------------------------------------------------------------
(* Nothing is destroyed in doubt                                              *)

\* Nobody waits for a guest, and a deployment that may be canceled is the only one.
Attended ==
  /\ Undisturbed /\ TRUE \notin PostBoot
  /\ MaxDeployments = 1 \/ "cancel" \notin Ops

Doubted(d) == Exists(d) /\ dep[d].identity = "submitting"

\* No doubt about a deployment whose VM is about to be destroyed ...
SurePlaces == {"load", "stop", "destroy", "probe", "apply"} \cup TearingDown
WorkSure == Worker.pc \in SurePlaces => ~Doubted(Worker.dep)
\* ... or for which that has been asked.
RequestSure == request # NoRequest => ~Doubted(request.dep)
QueuedSure ==
  \A j \in JobIds : job[j].status = "queued" => ~Doubted(job[j].dep) /\ job[j].remote = ""
\* A cleanup is not pending in doubt, but while the worker is about to settle that.
Submitting == {"create", "accept"}
PendingSure ==
  \A d \in Deployments :
    Doubted(d) /\ dep[d].status = "cleanup_pending" =>
      Worker.dep = d /\ Worker.pc \in Submitting \cup {"retain", "read"}

\* Doubts are raised by whoever keeps all others from the deployment.
Occupied ==
  \/ Worker.job \in JobIds /\ job[Worker.job].status = "running"
  \/ Worker.out = "cleanup"
\* A job that ended when it was claimed has sent nothing.
EndedUnsent ==
  Worker.pc \in {"retain", "read"} =>
    /\ Worker.job \in JobIds
    /\ job[Worker.job].status # "running" =>
         /\ job[Worker.job].remote = ""
         /\ Worker.kind = "deploy" => VmidOf(Worker.dep) = NoVmid
TornOccupied == Worker.pc \in TearingDown => Occupied /\ Worker.dep \in Deployments
\* Only the worker runs jobs.
RunningHeld == \A j \in JobIds : job[j].status = "running" => Worker.job = j
CleanupAlone == Worker.out = "cleanup" => ~Active(Worker.dep)

DoubtsInv ==
  /\ WorkSure /\ RequestSure /\ QueuedSure /\ PendingSure
  /\ EndedUnsent /\ TornOccupied /\ RunningHeld /\ CleanupAlone

LEMMA OccupiedAlone ==
  ASSUME Inv, WorkingInv, DoubtsInv, Occupied
  PROVE  /\ \A j \in JobIds : job[j].status = "queued" => job[j].dep # Worker.dep
         /\ request # NoRequest => request.dep # Worker.dep
<1>1. CASE Worker.job \in JobIds /\ job[Worker.job].status = "running"
  <2>1. job[Worker.job].dep = Worker.dep /\ JobActive(Worker.job)
    BY <1>1, Ids DEF Inv, OwnershipInv, LocalsAgree, Worker, Actors, JobActive, ActiveStatuses
  <2>2. Active(Worker.dep)
    BY <1>1, <2>1 DEF Active
  <2>3. \A j \in JobIds : job[j].status = "queued" => JobActive(j)
    BY DEF JobActive, ActiveStatuses
  <2> QED
    BY <1>1, <2>1, <2>2, <2>3 DEF Inv, OwnershipInv, LifecycleInv, RowsKnown, OneActiveLifecycleJob
<1>2. CASE Worker.out = "cleanup"
  BY <1>2 DEF DoubtsInv, CleanupAlone, Active, JobActive, ActiveStatuses, WorkingInv, CleanupLocked
<1> QED
  BY <1>1, <1>2 DEF Occupied

\* The worker goes on with its job, and writes at most the row of its deployment.
LEMMA DoubtsGoOn ==
  ASSUME Inv, WorkingInv, DoubtsInv, Unmoved, UNCHANGED request,
         NEW d, d = Worker.dep, Worker'.dep = d, Worker'.job = Worker.job,
         Worker'.out = "cleanup" => Worker.out = "cleanup",
         \A e \in Deployments \ {d} : dep'[e] = dep[e],
         \A j \in JobIds : job[j].status = "queued" => job'[j].remote = job[j].remote,
         Doubted(d)' => Doubted(d) \/ Occupied,
         Doubted(d)' => Worker'.pc \notin SurePlaces,
         Doubted(d)' /\ dep'[d].status = "cleanup_pending" =>
           Worker'.pc \in Submitting \cup {"retain", "read"},
         EndedUnsent', TornOccupied'
  PROVE  DoubtsInv'
<1>1. \A e : e # d /\ Doubted(e)' => Doubted(e)
  BY DEF Doubted, Exists
<1>2. \A j \in JobIds : job'[j].status = job[j].status /\ job'[j].dep = job[j].dep
  BY DEF Unmoved
<1>3. WorkSure'
  BY DEF WorkSure, Doubted, Exists
<1>4. \A e : Doubted(e)' => Doubted(e) \/ (e = d /\ Occupied)
  BY <1>1
<1>5. RequestSure'
  <2> SUFFICES ASSUME request # NoRequest, NEW e, e = request.dep, Doubted(e)'
               PROVE  FALSE
    BY DEF RequestSure, Doubted, Exists
  <2> QED
    BY <1>4, OccupiedAlone DEF DoubtsInv, RequestSure
<1>6. QueuedSure'
  <2> SUFFICES ASSUME NEW j \in JobIds, job'[j].status = "queued"
               PROVE  job'[j].remote = "" /\ \A e : e = job'[j].dep => ~Doubted(e)'
    BY DEF QueuedSure, Doubted, Exists
  <2>1. job[j].status = "queued" /\ job'[j].dep = job[j].dep
    BY <1>2
  <2> QED
    BY <1>4, <2>1, OccupiedAlone DEF DoubtsInv, QueuedSure
<1>7. PendingSure'
  <2> SUFFICES ASSUME NEW e \in Deployments, Doubted(e)', dep'[e].status = "cleanup_pending"
               PROVE  e = d /\ Worker'.pc \in Submitting \cup {"retain", "read"}
    BY DEF PendingSure, Doubted, Exists
  <2>1. CASE e # d
    <3>1. dep'[e] = dep[e] /\ Doubted(e)
      BY <1>1, <2>1
    <3> QED
      BY <2>1, <3>1 DEF DoubtsInv, PendingSure
  <2> QED
    BY <2>1
<1>8. CleanupAlone'
  <2>1. Active(d)' => Active(d)
    BY <1>2 DEF Active, JobActive
  <2>2. Active(Worker.dep)' => Active(d)'
    BY DEF Active, JobActive
  <2> QED
    BY <2>1, <2>2 DEF DoubtsInv, CleanupAlone
<1>9. RunningHeld'
  BY <1>2 DEF DoubtsInv, RunningHeld
<1> QED
  BY <1>3, <1>5, <1>6, <1>7, <1>8, <1>9 DEF DoubtsInv

--------------------------------------------------------------------------------
(* The worker executes                                                        *)

\* What a step of a running job does about doubts.
ExecDoubts(d) ==
  /\ Worker'.dep = d /\ Worker'.job = Worker.job
  /\ Worker'.out = "cleanup" => Worker.out = "cleanup"
  /\ Worker'.pc \in SurePlaces =>
       Worker'.pc \in {"stop", "destroy"} /\ Worker.pc \in SurePlaces /\ dep' = dep
  /\ \A e \in Deployments \ {d} : dep'[e] = dep[e]
  /\ Doubted(d)' =>
       \/ Worker'.pc \in Submitting
       \/ /\ Doubted(d) /\ dep'[d].status \in {dep[d].status, "live"}
          /\ Worker.pc \in Submitting => Worker'.pc = "retain"

LEMMA RunningDoubts ==
  ASSUME Inv, WorkingInv, DoubtsInv, Unmoved, UNCHANGED request, Worker.pc \in ExecPlaces,
         NEW d, d = Worker.dep, ExecDoubts(d),
         \A j \in JobIds \ {Worker.job} : job'[j] = job[j]
  PROVE  DoubtsInv'
<1>1. Worker.job \in JobIds /\ job[Worker.job].status = "running" /\ Occupied
  BY WorkerAlone DEF Occupied
<1>2. \A j \in JobIds : job[j].status = "queued" => job'[j].remote = job[j].remote
  BY <1>1
<1>3. Doubted(d)' => Worker'.pc \notin SurePlaces
  BY DEF ExecDoubts, DoubtsInv, WorkSure, Doubted, SurePlaces, TearingDown, Exists
<1>4. job'[Worker.job].status = "running" /\ Worker'.job = Worker.job
  BY <1>1 DEF Unmoved, ExecDoubts
<1>5. EndedUnsent'
  BY <1>1, <1>4 DEF EndedUnsent
<1>6. Worker'.pc \notin TearingDown
  BY DEF ExecDoubts, SurePlaces, TearingDown
<1>7. TornOccupied'
  BY <1>6 DEF TornOccupied
<1>8. Doubted(d)' /\ dep'[d].status = "cleanup_pending" =>
        Worker'.pc \in Submitting \cup {"retain", "read"}
  <2> SUFFICES ASSUME Doubted(d)', dep'[d].status = "cleanup_pending", Worker'.pc \notin Submitting
               PROVE  Worker'.pc = "retain"
    OBVIOUS
  <2>1. Doubted(d) /\ dep[d].status = "cleanup_pending" /\ d \in Deployments
    BY DEF ExecDoubts, Doubted, Exists
  <2>2. Worker.pc \in Submitting \cup {"retain", "read"}
    BY <2>1 DEF DoubtsInv, PendingSure
  <2> QED
    BY <2>2 DEF ExecDoubts, ExecPlaces
<1> QED
  BY <1>1, <1>2, <1>3, <1>5, <1>7, <1>8, DoubtsGoOn DEF ExecDoubts

\* A row that is written and stays, or is dropped.
LEMMA RowDoubts ==
  ASSUME Inv, NEW d, Exists(d), NEW r, dep' = [dep EXCEPT ![d] = r]
  PROVE  /\ d \in Deployments /\ dep[d] \in Row /\ dep'[d] = r
         /\ \A e \in Deployments \ {d} : dep'[e] = dep[e]
         /\ Doubted(d)' => r.identity = "submitting"
BY DEF Inv, LifecycleInv, Typed, TypeOK, Exists, Doubted

LEMMA ClearedIdentity ==
  ASSUME NEW r \in Row, NEW v
  PROVE  /\ Cleared(r, v) \in Row
         /\ Cleared(r, v).identity = r.identity /\ Cleared(r, v).status = r.status
<1>1. [r EXCEPT !.vmid = NoVmid] \in Row
  BY DEF Row
<1>2. [r EXCEPT !.vmid = NoVmid].identity = r.identity /\ [r EXCEPT !.vmid = NoVmid].status = r.status
  BY DEF Row
<1> QED
  BY <1>1, <1>2 DEF Cleared

\* The worker stays with its job; where it goes.
LEMMA Following ==
  ASSUME Inv, \/ \E p : p \notin SurePlaces /\ Goto("worker", p)
              \/ \E p, t : p \notin SurePlaces /\ GotoAwaiting("worker", p, t)
              \/ \E o \in {"failed", "canceled"} : Abort("worker", o)
  PROVE  /\ Worker'.dep = Worker.dep /\ Worker'.job = Worker.job
         /\ Worker'.out = "cleanup" => Worker.out = "cleanup"
         /\ Worker'.pc \notin SurePlaces
<1>0. Typed /\ "worker" \in Actors
  BY DEF Inv, LifecycleInv, Actors
<1>1. CASE \E p : p \notin SurePlaces /\ Goto("worker", p)
  BY <1>0, <1>1, PlacingFollows DEF Worker
<1>2. CASE \E p, t : p \notin SurePlaces /\ GotoAwaiting("worker", p, t)
  BY <1>0, <1>2, PlacingFollows DEF Worker
<1>3. CASE \E o \in {"failed", "canceled"} : Abort("worker", o)
  BY <1>0, <1>3, AbortFollows DEF Worker, SurePlaces, TearingDown
<1> QED
  BY <1>1, <1>2, <1>3

\* A step that leaves the rows alone.
LEMMA StandingDoubts ==
  ASSUME Inv, UNCHANGED dep, Worker.pc \notin Submitting,
         \/ \E p : p \notin SurePlaces /\ Goto("worker", p)
         \/ \E p, t : p \notin SurePlaces /\ GotoAwaiting("worker", p, t)
         \/ \E o \in {"failed", "canceled"} : Abort("worker", o)
  PROVE  ExecDoubts(Worker.dep)
<1> SUFFICES ASSUME NEW d, d = Worker.dep
             PROVE  ExecDoubts(d)
  OBVIOUS
<1> QED
  BY Following DEF ExecDoubts, Doubted, Exists

LEMMA LoadDoubts ==
  ASSUME Inv, WorkingInv, DoubtsInv, Load("worker"), NEW d, d = Worker.dep
  PROVE  ExecDoubts(d)
<1>0. /\ UNCHANGED dep /\ Worker.pc = "load" /\ at \in [Actors -> Local] /\ "worker" \in Actors
      /\ at["worker"] \in Local
  BY DEF Load, tables, Worker, Actors, Inv, LifecycleInv, Typed, TypeOK
<1>1. CASE \E o \in {"failed", "canceled"} : Abort("worker", o)
  BY <1>0, <1>1, StandingDoubts DEF Submitting
<1>2. CASE \E p \in {"ansible", "stop"} :
             at' = [at EXCEPT !["worker"].vmid = dep[at["worker"].dep].vmid, !["worker"].pc = p]
  <2> DEFINE v == dep[at["worker"].dep].vmid
  <2>1. PICK p \in {"ansible", "stop"} :
          at' = [at EXCEPT !["worker"] = [at["worker"] EXCEPT !.vmid = v, !.pc = p]]
    BY <1>0, <1>2
  <2> HIDE DEF v
  <2>2. Worker' = [at["worker"] EXCEPT !.vmid = v, !.pc = p]
    BY <1>0, <2>1 DEF Worker
  <2>3. /\ Worker'.pc = p /\ Worker'.dep = Worker.dep /\ Worker'.job = Worker.job
        /\ Worker'.out = Worker.out
    BY <1>0, <2>2 DEF Local, Worker
  <2> QED
    BY <1>0, <2>3 DEF ExecDoubts, Doubted, Exists, SurePlaces, TearingDown, Submitting
<1> QED
  BY <1>1, <1>2 DEF Load

LEMMA StopDoubts ==
  ASSUME Inv, WorkingInv, DoubtsInv, Stop("worker"), NEW d, d = Worker.dep
  PROVE  ExecDoubts(d)
<1>0. UNCHANGED dep /\ Worker.pc = "stop" /\ Typed /\ "worker" \in Actors
  BY DEF Stop, Worker, Actors, Inv, LifecycleInv
<1>1. CASE Goto("worker", "destroy")
  <2>1. /\ Worker'.pc = "destroy" /\ Worker'.dep = Worker.dep /\ Worker'.job = Worker.job
        /\ Worker'.out = Worker.out
    BY <1>0, <1>1, PlacingFollows DEF Worker
  <2> QED
    BY <1>0, <2>1 DEF ExecDoubts, Doubted, Exists, SurePlaces, TearingDown, Submitting
<1>2. CASE Goto("worker", "confirm") \/ Abort("worker", "failed") \/ Abort("worker", "canceled")
  BY <1>0, <1>2, StandingDoubts DEF SurePlaces, TearingDown, Submitting
<1> QED
  BY <1>1, <1>2 DEF Stop, OtherTaskOk, OtherTaskAborts

\* Neither chooses nor creates.
LEMMA PlainDoubts ==
  ASSUME Inv, WorkingInv, DoubtsInv, NEW d, d = Worker.dep,
         \/ Destroy("worker") \/ RecordDestroy("worker") \/ Erase("worker") \/ Confirm("worker")
         \/ Record("worker") \/ Import("worker") \/ Setup("worker") \/ Ansible("worker")
  PROVE  ExecDoubts(d)
<1>1. UNCHANGED dep /\ Worker.pc \notin Submitting
  BY DEF Destroy, RecordDestroy, Erase, Confirm, Record, Import, Setup, Ansible, tables, Worker,
         Submitting
<1>2. \/ \E p \in {"erase", "confirm", "pick", "drop", "import", "setup", "boot", "finish"} :
            Goto("worker", p)
      \/ \E p \in {"recordDestroy", "erase", "import"} : \E t : GotoAwaiting("worker", p, t)
      \/ \E o \in {"failed", "canceled"} : Abort("worker", o)
  <2>1. CASE Destroy("worker") \/ RecordDestroy("worker") \/ Record("worker")
    BY <2>1 DEF Destroy, RecordDestroy, Record
  <2>2. CASE Erase("worker") \/ Import("worker")
    BY <2>2 DEF Erase, Import, TaskFailed, TaskCanceled
  <2>3. CASE Confirm("worker") \/ Ansible("worker")
    BY <2>3 DEF Confirm, Ansible
  <2>4. CASE Setup("worker")
    BY <2>4 DEF Setup, OtherTaskOk, OtherTaskAborts
  <2> QED
    BY <2>1, <2>2, <2>3, <2>4
<1> QED
  BY <1>1, <1>2, StandingDoubts DEF SurePlaces, TearingDown

LEMMA DropDoubts ==
  ASSUME Inv, Drop("worker"), NEW d, d = Worker.dep
  PROVE  ExecDoubts(d)
<1>0. /\ dep \in [Deployments -> Row \cup {NoRow}] /\ Goto("worker", "succeed")
      /\ dep' = [dep EXCEPT ![d] = NoRow]
  BY DEF Drop, DropRow, Worker, Inv, LifecycleInv, Typed, TypeOK
<1>1. ~Doubted(d)' /\ \A e \in Deployments \ {d} : dep'[e] = dep[e]
  BY <1>0 DEF Doubted, Exists
<1> QED
  BY <1>0, <1>1, Following DEF ExecDoubts, SurePlaces, TearingDown

LEMMA PickDoubts ==
  ASSUME Inv, Pick("worker"), NEW d, d = Worker.dep
  PROVE  ExecDoubts(d)
<1>0. /\ Worker.pc = "pick" /\ at \in [Actors -> Local] /\ "worker" \in Actors
      /\ at["worker"] \in Local
  BY DEF Pick, Worker, Actors, Inv, LifecycleInv, Typed, TypeOK
<1>1. CASE Abort("worker", "failed") /\ UNCHANGED dep
  BY <1>0, <1>1, StandingDoubts DEF Submitting
<1>2. CASE Exists(d) /\ \E v : /\ dep' = [dep EXCEPT ![d].vmid = v]
                               /\ at' = [at EXCEPT !["worker"].vmid = v, !["worker"].pc = "prepare"]
  <2>0. dep \in [Deployments -> Row \cup {NoRow}] /\ d \in Deployments /\ dep[d] \in Row
    BY <1>2 DEF Inv, LifecycleInv, Typed, TypeOK, Exists
  <2>1. PICK v : /\ dep' = [dep EXCEPT ![d] = [dep[d] EXCEPT !.vmid = v]]
                 /\ at' = [at EXCEPT !["worker"] = [at["worker"] EXCEPT !.vmid = v, !.pc = "prepare"]]
    BY <1>0, <1>2, <2>0
  <2>2. Worker' = [at["worker"] EXCEPT !.vmid = v, !.pc = "prepare"]
    BY <1>0, <2>1 DEF Worker
  <2>3. /\ Worker'.pc = "prepare" /\ Worker'.dep = Worker.dep /\ Worker'.job = Worker.job
        /\ Worker'.out = Worker.out
    BY <1>0, <2>2 DEF Local, Worker
  <2>4. dep'[d] = [dep[d] EXCEPT !.vmid = v] /\ \A e \in Deployments \ {d} : dep'[e] = dep[e]
    BY <2>0, <2>1
  <2>5. dep'[d].identity = dep[d].identity /\ dep'[d].status = dep[d].status
    BY <2>0, <2>4 DEF Row
  <2>6. Doubted(d)' => Doubted(d)
    BY <1>2, <2>5 DEF Doubted
  <2> QED
    BY <1>0, <2>3, <2>4, <2>5, <2>6 DEF ExecDoubts, SurePlaces, TearingDown, Submitting
<1> QED
  BY <1>1, <1>2 DEF Pick, MissingTarget, Worker

LEMMA PrepareDoubts ==
  ASSUME Inv, Prepare("worker"), NEW d, d = Worker.dep
  PROVE  ExecDoubts(d)
<1>0. /\ Worker.pc = "prepare" /\ Typed /\ "worker" \in Actors
      /\ dep \in [Deployments -> Row \cup {NoRow}]
  BY DEF Prepare, Worker, Actors, Inv, LifecycleInv, Typed, TypeOK
<1>1. /\ d \in Deployments /\ dep[d] \in Row /\ Exists(d)
  BY <1>0, ChosenRow
<1>2. CASE /\ dep' = [dep EXCEPT ![d] = Cleared(dep[d], Worker.vmid)]
           /\ \E o \in {"failed", "canceled"} : Abort("worker", o)
  <2>1. PICK r \in Row : r = Cleared(dep[d], Worker.vmid) /\ r.identity = dep[d].identity /\ r.status = dep[d].status
    BY <1>1, ClearedIdentity
  <2>2. dep'[d] = r /\ \A e \in Deployments \ {d} : dep'[e] = dep[e]
    BY <1>0, <1>1, <1>2, <2>1
  <2>3. Doubted(d)' => Doubted(d)
    BY <1>1, <2>1, <2>2 DEF Doubted
  <2> QED
    BY <1>0, <1>2, <2>1, <2>2, <2>3, Following DEF ExecDoubts, Submitting
<1>3. CASE dep' = [dep EXCEPT ![d] = [dep[d] EXCEPT !.identity = "submitting"]] /\ Goto("worker", "create")
  <2>1. \A e \in Deployments \ {d} : dep'[e] = dep[e]
    BY <1>0, <1>1, <1>3
  <2>2. /\ Worker'.pc = "create" /\ Worker'.dep = Worker.dep /\ Worker'.job = Worker.job
        /\ Worker'.out = Worker.out
    BY <1>0, <1>3, PlacingFollows DEF Worker
  <2> QED
    BY <2>1, <2>2 DEF ExecDoubts, SurePlaces, TearingDown, Submitting
<1> QED
  BY <1>1, <1>2, <1>3 DEF Prepare, Write, Worker

LEMMA CreateDoubts ==
  ASSUME Inv, Create("worker"), NEW d, d = Worker.dep
  PROVE  ExecDoubts(d)
<1>0. /\ Worker.pc = "create" /\ Typed /\ "worker" \in Actors
      /\ dep \in [Deployments -> Row \cup {NoRow}]
  BY DEF Create, Worker, Actors, Inv, LifecycleInv, Typed, TypeOK
<1>1. /\ d \in Deployments /\ dep[d] \in Row /\ Exists(d)
  BY <1>0, ChosenRow
<1>2. CASE \E r \in Row : /\ dep' = [dep EXCEPT ![d] = [r EXCEPT !.identity = "rejected"]]
                           /\ Abort("worker", "failed")
  <2>1. PICK r \in Row : dep' = [dep EXCEPT ![d] = [r EXCEPT !.identity = "rejected"]]
    BY <1>2
  <2>2. dep'[d] = [r EXCEPT !.identity = "rejected"] /\ \A e \in Deployments \ {d} : dep'[e] = dep[e]
    BY <1>0, <1>1, <2>1
  <2>3. dep'[d].identity = "rejected"
    BY <2>2 DEF Row
  <2>4. ~Doubted(d)'
    BY <2>3 DEF Doubted
  <2> QED
    BY <1>2, <2>2, <2>4, Following DEF ExecDoubts
<1>3. CASE UNCHANGED dep /\ Abort("worker", "failed")
  <2>1. Worker'.pc = "retain"
    BY <1>0, <1>3, AbortFollows DEF Worker
  <2> QED
    BY <1>3, <2>1, Following DEF ExecDoubts, Doubted, Exists
<1>4. CASE UNCHANGED dep /\ \E t : GotoAwaiting("worker", "accept", t)
  <2>1. Worker'.pc = "accept"
    BY <1>0, <1>4, PlacingFollows DEF Worker
  <2> QED
    BY <1>4, <2>1, Following DEF ExecDoubts, Submitting, SurePlaces, TearingDown
<1>5. Cleared(dep[d], Worker.vmid) \in Row
  BY <1>1, ClearedIdentity
<1> QED
  BY <1>1, <1>2, <1>3, <1>4, <1>5 DEF Create, Write, Worker

LEMMA AcceptDoubts ==
  ASSUME Inv, Accept("worker"), NEW d, d = Worker.dep
  PROVE  ExecDoubts(d)
<1>0. /\ \E t : GotoAwaiting("worker", "record", t)
      /\ dep \in [Deployments -> Row \cup {NoRow}]
  BY DEF Accept, Inv, LifecycleInv, Typed, TypeOK
<1>1. CASE UNCHANGED dep /\ ~Exists(d)
  BY <1>0, <1>1, Following DEF ExecDoubts, Doubted, Exists, SurePlaces, TearingDown
<1>2. CASE Exists(d) /\ dep' = [dep EXCEPT ![d] = [dep[d] EXCEPT !.identity = "accepted"]]
  <2>1. d \in Deployments /\ dep[d] \in Row
    BY <1>0, <1>2 DEF Exists
  <2>2. /\ dep'[d] = [dep[d] EXCEPT !.identity = "accepted"]
        /\ \A e \in Deployments \ {d} : dep'[e] = dep[e]
    BY <1>0, <1>2, <2>1
  <2>3. ~Doubted(d)'
    BY <2>1, <2>2 DEF Doubted, Row
  <2> QED
    BY <1>0, <2>2, <2>3, Following DEF ExecDoubts, SurePlaces, TearingDown
<1> QED
  BY <1>1, <1>2 DEF Accept, Write, Worker

LEMMA FinishDoubts ==
  ASSUME Inv, Finish("worker"), NEW d, d = Worker.dep
  PROVE  ExecDoubts(d)
<1>0. /\ Worker.pc = "finish" /\ Typed /\ "worker" \in Actors
      /\ dep \in [Deployments -> Row \cup {NoRow}]
      /\ Goto("worker", "succeed") \/ Abort("worker", "failed")
  BY DEF Finish, Worker, Actors, Inv, LifecycleInv, Typed, TypeOK
<1>1. CASE UNCHANGED dep
  BY <1>0, <1>1, StandingDoubts DEF SurePlaces, TearingDown, Submitting
<1>2. CASE Exists(d) /\ dep' = [dep EXCEPT ![d].status = "live", ![d].origin = ""]
  <2>0. d \in Deployments /\ dep[d] \in Row
    BY <1>0, <1>2 DEF Exists
  <2>1. dep' = [dep EXCEPT ![d] = [dep[d] EXCEPT !.status = "live", !.origin = ""]]
    BY <1>0, <1>2, <2>0
  <2>2. /\ dep'[d] = [dep[d] EXCEPT !.status = "live", !.origin = ""]
        /\ \A e \in Deployments \ {d} : dep'[e] = dep[e]
    BY <1>0, <2>0, <2>1
  <2>3. dep'[d].identity = dep[d].identity /\ dep'[d].status = "live"
    BY <2>0, <2>2 DEF Row
  <2>4. Doubted(d)' => Doubted(d)
    BY <1>2, <2>3 DEF Doubted
  <2> QED
    BY <1>0, <2>2, <2>3, <2>4, Following DEF ExecDoubts, SurePlaces, TearingDown, Submitting
<1> QED
  BY <1>1, <1>2 DEF Finish, Worker

LEMMA BootDoubts ==
  ASSUME Attended, Inv, Boot("worker"), NEW d, d = Worker.dep
  PROVE  ExecDoubts(d) /\ UNCHANGED job
<1>1. ~(Exists(d) /\ dep[d].post)
  BY DEF Attended, Inv, OwnershipInv, WaitsApart, Exists
<1>2. /\ UNCHANGED <<dep, job>> /\ Worker.pc = "boot"
      /\ \/ Goto("worker", "ansible") \/ Goto("worker", "finish")
         \/ Abort("worker", "failed") \/ Abort("worker", "canceled")
  BY <1>1 DEF Boot, Worker
<1> QED
  BY <1>2, StandingDoubts DEF SurePlaces, TearingDown, Submitting

LEMMA ExecuteDoubts ==
  ASSUME Attended, Inv, WorkingInv, DoubtsInv, Execute("worker"), ~Succeed("worker")
  PROVE  DoubtsInv'
<1> SUFFICES ASSUME NEW d, d = Worker.dep
             PROVE  DoubtsInv'
  OBVIOUS
<1>0. Typed /\ "worker" \in Actors /\ UNCHANGED request /\ Worker.pc \in ExecPlaces /\ ~Close("worker")
  BY DEF Inv, LifecycleInv, Actors, Execute, Load, Stop, Destroy, RecordDestroy, Erase, Confirm, Drop, Pick,
         Prepare, Create, Accept, Record, Import, Setup, Boot, Ansible, Finish, Succeed, ExecPlaces, Worker, Close
<1>1. ExecDoubts(d)
  BY LoadDoubts, StopDoubts, PlainDoubts, DropDoubts, PickDoubts, PrepareDoubts, CreateDoubts,
     AcceptDoubts, FinishDoubts, BootDoubts DEF Execute
<1>2. Unmoved
  BY <1>0, StepMoves, BootDoubts DEF Moves, Unmoved
<1>3. \A j \in JobIds \ {Worker.job} : job'[j] = job[j]
  <2>1. job \in [JobIds -> JobRow]
    BY <1>0 DEF Typed, TypeOK
  <2>2. \/ UNCHANGED job
        \/ \E x : job' = [job EXCEPT ![Worker.job].remote = x] \/ job' = [job EXCEPT ![Worker.job].create = x]
    BY BootDoubts DEF Execute, Load, Stop, Destroy, RecordDestroy, Erase, Confirm, Drop, Pick,
         Prepare, Create, Accept, Record, Import, Setup, Ansible, Finish, OtherTaskOk, OtherTaskAborts, tables, Worker
  <2> QED
    BY <2>1, <2>2
<1> QED
  BY <1>0, <1>1, <1>2, <1>3, RunningDoubts

--------------------------------------------------------------------------------
(* The worker reconciles                                                      *)

LEMMA RetainDoubts ==
  ASSUME Inv, WorkingInv, DoubtsInv, Unmoved, Retain("worker")
  PROVE  DoubtsInv'
<1> SUFFICES ASSUME NEW d, d = Worker.dep
             PROVE  DoubtsInv'
  OBVIOUS
<1>0. /\ Worker.pc = "retain" /\ Typed /\ "worker" \in Actors /\ UNCHANGED <<job, request>>
      /\ dep \in [Deployments -> Row \cup {NoRow}]
      /\ Goto("worker", "close") \/ Goto("worker", "read")
  BY DEF Retain, Worker, Actors, Inv, LifecycleInv, Typed, TypeOK
<1>1. /\ Worker'.dep = Worker.dep /\ Worker'.job = Worker.job /\ Worker'.out = Worker.out
      /\ Worker'.kind = Worker.kind /\ Worker'.pc \in {"close", "read"}
  BY <1>0, PlacingFollows DEF Worker
<1>2. TornOccupied'
  BY <1>1 DEF TornOccupied, TearingDown
<1>3. CASE Goto("worker", "close") /\ Exists(d) /\ job[Worker.job].remote # ""
           /\ dep' = [dep EXCEPT ![d].identity = "submitting", ![d].status = "error"]
  <2>1. d \in Deployments /\ dep[d] \in Row
    BY <1>0, <1>3 DEF Exists
  <2>2. dep' = [dep EXCEPT ![d] = [dep[d] EXCEPT !.identity = "submitting", !.status = "error"]]
    BY <1>0, <1>3, <2>1
  <2>3. /\ dep'[d] = [dep[d] EXCEPT !.identity = "submitting", !.status = "error"]
        /\ \A e \in Deployments \ {d} : dep'[e] = dep[e]
    BY <1>0, <2>1, <2>2
  <2>4. dep'[d].status = "error"
    BY <2>1, <2>3 DEF Row
  <2>5. Worker'.pc = "close"
    BY <1>0, <1>3, PlacingFollows DEF Worker
  <2>6. Occupied
    BY <1>0, <1>3 DEF DoubtsInv, EndedUnsent, Occupied
  <2>7. EndedUnsent'
    BY <2>5 DEF EndedUnsent
  <2> QED
    BY <1>0, <1>1, <1>2, <2>3, <2>4, <2>5, <2>6, <2>7, DoubtsGoOn DEF SurePlaces, TearingDown
<1>4. CASE Goto("worker", "read") /\ UNCHANGED dep
  <2>1. Worker'.pc = "read"
    BY <1>0, <1>4, PlacingFollows DEF Worker
  <2>2. EndedUnsent'
    BY <1>0, <1>1, <1>4, <2>1 DEF DoubtsInv, EndedUnsent, VmidOf, Exists
  <2>3. Doubted(d)' => Doubted(d)
    BY <1>4 DEF Doubted, Exists
  <2> QED
    BY <1>0, <1>1, <1>2, <1>4, <2>1, <2>2, <2>3, DoubtsGoOn DEF SurePlaces, TearingDown
<1> QED
  BY <1>3, <1>4 DEF Retain, Worker

LEMMA ReadDoubts ==
  ASSUME Inv, WorkingInv, DoubtsInv, Unmoved, Read("worker")
  PROVE  DoubtsInv'
<1> SUFFICES ASSUME NEW d, d = Worker.dep
             PROVE  DoubtsInv'
  OBVIOUS
<1>0. /\ Worker.pc = "read" /\ Typed /\ "worker" \in Actors /\ UNCHANGED <<job, request>>
      /\ dep \in [Deployments -> Row \cup {NoRow}] /\ at \in [Actors -> Local] /\ at["worker"] \in Local
  BY DEF Read, Worker, Actors, Inv, LifecycleInv, Typed, TypeOK
<1>2. ASSUME Goto("worker", "close"), \/ UNCHANGED dep /\ ~Exists(d)
                                      \/ Exists(d) /\ dep' = [dep EXCEPT ![d].status = "error"]
      PROVE  DoubtsInv'
  <2>1. /\ Worker'.dep = Worker.dep /\ Worker'.job = Worker.job /\ Worker'.out = Worker.out
        /\ Worker'.pc = "close"
    BY <1>0, <1>2, PlacingFollows DEF Worker
  <2>2. /\ \A e \in Deployments \ {d} : dep'[e] = dep[e]
        /\ Doubted(d)' => Doubted(d) /\ dep'[d].status = "error"
    <3>1. CASE UNCHANGED dep /\ ~Exists(d)
      BY <3>1 DEF Doubted, Exists
    <3>2. CASE Exists(d) /\ dep' = [dep EXCEPT ![d].status = "error"]
      <4>1. d \in Deployments /\ dep[d] \in Row
        BY <1>0, <3>2 DEF Exists
      <4>2. dep' = [dep EXCEPT ![d] = [dep[d] EXCEPT !.status = "error"]]
        BY <1>0, <3>2, <4>1
      <4>3. /\ dep'[d] = [dep[d] EXCEPT !.status = "error"]
            /\ \A e \in Deployments \ {d} : dep'[e] = dep[e]
        BY <1>0, <4>1, <4>2
      <4>4. dep'[d].status = "error" /\ dep'[d].identity = dep[d].identity
        BY <4>1, <4>3 DEF Row
      <4> QED
        BY <3>2, <4>3, <4>4 DEF Doubted
    <3> QED
      BY <1>2, <3>1, <3>2
  <2>3. EndedUnsent' /\ TornOccupied'
    BY <2>1 DEF EndedUnsent, TornOccupied, TearingDown
  <2> QED
    BY <1>0, <2>1, <2>2, <2>3, DoubtsGoOn DEF SurePlaces, TearingDown
<1>3. CASE /\ Exists(d) /\ ~Doubted(d) /\ UNCHANGED dep
           /\ at' = [at EXCEPT
                !["worker"].vmid = dep[d].vmid,
                !["worker"].pc = IF at["worker"].kind = "deploy" /\ at["worker"].out = "canceled" /\ dep[d].vmid # NoVmid
                                   THEN "tearDown" ELSE "probe"]
  <2>0. PICK v, p : /\ v = dep[d].vmid
                    /\ p = IF at["worker"].kind = "deploy" /\ at["worker"].out = "canceled" /\ dep[d].vmid # NoVmid
                             THEN "tearDown" ELSE "probe"
    OBVIOUS
  <2>1. /\ v = dep[d].vmid /\ p \in {"tearDown", "probe"}
        /\ p = "tearDown" => Worker.kind = "deploy" /\ v # NoVmid
        /\ at' = [at EXCEPT !["worker"] = [at["worker"] EXCEPT !.vmid = v, !.pc = p]]
    <3>1. at' = [at EXCEPT !["worker"].vmid = v, !["worker"].pc = p]
      BY <1>3, <2>0
    <3> QED
      BY <1>0, <2>0, <3>1 DEF Worker
  <2>2. Worker' = [at["worker"] EXCEPT !.vmid = v, !.pc = p]
    BY <1>0, <2>1 DEF Worker
  <2>3. /\ Worker'.pc = p /\ Worker'.dep = Worker.dep /\ Worker'.job = Worker.job
        /\ Worker'.out = Worker.out
    BY <1>0, <2>2 DEF Local, Worker
  <2>4. ~Doubted(d)'
    BY <1>3 DEF Doubted, Exists
  <2>5. EndedUnsent'
    BY <2>1, <2>3 DEF EndedUnsent
  <2>6. TornOccupied'
    <3> SUFFICES ASSUME p = "tearDown"
                 PROVE  Occupied' /\ Worker'.dep \in Deployments
      BY <2>1, <2>3 DEF TornOccupied, TearingDown
    <3>1. Worker.job \in JobIds /\ job[Worker.job].status = "running"
      BY <1>0, <1>3, <2>1 DEF DoubtsInv, EndedUnsent, VmidOf
    <3> QED
      BY <1>0, <1>3, <2>3, <3>1 DEF Occupied, Exists
  <2> QED
    BY <1>0, <1>3, <2>3, <2>4, <2>5, <2>6, DoubtsGoOn
<1> QED
  BY <1>2, <1>3 DEF Read, Worker, Doubted

\* The one deployment that is torn down is the worker's.
LEMMA TornOwn ==
  ASSUME Attended, Inv, WorkingInv, DoubtsInv, Worker.pc \in TearingDown
  PROVE  Deployments = {Worker.dep}
<1>1. "cancel" \in Ops
  BY DEF WorkingInv, CanceledOnly, Actors, Worker
<1>2. Worker.dep \in Deployments
  BY DEF DoubtsInv, TornOccupied
<1> QED
  BY <1>1, <1>2, Ids DEF Attended, Deployments

LEMMA TearingDoubts ==
  ASSUME Attended, Inv, WorkingInv, DoubtsInv, Unmoved, TearDown("worker") \/ TearDownWait("worker")
  PROVE  DoubtsInv'
<1> SUFFICES ASSUME NEW d, d = Worker.dep
             PROVE  DoubtsInv'
  OBVIOUS
<1>0. /\ Worker.pc \in TearingDown /\ Typed /\ "worker" \in Actors /\ UNCHANGED request
      /\ dep \in [Deployments -> Row \cup {NoRow}] /\ job \in [JobIds -> JobRow]
  BY DEF TearDown, TearDownWait, TearingDown, Worker, Actors, Inv, LifecycleInv, Typed, TypeOK
<1>1. Deployments = {d} /\ Occupied
  BY <1>0, TornOwn DEF DoubtsInv, TornOccupied
<1>2. \A j \in JobIds : job[j].status = "queued" => job'[j] = job[j]
  <2>1. UNCHANGED job \/ \E e \in Deployments, j \in JobIds : \E k : IsLatest(j, e) /\ job' = [job EXCEPT ![j].remote = k]
    BY DEF TearDown, TearDownWait, FirstNaming
  <2>2. ASSUME NEW j \in JobIds, NEW k, job[j].dep = d, job' = [job EXCEPT ![j].remote = k]
        PROVE  \A i \in JobIds : job[i].status = "queued" => job'[i] = job[i]
    BY <1>0, <1>1, <2>2, OccupiedAlone
  <2> QED
    BY <1>1, <2>1, <2>2 DEF IsLatest
<1>3. \/ UNCHANGED dep /\ (\/ Goto("worker", "probe") \/ Goto("worker", "close")
                           \/ \E t : GotoAwaiting("worker", "tearDownWait", t))
      \/ TearDownUnconfirmed("worker")
  BY DEF TearDown, TearDownWait
<1>4. \A e \in Deployments \ {d} : dep'[e] = dep[e]
  BY <1>1
<1>5. CASE UNCHANGED dep /\ (\/ Goto("worker", "probe") \/ Goto("worker", "close")
                             \/ \E t : GotoAwaiting("worker", "tearDownWait", t))
  <2>1. /\ Worker'.dep = Worker.dep /\ Worker'.job = Worker.job /\ Worker'.out = Worker.out
        /\ Worker'.pc \in {"probe", "close", "tearDownWait"}
    BY <1>0, <1>5, PlacingFollows DEF Worker
  <2>2. ~Doubted(d)'
    BY <1>0, <1>5 DEF DoubtsInv, WorkSure, SurePlaces, Doubted, Exists
  <2>3. EndedUnsent'
    BY <2>1 DEF EndedUnsent
  <2>4. TornOccupied'
    <3>1. Worker.job \in JobIds => job'[Worker.job].status = job[Worker.job].status
      BY DEF Unmoved
    <3> QED
      BY <1>1, <2>1, <3>1 DEF TornOccupied, Occupied
  <2> QED
    BY <1>0, <1>2, <1>4, <2>1, <2>2, <2>3, <2>4, DoubtsGoOn
<1>6. CASE TearDownUnconfirmed("worker")
  <2>1. /\ Worker'.dep = Worker.dep /\ Worker'.job = Worker.job /\ Worker'.out = Worker.out
        /\ Worker'.pc = "close"
    BY <1>0, <1>6, PlacingFollows DEF Worker, TearDownUnconfirmed
  <2>2. Doubted(d)' => dep'[d].status # "cleanup_pending"
    <3>1. ~Doubted(d)
      BY <1>0 DEF DoubtsInv, WorkSure, SurePlaces
    <3>2. CASE dep'[d] = dep[d]
      BY <3>1, <3>2 DEF Doubted, Exists
    <3>3. CASE Exists(d) /\ dep'[d] = [dep[d] EXCEPT !.identity = "submitting", !.status = "error"]
      <4>1. dep[d] \in Row
        BY <1>0, <3>3 DEF Exists
      <4> QED
        BY <3>3, <4>1 DEF Row
    <3>4. ASSUME d \in FirstNaming(at["worker"].vmid)
          PROVE  Exists(d)
      <4>1. at["worker"].vmid \in Vmids
        BY <1>0, LocalsTyped DEF VmPlaces, TearingDown, Worker
      <4> QED
        BY <1>0, <3>4, <4>1, OwnerExists DEF FirstNaming, NamesVm
    <3> QED
      BY <1>1, <1>6, <3>2, <3>3, <3>4 DEF TearDownUnconfirmed
  <2>3. EndedUnsent' /\ TornOccupied'
    BY <2>1 DEF EndedUnsent, TornOccupied, TearingDown
  <2> QED
    BY <1>0, <1>1, <1>2, <1>4, <2>1, <2>2, <2>3, DoubtsGoOn DEF SurePlaces, TearingDown
<1> QED
  BY <1>3, <1>5, <1>6

LEMMA ProbeDoubts ==
  ASSUME Inv, WorkingInv, DoubtsInv, Unmoved, Probe("worker")
  PROVE  DoubtsInv'
<1> SUFFICES ASSUME NEW d, d = Worker.dep
             PROVE  DoubtsInv'
  OBVIOUS
<1>0. /\ Worker.pc = "probe" /\ UNCHANGED <<dep, job, request>> /\ "worker" \in Actors
      /\ at \in [Actors -> Local] /\ at["worker"] \in Local
  BY DEF Probe, tables, Worker, Actors, Inv, LifecycleInv, Typed, TypeOK
<1>1. PICK s : at' = [at EXCEPT !["worker"] = [at["worker"] EXCEPT !.seen = s, !.pc = "apply"]]
  BY <1>0 DEF Probe
<1>2. Worker' = [at["worker"] EXCEPT !.seen = s, !.pc = "apply"]
  BY <1>0, <1>1 DEF Worker
<1>3. /\ Worker'.pc = "apply" /\ Worker'.dep = Worker.dep /\ Worker'.out = Worker.out
      /\ Worker'.job = Worker.job
  BY <1>0, <1>2 DEF Local, Worker
<1>4. ~Doubted(d)'
  BY <1>0 DEF DoubtsInv, WorkSure, SurePlaces, Doubted, Exists
<1>5. EndedUnsent' /\ TornOccupied'
  BY <1>3 DEF EndedUnsent, TornOccupied, TearingDown
<1> QED
  BY <1>0, <1>3, <1>4, <1>5, DoubtsGoOn

\* The verdict raises no doubts.
LEMMA VerdictDoubts ==
  ASSUME Inv, NEW a \in Actors, Apply(a), NEW d, d = at[a].dep
  PROVE  Doubted(d)' => Doubted(d)
<1>0. dep \in [Deployments -> Row \cup {NoRow}]
  BY DEF Inv, LifecycleInv, Typed, TypeOK
<1>1. CASE UNCHANGED dep
  BY <1>1 DEF Doubted, Exists
<1>2. CASE dep' = [dep EXCEPT ![d] = NoRow]
  BY <1>0, <1>2 DEF Doubted, Exists
<1>3. ASSUME Exists(d), NEW s \in Outcomes, NEW o \in Origins \cup {dep[d].origin},
             dep' = [dep EXCEPT ![d].status = s, ![d].origin = o]
      PROVE  Doubted(d)' => Doubted(d)
  <2>1. d \in Deployments /\ dep[d] \in Row
    BY <1>0, <1>3 DEF Exists
  <2>2. dep' = [dep EXCEPT ![d] = [dep[d] EXCEPT !.status = s, !.origin = o]]
    BY <1>0, <1>3, <2>1
  <2>3. dep'[d] = [dep[d] EXCEPT !.status = s, !.origin = o]
    BY <1>0, <2>1, <2>2
  <2>4. dep'[d].identity = dep[d].identity
    BY <2>1, <2>3 DEF Row
  <2> QED
    BY <1>3, <2>4 DEF Doubted
<1> QED
  BY <1>1, <1>2, <1>3, ApplyRows

LEMMA ApplyDoubts ==
  ASSUME Inv, WorkingInv, DoubtsInv, Unmoved, Apply("worker")
  PROVE  DoubtsInv'
<1> SUFFICES ASSUME NEW d, d = Worker.dep
             PROVE  DoubtsInv'
  OBVIOUS
<1>0. /\ Worker.pc = "apply" /\ UNCHANGED <<job, request>> /\ "worker" \in Actors
      /\ at \in [Actors -> Local] /\ at["worker"] \in Local
      /\ dep \in [Deployments -> Row \cup {NoRow}]
      /\ at' = [at EXCEPT !["worker"] = [at["worker"] EXCEPT !.pc = "close"]]
  BY DEF Apply, Worker, Actors, Inv, LifecycleInv, Typed, TypeOK
<1>1. Worker' = [at["worker"] EXCEPT !.pc = "close"]
  BY <1>0 DEF Worker
<1>2. /\ Worker'.pc = "close" /\ Worker'.dep = Worker.dep /\ Worker'.out = Worker.out
      /\ Worker'.job = Worker.job
  BY <1>0, <1>1 DEF Local, Worker
<1>3. \A e \in Deployments \ {d} : dep'[e] = dep[e]
  BY <1>0, ApplyRows DEF Worker
<1>4. Doubted(d)' => Doubted(d)
  BY <1>0, VerdictDoubts DEF Worker
<1>5. ~Doubted(d)'
  BY <1>0, <1>4 DEF DoubtsInv, WorkSure, SurePlaces
<1>6. EndedUnsent' /\ TornOccupied'
  BY <1>2 DEF EndedUnsent, TornOccupied, TearingDown
<1> QED
  BY <1>0, <1>2, <1>3, <1>5, <1>6, DoubtsGoOn

\* The worker leaves its job.
LEMMA LeaveDoubts ==
  ASSUME Inv, WorkingInv, DoubtsInv, Succeed("worker") \/ Close("worker")
  PROVE  DoubtsInv'
<1>0. /\ Worker.pc \in {"succeed", "close"} /\ UNCHANGED <<dep, request>>
      /\ job \in [JobIds -> JobRow] /\ "worker" \in Actors /\ at \in [Actors -> Local]
      /\ Worker.job \in JobIds \cup {0}
  BY LocalsTyped DEF Succeed, Close, Worker, Actors, Inv, LifecycleInv, Typed, TypeOK, Local
<1>1. at' = [at EXCEPT !["worker"] = Idle]
  BY DEF Succeed, Close, Inv, OwnershipInv, Uncrashed
<1>2. /\ Worker'.pc = "idle" /\ Worker'.out = ""
  BY <1>0, <1>1 DEF Worker, Idle
<1>3. PICK st \in Terminal :
        \/ UNCHANGED job /\ \A j \in JobIds : job[j].status # "running"
        \/ Worker.job \in JobIds /\ job' = [job EXCEPT ![Worker.job].status = st]
  <2>1. CASE Succeed("worker")
    <3>1. Worker.job \in JobIds
      BY <2>1, LocalsTyped DEF Succeed, ExecPlaces, Inv, LifecycleInv, Actors, Worker
    <3> QED
      BY <2>1, <3>1 DEF Succeed, SetStatus, Worker, Terminal
  <2>2. CASE Close("worker")
    <3>1. Worker.job # 0 => Worker.out \in {"failed", "canceled"}
      BY <2>2, LocalsTyped DEF Close, ReconcilePlaces, Inv, LifecycleInv, Actors, Worker
    <3>2. CASE Worker.job # 0 /\ job[Worker.job].status = "running"
      BY <1>0, <2>2, <3>1, <3>2 DEF Close, Worker, Terminal
    <3>3. CASE ~(Worker.job # 0 /\ job[Worker.job].status = "running")
      BY <2>2, <3>3, Ids DEF Close, Worker, Terminal, DoubtsInv, RunningHeld
    <3> QED
      BY <3>2, <3>3
  <2> QED
    BY <2>1, <2>2
<1>9. \A j \in JobIds : /\ job'[j].status = "queued" => job'[j] = job[j]
                      /\ job'[j].status # "running"
  <2>1. CASE Worker.job \in JobIds /\ job' = [job EXCEPT ![Worker.job].status = st]
    <3>1. job'[Worker.job] = [job[Worker.job] EXCEPT !.status = st] /\ job[Worker.job] \in JobRow
      BY <1>0, <2>1
    <3>2. job'[Worker.job].status = st
      BY <3>1 DEF JobRow
    <3>3. \A j \in JobIds \ {Worker.job} : job'[j] = job[j] /\ job[j].status # "running"
      BY <1>0, <2>1 DEF DoubtsInv, RunningHeld
    <3> QED
      BY <2>1, <3>2, <3>3 DEF Terminal
  <2> QED
    BY <1>3, <2>1
<1>4. \A d : Doubted(d)' <=> Doubted(d)
  BY <1>0 DEF Doubted, Exists
<1>5. WorkSure' /\ EndedUnsent' /\ TornOccupied' /\ CleanupAlone'
  BY <1>2 DEF WorkSure, EndedUnsent, TornOccupied, CleanupAlone, SurePlaces, TearingDown
<1>6. RequestSure'
  BY <1>0 DEF DoubtsInv, RequestSure, Doubted, Exists
<1>7. QueuedSure'
  <2> SUFFICES ASSUME NEW j \in JobIds, job'[j].status = "queued"
               PROVE  job'[j].remote = "" /\ \A e : e = job'[j].dep => ~Doubted(e)'
    BY DEF QueuedSure, Doubted, Exists
  <2> QED
    BY <1>4, <1>9 DEF DoubtsInv, QueuedSure
<1>8. PendingSure'
  BY <1>0 DEF DoubtsInv, PendingSure, Submitting, Doubted, Exists
<1>10. RunningHeld'
  BY <1>9 DEF RunningHeld
<1> QED
  BY <1>5, <1>6, <1>7, <1>8, <1>10 DEF DoubtsInv

--------------------------------------------------------------------------------
(* The worker takes a job, or a cleanup                                       *)

\* An idle worker: no cleanup is pending in doubt.
LEMMA IdleSure ==
  ASSUME DoubtsInv, Worker.pc = "idle", NEW d \in Deployments, dep[d].status = "cleanup_pending"
  PROVE  ~Doubted(d)
BY DEF DoubtsInv, PendingSure, Submitting

LEMMA ClaimDoubts ==
  ASSUME Inv, WorkingInv, DoubtsInv, NEW j \in JobIds, Claim(j)
  PROVE  DoubtsInv'
<1>0. /\ "worker" \in Actors /\ job[j].status = "queued" /\ Worker.pc = "idle" /\ job[j] \in JobRow
      /\ UNCHANGED <<dep, request>> /\ at \in [Actors -> Local] /\ job \in [JobIds -> JobRow]
  BY DEF Actors, Claim, NextQueued, Inv, LifecycleInv, Typed, TypeOK, Worker
<1>1. PICK st \in {"canceled", "failed", "running"}, p \in {"retain", FirstPlace(job[j].type)},
           o \in {"", "failed", "canceled"} : SetStatus(j, st) /\ Start("worker", p, j, o)
  BY DEF Claim
<1>2. /\ Worker'.pc = p /\ Worker'.job = j /\ Worker'.dep = job[j].dep /\ Worker'.kind = job[j].type
      /\ Worker'.out # "cleanup"
  BY <1>0, <1>1 DEF Start, Idle, Worker
<1>3. p \in {"retain", "load", "pick"}
  BY <1>1 DEF FirstPlace
<1>4. /\ job'[j] = [job[j] EXCEPT !.status = st] /\ \A i \in JobIds \ {j} : job'[i] = job[i]
  BY <1>0, <1>1 DEF SetStatus
<1>5. job'[j].status = st /\ job'[j].remote = job[j].remote
  BY <1>0, <1>4 DEF JobRow
<1>6. \A d : Doubted(d)' <=> Doubted(d)
  BY <1>0 DEF Doubted, Exists
<1>7. ~Doubted(job[j].dep) /\ job[j].remote = ""
  BY <1>0 DEF DoubtsInv, QueuedSure
<1>8. WorkSure'
  BY <1>0, <1>2, <1>7 DEF WorkSure, Doubted, Exists
<1>9. RequestSure'
  BY <1>0 DEF DoubtsInv, RequestSure, Doubted, Exists
<1>10. QueuedSure'
  <2> SUFFICES ASSUME NEW i \in JobIds, job'[i].status = "queued"
               PROVE  job'[i].remote = "" /\ \A e : e = job'[i].dep => ~Doubted(e)'
    BY DEF QueuedSure, Doubted, Exists
  <2>1. i # j
    BY <1>5
  <2> QED
    BY <1>4, <1>6, <2>1 DEF DoubtsInv, QueuedSure
<1>11. PendingSure'
  BY <1>0 DEF DoubtsInv, PendingSure, Submitting, Doubted, Exists
<1>12. EndedUnsent'
  <2>1. job[j].type = "deploy" => VmidOf(job[j].dep) = NoVmid
    BY <1>0 DEF Inv, OwnershipInv, Unstarted
  <2>2. \A d : VmidOf(d)' = VmidOf(d)
    BY <1>0 DEF VmidOf, Exists
  <2>3. Worker'.kind = "deploy" => \A e : e = Worker'.dep => VmidOf(e)' = NoVmid
    BY <1>2, <2>1, <2>2
  <2>4. Worker'.kind = "deploy" => VmidOf(Worker.dep)' = NoVmid
    BY <2>3 DEF VmidOf, Exists
  <2> QED
    BY <1>2, <1>5, <1>7, <2>4 DEF EndedUnsent
<1>13. TornOccupied' /\ CleanupAlone'
  BY <1>2, <1>3 DEF TornOccupied, TearingDown, CleanupAlone
<1>14. RunningHeld'
  <2>1. Worker.job = 0
    BY <1>0 DEF Inv, OwnershipInv, LocalsAgree, Worker, Actors
  <2> QED
    BY <1>2, <1>4, <2>1, Ids DEF DoubtsInv, RunningHeld
<1> QED
  BY <1>8, <1>9, <1>10, <1>11, <1>12, <1>13, <1>14 DEF DoubtsInv

LEMMA RetryCleanupDoubts ==
  ASSUME Attended, Inv, WorkingInv, DoubtsInv, NEW d \in Deployments, RetryCleanup(d)
  PROVE  DoubtsInv'
<1>0. /\ "worker" \in Actors /\ at \in [Actors -> Local] /\ Worker.pc = "idle"
      /\ UNCHANGED <<dep, job, request>>
      /\ dep[d].status = "cleanup_pending" /\ \A j \in JobIds : job[j].status # "queued"
  BY DEF Actors, RetryCleanup, Inv, LifecycleInv, Typed, TypeOK, tables, Worker
<1>1. /\ Worker'.dep = d /\ Worker'.out = "cleanup" /\ Worker'.pc \in {"tearDown", "probe"}
  BY <1>0 DEF RetryCleanup, Idle, Worker
<1>2. ~Doubted(d)
  BY <1>0, IdleSure
<1>3. WorkSure' /\ RequestSure' /\ QueuedSure' /\ PendingSure'
  BY <1>0, <1>1, <1>2 DEF DoubtsInv, WorkSure, RequestSure, QueuedSure, PendingSure, Submitting, Doubted, Exists
<1>4. EndedUnsent' /\ TornOccupied'
  BY <1>1 DEF EndedUnsent, TornOccupied, Occupied
<1>5. \A j \in JobIds : job[j].status # "running"
  <2>1. Worker.job = 0
    BY <1>0 DEF Inv, OwnershipInv, LocalsAgree, Worker, Actors
  <2> QED
    BY <2>1, Ids DEF DoubtsInv, RunningHeld
<1>6. CleanupAlone'
  <2>1. \A j \in JobIds : ~JobActive(j)
    BY <1>0, <1>5 DEF JobActive, ActiveStatuses, Attended, Inv, OwnershipInv, WaitsApart
  <2> QED
    BY <1>0, <2>1 DEF CleanupAlone, Active, JobActive
<1>7. RunningHeld'
  BY <1>0, <1>5 DEF RunningHeld
<1> QED
  BY <1>3, <1>4, <1>6, <1>7 DEF DoubtsInv

--------------------------------------------------------------------------------
(* The worker stands still                                                    *)

LEMMA RestDoubts ==
  ASSUME DoubtsInv, UNCHANGED at,
         \A j \in JobIds :
           job'[j].status = job[j].status /\ job'[j].dep = job[j].dep /\ job'[j].remote = job[j].remote,
         \A d : Doubted(d)' => Doubted(d),
         \A d \in Deployments : dep'[d].status = "cleanup_pending" => dep[d].status = "cleanup_pending",
         \A d : VmidOf(d)' = VmidOf(d), RequestSure'
  PROVE  DoubtsInv'
<1>1. WorkSure' /\ PendingSure'
  <2>1. \A d : ~Doubted(d) => ~Doubted(d)'
    OBVIOUS
  <2>2. Worker' = Worker
    BY DEF Worker
  <2>3. \A d : d = Worker.dep => (Doubted(Worker.dep)' <=> Doubted(d)')
    BY DEF Doubted, Exists, Worker
  <2>4. WorkSure'
    BY <2>1, <2>2, <2>3 DEF DoubtsInv, WorkSure
  <2>5. PendingSure'
    <3> SUFFICES ASSUME NEW d \in Deployments, Doubted(d)', dep'[d].status = "cleanup_pending"
                 PROVE  Worker.dep = d /\ Worker.pc \in Submitting \cup {"retain", "read"}
      BY <2>2 DEF PendingSure, Doubted, Exists
    <3> QED
      BY DEF DoubtsInv, PendingSure
  <2> QED
    BY <2>4, <2>5
<1>2. QueuedSure'
  <2> SUFFICES ASSUME NEW j \in JobIds, job'[j].status = "queued"
               PROVE  job'[j].remote = "" /\ \A e : e = job'[j].dep => ~Doubted(e)'
    BY DEF QueuedSure, Doubted, Exists
  <2> QED
    BY DEF DoubtsInv, QueuedSure
<1>3. EndedUnsent'
  <2>1. \A d : d = Worker.dep => VmidOf(Worker.dep)' = VmidOf(d)'
    BY DEF VmidOf, Exists, Worker
  <2>2. VmidOf(Worker.dep)' = VmidOf(Worker.dep)
    BY <2>1
  <2> QED
    BY <2>2 DEF DoubtsInv, EndedUnsent, Worker
<1>4. TornOccupied' /\ RunningHeld'
  BY DEF DoubtsInv, TornOccupied, Occupied, RunningHeld, Worker
<1>5. CleanupAlone'
  BY DEF DoubtsInv, CleanupAlone, Active, JobActive, Worker
<1> QED
  BY <1>1, <1>2, <1>3, <1>4, <1>5 DEF DoubtsInv

LEMMA QuietDoubts ==
  ASSUME Inv, DoubtsInv,
         \/ ClusterNext \/ RefuseRequest \/ ToggleDisabled \/ UNCHANGED vars
         \/ \E d \in Deployments, op \in RequestOps : BeginRequest(op, d)
         \/ \E j \in JobIds : Cancel(j)
  PROVE  DoubtsInv'
<1>1. UNCHANGED <<dep, at>>
  BY DEF ClusterNext, TaskStops, ForeignVm, RefuseRequest, ToggleDisabled, BeginRequest, Cancel, tables,
         control, vars
<1>2. \A j \in JobIds :
        job'[j].status = job[j].status /\ job'[j].dep = job[j].dep /\ job'[j].remote = job[j].remote
  <2>1. CASE UNCHANGED job
    BY <2>1
  <2>2. CASE \E k \in JobIds : Cancel(k)
    <3>1. PICK k \in JobIds : job' = [job EXCEPT ![k].cancel = TRUE]
      BY <2>2 DEF Cancel
    <3>2. job \in [JobIds -> JobRow]
      BY DEF Inv, LifecycleInv, Typed, TypeOK
    <3> SUFFICES ASSUME NEW j \in JobIds
                 PROVE  job'[j].status = job[j].status /\ job'[j].dep = job[j].dep
                        /\ job'[j].remote = job[j].remote
      OBVIOUS
    <3>3. job[j] \in JobRow /\ (job'[j] = job[j] \/ job'[j] = [job[j] EXCEPT !.cancel = TRUE])
      BY <3>1, <3>2
    <3> QED
      BY <3>3 DEF JobRow
  <2> QED
    BY <2>1, <2>2 DEF ClusterNext, TaskStops, ForeignVm, RefuseRequest, ToggleDisabled, BeginRequest,
                      tables, vars
<1>3. \A d : (Doubted(d)' <=> Doubted(d)) /\ VmidOf(d)' = VmidOf(d)
  BY <1>1 DEF Doubted, VmidOf, Exists
<1>4. RequestSure'
  <2>1. CASE request' \in {request, NoRequest}
    BY <1>1, <2>1 DEF DoubtsInv, RequestSure, Doubted, Exists
  <2>2. ASSUME NEW d \in Deployments, NEW op \in RequestOps, BeginRequest(op, d)
        PROVE  RequestSure'
    <3>1. request'.dep = d /\ dep[d].identity # "submitting"
      BY <2>2 DEF BeginRequest, RowAllows, NotPending, RequestOps
    <3>2. ~Doubted(d)
      BY <3>1 DEF Doubted
    <3> QED
      BY <1>1, <3>1, <3>2 DEF RequestSure, Doubted, Exists
  <2> QED
    BY <2>1, <2>2 DEF ClusterNext, TaskStops, ForeignVm, RefuseRequest, ToggleDisabled, Cancel, control, vars
<1> QED
  BY <1>1, <1>2, <1>3, <1>4, RestDoubts

LEMMA ReconcileDoubts ==
  ASSUME Inv, DoubtsInv, NEW d \in Deployments, Reconcile(d)
  PROVE  DoubtsInv'
<1>0. /\ job \in [JobIds -> JobRow] /\ UNCHANGED <<at, request>>
      /\ dep \in [Deployments -> Row \cup {NoRow}] /\ Exists(d) /\ dep[d] \in Row
  BY DEF Inv, LifecycleInv, Typed, TypeOK, Reconcile, control, MayStart, Exists
<1>1. \A j \in JobIds : /\ job'[j].status = job[j].status /\ job'[j].dep = job[j].dep
                        /\ job'[j].remote = job[j].remote
  <2> SUFFICES ASSUME NEW j \in JobIds
               PROVE  job'[j].status = job[j].status /\ job'[j].dep = job[j].dep
                      /\ job'[j].remote = job[j].remote
    OBVIOUS
  <2>1. job[j] \in JobRow /\ (job'[j] = job[j] \/ job'[j] = [job[j] EXCEPT !.create = "accepted"])
    BY <1>0 DEF Reconcile
  <2> QED
    BY <2>1 DEF JobRow
<1>2. PICK row : /\ row \in {dep[d], [dep[d] EXCEPT !.status = "error", !.origin = ""]}
                 /\ \/ dep' = [dep EXCEPT ![d] = row]
                    \/ dep' = [dep EXCEPT ![d] = [row EXCEPT !.identity = "accepted"]]
  BY DEF Reconcile
<1>3. /\ row \in Row /\ row.vmid = dep[d].vmid /\ row.identity = dep[d].identity
      /\ row.status \in {dep[d].status, "error"}
  BY <1>0, <1>2 DEF Row
<1>4. /\ dep'[d] \in {row, [row EXCEPT !.identity = "accepted"]}
      /\ \A e \in Deployments \ {d} : dep'[e] = dep[e]
  BY <1>0, <1>2
<1>5. /\ dep'[d].vmid = dep[d].vmid /\ dep'[d].identity \in {dep[d].identity, "accepted"}
      /\ dep'[d].status \in {dep[d].status, "error"}
  BY <1>3, <1>4 DEF Row
<1>9. dep'[d] \in Row
  <2>1. [row EXCEPT !.identity = "accepted"] \in Row
    BY <1>3 DEF Row, IdentityStates
  <2> QED
    BY <1>3, <1>4, <2>1
<1>6. \A e : (Doubted(e)' => Doubted(e)) /\ VmidOf(e)' = VmidOf(e)
  BY <1>0, <1>4, <1>5, <1>9, NoRowIsNoRow DEF Doubted, VmidOf, Exists
<1>7. RequestSure'
  <2>1. \A e : e = request.dep => (Doubted(request.dep)' <=> Doubted(e)')
    BY <1>0 DEF Doubted, Exists
  <2> QED
    BY <1>0, <1>6, <2>1 DEF DoubtsInv, RequestSure
<1>8. \A e \in Deployments : dep'[e].status = "cleanup_pending" => dep[e].status = "cleanup_pending"
  BY <1>4, <1>5
<1> QED
  BY <1>0, <1>1, <1>6, <1>7, <1>8, RestDoubts

\* A job is admitted for a deployment without doubts.
LEMMA AdmitDoubts ==
  ASSUME Inv, DoubtsInv, NEW j \in JobIds, NEW type, NEW d \in Deployments, NEW c, NEW i,
         FreshJob(j), Insert(j, type, d, c, i), at' = at, request' = NoRequest,
         \A e \in Deployments \ {d} : dep'[e] = dep[e], ~Doubted(d)',
         Worker.dep = d => VmidOf(d)' = VmidOf(d), Worker.out = "cleanup" => Worker.dep # d
  PROVE  DoubtsInv'
<1>0. job \in [JobIds -> JobRow] /\ Worker' = Worker
  BY DEF Inv, LifecycleInv, Typed, TypeOK, Worker
<1>1. /\ job'[j].dep = d /\ job'[j].status = "queued" /\ job[j].status = "unused" /\ job[j].dep = 0
      /\ \A k \in JobIds \ {j} : job'[k] = job[k]
  BY Inserted
<1>2. job'[j].remote = ""
  BY <1>0 DEF Insert, Unused
<1>3. Worker.job \in JobIds => Worker.job # j
  BY <1>1, Ids, HeldJobs DEF Terminal, Worker, Actors
<1>4. \A e : Doubted(e)' => Doubted(e) /\ e # d
  BY DEF Doubted, Exists
<1>5. WorkSure' /\ RequestSure'
  <2>1. \A e : e = Worker.dep => (Doubted(Worker.dep)' <=> Doubted(e)')
    BY <1>0 DEF Doubted, Exists
  <2> QED
    BY <1>0, <1>4, <2>1 DEF DoubtsInv, WorkSure, RequestSure
<1>6. QueuedSure'
  <2> SUFFICES ASSUME NEW k \in JobIds, job'[k].status = "queued"
               PROVE  job'[k].remote = "" /\ \A e : e = job'[k].dep => ~Doubted(e)'
    BY DEF QueuedSure, Doubted, Exists
  <2> QED
    BY <1>1, <1>2, <1>4 DEF DoubtsInv, QueuedSure
<1>7. PendingSure'
  <2> SUFFICES ASSUME NEW e \in Deployments, Doubted(e)', dep'[e].status = "cleanup_pending"
               PROVE  Worker.dep = e /\ Worker.pc \in Submitting \cup {"retain", "read"}
    BY <1>0 DEF PendingSure, Doubted, Exists
  <2> QED
    BY <1>4 DEF DoubtsInv, PendingSure
<1>8. EndedUnsent'
  <2>1. VmidOf(Worker.dep)' = VmidOf(Worker.dep)
    BY <1>0 DEF VmidOf, Exists
  <2> QED
    BY <1>0, <1>1, <1>3, <2>1 DEF DoubtsInv, EndedUnsent
<1>9. TornOccupied' /\ RunningHeld'
  BY <1>0, <1>1, <1>3 DEF DoubtsInv, TornOccupied, Occupied, RunningHeld
<1>10. CleanupAlone'
  BY <1>0, <1>1 DEF DoubtsInv, CleanupAlone, Active, JobActive
<1> QED
  BY <1>5, <1>6, <1>7, <1>8, <1>9, <1>10 DEF DoubtsInv

LEMMA DeployDoubts ==
  ASSUME Inv, DoubtsInv, Deploy
  PROVE  DoubtsInv'
<1>1. PICK d \in Deployments, j \in JobIds, i \in Ips \cup {NoIp}, post \in BOOLEAN :
        /\ FreshDeployment(d) /\ FreshJob(j)
        /\ dep' = [dep EXCEPT ![d] = [status |-> "working", vmid |-> NoVmid, identity |-> "",
                                      origin |-> "", ip |-> i, post |-> post]]
        /\ Insert(j, "deploy", d, "", i)
  BY AllocatedTyped, ConstantsTyped DEF Deploy, ConstantsTyped
<1>2. dep \in [Deployments -> Row \cup {NoRow}] /\ d # 0 /\ d \in Nat
  BY Ids DEF Inv, LifecycleInv, Typed, TypeOK
<1>3. dep'[d].identity = "" /\ \A e \in Deployments \ {d} : dep'[e] = dep[e]
  BY <1>1, <1>2
<1>4. ~Known(d)
  <2>1. d >= d
    BY <1>2
  <2> QED
    BY <1>1, <2>1 DEF FreshDeployment, Known
<1>5. Worker.dep # d
  BY <1>2, <1>4 DEF Inv, OwnershipInv, LocalsAgree, Worker, Actors
<1>6. ~Doubted(d)'
  BY <1>3 DEF Doubted
<1>7. at' = at /\ request' = NoRequest
  BY DEF Deploy, control
<1> QED
  BY <1>1, <1>3, <1>5, <1>6, <1>7, AdmitDoubts

LEMMA FinishRequestDoubts ==
  ASSUME Inv, WorkingInv, DoubtsInv, FinishRequest
  PROVE  DoubtsInv'
<1> SUFFICES ASSUME NEW d, d = request.dep, NEW op, op = request.op
             PROVE  DoubtsInv'
  OBVIOUS
<1>1. PICK j \in JobIds, i \in ContextIps(op, d) :
        /\ FreshJob(j)
        /\ Insert(j, JobType(op), d, IF op = "configure" THEN "accepted" ELSE "", i)
  BY DEF FinishRequest
<1>2. /\ dep \in [Deployments -> Row \cup {NoRow}] /\ d \in Deployments
      /\ at' = at /\ request' = NoRequest /\ request # NoRequest
  BY DEF FinishRequest, Inv, LifecycleInv, Typed, TypeOK
<1>3. (Worker.out = "cleanup" => Worker.dep # d) /\ ~Doubted(d)
  BY <1>2 DEF WorkingInv, CleanupLocked, DoubtsInv, RequestSure
<1>4. CASE dep' = dep
  <2>1. ~Doubted(d)' /\ VmidOf(d)' = VmidOf(d)
    BY <1>3, <1>4 DEF Doubted, VmidOf, Exists
  <2> QED
    BY <1>1, <1>2, <1>3, <1>4, <2>1, AdmitDoubts
<1>5. CASE Exists(d) /\ \E s \in {dep[d].status, "working"}, o \in {dep[d].origin, ""} :
             dep' = [dep EXCEPT ![d] = [dep[d] EXCEPT !.status = s, !.origin = o]]
  <2>1. PICK s \in {dep[d].status, "working"}, o \in {dep[d].origin, ""} :
          dep' = [dep EXCEPT ![d] = [dep[d] EXCEPT !.status = s, !.origin = o]]
    BY <1>5
  <2>2. dep[d] \in Row
    BY <1>2, <1>5 DEF Exists
  <2>3. /\ dep'[d] = [dep[d] EXCEPT !.status = s, !.origin = o]
        /\ \A e \in Deployments \ {d} : dep'[e] = dep[e]
    BY <1>2, <2>1
  <2>4. dep'[d].vmid = dep[d].vmid /\ dep'[d].identity = dep[d].identity
    BY <2>2, <2>3 DEF Row
  <2>5. Exists(d)'
    <3>1. dep'[d] \in Row
      BY <2>2, <2>3 DEF Row
    <3> QED
      BY <1>2, <3>1, NoRowIsNoRow DEF Exists
  <2>6. ~Doubted(d)' /\ VmidOf(d)' = VmidOf(d)
    BY <1>3, <1>5, <2>4, <2>5 DEF Doubted, VmidOf
  <2> QED
    BY <1>1, <1>2, <1>3, <2>3, <2>6, AdmitDoubts
<1> QED
  <2>1. \E s \in {dep[d].status, "working"}, o \in {dep[d].origin, ""} :
          Write(d, [dep[d] EXCEPT !.status = s, !.origin = o])
    BY DEF FinishRequest
  <2> QED
    BY <1>4, <1>5, <2>1 DEF Write

--------------------------------------------------------------------------------
\* Without Ansible blocks the waiting thread has nothing to do.
LEMMA WaiterRests ==
  ASSUME TRUE \notin PostBoot, Inv
  PROVE  ~WaiterNext
<1>1. Waiter.pc = "idle" /\ \A j \in JobIds : job[j].status # "waiting"
  BY DEF Inv, OwnershipInv, WaitsApart
<1>2. ~Wait
  BY <1>1 DEF Wait, WaitCanceled, WaitLost, WaitTimeout, Resume, Waiting, ResumedOk, ResumedAborts, Waiter
<1>3. ~ReconcileStep("waiter")
  BY <1>1, WorkerReconciles DEF Actors, Waiter, ReconcilePlaces
<1> QED
  BY <1>2, <1>3 DEF WaiterNext

LEMMA DoubtsStep ==
  ASSUME Attended, Inv, WorkingInv, DoubtsInv, Next
  PROVE  DoubtsInv'
<1>1. CASE ApiNext
  <2>1. ~FinishCleanup /\ ~ \E d \in Deployments, op \in CleanupOps : BeginCleanup(op, d)
    BY NoCleanup DEF Attended
  <2> QED
    BY <1>1, <2>1, DeployDoubts, FinishRequestDoubts, QuietDoubts, ReconcileDoubts DEF ApiNext
<1>2. CASE WorkerNext
  <2>1. ~Recover /\ ~RecoverNext
    BY DEF Recover, RecoverNext, Inv, OwnershipInv, Uncrashed, Worker
  <2>2. CASE ReconcileStep("worker")
    <3>1. CASE ~Close("worker")
      <4>1. Worker.pc \in ReconcilePlaces /\ Typed /\ "worker" \in Actors
        BY <2>2, WorkerReconciles DEF Actors, Worker, Inv, LifecycleInv
      <4>2. ~Boot("worker") /\ ~Succeed("worker")
        BY <4>1 DEF Boot, Succeed, Worker, ReconcilePlaces
      <4>3. Unmoved
        BY <2>2, <3>1, <4>1, <4>2, StepMoves DEF Moves
      <4> QED
        BY <2>2, <3>1, <4>3, RetainDoubts, ReadDoubts, TearingDoubts, ProbeDoubts, ApplyDoubts
           DEF ReconcileStep
    <3> QED
      BY <3>1, LeaveDoubts
  <2>3. CASE Execute("worker")
    BY <2>3, ExecuteDoubts, LeaveDoubts
  <2> QED
    BY <1>2, <2>1, <2>2, <2>3, ClaimDoubts, RetryCleanupDoubts DEF WorkerNext
<1>3. CASE WaiterNext
  BY <1>3, WaiterRests DEF Attended
<1>4. ~Crash
  BY DEF Crash, Fault, Attended, Undisturbed
<1> QED
  BY <1>1, <1>2, <1>3, <1>4, QuietDoubts DEF Next

LEMMA DoubtsInit ==
  ASSUME Init
  PROVE  DoubtsInv
<1>1. /\ job = [j \in JobIds |-> Unused] /\ dep = [d \in Deployments |-> NoRow]
      /\ at = [a \in Actors |-> Idle] /\ request = NoRequest
  BY DEF Init
<1>2. /\ Idle.pc = "idle" /\ Idle.out = "" /\ Unused.status = "unused"
  BY DEF Idle, Unused
<1> QED
  BY <1>1, <1>2 DEF DoubtsInv, WorkSure, RequestSure, QueuedSure, PendingSure, EndedUnsent, TornOccupied,
     RunningHeld, CleanupAlone, SurePlaces, TearingDown, Doubted, Exists, Worker, Actors

--------------------------------------------------------------------------------
(* What is destroyed                                                          *)

\* The worker sends what destroys, for its own deployment.
LEMMA DestroysSent ==
  ASSUME Attended, Inv, WorkingInv, DoubtsInv, Next,
         NEW t \in running' \ running, t.kind = "destroy"
  PROVE  Worker.pc \in SurePlaces /\ job[t.job].dep = Worker.dep
<1>1. Execute("worker") \/ ReconcileStep("worker")
  <2>1. ~WaiterNext
    BY WaiterRests DEF Attended
  <2>2. ~ApiNext /\ ~ClusterNext /\ ~Crash
    BY DEF ApiNext, ClusterNext, Crash, Deploy, RefuseRequest, FinishRequest, ToggleDisabled,
           Reconcile, BeginRequest, BeginCleanup, FinishCleanup, Cancel, TaskStops, ForeignVm, Succeeds, Fails, cluster
  <2>3. ~ \E j \in JobIds : Claim(j)
    BY DEF Claim, cluster
  <2>4. ~ \E d \in Deployments : RetryCleanup(d)
    BY DEF RetryCleanup, cluster
  <2>5. ~Recover /\ ~RecoverNext
    BY DEF Recover, RecoverNext, cluster
  <2> QED
    BY <2>1, <2>2, <2>3, <2>4, <2>5 DEF Next, WorkerNext
<1>2. CASE Destroy("worker")
  <2>1. t.job = Worker.job /\ Worker.pc = "destroy"
    BY <1>2 DEF Destroy, Worker
  <2> QED
    BY <2>1, WorkerAlone DEF SurePlaces, ExecPlaces
<1>3. CASE TearDown("worker")
  <2>1. Worker.pc \in TearingDown
    BY <1>3 DEF TearDown, Worker, TearingDown
  <2>2. Deployments = {Worker.dep}
    BY <2>1, TornOwn
  <2>3. \E j \in JobIds, d \in Deployments \cup {Worker.dep} : t.job = j /\ IsLatest(j, d)
    <3> DEFINE v == Worker.vmid
               Sent(j) == [job |-> j, kind |-> "destroy", vmid |-> v, on |-> vm[v]]
    <3> HIDE DEF v
    <3>1. ASSUME NEW d \in FirstNaming(v), NEW j \in JobIds, IsLatest(j, d),
                 \/ running' = running \cup {Sent(j)}
                 \/ running' = running
                 \/ running' = running \cup {[Sent(j) EXCEPT !.kind = "other"]}
          PROVE  t.job = j /\ IsLatest(j, d) /\ d \in Deployments
      <4>1. d \in Deployments
        BY DEF FirstNaming
      <4>2. [Sent(j) EXCEPT !.kind = "other"].kind = "other" /\ Sent(j).job = j
        BY DEF Sent
      <4>3. t = Sent(j)
        <5> HIDE DEF Sent
        <5> QED
          BY <3>1, <4>2
      <4> QED
        BY <3>1, <4>1, <4>2, <4>3
    <3>2. ASSUME NEW j \in JobIds, IsLatest(j, Worker.dep),
                 \/ running' = running \cup {Sent(j)}
                 \/ running' = running
                 \/ running' = running \cup {[Sent(j) EXCEPT !.kind = "other"]}
          PROVE  t.job = j /\ IsLatest(j, Worker.dep)
      <4>1. [Sent(j) EXCEPT !.kind = "other"].kind = "other" /\ Sent(j).job = j
        BY DEF Sent
      <4>2. t = Sent(j)
        <5> HIDE DEF Sent
        <5> QED
          BY <3>2, <4>1
      <4> QED
        BY <3>2, <4>1, <4>2
    <3>3. \/ running' = running
          \/ \E d \in FirstNaming(v), j \in JobIds :
               /\ IsLatest(j, d)
               /\ \/ running' = running \cup {Sent(j)}
                  \/ running' \in {running, running \cup {Sent(j)}}
                  \/ running' = running
                  \/ running' = running \cup {[Sent(j) EXCEPT !.kind = "other"]}
          \/ \E j \in JobIds :
               /\ IsLatest(j, Worker.dep)
               /\ \/ running' = running \cup {Sent(j)}
                  \/ running' \in {running, running \cup {Sent(j)}}
                  \/ running' = running
                  \/ running' = running \cup {[Sent(j) EXCEPT !.kind = "other"]}
      BY <1>3 DEF TearDown, Worker, v, Sent
    <3> HIDE DEF Sent
    <3> QED
      BY <3>1, <3>2, <3>3
  <2> QED
    BY <2>1, <2>2, <2>3 DEF IsLatest, SurePlaces
<1>4. CASE Stop("worker") \/ Setup("worker") \/ Create("worker")
  <2>1. t.kind # "destroy"
    BY <1>4 DEF Stop, Setup, Create, OtherTaskOk, OtherTaskAborts, OtherTask, cluster
  <2> QED
    BY <2>1
<1>5. ~(Load("worker") \/ RecordDestroy("worker") \/ Erase("worker") \/ Confirm("worker") \/ Drop("worker")
        \/ Pick("worker") \/ Prepare("worker") \/ Accept("worker") \/ Record("worker") \/ Import("worker")
        \/ Boot("worker") \/ Ansible("worker") \/ Finish("worker") \/ Succeed("worker"))
  BY DEF Load, RecordDestroy, Erase, Confirm, Drop, Pick, Prepare, Accept, Record, Import, Boot, Ansible,
         Finish, Succeed, TaskOk, TaskFailed, TaskCanceled, Succeeds, Fails, cluster
<1>6. ~(Retain("worker") \/ Read("worker") \/ TearDownWait("worker") \/ Probe("worker") \/ Apply("worker")
        \/ Close("worker"))
  BY DEF Retain, Read, TearDownWait, Probe, Apply, Close, TaskOk, Succeeds, Fails, cluster
<1> QED
  BY <1>1, <1>2, <1>3, <1>4, <1>5, <1>6 DEF Execute, ReconcileStep

\* While it is uncertain what became of the remote work of a deployment, no VM of it is
\* destroyed, whatever fails (worker.py, _reject_cleanup_pending, _best_effort_destroy,
\* _retry_cleanup_deployment): as long as no waiting thread reconciles a job that the API
\* takes for ended, and no tear-down finds another deployment's row by the VM id.
THEOREM DestroysInNoDoubt == ASSUME Attended PROVE Spec => NothingDestroyedWhileUncertain
<1> DEFINE Sure == \A t \in running' \ running :
                     t.kind = "destroy" /\ Exists(job[t.job].dep)
                     => dep[job[t.job].dep].identity # "submitting"
<1>0. OwnTeardowns
  BY DEF Attended, OwnTeardowns
<1>1. Inv /\ WorkingInv /\ DoubtsInv /\ [Next]_vars => (Inv /\ WorkingInv /\ DoubtsInv)' /\ [Sure]_vars
  <2>1. ASSUME Inv, WorkingInv, DoubtsInv, Next
        PROVE  Inv' /\ WorkingInv' /\ DoubtsInv' /\ Sure
    <3>1. Inv' /\ WorkingInv' /\ DoubtsInv'
      BY <1>0, <2>1, WorkingStep, DoubtsStep, OwnershipStep, StepPreserves
         DEF Inv, LifecycleInv, Preserves, Attended
    <3>2. Sure
      BY <2>1, DestroysSent DEF DoubtsInv, WorkSure, Doubted
    <3> QED
      BY <3>1, <3>2
  <2>2. ASSUME Inv, WorkingInv, DoubtsInv, UNCHANGED vars
        PROVE  Inv' /\ WorkingInv' /\ DoubtsInv'
    BY <2>2, WorkingStutter, OwnershipStutter, StutterInv, QuietDoubts DEF Inv
  <2> QED
    BY <2>1, <2>2
<1>2. Init => Inv /\ WorkingInv /\ DoubtsInv
  BY InitInv, OwnershipInit, WorkingInit, DoubtsInit DEF Inv
<1>3. [Sure]_vars <=> [\A t \in running' \ running :
                         t.kind = "destroy" /\ Exists(job[t.job].dep)
                         => dep[job[t.job].dep].identity # "submitting"]_vars
  OBVIOUS
<1> QED
  BY <1>1, <1>2, <1>3, PTL DEF Spec, NothingDestroyedWhileUncertain
================================================================================
