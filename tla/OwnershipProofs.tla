---------------------------- MODULE OwnershipProofs ----------------------------
(* That a VM has an owner until it is gone, for every number of deployments,  *)
(* jobs, VM ids and addresses and with every failure of the cluster: the      *)
(* assumption Undisturbed names what the program does not survive, and the    *)
(* README which execution each part of it excludes.                           *)
(*                                                                            *)
(* NoOrphanVm is far from inductive.  A row may be forgotten, or another VM   *)
(* id chosen for it, only when no VM of the deployment is there and none can  *)
(* come: the threads decide that from what they have read and asked before.   *)
(* The invariant therefore follows each accepted create (CreatesWatched):     *)
(* the worker is busy with it, or its deployment is marked as uncertain and   *)
(* everybody keeps away from it; and it says of the worker and of whoever     *)
(* reconciles what still holds of their deployment (Selected, Verdict).       *)
EXTENDS LifecycleProofs

\* No restart; no guard evaluated before the job that it is about has ended; nobody
\* forgets a row by hand; and rebuilds and waits do not meet.
Undisturbed ==
  /\ "crash" \notin Faults /\ "eager" \notin Faults
  /\ "localCleanup" \notin Ops /\ "forcedCleanup" \notin Ops
  /\ TRUE \in PostBoot => "rebuild" \notin Ops /\ "rebuildCurrent" \notin Ops

Worker == at["worker"]
Waiter == at["waiter"]

Known(d) == \E j \in JobIds : job[j].dep = d
\* No VM of deployment d is there, and no accepted create will still make one.
Vmless(d) == \A v \in Vmids : vm[v] \in JobIds => job[vm[v]].dep # d
Uncreated(d) == \A t \in running : t.kind = "create" => job[t.job].dep # d

CreatePlaces == {"pick", "prepare", "create", "accept", "record", "import", "setup", "boot"}

Uncrashed == todo = {} /\ Worker.pc \notin {"recover", "recoverNext"}

\* What a thread remembers of its job and its deployment is so.
LocalsAgree ==
  /\ \A a \in Actors :
       /\ at[a].dep # 0 => Known(at[a].dep)
       /\ at[a].job # 0 => job[at[a].job].dep = at[a].dep /\ job[at[a].job].type = at[a].kind
       /\ at[a].pc = "idle" => at[a].dep = 0 /\ at[a].job = 0
  /\ Worker.job # 0 => job[Worker.job].status \in {"running"} \cup Terminal

\* The task a thread waits for is of the kind that its place says.
TaskMeant(a) ==
  /\ at[a].pc \in {"recordDestroy", "erase", "tearDownWait"} => at[a].task.kind = "destroy"
  /\ at[a].pc \in {"accept", "record", "import"} =>
       at[a].task \in running /\ at[a].task.kind = "create" /\ at[a].task.job = at[a].job
TasksMeant == \A a \in Actors : TaskMeant(a)

\* A handler past its guard is about a deployment without an active job.
RowsKnown ==
  /\ \A d \in Deployments : Exists(d) => Known(d)
  /\ request # NoRequest =>
       Known(request.dep) /\ ~Active(request.dep) /\ request.op \in RequestOps

\* Without Ansible blocks nobody waits; without rebuilds only the one deploy job of a
\* deployment creates a VM, and only it waits.
WaitsApart ==
  /\ TRUE \notin PostBoot =>
       /\ Waiter.pc = "idle"
       /\ \A j \in JobIds : job[j].status # "waiting"
       /\ \A d \in Deployments : Exists(d) => ~dep[d].post
  /\ TRUE \in PostBoot =>
       /\ \A j \in JobIds : job[j].type # "rebuild"
       /\ request # NoRequest => request.op \notin {"rebuild", "rebuildCurrent"}
       /\ \A i, j \in JobIds :
            /\ job[i].type = "deploy" /\ job[j].type = "deploy"
            /\ job[i].dep = job[j].dep /\ job[i].dep # 0
            => i = j
       /\ \A j \in JobIds : job[j].status = "waiting" => job[j].type = "deploy"
       /\ Waiter.job # 0 => job[Waiter.job].type = "deploy"
       /\ Worker.pc \in CreatePlaces => job[Worker.job].type = "deploy"

\* While the worker is about to destroy or to create, the row names the VM id it works
\* on, or none; from the choice of an id until the create is sent there is no VM.
Selected ==
  /\ Worker.pc \in {"pick", "prepare", "create", "drop"} => Vmless(Worker.dep)
  /\ Worker.pc \in {"stop", "destroy", "recordDestroy", "erase", "confirm"} =>
       VmidOf(Worker.dep) \in {Worker.vmid, NoVmid}
  /\ Worker.pc \in {"prepare", "create"} => VmidOf(Worker.dep) = Worker.vmid
  /\ Worker.pc = "create" => dep[Worker.dep].identity = "submitting"

\* A deploy that nobody has claimed names no VM yet; an unused job names no deployment.
Unstarted ==
  \A j \in JobIds :
    /\ job[j].type = "deploy" /\ job[j].status = "queued" => VmidOf(job[j].dep) = NoVmid
    /\ job[j].status = "unused" => job[j].dep = 0

\* Whoever has seen the VM absent, and finds that the row still names it, is right.
RightVerdict(a) ==
  at[a].pc = "apply" /\ at[a].seen = "absent" /\ VmidOf(at[a].dep) = at[a].vmid
  => Vmless(at[a].dep)
Verdict == \A a \in Actors : RightVerdict(a)

\* No two creates are for one VM id, and none for an id that is taken.
CreatesApart ==
  \A t \in running : t.kind = "create" =>
    /\ vm[t.vmid] = NoVm
    /\ \A u \in running : u.kind = "create" /\ u.vmid = t.vmid => u = t

\* The worker is busy with the create t ...
Watched(t) ==
  /\ Worker.job = t.job /\ JobActive(t.job)
  /\ \/ Worker.pc \in {"accept", "record"} /\ Worker.task = t
     \/ Worker.pc = "import" /\ Worker.task = t /\ job[t.job].remote = "create"
     \/ Worker.pc = "retain" /\ job[t.job].remote = "create"
\* ... or the identity of the VM is uncertain, and no cleanup will be retried.
Uncertain(d) ==
  /\ dep[d].identity = "submitting"
  /\ Worker.dep = d => Worker.pc \in {"retain", "read", "close"}
  /\ Worker.dep # d \/ Worker.pc = "close" => dep[d].status # "cleanup_pending"

WatchedCreate(t) ==
  LET d == job[t.job].dep IN
  /\ Waiter.dep # d
  /\ request # NoRequest => request.dep # d
  /\ \A j \in JobIds : JobActive(j) /\ job[j].dep = d => j = Worker.job
  /\ Watched(t) \/ Uncertain(d)
CreatesWatched == \A t \in running : t.kind = "create" => WatchedCreate(t)

OwnershipInv ==
  /\ Uncrashed /\ LocalsAgree /\ TasksMeant /\ RowsKnown /\ WaitsApart
  /\ Selected /\ Unstarted /\ Verdict /\ CreatesApart /\ CreatesWatched /\ NoOrphanVm

Inv == LifecycleInv /\ OwnershipInv

--------------------------------------------------------------------------------
(* What follows of the places where the worker is                             *)

LEMMA Ids ==
  /\ Deployments \subseteq Nat \ {0} /\ JobIds \subseteq Nat \ {0}
  /\ NoVmid \notin Vmids /\ NoVm \notin JobIds /\ Foreign \notin JobIds
BY ConstantsTyped, NothingsDistinct DEF ConstantsTyped, NothingsDistinct, Deployments, JobIds

LEMMA TaskFields ==
  ASSUME Typed, NEW t \in running
  PROVE  t.job \in JobIds /\ t.vmid \in Vmids /\ t.kind \in TaskKinds
BY DEF Typed, TypeOK, Task

LEMMA JobFields ==
  ASSUME Typed, NEW j \in JobIds
  PROVE  /\ job[j] \in JobRow /\ job[j].dep \in Deployments \cup {0}
         /\ job[j].type \in LifecycleTypes
BY DEF Typed, TypeOK, JobRow

\* An owner is a row that is there.
LEMMA OwnerExists ==
  ASSUME Typed, NEW d, NEW v \in Vmids, VmidOf(d) = v
  PROVE  d \in Deployments /\ Exists(d) /\ dep[d].vmid = v /\ d # 0
BY Ids, NamedRow DEF VmidOf, Exists, Typed

LEMMA CreateOwned ==
  ASSUME Inv, NEW t \in running, t.kind = "create"
  PROVE  LET d == job[t.job].dep
         IN VmidOf(d) = t.vmid /\ d \in Deployments /\ Exists(d) /\ d # 0
<1>1. VmidOf(job[t.job].dep) = t.vmid
  BY DEF Inv, OwnershipInv, NoOrphanVm, Owned
<1> QED
  BY <1>1, TaskFields, OwnerExists DEF Inv, LifecycleInv

LEMMA UnnamedVmless ==
  ASSUME NoOrphanVm, Typed, NEW d, \A v \in Vmids : VmidOf(d) = v => vm[v] = NoVm
  PROVE  Vmless(d)
BY Ids DEF Vmless, NoOrphanVm, Owned

\* Only where a create is sent, recorded, waited for or given up is one under way.
LEMMA WorkerUncreated ==
  ASSUME Inv, Worker.pc \notin {"accept", "record", "import", "retain", "read", "close"}
  PROVE  Uncreated(Worker.dep)
<1> SUFFICES ASSUME NEW t \in running, t.kind = "create", job[t.job].dep = Worker.dep
             PROVE  FALSE
  BY DEF Uncreated
<1>1. WatchedCreate(t)
  BY DEF Inv, OwnershipInv, CreatesWatched
<1> QED
  BY <1>1 DEF WatchedCreate, Watched, Uncertain

LEMMA WaiterUncreated ==
  ASSUME Inv
  PROVE  Uncreated(Waiter.dep)
BY DEF Inv, OwnershipInv, CreatesWatched, WatchedCreate, Uncreated

\* The waiting thread is not about the deployment for which the worker creates a VM.
LEMMA WaiterElsewhere ==
  ASSUME Inv, Worker.pc \in CreatePlaces, Worker.dep # 0
  PROVE  Waiter.dep # Worker.dep
<1>1. Worker.job \in JobIds /\ job[Worker.job].status = "running"
  BY LocalsTyped DEF Inv, LifecycleInv, Held, CreatePlaces, ExecPlaces, Actors, Worker
<1>2. job[Worker.job].dep = Worker.dep
  BY <1>1, Ids DEF Inv, OwnershipInv, LocalsAgree, Actors, Worker
<1>3. CASE Waiter.pc = "idle"
  BY <1>3 DEF Inv, OwnershipInv, LocalsAgree, Actors, Waiter
<1>4. CASE Waiter.pc # "idle"
  <2>1. TRUE \in PostBoot
    BY <1>4 DEF Inv, OwnershipInv, WaitsApart
  <2>2. /\ Waiter.job \in JobIds
        /\ Waiter.job # Worker.job
    BY <1>1, <1>4, LocalsTyped
       DEF Inv, LifecycleInv, Held, CreatePlaces, ExecPlaces, Actors, Worker, Waiter, Terminal
  <2>3. job[Waiter.job].dep = Waiter.dep
    BY <2>2, Ids DEF Inv, OwnershipInv, LocalsAgree, Actors, Waiter
  <2>4. job[Waiter.job].type = "deploy" /\ job[Worker.job].type = "deploy"
    BY <2>1, <2>2, Ids DEF Inv, OwnershipInv, WaitsApart
  <2> QED
    BY <1>1, <1>2, <2>1, <2>2, <2>3, <2>4 DEF Inv, OwnershipInv, WaitsApart
<1> QED
  BY <1>3, <1>4

--------------------------------------------------------------------------------
(* What a step may do to the cluster, the names and the jobs                  *)

\* VMs come from accepted creates only, and no create is accepted.
ClusterFlow ==
  /\ \A v \in Vmids : vm'[v] \in JobIds =>
       vm'[v] = vm[v] \/ \E t \in running : t.kind = "create" /\ t.vmid = v /\ t.job = vm'[v]
  /\ \A t \in running' : t.kind = "create" => t \in running /\ vm'[t.vmid] = NoVm
\* A row names another id, or none, only if no VM is there and none can come.
NamesFlow ==
  \A d \in Deployments : VmidOf(d)' # VmidOf(d) => Vmless(d) /\ Uncreated(d)
\* A job stays with its deployment.
JobsFlow ==
  \A j \in JobIds : job[j].dep # 0 => job'[j].dep = job[j].dep /\ job'[j].type = job[j].type
Flow == ClusterFlow /\ NamesFlow /\ JobsFlow

\* No job but an unused one changes its deployment or its type, none its status.
JobsQuiet == \A j \in JobIds :
  job'[j].dep = job[j].dep /\ job'[j].type = job[j].type /\ job'[j].status = job[j].status

LEMMA UnnamedStays == ASSUME NEW d, d \notin Deployments PROVE VmidOf(d) = NoVmid /\ VmidOf(d)' = NoVmid
BY DEF VmidOf, Exists

LEMMA VmlessStays ==
  ASSUME Inv, Flow, NEW d, Vmless(d), Uncreated(d)
  PROVE  Vmless(d)' /\ Uncreated(d)'
<1>1. ASSUME NEW v \in Vmids, vm'[v] \in JobIds, job'[vm'[v]].dep = d
      PROVE  FALSE
  <2> DEFINE j == vm'[v]
  <2>1. CASE j = vm[v]
    <3>1. job[j].dep # 0
      BY <1>1, <2>1, OwnerExists DEF Inv, OwnershipInv, LifecycleInv, NoOrphanVm, Owned
    <3> QED
      BY <1>1, <2>1, <3>1 DEF Flow, JobsFlow, Vmless
  <2>2. CASE \E t \in running : t.kind = "create" /\ t.vmid = v /\ t.job = j
    <3>1. PICK t \in running : t.kind = "create" /\ t.vmid = v /\ t.job = j
      BY <2>2
    <3>2. job[j].dep # 0
      BY <3>1, CreateOwned
    <3> QED
      BY <1>1, <3>1, <3>2 DEF Flow, JobsFlow, Uncreated
  <2> QED
    BY <1>1, <2>1, <2>2 DEF Flow, ClusterFlow
<1>2. ASSUME NEW t \in running', t.kind = "create", job'[t.job].dep = d
      PROVE  FALSE
  <2>1. t \in running
    BY <1>2 DEF Flow, ClusterFlow
  <2>2. job[t.job].dep # 0 /\ t.job \in JobIds
    BY <1>2, <2>1, CreateOwned, TaskFields DEF Inv, LifecycleInv
  <2> QED
    BY <1>2, <2>1, <2>2 DEF Flow, JobsFlow, Uncreated
<1> QED
  BY <1>1, <1>2 DEF Vmless, Uncreated

LEMMA FlowOwned ==
  ASSUME Inv, Flow
  PROVE  NoOrphanVm' /\ CreatesApart'
<1>1. ASSUME NEW j \in JobIds, NEW v \in Vmids, VmidOf(job[j].dep) = v,
             ~Vmless(job[j].dep) \/ ~Uncreated(job[j].dep)
      PROVE  Owned(j, v)'
  <2> DEFINE d == job[j].dep
  <2>1. d \in Deployments /\ d # 0
    BY <1>1, OwnerExists DEF Inv, LifecycleInv
  <2>2. job'[j].dep = d
    BY <2>1 DEF Flow, JobsFlow
  <2>3. \A e \in Deployments : ~Vmless(e) \/ ~Uncreated(e) => VmidOf(e)' = VmidOf(e)
    BY DEF Flow, NamesFlow
  <2>4. PICK e \in Deployments : e = d
    BY <2>1
  <2>5. VmidOf(e)' = v
    BY <1>1, <2>3, <2>4
  <2> QED
    BY <2>2, <2>4, <2>5 DEF Owned
<1>2. ASSUME NEW t \in running, t.kind = "create"
      PROVE  Owned(t.job, t.vmid)'
  BY <1>1, <1>2, CreateOwned, TaskFields DEF Inv, LifecycleInv, Uncreated
<1>3. ASSUME NEW v \in Vmids, NEW j \in JobIds, j = vm[v]
      PROVE  Owned(j, v)'
  BY <1>1, <1>3 DEF Inv, OwnershipInv, NoOrphanVm, Owned, Vmless
<1>4. NoOrphanVm'
  BY <1>2, <1>3 DEF NoOrphanVm, Owned, Flow, ClusterFlow
<1>5. CreatesApart'
  BY DEF CreatesApart, Inv, OwnershipInv, Flow, ClusterFlow
<1> QED
  BY <1>4, <1>5

\* The verdict of a thread that does not move stays right.
LEMMA VerdictStays ==
  ASSUME Inv, Flow, NEW a \in Actors, at'[a] = at[a]
  PROVE  RightVerdict(a)'
<1> SUFFICES ASSUME NEW d, d = at[a].dep,
                    at[a].pc = "apply", at[a].seen = "absent", VmidOf(d)' = at[a].vmid
             PROVE  Vmless(d)'
  BY DEF RightVerdict, Vmless, VmidOf, Exists
<1>1. d = at[a].dep
  OBVIOUS
<1>2. Uncreated(d)
  BY <1>1, WorkerUncreated, WaiterUncreated DEF Actors, Worker, Waiter
<1>3. VmidOf(d)' = at[a].vmid
  OBVIOUS
<1>4. Vmless(d)
  <2>1. CASE VmidOf(d)' = VmidOf(d)
    BY <1>1, <1>3, <2>1 DEF Inv, OwnershipInv, Verdict, RightVerdict
  <2>2. CASE VmidOf(d)' # VmidOf(d)
    BY <2>2, UnnamedStays DEF Flow, NamesFlow
  <2> QED
    BY <2>1, <2>2
<1> QED
  BY <1>2, <1>4, VmlessStays

--------------------------------------------------------------------------------
(* How the cluster moves                                                      *)

LEMMA ClusterRests ==
  ASSUME Inv, UNCHANGED cluster
  PROVE  ClusterFlow
BY DEF ClusterFlow, cluster, Inv, OwnershipInv, CreatesApart

\* Tasks of another kind are added.
LEMMA TasksAdded ==
  ASSUME Inv, UNCHANGED vm, \A t \in running' : t \in running \/ t.kind # "create"
  PROVE  ClusterFlow
BY DEF ClusterFlow, Inv, OwnershipInv, CreatesApart

LEMMA TaskFails ==
  ASSUME Inv, NEW t, Fails(t)
  PROVE  ClusterFlow
BY DEF Fails, ClusterFlow, Inv, OwnershipInv, CreatesApart

LEMMA TaskSucceeds ==
  ASSUME Inv, NEW t \in Task, Succeeds(t), t.kind = "create" => t \in running
  PROVE  ClusterFlow
<1>1. running' = running \ {t} /\ vm' = Effect(t) /\ t.kind \in {"create", "destroy", "other"}
  BY DEF Succeeds, Task, TaskKinds
<1>2. vm \in [Vmids -> JobIds \cup {Foreign, NoVm}] /\ running \subseteq Task /\ CreatesApart
  BY DEF Inv, LifecycleInv, Typed, TypeOK, OwnershipInv
<1>3. t.vmid \in Vmids /\ t.job \in JobIds
  BY DEF Task
<1>4. CASE t.kind = "create"
  <2>1. vm' = [vm EXCEPT ![t.vmid] = t.job] /\ t \in running
    BY <1>1, <1>4 DEF Effect
  <2> QED
    BY <1>1, <1>2, <1>3, <1>4, <2>1, TaskFields DEF ClusterFlow, CreatesApart, Inv, LifecycleInv
<1>5. CASE t.kind = "destroy"
  <2>1. vm' = [vm EXCEPT ![t.vmid] = IF @ = t.on THEN NoVm ELSE @]
    BY <1>5, <1>1 DEF Effect
  <2> QED
    BY <1>1, <1>2, <1>3, <2>1, TaskFields, Ids DEF ClusterFlow, CreatesApart, Inv, LifecycleInv
<1>6. CASE t.kind = "other"
  <2>1. vm' = vm
    BY <1>6, <1>1 DEF Effect
  <2> QED
    BY <1>1, <1>2, <2>1 DEF ClusterFlow, CreatesApart
<1> QED
  BY <1>1, <1>4, <1>5, <1>6

LEMMA ForeignFlow ==
  ASSUME Inv, ForeignVm
  PROVE  ClusterFlow
<1>1. PICK v \in Vmids :
        /\ ~ \E t \in running : t.kind = "create" /\ t.vmid = v
        /\ vm' = [vm EXCEPT ![v] = IF @ = NoVm THEN Foreign ELSE NoVm]
  BY DEF ForeignVm
<1>2. running' = running /\ vm \in [Vmids -> JobIds \cup {Foreign, NoVm}] /\ CreatesApart
  BY DEF ForeignVm, Inv, LifecycleInv, Typed, TypeOK, OwnershipInv
<1>3. vm'[v] \notin JobIds
  BY <1>1, <1>2, Ids
<1> QED
  BY <1>1, <1>2, <1>3, TaskFields DEF ClusterFlow, CreatesApart, Inv, LifecycleInv

--------------------------------------------------------------------------------
(* A thread goes on with what it is about                                     *)

GoesOn(a) ==
  /\ at[a].pc \in ExecPlaces \cup ReconcilePlaces /\ at'[a].pc \in ExecPlaces \cup ReconcilePlaces
  /\ at'[a].dep = at[a].dep /\ at'[a].job = at[a].job /\ at'[a].kind = at[a].kind
  /\ \A b \in Actors \ {a} : at'[b] = at[b]
\* ... and creates a VM only for a deploy or a rebuild.
Creates(a) ==
  at'[a].pc \in CreatePlaces => at[a].pc \in CreatePlaces \/ (at[a].job # 0 /\ at[a].kind = "rebuild")

LEMMA GotoGoesOn ==
  ASSUME Typed, NEW a \in Actors, NEW p \in ExecPlaces \cup ReconcilePlaces,
         at[a].pc \in ExecPlaces \cup ReconcilePlaces,
         \/ Goto(a, p)
         \/ \E t : GotoAwaiting(a, p, t)
         \/ p = "retain" /\ \E o : Abort(a, o)
  PROVE  GoesOn(a) /\ at'[a].pc = p /\ at'[a].vmid = at[a].vmid /\ at'[a].seen = at[a].seen
<1>1. at \in [Actors -> Local]
  BY DEF Typed, TypeOK
<1>2. CASE Goto(a, p)
  <2>1. at' = [at EXCEPT ![a] = [at[a] EXCEPT !.pc = p, !.task = NoTask]]
    BY <1>1, <1>2 DEF Goto
  <2>2. /\ at'[a] = [at[a] EXCEPT !.pc = p, !.task = NoTask]
        /\ \A b \in Actors \ {a} : at'[b] = at[b]
    BY <1>1, <2>1
  <2>3. at[a] \in Local
    BY <1>1
  <2>4. /\ at'[a].pc = p /\ at'[a].dep = at[a].dep /\ at'[a].job = at[a].job
        /\ at'[a].kind = at[a].kind /\ at'[a].vmid = at[a].vmid /\ at'[a].seen = at[a].seen
    BY <2>2, <2>3 DEF Local
  <2> QED
    BY <2>2, <2>4 DEF GoesOn
<1>3. CASE \E t : GotoAwaiting(a, p, t)
  <2>1. PICK t : GotoAwaiting(a, p, t)
    BY <1>3
  <2>2. at' = [at EXCEPT ![a] = [at[a] EXCEPT !.pc = p, !.task = t]]
    BY <1>1, <2>1 DEF GotoAwaiting
  <2>3. /\ at'[a] = [at[a] EXCEPT !.pc = p, !.task = t]
        /\ \A b \in Actors \ {a} : at'[b] = at[b]
    BY <1>1, <2>2
  <2>4. at[a] \in Local
    BY <1>1
  <2>5. /\ at'[a].pc = p /\ at'[a].dep = at[a].dep /\ at'[a].job = at[a].job
        /\ at'[a].kind = at[a].kind /\ at'[a].vmid = at[a].vmid /\ at'[a].seen = at[a].seen
    BY <2>3, <2>4 DEF Local
  <2> QED
    BY <2>3, <2>5 DEF GoesOn
<1>4. CASE p = "retain" /\ \E o : Abort(a, o)
  <2>1. PICK o : at' = [at EXCEPT ![a].pc = "retain", ![a].out = o, ![a].task = NoTask]
    BY <1>4 DEF Abort
  <2>2. at' = [at EXCEPT ![a] = [at[a] EXCEPT !.pc = "retain", !.out = o, !.task = NoTask]]
    BY <1>1, <2>1
  <2>3. /\ at'[a] = [at[a] EXCEPT !.pc = "retain", !.out = o, !.task = NoTask]
        /\ \A b \in Actors \ {a} : at'[b] = at[b]
    BY <1>1, <2>2
  <2>4. at[a] \in Local
    BY <1>1
  <2>5. /\ at'[a].pc = "retain" /\ at'[a].dep = at[a].dep /\ at'[a].job = at[a].job
        /\ at'[a].kind = at[a].kind /\ at'[a].vmid = at[a].vmid /\ at'[a].seen = at[a].seen
    BY <2>3, <2>4 DEF Local
  <2> QED
    BY <1>4, <2>3, <2>5 DEF GoesOn
<1> QED
  BY <1>2, <1>3, <1>4

\* No row appears, and a row that stays keeps its plan.
RowsShrink == \A d \in Deployments : Exists(d)' => Exists(d) /\ dep'[d].post = dep[d].post
NamesDropped == \A d \in Deployments : VmidOf(d)' \in {VmidOf(d), NoVmid}

LEMMA RequestAdmits == ASSUME Inv PROVE request # NoRequest => request.op \in RequestOps
BY DEF Inv, OwnershipInv, RowsKnown

LEMMA RowsStayKnown ==
  ASSUME Inv, RowsShrink, JobsQuiet, UNCHANGED request
  PROVE  RowsKnown'
<1>1. \A d : Known(d) => Known(d)'
  BY DEF Known, JobsQuiet
<1>2. \A d : ~Active(d) => ~Active(d)'
  BY DEF Active, JobActive, JobsQuiet
<1>3. \A d \in Deployments : Exists(d)' => Known(d)'
  BY <1>1 DEF RowsShrink, Inv, OwnershipInv, RowsKnown
<1>4. \A d : d = request.dep /\ request # NoRequest => Known(d)' /\ ~Active(d)'
  BY <1>1, <1>2 DEF Inv, OwnershipInv, RowsKnown
<1> QED
  BY <1>3, <1>4, RequestAdmits DEF RowsKnown, Known, Active, JobActive

LEMMA QueuedStayUnnamed ==
  ASSUME Inv, NamesDropped, JobsQuiet
  PROVE  Unstarted'
<1>0. \A j \in JobIds : job'[j].status = "unused" => job'[j].dep = 0
  BY DEF JobsQuiet, Inv, OwnershipInv, Unstarted
<1> SUFFICES ASSUME NEW j \in JobIds, NEW d, d = job[j].dep,
                    job[j].type = "deploy", job[j].status = "queued"
             PROVE  VmidOf(d)' = NoVmid
  BY <1>0 DEF Unstarted, JobsQuiet, VmidOf, Exists
<1>1. VmidOf(d) = NoVmid
  BY DEF Inv, OwnershipInv, Unstarted
<1> QED
  BY <1>1, UnnamedStays DEF NamesDropped

LEMMA ThreadKeeps ==
  ASSUME Inv, NEW a \in Actors, GoesOn(a), Creates(a), RowsShrink, JobsQuiet,
         UNCHANGED <<todo, request>>
  PROVE  Uncrashed' /\ LocalsAgree' /\ RowsKnown' /\ WaitsApart'
<1>1. \A b \in Actors : at'[b].dep = at[b].dep /\ at'[b].job = at[b].job /\ at'[b].kind = at[b].kind
  BY DEF GoesOn
<1>2. \A d : Known(d) => Known(d)'
  BY DEF Known, JobsQuiet
<1>3. \A b \in Actors : at[b].job \in JobIds \cup {0} /\ at[b] \in Local
  BY DEF Inv, LifecycleInv, Typed, TypeOK, Local
<1>4. Uncrashed'
  <2>1. \A b \in Actors \ {a} : at'[b].pc = at[b].pc
    BY DEF GoesOn
  <2> QED
    BY <2>1 DEF Uncrashed, Inv, OwnershipInv, GoesOn, Worker, Actors, ExecPlaces, ReconcilePlaces
<1>5. LocalsAgree'
  <2>1. \A b \in Actors : at'[b].pc = "idle" => at[b].pc = "idle"
    BY DEF GoesOn, ExecPlaces, ReconcilePlaces
  <2>2. \A b \in Actors :
          /\ at'[b].dep # 0 => \E j \in JobIds : job'[j].dep = at'[b].dep
          /\ at'[b].job # 0 => job'[at'[b].job].dep = at'[b].dep /\ job'[at'[b].job].type = at'[b].kind
          /\ at'[b].pc = "idle" => at'[b].dep = 0 /\ at'[b].job = 0
    BY <1>1, <1>3, <2>1 DEF Inv, OwnershipInv, LocalsAgree, JobsQuiet, Known
  <2>3. Worker.job # 0 => job'[Worker.job].status \in {"running"} \cup Terminal
    BY <1>3 DEF Inv, OwnershipInv, LocalsAgree, JobsQuiet, Worker, Actors
  <2> QED
    BY <1>1, <2>2, <2>3 DEF LocalsAgree, Known, Worker, Actors
<1>6. WaitsApart'
  <2>1. ASSUME TRUE \notin PostBoot
        PROVE  /\ Waiter'.pc = "idle"
               /\ \A j \in JobIds : job'[j].status # "waiting"
               /\ \A d \in Deployments : Exists(d)' => ~dep'[d].post
    BY <2>1 DEF Inv, OwnershipInv, WaitsApart, GoesOn, RowsShrink, JobsQuiet, Waiter, Actors,
                ExecPlaces, ReconcilePlaces
  <2>2. ASSUME TRUE \in PostBoot
        PROVE  /\ \A j \in JobIds : job'[j].type # "rebuild"
               /\ request' # NoRequest => request'.op \notin {"rebuild", "rebuildCurrent"}
               /\ \A i, j \in JobIds :
                    /\ job'[i].type = "deploy" /\ job'[j].type = "deploy"
                    /\ job'[i].dep = job'[j].dep /\ job'[i].dep # 0
                    => i = j
               /\ \A j \in JobIds : job'[j].status = "waiting" => job'[j].type = "deploy"
    BY <2>2 DEF Inv, OwnershipInv, WaitsApart, JobsQuiet
  <2>3. ASSUME TRUE \in PostBoot
        PROVE  Waiter'.job # 0 => job'[Waiter'.job].type = "deploy"
    BY <1>1, <1>3, <2>3 DEF Inv, OwnershipInv, WaitsApart, JobsQuiet, Waiter, Actors
  <2>4. ASSUME TRUE \in PostBoot, Worker'.pc \in CreatePlaces
        PROVE  job'[Worker'.job].type = "deploy"
    <3>1. Worker.pc \in ExecPlaces => Worker.job \in JobIds
      BY LocalsTyped DEF Inv, LifecycleInv, Actors, Worker
    <3>2. CASE Worker.pc \in CreatePlaces
      BY <1>1, <2>4, <3>1, <3>2
         DEF Inv, OwnershipInv, WaitsApart, JobsQuiet, Worker, Actors, CreatePlaces, ExecPlaces
    <3>3. CASE Worker.pc \notin CreatePlaces
      <4>1. Worker.job # 0 /\ Worker.kind = "rebuild" /\ Worker.job \in JobIds
        BY <1>3, <2>4, <3>3 DEF Creates, GoesOn, Worker, Actors
      <4> QED
        BY <2>4, <4>1 DEF Inv, OwnershipInv, WaitsApart, LocalsAgree, Worker, Actors
    <3> QED
      BY <3>2, <3>3
  <2> QED
    BY <2>1, <2>2, <2>3, <2>4 DEF WaitsApart
<1> QED
  BY <1>4, <1>5, <1>6, RowsStayKnown

--------------------------------------------------------------------------------
(* What the others may rely on                                                *)

\* A row keeps its VM id, what is uncertain stays so, and no cleanup becomes pending.
RowKept(d) ==
  /\ VmidOf(d)' = VmidOf(d)
  /\ Exists(d) =>
       /\ dep[d].identity = "submitting" => dep'[d].identity = "submitting"
       /\ dep'[d].status = "cleanup_pending" => dep[d].status = "cleanup_pending"
RowsKeptBut(e) == \A d \in Deployments \ {e} : RowKept(d)
RemotesKept == \A t \in running : t.kind = "create" => job'[t.job].remote = job[t.job].remote

LEMMA RowsStay ==
  ASSUME UNCHANGED dep
  PROVE  RowsShrink /\ NamesDropped /\ \A d \in Deployments : RowKept(d)
BY DEF RowsShrink, NamesDropped, RowKept, VmidOf, Exists

\* A create that the worker is not about is an uncertain one.
LEMMA OthersWatched ==
  ASSUME Inv, GoesOn("worker"), JobsQuiet, UNCHANGED request,
         RowsKeptBut(Worker.dep), NEW t \in running, t.kind = "create",
         job[t.job].dep # Worker.dep
  PROVE  WatchedCreate(t)'
<1> DEFINE d == job[t.job].dep
<1>1. t \in running
  OBVIOUS
<1>2. WatchedCreate(t) /\ t.job \in JobIds
  BY <1>1, TaskFields DEF Inv, OwnershipInv, CreatesWatched, LifecycleInv
<1>3. d \in Deployments /\ Exists(d) /\ d # 0
  BY <1>1, CreateOwned
<1>4. Worker.job # t.job
  <2>1. t.job # 0
    BY <1>2, Ids
  <2> QED
    BY <2>1 DEF Inv, OwnershipInv, LocalsAgree, Worker, Actors
<1>5. Uncertain(d)
  BY <1>2, <1>4 DEF WatchedCreate, Watched
<1>6. dep'[d].identity = "submitting" /\ dep'[d].status # "cleanup_pending"
  BY <1>3, <1>5 DEF RowsKeptBut, RowKept, Uncertain
<1>7. Waiter'.dep = Waiter.dep /\ Worker'.dep = Worker.dep /\ Worker'.job = Worker.job
  BY DEF GoesOn, Worker, Waiter, Actors
<1>8. job'[t.job].dep = d
  BY <1>2 DEF JobsQuiet
<1>9. Uncertain(d)'
  BY <1>6, <1>7, <1>8 DEF Uncertain
<1>10. \A j \in JobIds : JobActive(j)' /\ job'[j].dep = d => j = Worker'.job
  BY <1>2, <1>7 DEF WatchedCreate, JobActive, JobsQuiet
<1> QED
  BY <1>2, <1>7, <1>8, <1>9, <1>10 DEF WatchedCreate, Uncertain, JobActive

LEMMA WorkerQuiet ==
  ASSUME Inv, GoesOn("worker"), JobsQuiet, ClusterFlow, UNCHANGED request,
         RowsKeptBut(Worker.dep), Uncreated(Worker.dep)
  PROVE  CreatesWatched'
BY OthersWatched DEF CreatesWatched, ClusterFlow, Uncreated

\* The worker stays where it is, and what it is busy with.
LEMMA BusyStays ==
  ASSUME Inv, at'["worker"] = at["worker"], JobsQuiet, ClusterFlow, RemotesKept,
         NEW t \in running', t.kind = "create", NEW d, d = job[t.job].dep, RowKept(d)
  PROVE  /\ job'[t.job].dep = d
         /\ Watched(t)' \/ Uncertain(d)'
         /\ \A j \in JobIds : JobActive(j)' /\ job'[j].dep = d => j = Worker'.job
<1>1. t \in running
  BY DEF ClusterFlow
<1>2. WatchedCreate(t) /\ t.job \in JobIds
  BY <1>1, TaskFields DEF Inv, OwnershipInv, CreatesWatched, LifecycleInv
<1>3. d \in Deployments /\ Exists(d) /\ d # 0
  BY <1>1, CreateOwned
<1>4. job'[t.job].dep = d /\ job'[t.job].remote = job[t.job].remote /\ Worker' = Worker
  BY <1>1, <1>2 DEF JobsQuiet, RemotesKept, Worker
<1>5. Watched(t) => Watched(t)'
  BY <1>2, <1>4 DEF Watched, JobActive, JobsQuiet
<1>6. Uncertain(d) => Uncertain(d)'
  BY <1>3, <1>4 DEF Uncertain, RowKept
<1>7. \A j \in JobIds : JobActive(j)' /\ job'[j].dep = d => j = Worker'.job
  BY <1>2, <1>4 DEF WatchedCreate, JobActive, JobsQuiet
<1> QED
  BY <1>2, <1>4, <1>5, <1>6, <1>7 DEF WatchedCreate

LEMMA WaiterQuiet ==
  ASSUME Inv, GoesOn("waiter"), JobsQuiet, ClusterFlow, UNCHANGED request,
         RowsKeptBut(Waiter.dep), RemotesKept
  PROVE  CreatesWatched'
<1> SUFFICES ASSUME NEW t \in running', t.kind = "create"
             PROVE  WatchedCreate(t)'
  BY DEF CreatesWatched
<1>1. t \in running /\ t.job \in JobIds
  BY TaskFields DEF ClusterFlow, Inv, LifecycleInv
<1>2. WatchedCreate(t)
  BY <1>1 DEF Inv, OwnershipInv, CreatesWatched
<1>3. PICK d \in Deployments : d = job[t.job].dep
  BY <1>1, CreateOwned
<1>4. at'["worker"] = at["worker"] /\ Waiter'.dep = Waiter.dep
  BY DEF GoesOn, Actors, Waiter
<1>5. RowKept(d) /\ Waiter.dep # d
  BY <1>2, <1>3 DEF RowsKeptBut, WatchedCreate
<1>6. /\ job'[t.job].dep = d
      /\ Watched(t)' \/ Uncertain(d)'
      /\ \A j \in JobIds : JobActive(j)' /\ job'[j].dep = d => j = Worker'.job
  BY <1>3, <1>4, <1>5, BusyStays
<1> QED
  BY <1>2, <1>3, <1>4, <1>5, <1>6 DEF WatchedCreate, Uncertain, JobActive

LEMMA SelectedStays ==
  ASSUME Inv, Flow, at'["worker"] = at["worker"], NamesDropped,
         Worker.pc \in {"prepare", "create"} => RowKept(Worker.dep)
  PROVE  Selected'
<1>1. Worker' = Worker
  BY DEF Worker
<1>2. Selected
  BY DEF Inv, OwnershipInv
<1> DEFINE d == Worker.dep
<1>3. ASSUME Worker.pc \in {"pick", "prepare", "create", "drop"}
      PROVE  Vmless(d)'
  BY <1>1, <1>2, <1>3, VmlessStays, WorkerUncreated DEF Selected
<1>4. ASSUME Worker.pc \in {"stop", "destroy", "recordDestroy", "erase", "confirm"}
      PROVE  VmidOf(d)' \in {Worker.vmid, NoVmid}
  BY <1>1, <1>2, <1>4, UnnamedStays DEF Selected, NamesDropped
<1>5. ASSUME Worker.pc \in {"prepare", "create"}
      PROVE  VmidOf(d)' = Worker.vmid /\ (Worker.pc = "create" => dep'[d].identity = "submitting")
  <2>1. Exists(d)
    BY <1>2, <1>5, LocalsTyped, OwnerExists
       DEF Selected, VmPlaces, Actors, Worker, Inv, LifecycleInv
  <2> QED
    BY <1>2, <1>5, <2>1 DEF Selected, RowKept
<1> QED
  BY <1>1, <1>3, <1>4, <1>5 DEF Selected, Vmless, VmidOf, Exists

LEMMA WaiterSelected ==
  ASSUME Inv, Flow, at'["worker"] = at["worker"], NamesDropped, RowsKeptBut(Waiter.dep)
  PROVE  Selected'
<1>1. ASSUME Worker.pc \in {"prepare", "create"}
      PROVE  RowKept(Worker.dep)
  <2>1. Worker.dep \in Deployments /\ Worker.dep # 0
    BY <1>1, LocalsTyped, OwnerExists
       DEF Selected, VmPlaces, Actors, Worker, Inv, LifecycleInv, OwnershipInv
  <2> QED
    BY <1>1, <2>1, WaiterElsewhere DEF RowsKeptBut, CreatePlaces
<1> QED
  BY <1>1, SelectedStays

LEMMA WaiterTaskStays ==
  ASSUME Inv, at'["waiter"] = at["waiter"]
  PROVE  TaskMeant("waiter")'
BY DEF Inv, LifecycleInv, Held, OwnershipInv, TasksMeant, TaskMeant, Actors, ReconcilePlaces

LEMMA WorkerTaskStays ==
  ASSUME Inv, at'["worker"] = at["worker"], \A t \in running : t.kind = "create" => t \in running'
  PROVE  TaskMeant("worker")'
BY DEF Inv, OwnershipInv, TasksMeant, TaskMeant, Actors

--------------------------------------------------------------------------------
(* The steps of the worker while it executes a job                            *)

LEMMA RemoteQuiet ==
  ASSUME Typed, NEW j \in JobIds, NEW k, job' = [job EXCEPT ![j].remote = k]
  PROVE  /\ JobsQuiet /\ job'[j].remote = k
         /\ \A i \in JobIds \ {j} : job'[i] = job[i]
<1>1. job[j] \in JobRow /\ job \in [JobIds -> JobRow]
  BY DEF Typed, TypeOK
<1> QED
  BY <1>1 DEF JobsQuiet, JobRow

LEMMA CreateQuiet ==
  ASSUME Typed, NEW j \in JobIds, NEW c, job' = [job EXCEPT ![j].create = c]
  PROVE  JobsQuiet /\ \A i \in JobIds : job'[i].remote = job[i].remote
<1>1. job[j] \in JobRow /\ job \in [JobIds -> JobRow]
  BY DEF Typed, TypeOK
<1> QED
  BY <1>1 DEF JobsQuiet, JobRow

LEMMA WorkerStep ==
  ASSUME Inv, GoesOn("worker"), Creates("worker"), JobsQuiet, ClusterFlow, NamesFlow, RowsShrink,
         UNCHANGED <<todo, request>>,
         Unstarted', Selected', RightVerdict("worker")', TaskMeant("worker")', CreatesWatched'
  PROVE  OwnershipInv'
<1>1. Flow
  BY DEF Flow, JobsFlow, JobsQuiet
<1>2. at'["waiter"] = at["waiter"]
  BY DEF GoesOn, Actors
<1>3. Uncrashed' /\ LocalsAgree' /\ RowsKnown' /\ WaitsApart'
  BY ThreadKeeps DEF Actors
<1>4. NoOrphanVm' /\ CreatesApart'
  BY <1>1, FlowOwned
<1>5. Verdict'
  BY <1>1, <1>2, VerdictStays DEF Verdict, Actors
<1>6. TasksMeant'
  BY <1>2, WaiterTaskStays DEF TasksMeant, Actors
<1> QED
  BY <1>3, <1>4, <1>5, <1>6 DEF OwnershipInv

\* Most steps leave the rows and the creates alone.
LEMMA WorkerStays ==
  ASSUME Inv, GoesOn("worker"), Creates("worker"), JobsQuiet, ClusterFlow,
         UNCHANGED <<dep, todo, request>>, Uncreated(Worker.dep),
         Selected', RightVerdict("worker")', TaskMeant("worker")'
  PROVE  OwnershipInv'
<1>1. RowsShrink /\ NamesDropped /\ NamesFlow /\ RowsKeptBut(Worker.dep)
  <2>1. NamesFlow
    BY DEF NamesFlow, VmidOf, Exists
  <2> QED
    BY <2>1, RowsStay DEF RowsKeptBut
<1>2. Unstarted'
  BY <1>1, QueuedStayUnnamed
<1>3. CreatesWatched'
  BY <1>1, WorkerQuiet
<1> QED
  BY <1>1, <1>2, <1>3, WorkerStep

\* The places about which the invariant says something.
ChosenPlaces == {"pick", "prepare", "create", "drop"}
NamedPlaces == {"stop", "destroy", "recordDestroy", "erase", "confirm"}

LEMMA PlaceFree ==
  ASSUME NEW a \in Actors, at'[a].pc \in ExecPlaces \cup ReconcilePlaces
  PROVE  /\ at'[a].pc # "apply" => RightVerdict(a)'
         /\ at'[a].pc \notin TaskPlaces => TaskMeant(a)'
         /\ a = "worker" /\ at'[a].pc \notin ChosenPlaces \cup NamedPlaces => Selected'
BY DEF RightVerdict, TaskMeant, Selected, TaskPlaces, ChosenPlaces, NamedPlaces, Worker

LEMMA NamedStays ==
  ASSUME Inv, UNCHANGED dep, GoesOn("worker"), at'["worker"].vmid = at["worker"].vmid,
         Worker.pc \in NamedPlaces, at'["worker"].pc \notin ChosenPlaces
  PROVE  Selected'
<1>1. VmidOf(Worker.dep) \in {Worker.vmid, NoVmid}
  BY DEF Inv, OwnershipInv, Selected, NamedPlaces
<1> QED
  BY <1>1 DEF Selected, GoesOn, Worker, VmidOf, Exists, ChosenPlaces

LEMMA LoadOwns ==
  ASSUME Inv, Load("worker")
  PROVE  OwnershipInv'
<1>1. Worker.pc = "load" /\ UNCHANGED <<dep, job, vm, running, todo, request>>
  BY DEF Load, Worker, tables, cluster
<1>2. /\ GoesOn("worker") /\ at'["worker"].pc \in {"retain", "ansible", "stop"}
      /\ at'["worker"].pc = "stop" => Exists(Worker.dep) /\ at'["worker"].vmid = dep[Worker.dep].vmid
  <2>1. CASE Abort("worker", "failed") \/ Abort("worker", "canceled")
    BY <1>1, <2>1, GotoGoesOn DEF Inv, LifecycleInv, Worker, Actors, ExecPlaces, ReconcilePlaces
  <2>2. CASE /\ Exists(Worker.dep)
             /\ \E p \in {"ansible", "stop"} :
                  at' = [at EXCEPT !["worker"].vmid = dep[Worker.dep].vmid, !["worker"].pc = p]
    <3>1. at \in [Actors -> Local] /\ "worker" \in Actors
      BY DEF Inv, LifecycleInv, Typed, TypeOK, Actors
    <3>2. PICK p \in {"ansible", "stop"} :
            at' = [at EXCEPT !["worker"].vmid = dep[Worker.dep].vmid, !["worker"].pc = p]
      BY <2>2
    <3>3. at' = [at EXCEPT !["worker"] = [at["worker"] EXCEPT !.vmid = dep[Worker.dep].vmid, !.pc = p]]
      BY <3>1, <3>2 DEF Local
    <3>4. /\ at'["worker"].pc = p /\ at'["worker"].vmid = dep[Worker.dep].vmid
          /\ at'["worker"].dep = at["worker"].dep /\ at'["worker"].job = at["worker"].job
          /\ at'["worker"].kind = at["worker"].kind
          /\ \A b \in Actors \ {"worker"} : at'[b] = at[b]
      BY <3>1, <3>3 DEF Local
    <3> QED
      BY <1>1, <2>2, <3>4 DEF GoesOn, Worker, ExecPlaces, ReconcilePlaces
  <2> QED
    BY <2>1, <2>2 DEF Load, MissingTarget, Worker
<1>3. Creates("worker")
  BY <1>2 DEF Creates, CreatePlaces
<1>4. ClusterFlow /\ JobsQuiet /\ Uncreated(Worker.dep)
  BY <1>1, ClusterRests, WorkerUncreated DEF cluster, JobsQuiet
<1>5. Selected'
  BY <1>1, <1>2 DEF Selected, GoesOn, Worker, VmidOf, Exists, Actors
<1>6. RightVerdict("worker")' /\ TaskMeant("worker")'
  BY <1>2, PlaceFree DEF TaskPlaces, Actors, ExecPlaces, ReconcilePlaces
<1> QED
  BY <1>1, <1>2, <1>3, <1>4, <1>5, <1>6, WorkerStays

LEMMA StopOwns ==
  ASSUME Inv, Stop("worker")
  PROVE  OwnershipInv'
<1>1. Worker.pc = "stop" /\ UNCHANGED <<dep, todo, request, vm>>
  BY DEF Stop, Worker, cluster, OtherTaskOk, OtherTaskAborts
<1>2. \/ Goto("worker", "confirm") \/ Goto("worker", "destroy")
      \/ Abort("worker", "failed") \/ Abort("worker", "canceled")
  BY DEF Stop, OtherTaskOk, OtherTaskAborts
<1>3. /\ GoesOn("worker") /\ at'["worker"].pc \in {"confirm", "destroy", "retain"}
      /\ at'["worker"].vmid = at["worker"].vmid
  BY <1>1, <1>2, GotoGoesOn DEF Inv, LifecycleInv, Worker, Actors, ExecPlaces, ReconcilePlaces
<1>4. JobsQuiet
  <2>1. job' = job \/ job' = [job EXCEPT ![Worker.job].remote = "other"]
    BY DEF Stop, OtherTaskOk, OtherTaskAborts, Worker
  <2>2. Worker.job \in JobIds
    BY <1>1, LocalsTyped DEF Inv, LifecycleInv, Worker, Actors, ExecPlaces
  <2> QED
    BY <2>1, <2>2, RemoteQuiet DEF JobsQuiet, Inv, LifecycleInv
<1>5. ClusterFlow
  <2>1. \A t \in running' : t \in running \/ t.kind # "create"
    BY DEF Stop, OtherTaskOk, OtherTaskAborts, OtherTask, cluster
  <2> QED
    BY <1>1, <2>1, TasksAdded
<1>6. Uncreated(Worker.dep) /\ Creates("worker")
  BY <1>1, <1>3, WorkerUncreated DEF Creates, CreatePlaces
<1>7. Selected' /\ RightVerdict("worker")' /\ TaskMeant("worker")'
  BY <1>1, <1>3, PlaceFree, NamedStays
     DEF TaskPlaces, Actors, NamedPlaces, ChosenPlaces, ExecPlaces, ReconcilePlaces
<1> QED
  BY <1>1, <1>3, <1>4, <1>5, <1>6, <1>7, WorkerStays

LEMMA DestroyOwns ==
  ASSUME Inv, Destroy("worker")
  PROVE  OwnershipInv'
<1> DEFINE t == [job |-> Worker.job, kind |-> "destroy", vmid |-> Worker.vmid,
                 on |-> vm[Worker.vmid]]
<1>1. Worker.pc = "destroy" /\ UNCHANGED <<dep, job, todo, request, vm>>
  BY DEF Destroy, Worker, tables
<1>2. /\ running' \in {running, running \cup {t}} /\ t.kind = "destroy"
      /\ GotoAwaiting("worker", "recordDestroy", t) \/ Abort("worker", "failed")
  BY DEF Destroy, Worker
<1> HIDE DEF t
<1>3. /\ GoesOn("worker") /\ at'["worker"].pc \in {"recordDestroy", "retain"}
      /\ at'["worker"].vmid = at["worker"].vmid
  BY <1>1, <1>2, GotoGoesOn DEF Inv, LifecycleInv, Worker, Actors, ExecPlaces, ReconcilePlaces
<1>4. TaskMeant("worker")'
  <2>1. CASE GotoAwaiting("worker", "recordDestroy", t)
    <3>1. at'["worker"].task = t /\ at'["worker"].pc = "recordDestroy"
      BY <2>1 DEF GotoAwaiting, Inv, LifecycleInv, Typed, TypeOK, Local, Actors
    <3> QED
      BY <1>2, <3>1 DEF TaskMeant
  <2>2. CASE Abort("worker", "failed")
    <3>1. at'["worker"].pc = "retain"
      BY <2>2 DEF Abort, Inv, LifecycleInv, Typed, TypeOK, Local, Actors
    <3> QED
      BY <3>1 DEF TaskMeant
  <2> QED
    BY <1>2, <2>1, <2>2
<1>5. ClusterFlow /\ JobsQuiet
  BY <1>1, <1>2, TasksAdded DEF JobsQuiet
<1>6. Uncreated(Worker.dep) /\ Creates("worker")
  BY <1>1, <1>3, WorkerUncreated DEF Creates, CreatePlaces
<1>7. Selected' /\ RightVerdict("worker")'
  BY <1>1, <1>3, PlaceFree, NamedStays
     DEF Actors, NamedPlaces, ChosenPlaces, ExecPlaces, ReconcilePlaces
<1> QED
  BY <1>1, <1>3, <1>4, <1>5, <1>6, <1>7, WorkerStays

LEMMA RecordDestroyOwns ==
  ASSUME Inv, RecordDestroy("worker")
  PROVE  OwnershipInv'
<1>1. Worker.pc = "recordDestroy" /\ UNCHANGED <<dep, todo, request, vm, running>>
  BY DEF RecordDestroy, Worker, cluster
<1>2. /\ job' = [job EXCEPT ![Worker.job].remote = "destroy"]
      /\ GotoAwaiting("worker", "erase", Worker.task)
  BY DEF RecordDestroy, Worker
<1>3. /\ GoesOn("worker") /\ at'["worker"].pc = "erase"
      /\ at'["worker"].vmid = at["worker"].vmid
  BY <1>1, <1>2, GotoGoesOn DEF Inv, LifecycleInv, Worker, Actors, ExecPlaces, ReconcilePlaces
<1>4. TaskMeant("worker")'
  <2>1. at'["worker"].task = Worker.task
    BY <1>2 DEF GotoAwaiting, Inv, LifecycleInv, Typed, TypeOK, Local, Actors
  <2>2. Worker.task.kind = "destroy"
    BY <1>1 DEF Inv, OwnershipInv, TasksMeant, TaskMeant, Worker, Actors
  <2> QED
    BY <1>3, <2>1, <2>2 DEF TaskMeant
<1>5. ClusterFlow /\ JobsQuiet
  <2>1. Worker.job \in JobIds
    BY <1>1, LocalsTyped DEF Inv, LifecycleInv, Worker, Actors, ExecPlaces
  <2> QED
    BY <1>1, <1>2, <2>1, ClusterRests, RemoteQuiet DEF cluster, Inv, LifecycleInv
<1>6. Uncreated(Worker.dep) /\ Creates("worker")
  BY <1>1, <1>3, WorkerUncreated DEF Creates, CreatePlaces
<1>7. Selected' /\ RightVerdict("worker")'
  BY <1>1, <1>3, PlaceFree, NamedStays
     DEF Actors, NamedPlaces, ChosenPlaces, ExecPlaces, ReconcilePlaces
<1> QED
  BY <1>1, <1>3, <1>4, <1>5, <1>6, <1>7, WorkerStays

\* Whatever comes of the task a thread waits for, no create is accepted.
LEMMA AwaitedFlow ==
  ASSUME Inv, NEW a \in Actors, at[a].pc \in TaskPlaces,
         Succeeds(at[a].task) \/ Fails(at[a].task) \/ UNCHANGED cluster
  PROVE  ClusterFlow
<1>1. at[a].task \in Task
  BY LocalsTyped DEF Inv, LifecycleInv
<1>2. at[a].task.kind = "create" => at[a].task \in running
  BY DEF Inv, OwnershipInv, TasksMeant, TaskMeant, TaskPlaces
<1> QED
  BY <1>1, <1>2, TaskSucceeds, TaskFails, ClusterRests

LEMMA EraseOwns ==
  ASSUME Inv, Erase("worker")
  PROVE  OwnershipInv'
<1>1. Worker.pc = "erase" /\ UNCHANGED <<dep, job, todo, request>>
  BY DEF Erase, Worker, tables
<1>2. /\ Succeeds(Worker.task) \/ Fails(Worker.task) \/ UNCHANGED cluster
      /\ Goto("worker", "confirm") \/ Abort("worker", "failed") \/ Abort("worker", "canceled")
  BY DEF Erase, TaskOk, TaskFailed, TaskCanceled, Worker
<1>3. /\ GoesOn("worker") /\ at'["worker"].pc \in {"confirm", "retain"}
      /\ at'["worker"].vmid = at["worker"].vmid
  BY <1>1, <1>2, GotoGoesOn DEF Inv, LifecycleInv, Worker, Actors, ExecPlaces, ReconcilePlaces
<1>4. ClusterFlow /\ JobsQuiet
  BY <1>1, <1>2, AwaitedFlow DEF JobsQuiet, Worker, Actors, TaskPlaces
<1>5. Uncreated(Worker.dep) /\ Creates("worker")
  BY <1>1, <1>3, WorkerUncreated DEF Creates, CreatePlaces
<1>6. Selected' /\ RightVerdict("worker")' /\ TaskMeant("worker")'
  BY <1>1, <1>3, PlaceFree, NamedStays
     DEF Actors, NamedPlaces, ChosenPlaces, TaskPlaces, ExecPlaces, ReconcilePlaces
<1> QED
  BY <1>1, <1>3, <1>4, <1>5, <1>6, WorkerStays

\* Once the VM that the row names is seen to be absent, the deployment has none.
LEMMA AbsentVmless ==
  ASSUME Inv, NEW d, NEW v, VmidOf(d) \in {v, NoVmid}, "absent" \in Inventory(v)
  PROVE  Vmless(d)
<1>1. v \in Vmids => vm[v] = NoVm
  BY Ids DEF Inventory, Present
<1>2. \A w \in Vmids : VmidOf(d) = w => vm[w] = NoVm
  BY <1>1, Ids
<1> QED
  BY <1>2, UnnamedVmless DEF Inv, OwnershipInv, LifecycleInv

LEMMA ConfirmOwns ==
  ASSUME Inv, Confirm("worker")
  PROVE  OwnershipInv'
<1>1. Worker.pc = "confirm" /\ UNCHANGED <<dep, job, vm, running, todo, request>>
  BY DEF Confirm, Worker, tables, cluster
<1>2. \/ /\ "absent" \in Inventory(Worker.vmid)
         /\ Goto("worker", IF Worker.kind = "rebuild" THEN "pick" ELSE "drop")
      \/ Abort("worker", "failed")
  BY DEF Confirm, Worker
<1>3. /\ GoesOn("worker") /\ at'["worker"].pc \in {"pick", "drop", "retain"}
      /\ at'["worker"].pc = "pick" => Worker.kind = "rebuild"
      /\ at'["worker"].pc # "retain" => "absent" \in Inventory(Worker.vmid)
  <2>1. CASE Abort("worker", "failed")
    BY <1>1, <2>1, GotoGoesOn DEF Inv, LifecycleInv, Worker, Actors, ExecPlaces, ReconcilePlaces
  <2>2. CASE Worker.kind = "rebuild" /\ Goto("worker", "pick")
    BY <1>1, <1>2, <2>2, GotoGoesOn
       DEF Inv, LifecycleInv, Worker, Actors, ExecPlaces, ReconcilePlaces, Abort, Goto
  <2>3. CASE Worker.kind # "rebuild" /\ Goto("worker", "drop")
    BY <1>1, <1>2, <2>3, GotoGoesOn
       DEF Inv, LifecycleInv, Worker, Actors, ExecPlaces, ReconcilePlaces
  <2> QED
    BY <1>2, <2>1, <2>2, <2>3
<1>4. ClusterFlow /\ JobsQuiet /\ Uncreated(Worker.dep)
  BY <1>1, ClusterRests, WorkerUncreated DEF JobsQuiet, cluster
<1>5. Creates("worker")
  <2>1. Worker.job # 0
    BY <1>1, LocalsTyped, Ids DEF Inv, LifecycleInv, Worker, Actors, ExecPlaces
  <2> QED
    BY <1>3, <2>1 DEF Creates, CreatePlaces, Worker
<1>6. Selected'
  <2>1. at'["worker"].pc # "retain" => Vmless(Worker.dep)
    BY <1>1, <1>3, AbsentVmless DEF Inv, OwnershipInv, Selected
  <2> QED
    BY <1>1, <1>3, <2>1 DEF Selected, Vmless, GoesOn, Worker
<1>7. RightVerdict("worker")' /\ TaskMeant("worker")'
  BY <1>3, PlaceFree DEF Actors, TaskPlaces, ExecPlaces, ReconcilePlaces
<1> QED
  BY <1>1, <1>3, <1>4, <1>5, <1>6, <1>7, WorkerStays

\* A step that writes the row of the worker's deployment, for which no create is under way.
LEMMA WorkerWrites ==
  ASSUME Inv, GoesOn("worker"), Creates("worker"), JobsQuiet, ClusterFlow, NamesFlow, RowsShrink,
         UNCHANGED <<todo, request>>, RowsKeptBut(Worker.dep), Uncreated(Worker.dep),
         Unstarted', Selected', RightVerdict("worker")', TaskMeant("worker")'
  PROVE  OwnershipInv'
BY WorkerQuiet, WorkerStep

LEMMA RowWritten ==
  ASSUME Inv, NEW d, Exists(d), NEW row \in Row, dep' = [dep EXCEPT ![d] = row]
  PROVE  /\ Exists(d)' /\ dep'[d] = row /\ VmidOf(d)' = row.vmid /\ VmidOf(d) = dep[d].vmid
         /\ \A e \in Deployments \ {d} : dep'[e] = dep[e]
<1>1. d \in Deployments /\ dep'[d] = row /\ \A e \in Deployments \ {d} : dep'[e] = dep[e]
  BY DEF Exists, Inv, LifecycleInv, Typed, TypeOK
<1> QED
  BY <1>1, NoRowIsNoRow DEF Exists, VmidOf

\* The fields of a row that has been written.
LEMMA RowFields ==
  ASSUME Inv, NEW d, Exists(d)
  PROVE  /\ d \in Deployments /\ dep[d] \in Row
         /\ \A v \in Vmids \cup {NoVmid} :
              LET row == [dep[d] EXCEPT !.vmid = v]
              IN row \in Row /\ row.vmid = v /\ row.post = dep[d].post
         /\ \A i \in IdentityStates :
              LET row == [dep[d] EXCEPT !.identity = i]
              IN /\ row \in Row /\ row.vmid = dep[d].vmid /\ row.post = dep[d].post
                 /\ row.identity = i /\ row.status = dep[d].status
BY ExistingRow DEF Row, Inv, LifecycleInv, Typed

\* One row alone is written.
LEMMA OneRow ==
  ASSUME NEW d, \A e \in Deployments \ {d} : dep'[e] = dep[e],
         Exists(d)' => Exists(d) /\ dep'[d].post = dep[d].post
  PROVE  /\ RowsKeptBut(d) /\ RowsShrink
         /\ VmidOf(d)' = VmidOf(d) \/ (Vmless(d) /\ Uncreated(d)) => NamesFlow
         /\ VmidOf(d)' \in {VmidOf(d), NoVmid} => NamesDropped
<1>1. \A e \in Deployments \ {d} : VmidOf(e)' = VmidOf(e) /\ (Exists(e)' <=> Exists(e))
  BY DEF VmidOf, Exists
<1>2. RowsKeptBut(d)
  BY <1>1 DEF RowsKeptBut, RowKept
<1>3. RowsShrink
  BY <1>1 DEF RowsShrink
<1>4. VmidOf(d)' = VmidOf(d) \/ (Vmless(d) /\ Uncreated(d)) => NamesFlow
  BY <1>1 DEF NamesFlow
<1>5. VmidOf(d)' \in {VmidOf(d), NoVmid} => NamesDropped
  BY <1>1 DEF NamesDropped
<1> QED
  BY <1>2, <1>3, <1>4, <1>5

\* A row whose VM id and plan stay.
LEMMA RowRewritten ==
  ASSUME Inv, NEW d, Exists(d), NEW r \in Row, dep' = [dep EXCEPT ![d] = r],
         r.vmid = dep[d].vmid, r.post = dep[d].post
  PROVE  RowsKeptBut(d) /\ RowsShrink /\ NamesFlow /\ NamesDropped /\ VmidOf(d)' = VmidOf(d)
<1>1. /\ dep'[d] = r /\ VmidOf(d)' = r.vmid /\ VmidOf(d) = dep[d].vmid
      /\ \A e \in Deployments \ {d} : dep'[e] = dep[e]
  BY RowWritten
<1>2. dep'[d].post = dep[d].post /\ VmidOf(d)' = VmidOf(d)
  BY <1>1
<1> QED
  BY <1>1, <1>2, OneRow

\* The job that the worker executes is the one active job of its deployment.
LEMMA WorkerAlone ==
  ASSUME Inv, Worker.pc \in ExecPlaces
  PROVE  /\ Worker.job \in JobIds /\ JobActive(Worker.job) /\ job[Worker.job].dep = Worker.dep
         /\ job[Worker.job].status = "running"
         /\ \A j \in JobIds : JobActive(j) /\ job[j].dep = Worker.dep => j = Worker.job
<1>1. Worker.job \in JobIds /\ job[Worker.job].status = "running"
  BY LocalsTyped DEF Inv, LifecycleInv, Held, Actors, Worker
<1>2. job[Worker.job].dep = Worker.dep
  BY <1>1, Ids DEF Inv, OwnershipInv, LocalsAgree, Actors, Worker
<1>3. JobActive(Worker.job)
  BY <1>1 DEF JobActive, ActiveStatuses
<1> QED
  BY <1>1, <1>2, <1>3 DEF Inv, LifecycleInv, OneActiveLifecycleJob

LEMMA DropOwns ==
  ASSUME Inv, Drop("worker")
  PROVE  OwnershipInv'
<1> SUFFICES ASSUME NEW d, d = Worker.dep
             PROVE  OwnershipInv'
  OBVIOUS
<1>1. /\ Worker.pc = "drop" /\ UNCHANGED <<job, vm, running, todo, request>>
      /\ Goto("worker", "succeed") /\ dep' = [dep EXCEPT ![d] = NoRow]
  BY DEF Drop, DropRow, Worker, cluster
<1>2. GoesOn("worker") /\ at'["worker"].pc = "succeed"
  BY <1>1, GotoGoesOn DEF Inv, LifecycleInv, Worker, Actors, ExecPlaces, ReconcilePlaces
<1>3. ClusterFlow /\ JobsQuiet /\ Uncreated(d) /\ Creates("worker")
  BY <1>1, <1>2, ClusterRests, WorkerUncreated DEF JobsQuiet, cluster, Creates, CreatePlaces
<1>4. ~Exists(d)' /\ \A e \in Deployments \ {d} : dep'[e] = dep[e]
  BY <1>1 DEF Exists, Inv, LifecycleInv, Typed, TypeOK
<1>5. Vmless(d) /\ VmidOf(d)' = NoVmid
  BY <1>1, <1>4 DEF Inv, OwnershipInv, Selected, VmidOf
<1>6. RowsKeptBut(d) /\ RowsShrink /\ NamesFlow /\ NamesDropped
  BY <1>3, <1>4, <1>5, OneRow
<1>7. Unstarted'
  BY <1>3, <1>6, QueuedStayUnnamed
<1>8. Selected' /\ RightVerdict("worker")' /\ TaskMeant("worker")'
  BY <1>2, PlaceFree DEF Actors, NamedPlaces, ChosenPlaces, TaskPlaces, ExecPlaces, ReconcilePlaces
<1> QED
  BY <1>1, <1>2, <1>3, <1>6, <1>7, <1>8, WorkerWrites

LEMMA PickOwns ==
  ASSUME Inv, Pick("worker")
  PROVE  OwnershipInv'
<1> SUFFICES ASSUME NEW d, d = Worker.dep
             PROVE  OwnershipInv'
  OBVIOUS
<1>1. Worker.pc = "pick" /\ UNCHANGED <<job, vm, running, todo, request>>
  BY DEF Pick, Worker, cluster
<1>2. ClusterFlow /\ JobsQuiet /\ Uncreated(d)
  BY <1>1, ClusterRests, WorkerUncreated DEF JobsQuiet, cluster
<1>3. CASE Abort("worker", "failed") /\ UNCHANGED dep
  <2>1. GoesOn("worker") /\ at'["worker"].pc = "retain"
    BY <1>1, <1>3, GotoGoesOn DEF Inv, LifecycleInv, Worker, Actors, ExecPlaces, ReconcilePlaces
  <2>2. Selected' /\ RightVerdict("worker")' /\ TaskMeant("worker")' /\ Creates("worker")
    BY <2>1, PlaceFree DEF Actors, NamedPlaces, ChosenPlaces, TaskPlaces, ExecPlaces,
                           ReconcilePlaces, Creates, CreatePlaces
  <2> QED
    BY <1>1, <1>2, <1>3, <2>1, <2>2, WorkerStays
<1>4. ASSUME Exists(d), NEW v \in Vmids, dep' = [dep EXCEPT ![d].vmid = v],
             at' = [at EXCEPT !["worker"].vmid = v, !["worker"].pc = "prepare"]
      PROVE  OwnershipInv'
  <2>1. /\ at'["worker"].pc = "prepare" /\ at'["worker"].vmid = v
        /\ at'["worker"].dep = at["worker"].dep /\ at'["worker"].job = at["worker"].job
        /\ at'["worker"].kind = at["worker"].kind
        /\ \A b \in Actors \ {"worker"} : at'[b] = at[b]
    <3>1. at \in [Actors -> Local] /\ "worker" \in Actors
      BY DEF Inv, LifecycleInv, Typed, TypeOK, Actors
    <3>2. at' = [at EXCEPT !["worker"] = [at["worker"] EXCEPT !.vmid = v, !.pc = "prepare"]]
      BY <1>4, <3>1 DEF Local
    <3> QED
      BY <3>1, <3>2 DEF Local
  <2>2. GoesOn("worker") /\ Creates("worker")
    BY <1>1, <2>1 DEF GoesOn, Creates, CreatePlaces, Worker, ExecPlaces, ReconcilePlaces
  <2>3. Vmless(d)
    BY <1>1 DEF Inv, OwnershipInv, Selected
  <2> DEFINE row == [dep[d] EXCEPT !.vmid = v]
  <2>4. row \in Row /\ row.vmid = v /\ row.post = dep[d].post /\ dep' = [dep EXCEPT ![d] = row]
    <3>1. dep' = [dep EXCEPT ![d] = row]
      BY <1>4, ExistingRow DEF Inv, LifecycleInv, Typed, TypeOK
    <3>2. dep[d] \in Row
      BY <1>4, ExistingRow DEF Inv, LifecycleInv, Typed
    <3> QED
      BY <3>1, <3>2 DEF Row
  <2> HIDE DEF row
  <2>5. RowsKeptBut(d) /\ RowsShrink /\ NamesFlow
    BY <1>2, <1>4, <2>3, <2>4, OneRow, RowWritten
  <2>6. VmidOf(d)' = v /\ \A e \in Deployments \ {d} : VmidOf(e)' = VmidOf(e)
    <3>1. VmidOf(d)' = v /\ \A e \in Deployments \ {d} : dep'[e] = dep[e]
      BY <1>4, <2>4, RowWritten
    <3> QED
      BY <3>1 DEF VmidOf, Exists
  <2>7. Unstarted'
    <3> SUFFICES ASSUME NEW j \in JobIds, NEW e, e = job[j].dep,
                        job[j].type = "deploy", job[j].status = "queued"
                 PROVE  VmidOf(e)' = NoVmid
      BY <1>1 DEF Inv, OwnershipInv, Unstarted, VmidOf, Exists
    <3>1. JobActive(j)
      BY DEF JobActive, ActiveStatuses
    <3>2. e # d
      BY <1>1, <3>1, WorkerAlone DEF ExecPlaces
    <3>3. VmidOf(e) = NoVmid
      BY DEF Inv, OwnershipInv, Unstarted
    <3> QED
      BY <2>6, <3>2, <3>3, UnnamedStays
  <2>8. Selected'
    BY <1>1, <2>1, <2>3, <2>6 DEF Selected, Worker, Vmless
  <2>9. RightVerdict("worker")' /\ TaskMeant("worker")'
    BY <2>1 DEF RightVerdict, TaskMeant
  <2> QED
    BY <1>1, <1>2, <2>2, <2>5, <2>7, <2>8, <2>9, WorkerWrites
<1>5. ASSUME Exists(d)
      PROVE  (IF dep[d].vmid # NoVmid THEN {dep[d].vmid} ELSE Least(FreeVmids)) \subseteq Vmids
  <2>1. dep[d] \in Row
    BY <1>5, ExistingRow DEF Inv, LifecycleInv, Typed
  <2>2. Least(FreeVmids) \subseteq Vmids /\ dep[d].vmid \in Vmids \cup {NoVmid}
    BY <2>1 DEF Row, Least, FreeVmids
  <2> QED
    BY <2>2
<1> QED
  BY <1>3, <1>4, <1>5 DEF Pick, MissingTarget, Worker

\* Before the create is sent the row is there and names the chosen id.
LEMMA ChosenRow ==
  ASSUME Inv, Worker.pc \in {"prepare", "create"}, NEW d, d = Worker.dep
  PROVE  /\ Exists(d) /\ d \in Deployments /\ dep[d] \in Row /\ Worker.vmid \in Vmids
         /\ dep[d].vmid = Worker.vmid /\ VmidOf(d) = Worker.vmid
         /\ Vmless(d) /\ Uncreated(d)
<1>1. VmidOf(d) = Worker.vmid /\ Worker.vmid \in Vmids /\ Vmless(d)
  BY LocalsTyped DEF Inv, OwnershipInv, LifecycleInv, Selected, VmPlaces, Worker, Actors
<1> QED
  BY <1>1, OwnerExists, WorkerUncreated, ExistingRow DEF Inv, LifecycleInv, Typed

\* Its row is written: the id is kept or dropped.
LEMMA ChosenWritten ==
  ASSUME Inv, Worker.pc \in {"prepare", "create"}, NEW d, d = Worker.dep,
         NEW row \in Row, Write(d, row), row.vmid \in {Worker.vmid, NoVmid},
         row.post = dep[d].post, JobsQuiet
  PROVE  /\ RowsKeptBut(d) /\ RowsShrink /\ NamesFlow /\ Unstarted'
         /\ VmidOf(d)' = row.vmid /\ dep'[d] = row
<1>1. /\ Exists(d) /\ dep[d].vmid = Worker.vmid /\ VmidOf(d) = Worker.vmid
      /\ Vmless(d) /\ Uncreated(d)
  BY ChosenRow
<1>2. /\ dep'[d] = row /\ VmidOf(d)' = row.vmid
      /\ \A e \in Deployments \ {d} : dep'[e] = dep[e]
  <2>1. dep' = [dep EXCEPT ![d] = row]
    BY <1>1 DEF Write
  <2>2. Exists(d)
    BY <1>1
  <2>3. dep'[d] = row /\ VmidOf(d)' = row.vmid
    <3>1. d \in Deployments /\ dep'[d] = row
      BY <2>1, <2>2 DEF Exists, Inv, LifecycleInv, Typed, TypeOK
    <3> QED
      BY <3>1, NoRowIsNoRow DEF Exists, VmidOf
  <2>4. \A e \in Deployments \ {d} : dep'[e] = dep[e]
    BY <2>1, <2>2, RowWritten
  <2> QED
    BY <2>3, <2>4
<1>3. RowsKeptBut(d) /\ RowsShrink /\ NamesFlow /\ NamesDropped
  BY <1>1, <1>2, OneRow
<1> QED
  BY <1>2, <1>3, QueuedStayUnnamed

LEMMA ClearedRow ==
  ASSUME NEW row \in Row, NEW v \in Vmids, row.vmid = v, NEW i \in IdentityStates
  PROVE  LET r == Cleared(row, v)
             s == [r EXCEPT !.identity = i]
         IN /\ r \in Row /\ r.vmid = NoVmid /\ r.post = row.post
            /\ s \in Row /\ s.vmid = NoVmid /\ s.post = row.post
BY DEF Cleared, Row

LEMMA PrepareOwns ==
  ASSUME Inv, Prepare("worker")
  PROVE  OwnershipInv'
<1> SUFFICES ASSUME NEW d, d = Worker.dep
             PROVE  OwnershipInv'
  OBVIOUS
<1>1. Worker.pc = "prepare" /\ UNCHANGED <<vm, running, todo, request>>
  BY DEF Prepare, Worker, cluster
<1>2. /\ dep[d] \in Row /\ Worker.vmid \in Vmids /\ dep[d].vmid = Worker.vmid
      /\ Vmless(d) /\ Uncreated(d)
  BY <1>1, ChosenRow
<1>3. ClusterFlow
  BY <1>1, ClusterRests DEF cluster
<1>4. CASE /\ Write(d, Cleared(dep[d], Worker.vmid)) /\ UNCHANGED job
           /\ Abort("worker", "failed") \/ Abort("worker", "canceled")
  <2>1. JobsQuiet
    BY <1>4 DEF JobsQuiet
  <2> DEFINE row == Cleared(dep[d], Worker.vmid)
  <2>2. row \in Row /\ row.vmid = NoVmid /\ row.post = dep[d].post /\ Write(d, row)
    BY <1>2, <1>4, ClearedRow DEF IdentityStates
  <2> HIDE DEF row
  <2>3. RowsKeptBut(d) /\ RowsShrink /\ NamesFlow /\ Unstarted'
    BY <1>1, <2>1, <2>2, ChosenWritten
  <2>4. GoesOn("worker") /\ at'["worker"].pc = "retain"
    BY <1>1, <1>4, GotoGoesOn DEF Inv, LifecycleInv, Worker, Actors, ExecPlaces, ReconcilePlaces
  <2>5. Selected' /\ RightVerdict("worker")' /\ TaskMeant("worker")' /\ Creates("worker")
    BY <2>4, PlaceFree DEF Actors, NamedPlaces, ChosenPlaces, TaskPlaces, ExecPlaces,
                           ReconcilePlaces, Creates, CreatePlaces
  <2> QED
    BY <1>1, <1>2, <1>3, <2>1, <2>3, <2>4, <2>5, WorkerWrites
<1>5. CASE /\ Write(d, [dep[d] EXCEPT !.identity = "submitting"])
           /\ job' = [job EXCEPT ![Worker.job].create = "submitting"]
           /\ Goto("worker", "create")
  <2>1. JobsQuiet
    <3>1. Worker.job \in JobIds
      BY <1>1, WorkerAlone DEF ExecPlaces
    <3> QED
      BY <1>5, <3>1, CreateQuiet DEF Inv, LifecycleInv
  <2> DEFINE row == [dep[d] EXCEPT !.identity = "submitting"]
  <2>2. /\ row \in Row /\ row.vmid = Worker.vmid /\ row.post = dep[d].post /\ Write(d, row)
        /\ row.identity = "submitting"
    BY <1>2, <1>5 DEF Row, IdentityStates
  <2> HIDE DEF row
  <2>3. /\ RowsKeptBut(d) /\ RowsShrink /\ NamesFlow /\ Unstarted'
        /\ VmidOf(d)' = Worker.vmid /\ dep'[d].identity = "submitting"
    BY <1>1, <2>1, <2>2, ChosenWritten
  <2>4. GoesOn("worker") /\ at'["worker"].pc = "create" /\ at'["worker"].vmid = at["worker"].vmid
    BY <1>1, <1>5, GotoGoesOn DEF Inv, LifecycleInv, Worker, Actors, ExecPlaces, ReconcilePlaces
  <2>5. Creates("worker") /\ RightVerdict("worker")' /\ TaskMeant("worker")'
    BY <1>1, <2>4, PlaceFree DEF Actors, TaskPlaces, ExecPlaces, ReconcilePlaces, Creates,
                                 CreatePlaces, Worker
  <2>6. Vmless(d)'
    <3>1. Flow
      BY <1>3, <2>1, <2>3 DEF Flow, JobsFlow, JobsQuiet
    <3> QED
      BY <1>2, <3>1, VmlessStays
  <2>7. Selected'
    BY <2>3, <2>4, <2>6 DEF Selected, GoesOn, Worker
  <2> QED
    BY <1>1, <1>2, <1>3, <2>1, <2>3, <2>4, <2>5, <2>7, WorkerWrites
<1> QED
  BY <1>4, <1>5 DEF Prepare, Worker

--------------------------------------------------------------------------------
(* A create is sent, and what the worker does until it is settled             *)

\* A create is sent for the VM id that the worker has chosen.
LEMMA SentOwns ==
  ASSUME Inv, Worker.pc = "create", GoesOn("worker"), JobsQuiet, UNCHANGED <<vm, todo, request>>,
         NEW d, d = Worker.dep, NEW t, t = [job |-> Worker.job, kind |-> "create",
                                            vmid |-> Worker.vmid, on |-> NoVm],
         ~Present(Worker.vmid), ~ \E u \in running : u.kind = "create" /\ u.vmid = Worker.vmid,
         running' = running \cup {t},
         RowsKeptBut(d), RowsShrink, VmidOf(d)' = VmidOf(d),
         \/ at'["worker"].pc = "accept" /\ at'["worker"].task = t
         \/ at'["worker"].pc = "retain" /\ dep'[d].identity = "submitting"
  PROVE  OwnershipInv'
<1>1. /\ d \in Deployments /\ VmidOf(d) = Worker.vmid /\ Worker.vmid \in Vmids
      /\ Vmless(d) /\ Uncreated(d)
  BY ChosenRow
<1>2. /\ Worker.job \in JobIds /\ JobActive(Worker.job) /\ job[Worker.job].dep = d
      /\ \A j \in JobIds : JobActive(j) /\ job[j].dep = d => j = Worker.job
  BY WorkerAlone DEF ExecPlaces
<1>3. \A e \in Deployments : VmidOf(e)' = VmidOf(e)
  BY DEF RowsKeptBut, RowKept
<1>4. t.job = Worker.job /\ t.kind = "create" /\ t.vmid = Worker.vmid
  OBVIOUS
<1>5. Worker'.dep = d /\ Worker'.job = Worker.job /\ Waiter' = Waiter /\ at'["waiter"] = at["waiter"]
  BY DEF GoesOn, Worker, Waiter, Actors
<1>6. Uncrashed' /\ LocalsAgree' /\ RowsKnown' /\ WaitsApart'
  BY ThreadKeeps DEF Actors, Creates, CreatePlaces, Worker
<1>7. Unstarted'
  BY <1>3, QueuedStayUnnamed DEF NamesDropped
<1>8. Selected'
  BY DEF Selected, Worker
<1>9. Verdict'
  <2>1. RightVerdict("worker")'
    BY DEF RightVerdict
  <2>2. RightVerdict("waiter")'
    <3> SUFFICES ASSUME NEW e, e = Waiter.dep, Waiter.pc = "apply", Waiter.seen = "absent",
                        VmidOf(e)' = Waiter.vmid
                 PROVE  Vmless(e)'
      BY <1>5 DEF RightVerdict, Waiter, Vmless, VmidOf, Exists
    <3>1. VmidOf(e) = Waiter.vmid
      BY <1>3, UnnamedStays
    <3>2. Vmless(e)
      BY <3>1 DEF Inv, OwnershipInv, Verdict, RightVerdict, Actors, Waiter
    <3> QED
      BY <3>2 DEF Vmless, JobsQuiet
  <2> QED
    BY <2>1, <2>2 DEF Verdict, Actors
<1>10. NoOrphanVm'
  <2>1. ASSUME NEW j \in JobIds, NEW v \in Vmids, VmidOf(job[j].dep) = v
        PROVE  VmidOf(job[j].dep)' = v
    <3>1. PICK e \in Deployments : e = job[j].dep
      BY <2>1, OwnerExists DEF Inv, LifecycleInv
    <3>2. VmidOf(e)' = v /\ job'[j].dep = e
      BY <1>3, <2>1, <3>1 DEF JobsQuiet
    <3> QED
      BY <3>2
  <2>2. \A v \in Vmids : vm[v] \in JobIds => Owned(vm[v], v)'
    BY <2>1 DEF Inv, OwnershipInv, NoOrphanVm, Owned
  <2>3. \A u \in running : u.kind = "create" => Owned(u.job, u.vmid)'
    BY <2>1, TaskFields DEF Inv, LifecycleInv, OwnershipInv, NoOrphanVm, Owned
  <2>4. Owned(t.job, t.vmid)'
    BY <1>1, <1>2, <1>4, <2>1 DEF Owned
  <2> QED
    BY <2>2, <2>3, <2>4 DEF NoOrphanVm, Owned
<1>11. CreatesApart'
  BY <1>1, <1>4, TaskFields DEF CreatesApart, Inv, LifecycleInv, OwnershipInv, Present
<1>12. CreatesWatched'
  <2>1. ASSUME NEW u \in running, u.kind = "create"
        PROVE  WatchedCreate(u)'
    BY <1>1, <2>1, OthersWatched DEF Uncreated
  <2>2. WatchedCreate(t)'
    <3>1. job'[t.job].dep = d /\ JobActive(t.job)'
      BY <1>2, <1>4 DEF JobsQuiet, JobActive
    <3>2. Waiter'.dep # d
      <4>1. Worker.dep # 0
        BY <1>1, Ids
      <4> QED
        BY <1>5, <4>1, WaiterElsewhere DEF CreatePlaces
    <3>3. request' # NoRequest => request'.dep # d
      BY <1>2 DEF Inv, OwnershipInv, RowsKnown, Active
    <3>4. \A j \in JobIds : JobActive(j)' /\ job'[j].dep = d => j = Worker'.job
      BY <1>2, <1>5 DEF JobsQuiet, JobActive
    <3>5. Watched(t)' \/ Uncertain(d)'
      BY <1>4, <1>5, <3>1 DEF Watched, Uncertain, Worker
    <3> QED
      BY <3>1, <3>2, <3>3, <3>4, <3>5 DEF WatchedCreate, Uncertain, JobActive
  <2> QED
    BY <2>1, <2>2 DEF CreatesWatched
<1>13. TasksMeant'
  <2>1. TaskMeant("worker")'
    BY <1>4 DEF TaskMeant, GoesOn, Worker
  <2> QED
    BY <1>5, <2>1, WaiterTaskStays DEF TasksMeant, Actors
<1> QED
  BY <1>6, <1>7, <1>8, <1>9, <1>10, <1>11, <1>12, <1>13 DEF OwnershipInv

LEMMA CreateOwns ==
  ASSUME Inv, Create("worker")
  PROVE  OwnershipInv'
<1> SUFFICES ASSUME NEW d, d = Worker.dep
             PROVE  OwnershipInv'
  OBVIOUS
<1> DEFINE v == Worker.vmid
           taken == Present(v) \/ \E u \in running : u.kind = "create" /\ u.vmid = v
<1>1. Worker.pc = "create" /\ UNCHANGED <<vm, todo, request>>
  BY DEF Create, Worker
<1>2. /\ Exists(d) /\ dep[d] \in Row /\ v \in Vmids /\ dep[d].vmid = v /\ VmidOf(d) = v
      /\ Vmless(d) /\ Uncreated(d) /\ Worker.job \in JobIds
  BY <1>1, ChosenRow, WorkerAlone DEF ExecPlaces
<1>3. CASE /\ Write(d, [Cleared(dep[d], v) EXCEPT !.identity = "rejected"])
           /\ job' = [job EXCEPT ![Worker.job].create = "rejected"]
           /\ Abort("worker", "failed") /\ UNCHANGED running
  <2> DEFINE row == [Cleared(dep[d], v) EXCEPT !.identity = "rejected"]
  <2>1. JobsQuiet
    BY <1>2, <1>3, CreateQuiet DEF Inv, LifecycleInv
  <2>2. row \in Row /\ row.vmid = NoVmid /\ row.post = dep[d].post /\ Write(d, row)
    BY <1>2, <1>3, ClearedRow DEF IdentityStates
  <2> HIDE DEF row
  <2>3. RowsKeptBut(d) /\ RowsShrink /\ NamesFlow /\ Unstarted'
    BY <1>1, <2>1, <2>2, ChosenWritten
  <2>4. GoesOn("worker") /\ at'["worker"].pc = "retain"
    BY <1>1, <1>3, GotoGoesOn DEF Inv, LifecycleInv, Worker, Actors, ExecPlaces, ReconcilePlaces
  <2>5. Selected' /\ RightVerdict("worker")' /\ TaskMeant("worker")' /\ Creates("worker")
    BY <2>4, PlaceFree DEF Actors, NamedPlaces, ChosenPlaces, TaskPlaces, ExecPlaces,
                           ReconcilePlaces, Creates, CreatePlaces
  <2>6. ClusterFlow
    BY <1>1, <1>3, ClusterRests DEF cluster
  <2> QED
    BY <1>1, <1>2, <2>1, <2>3, <2>4, <2>5, <2>6, WorkerWrites
<1>4. CASE running' = running /\ Abort("worker", "failed") /\ UNCHANGED <<dep, job>>
  <2>1. GoesOn("worker") /\ at'["worker"].pc = "retain"
    BY <1>1, <1>4, GotoGoesOn DEF Inv, LifecycleInv, Worker, Actors, ExecPlaces, ReconcilePlaces
  <2>2. Selected' /\ RightVerdict("worker")' /\ TaskMeant("worker")' /\ Creates("worker")
    BY <2>1, PlaceFree DEF Actors, NamedPlaces, ChosenPlaces, TaskPlaces, ExecPlaces,
                           ReconcilePlaces, Creates, CreatePlaces
  <2>3. ClusterFlow /\ JobsQuiet
    BY <1>1, <1>4, ClusterRests DEF cluster, JobsQuiet
  <2> QED
    BY <1>1, <1>2, <1>4, <2>1, <2>2, <2>3, WorkerStays
<1>5. ASSUME NEW t, t = [job |-> Worker.job, kind |-> "create", vmid |-> v, on |-> NoVm],
             ~taken, running' = running \cup {t}, UNCHANGED <<dep, job>>,
             Abort("worker", "failed") \/ GotoAwaiting("worker", "accept", t)
      PROVE  OwnershipInv'
  <2>0. JobsQuiet /\ RowsShrink /\ RowsKeptBut(d) /\ VmidOf(d)' = VmidOf(d)
    BY <1>5, RowsStay DEF JobsQuiet, RowsKeptBut, VmidOf, Exists
  <2>1. CASE Abort("worker", "failed")
    <3>1. GoesOn("worker") /\ at'["worker"].pc = "retain"
      BY <1>1, <2>1, GotoGoesOn DEF Inv, LifecycleInv, Worker, Actors, ExecPlaces, ReconcilePlaces
    <3>2. dep'[d].identity = "submitting"
      BY <1>1, <1>5 DEF Inv, OwnershipInv, Selected
    <3> QED
      BY <1>1, <1>5, <2>0, <3>1, <3>2, SentOwns
  <2>2. CASE GotoAwaiting("worker", "accept", t)
    <3>1. GoesOn("worker") /\ at'["worker"].pc = "accept"
      BY <1>1, <2>2, GotoGoesOn DEF Inv, LifecycleInv, Worker, Actors, ExecPlaces, ReconcilePlaces
    <3>2. at'["worker"].task = t
      BY <2>2 DEF GotoAwaiting, Inv, LifecycleInv, Typed, TypeOK, Local, Actors
    <3> QED
      BY <1>1, <1>5, <2>0, <3>1, <3>2, SentOwns
  <2> QED
    BY <1>5, <2>1, <2>2
<1> QED
  BY <1>3, <1>4, <1>5 DEF Create, Worker

\* The create that the worker is busy with.
LEMMA OwnWatched ==
  ASSUME Inv, GoesOn("worker"), JobsQuiet, UNCHANGED request, NEW d, d = Worker.dep,
         NEW t \in running, t.kind = "create", job[t.job].dep = d, Watched(t)' \/ Uncertain(d)'
  PROVE  WatchedCreate(t)'
<1>1. WatchedCreate(t) /\ t.job \in JobIds
  BY TaskFields DEF Inv, OwnershipInv, CreatesWatched, LifecycleInv
<1>2. job'[t.job].dep = d /\ Worker'.dep = d /\ Worker'.job = Worker.job /\ Waiter'.dep = Waiter.dep
  BY <1>1 DEF JobsQuiet, GoesOn, Worker, Waiter, Actors
<1>3. \A j \in JobIds : JobActive(j)' /\ job'[j].dep = d => j = Worker'.job
  BY <1>1, <1>2 DEF WatchedCreate, JobsQuiet, JobActive
<1> QED
  BY <1>1, <1>2, <1>3 DEF WatchedCreate, Uncertain, JobActive

LEMMA WatchedStays ==
  ASSUME Inv, GoesOn("worker"), JobsQuiet, ClusterFlow, UNCHANGED request,
         RowsKeptBut(Worker.dep), NEW d, d = Worker.dep,
         \A t \in running' :
           t \in running /\ t.kind = "create" /\ job[t.job].dep = d => Watched(t)' \/ Uncertain(d)'
  PROVE  CreatesWatched'
<1> SUFFICES ASSUME NEW t \in running', t.kind = "create"
             PROVE  WatchedCreate(t)'
  BY DEF CreatesWatched
<1>1. t \in running
  BY DEF ClusterFlow
<1> QED
  BY <1>1, OwnWatched, OthersWatched

\* A step that leaves all names alone while a create may be under way.
LEMMA BusyWrites ==
  ASSUME Inv, GoesOn("worker"), Creates("worker"), JobsQuiet, ClusterFlow,
         UNCHANGED <<todo, request>>, NEW d, d = Worker.dep,
         RowsKeptBut(d), RowsShrink, VmidOf(d)' = VmidOf(d),
         \A t \in running' :
           t \in running /\ t.kind = "create" /\ job[t.job].dep = d => Watched(t)' \/ Uncertain(d)',
         at'["worker"].pc \notin NamedPlaces \cup ChosenPlaces \cup {"apply"},
         TaskMeant("worker")'
  PROVE  OwnershipInv'
<1>1. NamesDropped /\ NamesFlow
  <2>1. \A e \in Deployments : VmidOf(e)' = VmidOf(e)
    BY DEF RowsKeptBut, RowKept
  <2> QED
    BY <2>1 DEF NamesDropped, NamesFlow
<1>2. Unstarted' /\ CreatesWatched'
  BY <1>1, QueuedStayUnnamed, WatchedStays
<1>3. Selected' /\ RightVerdict("worker")'
  BY DEF Selected, RightVerdict, NamedPlaces, ChosenPlaces, Worker
<1> QED
  BY <1>1, <1>2, <1>3, WorkerStep

\* Most leave the rows alone altogether.
LEMMA BusyOwns ==
  ASSUME Inv, GoesOn("worker"), Creates("worker"), JobsQuiet, ClusterFlow,
         UNCHANGED <<dep, todo, request>>, NEW d, d = Worker.dep,
         \A t \in running' :
           t \in running /\ t.kind = "create" /\ job[t.job].dep = d => Watched(t)' \/ Uncertain(d)',
         at'["worker"].pc \notin NamedPlaces \cup ChosenPlaces \cup {"apply"},
         TaskMeant("worker")'
  PROVE  OwnershipInv'
<1>1. RowsShrink /\ RowsKeptBut(d) /\ VmidOf(d)' = VmidOf(d)
  BY RowsStay DEF RowsKeptBut, VmidOf, Exists
<1> QED
  BY <1>1, BusyWrites

\* While the create is submitted or waited for, it is the task of the worker.
LEMMA BusyWith ==
  ASSUME Inv, Worker.pc \in {"accept", "record", "import"}, NEW t \in running, t.kind = "create",
         job[t.job].dep = Worker.dep
  PROVE  t = Worker.task /\ t.job = Worker.job
<1>1. WatchedCreate(t)
  BY DEF Inv, OwnershipInv, CreatesWatched
<1> QED
  BY <1>1 DEF WatchedCreate, Watched, Uncertain

LEMMA AcceptOwns ==
  ASSUME Inv, Accept("worker")
  PROVE  OwnershipInv'
<1> SUFFICES ASSUME NEW d, d = Worker.dep
             PROVE  OwnershipInv'
  OBVIOUS
<1>1. Worker.pc = "accept" /\ UNCHANGED <<todo, request, vm, running>>
  BY DEF Accept, Worker, cluster
<1>2. /\ Write(d, [dep[d] EXCEPT !.identity = "accepted"])
      /\ job' = [job EXCEPT ![Worker.job].create = "accepted"]
      /\ GotoAwaiting("worker", "record", Worker.task)
  BY DEF Accept, Worker
<1>3. /\ GoesOn("worker") /\ at'["worker"].pc = "record" /\ at'["worker"].task = Worker.task
      /\ Worker'.job = Worker.job
  <2>1. at'["worker"].task = Worker.task
    BY <1>2 DEF GotoAwaiting, Inv, LifecycleInv, Typed, TypeOK, Local, Actors
  <2>2. GoesOn("worker") /\ at'["worker"].pc = "record"
    BY <1>1, <1>2, GotoGoesOn DEF Inv, LifecycleInv, Worker, Actors, ExecPlaces, ReconcilePlaces
  <2> QED
    BY <2>1, <2>2 DEF GoesOn, Worker
<1>4. JobsQuiet /\ ClusterFlow /\ JobActive(Worker.job)'
  <2>1. Worker.job \in JobIds /\ JobActive(Worker.job)
    BY <1>1, WorkerAlone DEF ExecPlaces
  <2>2. JobsQuiet
    BY <1>2, <2>1, CreateQuiet DEF Inv, LifecycleInv
  <2> QED
    BY <1>1, <1>3, <2>1, <2>2, ClusterRests DEF cluster, JobsQuiet, JobActive
<1>5. RowsKeptBut(d) /\ RowsShrink /\ VmidOf(d)' = VmidOf(d)
  <2>1. CASE ~Exists(d)
    <3>1. dep' = dep
      BY <1>2, <2>1 DEF Write
    <3> QED
      BY <3>1, RowsStay DEF RowsKeptBut, VmidOf, Exists
  <2>2. CASE Exists(d)
    <3> DEFINE row == [dep[d] EXCEPT !.identity = "accepted"]
    <3>1. dep[d] \in Row /\ dep' = [dep EXCEPT ![d] = row]
      BY <1>2, <2>2, ExistingRow DEF Write, Inv, LifecycleInv, Typed
    <3>2. row \in Row /\ row.vmid = dep[d].vmid /\ row.post = dep[d].post
      BY <3>1 DEF Row, IdentityStates
    <3>3. PICK r \in Row : /\ dep' = [dep EXCEPT ![d] = r]
                           /\ r.vmid = dep[d].vmid /\ r.post = dep[d].post
      BY <3>1, <3>2
    <3> QED
      BY <2>2, <3>3, RowRewritten
  <2> QED
    BY <2>1, <2>2
<1>6. TaskMeant("worker")'
  <2>1. TaskMeant("worker") /\ at'["worker"].job = at["worker"].job
    BY <1>3 DEF Inv, OwnershipInv, TasksMeant, Actors, GoesOn
  <2> QED
    BY <1>1, <1>3, <2>1 DEF TaskMeant, Worker
<1>7. ASSUME NEW t \in running, t.kind = "create", job[t.job].dep = d
      PROVE  Watched(t)'
  <2>1. t = Worker.task /\ t.job = Worker.job
    BY <1>1, <1>7, BusyWith
  <2>2. Worker' = at'["worker"] /\ Worker'.job = Worker.job
    BY <1>3 DEF Worker, GoesOn
  <2> QED
    BY <1>3, <1>4, <2>1, <2>2 DEF Watched, JobActive
<1>8. Creates("worker")
  BY <1>1 DEF Creates, CreatePlaces, Worker
<1> QED
  BY <1>1, <1>3, <1>4, <1>5, <1>6, <1>7, <1>8, BusyWrites DEF NamedPlaces, ChosenPlaces

LEMMA RecordOwns ==
  ASSUME Inv, Record("worker")
  PROVE  OwnershipInv'
<1> SUFFICES ASSUME NEW d, d = Worker.dep
             PROVE  OwnershipInv'
  OBVIOUS
<1>1. Worker.pc = "record" /\ UNCHANGED <<dep, todo, request, vm, running>>
  BY DEF Record, Worker, cluster
<1>2. /\ job' = [job EXCEPT ![Worker.job].remote = "create"]
      /\ GotoAwaiting("worker", "import", Worker.task)
  BY DEF Record, Worker
<1>3. GoesOn("worker") /\ at'["worker"].pc = "import"
  BY <1>1, <1>2, GotoGoesOn DEF Inv, LifecycleInv, Worker, Actors, ExecPlaces, ReconcilePlaces
<1>4. at'["worker"].task = Worker.task
  BY <1>2 DEF GotoAwaiting, Inv, LifecycleInv, Typed, TypeOK, Local, Actors
<1>5. /\ Worker.task \in running /\ Worker.task.kind = "create" /\ Worker.task.job = Worker.job
      /\ Worker'.job = Worker.job
  BY <1>1, <1>3 DEF Inv, OwnershipInv, TasksMeant, TaskMeant, Worker, Actors, GoesOn
<1>6. /\ JobsQuiet /\ ClusterFlow /\ job'[Worker.job].remote = "create" /\ JobActive(Worker.job)'
  <2>1. Worker.job \in JobIds /\ JobActive(Worker.job)
    BY <1>1, WorkerAlone DEF ExecPlaces
  <2>2. JobsQuiet /\ job'[Worker.job].remote = "create"
    BY <1>2, <2>1, RemoteQuiet DEF Inv, LifecycleInv
  <2> QED
    BY <1>1, <1>5, <2>1, <2>2, ClusterRests DEF cluster, JobsQuiet, JobActive
<1>7. TaskMeant("worker")'
  BY <1>1, <1>3, <1>4, <1>5 DEF TaskMeant, Worker
<1>8. ASSUME NEW t \in running, t.kind = "create", job[t.job].dep = d
      PROVE  Watched(t)'
  <2>1. t = Worker.task /\ t.job = Worker.job
    BY <1>1, <1>8, BusyWith
  <2> QED
    BY <1>3, <1>4, <1>5, <1>6, <2>1 DEF Watched, Worker, JobActive
<1>9. Creates("worker")
  BY <1>1 DEF Creates, CreatePlaces, Worker
<1> QED
  BY <1>1, <1>3, <1>6, <1>7, <1>8, <1>9, BusyOwns DEF NamedPlaces, ChosenPlaces

LEMMA ImportOwns ==
  ASSUME Inv, Import("worker")
  PROVE  OwnershipInv'
<1> SUFFICES ASSUME NEW d, d = Worker.dep
             PROVE  OwnershipInv'
  OBVIOUS
<1>1. Worker.pc = "import" /\ UNCHANGED <<dep, job, todo, request>>
  BY DEF Import, Worker, tables
<1>2. \/ Succeeds(Worker.task) \/ Fails(Worker.task)
      \/ UNCHANGED cluster /\ (Abort("worker", "failed") \/ Abort("worker", "canceled"))
  BY DEF Import, TaskOk, TaskFailed, TaskCanceled, Worker
<1>3. Goto("worker", "setup") \/ Abort("worker", "failed") \/ Abort("worker", "canceled")
  BY DEF Import, TaskFailed, TaskCanceled
<1>4. GoesOn("worker") /\ at'["worker"].pc \in {"setup", "retain"}
  BY <1>1, <1>3, GotoGoesOn DEF Inv, LifecycleInv, Worker, Actors, ExecPlaces, ReconcilePlaces
<1>5. ClusterFlow /\ JobsQuiet
  BY <1>1, <1>2, AwaitedFlow DEF JobsQuiet, Worker, Actors, TaskPlaces
<1>6. ASSUME NEW t \in running', t \in running, t.kind = "create", job[t.job].dep = d
      PROVE  Watched(t)'
  <2>1. t = Worker.task
    BY <1>1, <1>6, BusyWith
  <2>2. Watched(t)
    BY <1>1, <1>6 DEF Inv, OwnershipInv, CreatesWatched, WatchedCreate, Uncertain
  <2>3. at'["worker"].pc = "retain"
    <3>1. UNCHANGED cluster
      BY <1>2, <2>1 DEF Succeeds, Fails
    <3>2. Abort("worker", "failed") \/ Abort("worker", "canceled")
      BY <1>2, <2>1 DEF Succeeds, Fails
    <3> QED
      BY <1>1, <3>2, GotoGoesOn DEF Inv, LifecycleInv, Worker, Actors, ExecPlaces, ReconcilePlaces
  <2> QED
    BY <1>1, <1>4, <2>2, <2>3 DEF Watched, GoesOn, Worker, JobActive
<1>7. Creates("worker") /\ TaskMeant("worker")'
  BY <1>1, <1>4 DEF Creates, CreatePlaces, Worker, TaskMeant
<1> QED
  BY <1>1, <1>4, <1>5, <1>6, <1>7, BusyOwns DEF NamedPlaces, ChosenPlaces

LEMMA SetupOwns ==
  ASSUME Inv, Setup("worker")
  PROVE  OwnershipInv'
<1>1. Worker.pc = "setup" /\ UNCHANGED <<dep, todo, request, vm>>
  BY DEF Setup, Worker, cluster, OtherTaskOk, OtherTaskAborts
<1>2. Goto("worker", "boot") \/ Abort("worker", "failed") \/ Abort("worker", "canceled")
  BY DEF Setup, OtherTaskOk, OtherTaskAborts
<1>3. GoesOn("worker") /\ at'["worker"].pc \in {"boot", "retain"}
  BY <1>1, <1>2, GotoGoesOn DEF Inv, LifecycleInv, Worker, Actors, ExecPlaces, ReconcilePlaces
<1>4. JobsQuiet
  <2>1. job' = job \/ job' = [job EXCEPT ![Worker.job].remote = "other"]
    BY DEF Setup, OtherTaskOk, OtherTaskAborts, Worker
  <2>2. Worker.job \in JobIds
    BY <1>1, WorkerAlone DEF ExecPlaces
  <2> QED
    BY <2>1, <2>2, RemoteQuiet DEF JobsQuiet, Inv, LifecycleInv
<1>5. ClusterFlow
  <2>1. \A t \in running' : t \in running \/ t.kind # "create"
    BY DEF Setup, OtherTaskOk, OtherTaskAborts, OtherTask, cluster
  <2> QED
    BY <1>1, <2>1, TasksAdded
<1>6. Uncreated(Worker.dep) /\ Creates("worker")
  BY <1>1, <1>3, WorkerUncreated DEF Creates, CreatePlaces, Worker
<1>7. Selected' /\ RightVerdict("worker")' /\ TaskMeant("worker")'
  BY <1>3, PlaceFree DEF TaskPlaces, Actors, NamedPlaces, ChosenPlaces, ExecPlaces, ReconcilePlaces
<1> QED
  BY <1>1, <1>3, <1>4, <1>5, <1>6, <1>7, WorkerStays

\* A step that changes nothing but the place of the worker.
LEMMA PlaceOwns ==
  ASSUME Inv, Worker.pc \in {"boot", "ansible", "finish"}, UNCHANGED <<job, cluster, todo, request>>,
         UNCHANGED dep \/ \E d \in Deployments : /\ d = Worker.dep /\ Exists(d)
                                                 /\ \E s \in Outcomes, o \in Origins :
                                                      dep' = [dep EXCEPT ![d].status = s, ![d].origin = o],
         \/ \E p \in {"ansible", "finish", "succeed"} : Goto("worker", p)
         \/ Abort("worker", "failed") \/ Abort("worker", "canceled")
  PROVE  OwnershipInv'
<1>1. GoesOn("worker") /\ at'["worker"].pc \in {"ansible", "finish", "succeed", "retain"}
  BY GotoGoesOn DEF Inv, LifecycleInv, Worker, Actors, ExecPlaces, ReconcilePlaces
<1>2. ClusterFlow /\ JobsQuiet /\ Uncreated(Worker.dep) /\ Creates("worker")
  BY <1>1, ClusterRests, WorkerUncreated DEF JobsQuiet, Creates, CreatePlaces
<1>3. Selected' /\ RightVerdict("worker")' /\ TaskMeant("worker")'
  BY <1>1, PlaceFree DEF TaskPlaces, Actors, NamedPlaces, ChosenPlaces, ExecPlaces, ReconcilePlaces
<1>4. CASE UNCHANGED dep
  BY <1>1, <1>2, <1>3, <1>4, WorkerStays
<1>5. ASSUME NEW d \in Deployments, d = Worker.dep, Exists(d), NEW s \in Outcomes, NEW o \in Origins,
             dep' = [dep EXCEPT ![d].status = s, ![d].origin = o]
      PROVE  OwnershipInv'
  <2>1. dep[d] \in Row
    BY <1>5, ExistingRow DEF Inv, LifecycleInv, Typed
  <2> DEFINE row == [dep[d] EXCEPT !.status = s, !.origin = o]
  <2>2. /\ row \in Row /\ row.vmid = dep[d].vmid /\ row.post = dep[d].post
        /\ dep' = [dep EXCEPT ![d] = row]
    BY <1>5, <2>1 DEF Row, Outcomes, Origins, Inv, LifecycleInv, Typed, TypeOK
  <2> HIDE DEF row
  <2>3. Exists(d)
    BY <1>5
  <2>4. /\ Exists(d)' /\ dep'[d] = row /\ VmidOf(d)' = VmidOf(d)
        /\ \A e \in Deployments \ {d} : dep'[e] = dep[e]
    BY <2>2, <2>3, RowWritten
  <2>5. RowsShrink /\ NamesFlow /\ NamesDropped
    BY <2>2, <2>3, <2>4, OneRow
  <2>6. RowsKeptBut(d)
    <3>1. \A e \in Deployments \ {d} : VmidOf(e)' = VmidOf(e)
      BY <2>4 DEF VmidOf, Exists
    <3> QED
      BY <2>4, <3>1 DEF RowsKeptBut, RowKept
  <2> QED
    BY <1>1, <1>2, <1>3, <1>5, <2>5, <2>6, QueuedStayUnnamed, WorkerWrites
<1> QED
  BY <1>4, <1>5

LEMMA AnsibleOwns ==
  ASSUME Inv, Ansible("worker")
  PROVE  OwnershipInv'
<1>1. Worker.pc = "ansible" /\ UNCHANGED <<dep, job, cluster, todo, request>>
  BY DEF Ansible, Worker, tables
<1>2. Goto("worker", "finish") \/ Abort("worker", "failed") \/ Abort("worker", "canceled")
  BY DEF Ansible
<1> QED
  BY <1>1, <1>2, PlaceOwns

LEMMA FinishOwns ==
  ASSUME Inv, Finish("worker")
  PROVE  OwnershipInv'
<1>1. Worker.pc = "finish" /\ UNCHANGED <<job, cluster, todo, request>>
  BY DEF Finish, Worker
<1>2. Goto("worker", "succeed") \/ Abort("worker", "failed")
  BY DEF Finish
<1>3. \/ UNCHANGED dep
      \/ \E d \in Deployments : d = Worker.dep /\ Exists(d)
           /\ dep' = [dep EXCEPT ![d].status = "live", ![d].origin = ""]
  BY DEF Finish, Worker, Exists
<1>4. \/ UNCHANGED dep
      \/ \E d \in Deployments : /\ d = Worker.dep /\ Exists(d)
                                /\ \E s \in Outcomes, o \in Origins :
                                     dep' = [dep EXCEPT ![d].status = s, ![d].origin = o]
  BY <1>3 DEF Outcomes, Origins
<1> QED
  BY <1>1, <1>2, <1>4, PlaceOwns

--------------------------------------------------------------------------------
(* The worker leaves a job                                                    *)

\* The worker's job ends, or starts to wait; the others stay.
JobLeft ==
  /\ \A j \in JobIds : job'[j].dep = job[j].dep /\ job'[j].type = job[j].type
  /\ \A j \in JobIds :
       \/ job'[j].status = job[j].status
       \/ /\ j = Worker.job /\ job[j].status = "running"
          /\ \/ job'[j].status \in Terminal
             \/ job'[j].status = "waiting" /\ TRUE \in PostBoot /\ job[j].type = "deploy"

LEMMA LeaveOwns ==
  ASSUME Inv, at' = [at EXCEPT !["worker"] = Idle], JobLeft,
         UNCHANGED <<dep, cluster, todo, request>>,
         \/ Uncreated(Worker.dep)
         \/ Worker.pc = "close" /\ (Worker.job \in JobIds => job'[Worker.job].status \in Terminal)
  PROVE  OwnershipInv'
<1>1. /\ at'["worker"] = Idle /\ at'["waiter"] = at["waiter"] /\ Worker' = Idle /\ Waiter' = Waiter
      /\ Idle.pc = "idle" /\ Idle.dep = 0 /\ Idle.job = 0
  BY DEF Inv, LifecycleInv, Typed, TypeOK, Actors, Worker, Waiter, Idle
<1>2. \A j \in JobIds : JobActive(j)' => JobActive(j)
  BY DEF JobLeft, JobActive, ActiveStatuses
<1>3. \A d : (Known(d) => Known(d)') /\ (Active(d)' => Active(d))
  BY <1>2 DEF Known, Active, JobLeft
<1>4. Flow /\ RowsShrink /\ NamesDropped
  BY ClusterRests, RowsStay DEF Flow, JobsFlow, JobLeft, NamesFlow, VmidOf, Exists
<1>5. NoOrphanVm' /\ CreatesApart'
  BY <1>4, FlowOwned
<1>6. Verdict'
  BY <1>1, <1>4, VerdictStays DEF Verdict, Actors, RightVerdict
<1>7. Uncrashed' /\ TasksMeant' /\ Selected'
  BY <1>1, WaiterTaskStays
     DEF Uncrashed, Inv, OwnershipInv, TasksMeant, TaskMeant, Selected, Actors
<1>8. LocalsAgree'
  <2>1. Waiter.job \in JobIds \cup {0}
    BY DEF Inv, LifecycleInv, Typed, TypeOK, Local, Waiter, Actors
  <2> QED
    BY <1>1, <1>3, <2>1 DEF LocalsAgree, Inv, OwnershipInv, JobLeft, Waiter, Actors
<1>9. RowsKnown'
  <2>1. \A d \in Deployments : Exists(d)' => Known(d)'
    BY <1>3 DEF RowsKnown, Inv, OwnershipInv, Exists
  <2>2. \A d : d = request.dep /\ request # NoRequest => Known(d)' /\ ~Active(d)'
    BY <1>3 DEF RowsKnown, Inv, OwnershipInv
  <2> QED
    BY <2>1, <2>2, RequestAdmits DEF RowsKnown, Known, Active, JobActive
<1>10. WaitsApart'
  <2>1. TRUE \notin PostBoot =>
          /\ Waiter'.pc = "idle"
          /\ \A j \in JobIds : job'[j].status # "waiting"
          /\ \A d \in Deployments : Exists(d)' => ~dep'[d].post
    BY <1>1 DEF WaitsApart, Inv, OwnershipInv, JobLeft, Exists, Terminal
  <2>2. TRUE \in PostBoot =>
          /\ \A j \in JobIds : job'[j].type # "rebuild"
          /\ request' # NoRequest => request'.op \notin {"rebuild", "rebuildCurrent"}
          /\ \A i, j \in JobIds :
               /\ job'[i].type = "deploy" /\ job'[j].type = "deploy"
               /\ job'[i].dep = job'[j].dep /\ job'[i].dep # 0
               => i = j
          /\ \A j \in JobIds : job'[j].status = "waiting" => job'[j].type = "deploy"
    <3> SUFFICES ASSUME TRUE \in PostBoot
                 PROVE  /\ \A j \in JobIds : job'[j].type # "rebuild"
                        /\ request' # NoRequest => request'.op \notin {"rebuild", "rebuildCurrent"}
                        /\ \A i, j \in JobIds :
                             /\ job'[i].type = "deploy" /\ job'[j].type = "deploy"
                             /\ job'[i].dep = job'[j].dep /\ job'[i].dep # 0
                             => i = j
                        /\ \A j \in JobIds : job'[j].status = "waiting" => job'[j].type = "deploy"
      OBVIOUS
    <3>1. WaitsApart /\ \A j \in JobIds : job'[j].dep = job[j].dep /\ job'[j].type = job[j].type
      BY DEF Inv, OwnershipInv, JobLeft
    <3>2. \A j \in JobIds :
            job'[j].status = "waiting" => job[j].status = "waiting" \/ job[j].type = "deploy"
      BY DEF JobLeft, Terminal
    <3>3. \A j \in JobIds : job'[j].status = "waiting" => job'[j].type = "deploy"
      BY <3>1, <3>2 DEF WaitsApart
    <3>4. /\ \A j \in JobIds : job'[j].type # "rebuild"
          /\ request' # NoRequest => request'.op \notin {"rebuild", "rebuildCurrent"}
      BY <3>1 DEF WaitsApart
    <3>5. ASSUME NEW i \in JobIds, NEW j \in JobIds,
                 job'[i].type = "deploy", job'[j].type = "deploy",
                 job'[i].dep = job'[j].dep, job'[i].dep # 0
          PROVE  i = j
      BY <3>1, <3>5 DEF WaitsApart
    <3> QED
      BY <3>3, <3>4, <3>5
  <2>3. TRUE \in PostBoot =>
          /\ Waiter'.job # 0 => job'[Waiter'.job].type = "deploy"
          /\ Worker'.pc \notin CreatePlaces
    <3>1. Waiter.job \in JobIds \cup {0}
      BY DEF Inv, LifecycleInv, Typed, TypeOK, Local, Waiter, Actors
    <3> QED
      BY <1>1, <3>1 DEF WaitsApart, Inv, OwnershipInv, JobLeft, CreatePlaces
  <2> QED
    BY <2>1, <2>2, <2>3 DEF WaitsApart
<1>11. Unstarted'
  <2>1. \A j \in JobIds : job'[j].status \in {"queued", "unused"} => job'[j].status = job[j].status
    BY DEF JobLeft, Terminal
  <2> QED
    BY <2>1 DEF Unstarted, Inv, OwnershipInv, JobLeft, VmidOf, Exists
<1>12. CreatesWatched'
  <2> SUFFICES ASSUME NEW t \in running, t.kind = "create"
               PROVE  WatchedCreate(t)'
    BY DEF CreatesWatched, cluster
  <2>1. WatchedCreate(t) /\ t.job \in JobIds
    BY TaskFields DEF Inv, OwnershipInv, CreatesWatched, LifecycleInv
  <2>2. PICK d \in Deployments : d = job[t.job].dep /\ d # 0
    BY CreateOwned
  <2>3. job'[t.job].dep = d
    BY <2>1, <2>2 DEF JobLeft
  <2>4. Worker.dep = d => /\ Worker.pc = "close"
                          /\ Worker.job \in JobIds => job'[Worker.job].status \in Terminal
    BY <2>2 DEF Uncreated
  <2>5. Uncertain(d)
    <3>1. t.job # 0
      BY <2>1, Ids
    <3> QED
      BY <2>1, <2>2, <2>4, <3>1
         DEF WatchedCreate, Watched, Inv, OwnershipInv, LocalsAgree, Worker, Actors
  <2>6. Uncertain(d)'
    BY <1>1, <2>2, <2>4, <2>5 DEF Uncertain
  <2>7. ASSUME NEW j \in JobIds, JobActive(j)', job'[j].dep = d
        PROVE  FALSE
    <3>1. j = Worker.job /\ job[j].dep = d
      BY <1>2, <2>1, <2>2, <2>7 DEF WatchedCreate, JobLeft
    <3>2. Worker.dep = d /\ j # 0
      BY <3>1, Ids DEF Inv, OwnershipInv, LocalsAgree, Worker, Actors
    <3> QED
      BY <2>4, <2>7, <3>1, <3>2 DEF JobActive, ActiveStatuses, Terminal
  <2> QED
    BY <1>1, <2>1, <2>2, <2>3, <2>6, <2>7 DEF WatchedCreate, Uncertain, JobActive
<1> QED
  BY <1>5, <1>6, <1>7, <1>8, <1>9, <1>10, <1>11, <1>12 DEF OwnershipInv

LEMMA StatusLeft ==
  ASSUME Inv, NEW st \in Terminal \cup {"waiting"}, Worker.job \in JobIds,
         job[Worker.job].status = "running", SetStatus(Worker.job, st),
         st = "waiting" => TRUE \in PostBoot /\ job[Worker.job].type = "deploy"
  PROVE  JobLeft /\ job'[Worker.job].status = st
<1>1. job \in [JobIds -> JobRow]
  BY DEF Inv, LifecycleInv, Typed, TypeOK
<1> QED
  BY <1>1 DEF SetStatus, JobRow, JobLeft

LEMMA SucceedOwns ==
  ASSUME Inv, Succeed("worker")
  PROVE  OwnershipInv'
<1>1. /\ Worker.pc = "succeed" /\ UNCHANGED <<dep, cluster, todo, request>>
      /\ SetStatus(Worker.job, "succeeded") /\ at' = [at EXCEPT !["worker"] = Idle]
  BY DEF Succeed, Worker
<1>2. JobLeft
  BY <1>1, WorkerAlone, StatusLeft DEF ExecPlaces, Terminal
<1> QED
  BY <1>1, <1>2, WorkerUncreated, LeaveOwns

LEMMA BootOwns ==
  ASSUME Inv, Boot("worker")
  PROVE  OwnershipInv'
<1>1. Worker.pc = "boot" /\ UNCHANGED <<dep, cluster, todo, request>>
  BY DEF Boot, Worker
<1>2. CASE /\ UNCHANGED job
           /\ \/ \E p \in {"ansible", "finish", "succeed"} : Goto("worker", p)
              \/ Abort("worker", "failed") \/ Abort("worker", "canceled")
  BY <1>1, <1>2, PlaceOwns
<1>3. CASE /\ Exists(Worker.dep) /\ dep[Worker.dep].post
           /\ SetStatus(Worker.job, "waiting") /\ at' = [at EXCEPT !["worker"] = Idle]
  <2>1. TRUE \in PostBoot /\ job[Worker.job].type = "deploy"
    BY <1>1, <1>3, OwnerExists DEF Inv, OwnershipInv, WaitsApart, CreatePlaces, Exists
  <2>2. JobLeft
    BY <1>1, <1>3, <2>1, WorkerAlone, StatusLeft DEF ExecPlaces
  <2> QED
    BY <1>1, <1>3, <2>2, WorkerUncreated, LeaveOwns
<1> QED
  BY <1>2, <1>3 DEF Boot, Worker

LEMMA WorkerCloseOwns ==
  ASSUME Inv, Close("worker")
  PROVE  OwnershipInv'
<1>1. /\ Worker.pc = "close" /\ UNCHANGED <<dep, cluster, todo, request>>
      /\ job' = IF Worker.job # 0 /\ job[Worker.job].status = "running"
                  THEN [job EXCEPT ![Worker.job].status = Worker.out] ELSE job
  BY DEF Close, Worker
<1>2. at' = [at EXCEPT !["worker"] = Idle]
  BY DEF Close, Inv, OwnershipInv, Uncrashed
<1>3. Worker.job \in JobIds \cup {0} /\ (Worker.job # 0 => Worker.out \in {"failed", "canceled"})
  BY <1>1, LocalsTyped DEF Inv, LifecycleInv, Local, Worker, Actors, ReconcilePlaces
<1>4. JobLeft /\ (Worker.job \in JobIds => job'[Worker.job].status \in Terminal)
  <2>1. CASE Worker.job # 0 /\ job[Worker.job].status = "running"
    BY <1>1, <1>3, <2>1, StatusLeft DEF SetStatus, Terminal
  <2>2. CASE ~ (Worker.job # 0 /\ job[Worker.job].status = "running")
    BY <1>1, <2>2, Ids DEF JobLeft, Inv, OwnershipInv, LocalsAgree
  <2> QED
    BY <2>1, <2>2
<1> QED
  BY <1>1, <1>2, <1>4, LeaveOwns

--------------------------------------------------------------------------------
(* The steps of the thread that reconciles                                    *)

LEMMA WaiterStep ==
  ASSUME Inv, GoesOn("waiter"), JobsQuiet, ClusterFlow, NamesFlow, NamesDropped,
         RowsShrink, UNCHANGED <<todo, request>>, RowsKeptBut(Waiter.dep), RemotesKept,
         Waiter.pc = "resumed" \/ at'["waiter"].pc \in ReconcilePlaces,
         Worker.pc \in {"accept", "record", "import"} => Worker.task \in running',
         RightVerdict("waiter")', TaskMeant("waiter")'
  PROVE  OwnershipInv'
<1>1. Flow
  BY DEF Flow, JobsFlow, JobsQuiet
<1>2. at'["worker"] = at["worker"]
  BY DEF GoesOn, Actors
<1>3. Creates("waiter")
  BY DEF Creates, CreatePlaces, ReconcilePlaces, GoesOn, Waiter, ExecPlaces
<1>4. Uncrashed' /\ LocalsAgree' /\ RowsKnown' /\ WaitsApart'
  BY <1>3, ThreadKeeps DEF Actors
<1>5. NoOrphanVm' /\ CreatesApart' /\ Unstarted' /\ CreatesWatched' /\ Selected'
  BY <1>1, <1>2, FlowOwned, QueuedStayUnnamed, WaiterQuiet, WaiterSelected
<1>6. Verdict'
  BY <1>1, <1>2, VerdictStays DEF Verdict, Actors
<1>7. TasksMeant'
  <2>1. TaskMeant("worker")'
    BY <1>2 DEF Inv, OwnershipInv, TasksMeant, TaskMeant, Worker, Actors
  <2> QED
    BY <2>1 DEF TasksMeant, Actors
<1> QED
  BY <1>4, <1>5, <1>6, <1>7 DEF OwnershipInv

\* A step of whoever reconciles a deployment for which no create is under way.
LEMMA ReconcileOwns ==
  ASSUME Inv, NEW a \in Actors, GoesOn(a), at'[a].pc \in ReconcilePlaces,
         JobsQuiet, ClusterFlow, NamesFlow, NamesDropped, RowsShrink, UNCHANGED <<todo, request>>,
         RowsKeptBut(at[a].dep), RemotesKept, Uncreated(at[a].dep),
         \A t \in running : t.kind = "create" => t \in running',
         RightVerdict(a)', TaskMeant(a)'
  PROVE  OwnershipInv'
<1>1. CASE a = "worker"
  <2>1. Selected' /\ Creates("worker")
    BY <1>1 DEF Selected, Creates, CreatePlaces, ReconcilePlaces, Worker
  <2>2. Unstarted'
    BY QueuedStayUnnamed
  <2> QED
    BY <1>1, <2>1, <2>2, WorkerWrites DEF Worker
<1>2. CASE a = "waiter"
  <2>1. Worker.pc \in {"accept", "record", "import"} => Worker.task \in running'
    BY DEF Inv, OwnershipInv, TasksMeant, TaskMeant, Worker, Actors
  <2> QED
    BY <1>2, <2>1, WaiterStep DEF Waiter
<1> QED
  BY <1>1, <1>2 DEF Actors

\* ... that leaves the rows alone.
LEMMA ReconcileStays ==
  ASSUME Inv, NEW a \in Actors, GoesOn(a), at'[a].pc \in ReconcilePlaces,
         JobsQuiet, ClusterFlow, UNCHANGED <<dep, todo, request>>, RemotesKept, Uncreated(at[a].dep),
         \A t \in running : t.kind = "create" => t \in running',
         RightVerdict(a)', TaskMeant(a)'
  PROVE  OwnershipInv'
<1>1. RowsShrink /\ NamesDropped /\ NamesFlow /\ RowsKeptBut(at[a].dep)
  <2>1. NamesFlow
    BY DEF NamesFlow, VmidOf, Exists
  <2> QED
    BY <2>1, RowsStay DEF RowsKeptBut
<1> QED
  BY <1>1, ReconcileOwns

LEMMA ReconcilerUncreated ==
  ASSUME Inv, NEW a \in Actors, at[a].pc \in {"tearDown", "tearDownWait", "probe", "apply"}
  PROVE  Uncreated(at[a].dep)
BY WorkerUncreated, WaiterUncreated DEF Actors, Worker, Waiter

LEMMA ProbeOwns ==
  ASSUME Inv, NEW a \in Actors, Probe(a)
  PROVE  OwnershipInv'
<1>1. at[a].pc = "probe" /\ UNCHANGED <<dep, job, vm, running, todo, request>>
  BY DEF Probe, tables, cluster
<1>2. PICK answer \in Presence(at[a].vmid) : at' = [at EXCEPT ![a].seen = answer, ![a].pc = "apply"]
  BY DEF Probe
<1>3. /\ at'[a].pc = "apply" /\ at'[a].seen = answer /\ at'[a].vmid = at[a].vmid
      /\ at'[a].dep = at[a].dep /\ at'[a].job = at[a].job /\ at'[a].kind = at[a].kind
      /\ \A b \in Actors \ {a} : at'[b] = at[b]
  <2>1. at \in [Actors -> Local]
    BY DEF Inv, LifecycleInv, Typed, TypeOK
  <2>2. at' = [at EXCEPT ![a] = [at[a] EXCEPT !.seen = answer, !.pc = "apply"]]
    BY <1>2, <2>1 DEF Local
  <2> QED
    BY <2>1, <2>2 DEF Local
<1>4. GoesOn(a) /\ at'[a].pc \in ReconcilePlaces /\ TaskMeant(a)'
  BY <1>1, <1>3 DEF GoesOn, ReconcilePlaces, TaskMeant
<1>5. JobsQuiet /\ ClusterFlow /\ RemotesKept /\ Uncreated(at[a].dep)
  BY <1>1, ClusterRests, ReconcilerUncreated DEF JobsQuiet, cluster, RemotesKept
<1>6. RightVerdict(a)'
  <2> SUFFICES ASSUME NEW d, d = at[a].dep, answer = "absent", VmidOf(d) = at[a].vmid
               PROVE  Vmless(d)
    BY <1>1, <1>3 DEF RightVerdict, Vmless, VmidOf, Exists
  <2>1. "absent" \in Inventory(at[a].vmid)
    BY DEF Presence
  <2> QED
    BY <2>1, AbsentVmless
<1> QED
  BY <1>1, <1>4, <1>5, <1>6, ReconcileStays

--------------------------------------------------------------------------------

LEMMA UnconfirmedRows ==
  ASSUME Inv, NEW a, at[a].vmid \in Vmids, TearDownUnconfirmed(a)
  PROVE  RowsShrink /\ NamesDropped /\ NamesFlow /\ \A d \in Deployments : RowKept(d)
<1>1. ASSUME NEW d \in Deployments
      PROVE  /\ VmidOf(d)' = VmidOf(d)
             /\ Exists(d)' => Exists(d) /\ dep'[d].post = dep[d].post
             /\ RowKept(d)
  <2>1. CASE dep'[d] = dep[d]
    BY <2>1 DEF RowKept, VmidOf, Exists
  <2>2. CASE Exists(d) /\ dep'[d] = [dep[d] EXCEPT !.identity = "submitting", !.status = "error"]
    <3>1. dep[d] \in Row
      BY <2>2, ExistingRow DEF Inv, LifecycleInv, Typed
    <3>2. /\ dep'[d] \in Row /\ dep'[d].vmid = dep[d].vmid /\ dep'[d].post = dep[d].post
          /\ dep'[d].identity = "submitting" /\ dep'[d].status = "error"
      BY <2>2, <3>1 DEF Row, IdentityStates
    <3>3. Exists(d)' /\ VmidOf(d)' = VmidOf(d)
      BY <2>2, <3>2, NoRowIsNoRow DEF Exists, VmidOf
    <3> QED
      BY <2>2, <3>2, <3>3 DEF RowKept
  <2>3. d \in FirstNaming(at[a].vmid) => Exists(d)
    BY Ids DEF FirstNaming, NamesVm, VmidOf
  <2> QED
    BY <2>1, <2>2, <2>3 DEF TearDownUnconfirmed
<1> QED
  BY <1>1 DEF RowsShrink, NamesDropped, NamesFlow

\* The job to which the destruction is attributed creates nothing: its VM is there.
LEMMA NamingRemotes ==
  ASSUME Inv, NEW v \in Vmids, Present(v), NEW d \in FirstNaming(v), NEW j \in JobIds,
         IsLatest(j, d), NEW k, job' = [job EXCEPT ![j].remote = k]
  PROVE  JobsQuiet /\ RemotesKept
<1>1. JobsQuiet /\ \A i \in JobIds \ {j} : job'[i] = job[i]
  BY RemoteQuiet DEF Inv, LifecycleInv
<1>2. VmidOf(d) = v /\ job[j].dep = d
  BY DEF FirstNaming, NamesVm, IsLatest
<1>3. ASSUME NEW t \in running, t.kind = "create"
      PROVE  t.job # j /\ t.job \in JobIds
  <2>1. VmidOf(job[t.job].dep) = t.vmid /\ vm[t.vmid] = NoVm
    BY <1>3, CreateOwned DEF Inv, OwnershipInv, CreatesApart
  <2> QED
    BY <1>2, <1>3, <2>1, TaskFields DEF Present, Inv, LifecycleInv
<1> QED
  BY <1>1, <1>3 DEF RemotesKept

LEMMA TearDownOwns ==
  ASSUME Inv, NEW a \in Actors, TearDown(a)
  PROVE  OwnershipInv'
<1> DEFINE v == at[a].vmid
<1>1. at[a].pc = "tearDown" /\ v \in Vmids /\ UNCHANGED <<vm, todo, request>>
  BY LocalsTyped DEF TearDown, VmPlaces, Inv, LifecycleInv
<1>2. Uncreated(at[a].dep)
  BY <1>1, ReconcilerUncreated
<1>3. running \subseteq running' /\ \A t \in running' : t \in running \/ t.kind # "create"
  <2>1. \A j : LET t == [job |-> j, kind |-> "destroy", vmid |-> v, on |-> vm[v]]
               IN t.kind # "create" /\ [t EXCEPT !.kind = "other"].kind # "create"
    OBVIOUS
  <2>2. \/ UNCHANGED running
        \/ \E j : LET t == [job |-> j, kind |-> "destroy", vmid |-> v, on |-> vm[v]]
                  IN running' \in {running, running \cup {t}, running \cup {[t EXCEPT !.kind = "other"]}}
    BY DEF TearDown
  <2> QED
    BY <2>1, <2>2
<1>4. ClusterFlow
  BY <1>1, <1>3, TasksAdded
<1>5. \/ UNCHANGED job
      \/ /\ Present(v)
         /\ \E d \in FirstNaming(v), j \in JobIds, k \in TaskKinds :
              IsLatest(j, d) /\ job' = [job EXCEPT ![j].remote = k]
  BY DEF TearDown, TaskKinds
<1>6. JobsQuiet /\ RemotesKept
  <2>1. CASE UNCHANGED job
    BY <2>1 DEF JobsQuiet, RemotesKept
  <2> QED
    BY <1>1, <1>5, <2>1, NamingRemotes
<1>7. \/ /\ UNCHANGED dep
         /\ \/ Goto(a, "probe") \/ Goto(a, "close")
            \/ \E t : t.kind = "destroy" /\ GotoAwaiting(a, "tearDownWait", t)
      \/ TearDownUnconfirmed(a)
  <2>1. \A j, w, o : [job |-> j, kind |-> "destroy", vmid |-> w, on |-> o].kind = "destroy"
    OBVIOUS
  <2> QED
    BY <2>1 DEF TearDown
<1>8. RowsShrink /\ NamesDropped /\ NamesFlow /\ RowsKeptBut(at[a].dep)
  <2>1. CASE UNCHANGED dep
    <3>1. NamesFlow
      BY <2>1 DEF NamesFlow, VmidOf, Exists
    <3> QED
      BY <2>1, <3>1, RowsStay DEF RowsKeptBut
  <2>2. CASE TearDownUnconfirmed(a)
    BY <1>1, <2>2, UnconfirmedRows DEF RowsKeptBut
  <2> QED
    BY <1>7, <2>1, <2>2
<1>9. GoesOn(a) /\ at'[a].pc \in {"probe", "tearDownWait", "close"} /\ TaskMeant(a)'
  <2>1. CASE Goto(a, "probe") \/ Goto(a, "close")
    <3>1. GoesOn(a) /\ at'[a].pc \in {"probe", "close"}
      BY <1>1, <2>1, GotoGoesOn DEF Inv, LifecycleInv, ReconcilePlaces
    <3> QED
      BY <3>1 DEF TaskMeant
  <2>2. ASSUME NEW t, t.kind = "destroy", GotoAwaiting(a, "tearDownWait", t)
        PROVE  GoesOn(a) /\ at'[a].pc = "tearDownWait" /\ TaskMeant(a)'
    <3>1. GoesOn(a) /\ at'[a].pc = "tearDownWait"
      BY <1>1, <2>2, GotoGoesOn DEF Inv, LifecycleInv, ReconcilePlaces
    <3>2. at'[a].task = t
      BY <2>2 DEF GotoAwaiting, Inv, LifecycleInv, Typed, TypeOK, Local
    <3> QED
      BY <2>2, <3>1, <3>2 DEF TaskMeant
  <2> QED
    BY <1>7, <2>1, <2>2 DEF TearDownUnconfirmed
<1>10. RightVerdict(a)'
  BY <1>9 DEF RightVerdict
<1> QED
  BY <1>1, <1>2, <1>3, <1>4, <1>6, <1>8, <1>9, <1>10, ReconcileOwns DEF ReconcilePlaces

LEMMA TearDownWaitOwns ==
  ASSUME Inv, NEW a \in Actors, TearDownWait(a)
  PROVE  OwnershipInv'
<1>1. at[a].pc = "tearDownWait" /\ at[a].vmid \in Vmids /\ UNCHANGED <<job, todo, request>>
  BY LocalsTyped DEF TearDownWait, VmPlaces, Inv, LifecycleInv
<1>2. /\ Succeeds(at[a].task) \/ Fails(at[a].task) \/ UNCHANGED cluster
      /\ (Goto(a, "probe") /\ UNCHANGED dep) \/ TearDownUnconfirmed(a)
  BY DEF TearDownWait, TaskOk
<1>3. ClusterFlow /\ JobsQuiet /\ RemotesKept /\ Uncreated(at[a].dep)
  BY <1>1, <1>2, AwaitedFlow, ReconcilerUncreated DEF TaskPlaces, JobsQuiet, RemotesKept
<1>4. \A t \in running : t.kind = "create" => t \in running'
  <2>1. at[a].task.kind = "destroy"
    BY <1>1 DEF Inv, OwnershipInv, TasksMeant, TaskMeant
  <2> QED
    BY <1>2, <2>1 DEF Succeeds, Fails, cluster
<1>5. RowsShrink /\ NamesDropped /\ NamesFlow /\ RowsKeptBut(at[a].dep)
  <2>1. CASE UNCHANGED dep
    <3>1. NamesFlow
      BY <2>1 DEF NamesFlow, VmidOf, Exists
    <3> QED
      BY <2>1, <3>1, RowsStay DEF RowsKeptBut
  <2>2. CASE TearDownUnconfirmed(a)
    BY <1>1, <2>2, UnconfirmedRows DEF RowsKeptBut
  <2> QED
    BY <1>2, <2>1, <2>2
<1>6. GoesOn(a) /\ at'[a].pc \in {"probe", "close"}
  <2>1. Goto(a, "probe") \/ Goto(a, "close")
    BY <1>2 DEF TearDownUnconfirmed
  <2> QED
    BY <1>1, <2>1, GotoGoesOn DEF Inv, LifecycleInv, ReconcilePlaces
<1>7. RightVerdict(a)' /\ TaskMeant(a)'
  BY <1>6 DEF RightVerdict, TaskMeant
<1> QED
  BY <1>1, <1>3, <1>4, <1>5, <1>6, <1>7, ReconcileOwns DEF ReconcilePlaces

--------------------------------------------------------------------------------
(* The verdict is written                                                     *)

\* What becomes of the row: nothing, another status, or it is dropped, which takes the
\* verdict that the VM is absent.
LEMMA ApplyRows ==
  ASSUME NEW a \in Actors, Apply(a)
  PROVE  \/ UNCHANGED dep
         \/ \E s \in Outcomes, o \in Origins \cup {dep[at[a].dep].origin} :
              /\ Exists(at[a].dep)
              /\ dep' = [dep EXCEPT ![at[a].dep].status = s, ![at[a].dep].origin = o]
         \/ /\ at[a].seen = "absent" /\ StillNames(a)
            /\ dep' = [dep EXCEPT ![at[a].dep] = NoRow]
<1>1. CASE at[a].out = "canceled" /\ ApplyCanceled(a)
  BY <1>1 DEF ApplyCanceled, DropIfMatches, DropRow, SetRow, StillNames, Outcomes, Origins
<1>2. CASE at[a].out = "failed" /\ ApplyFailed(a)
  BY <1>2 DEF ApplyFailed, DropIfMatches, DropRow, StillNames, Outcomes, Origins
<1>3. CASE at[a].out = "cleanup" /\ ApplyCleanup(a)
  BY <1>3 DEF ApplyCleanup, DropIfMatches, DropRow, SetRow, StillNames, Outcomes, Origins
<1> QED
  BY <1>1, <1>2, <1>3 DEF Apply

LEMMA ApplyOwns ==
  ASSUME Inv, NEW a \in Actors, Apply(a)
  PROVE  OwnershipInv'
<1> SUFFICES ASSUME NEW d, d = at[a].dep
             PROVE  OwnershipInv'
  OBVIOUS
<1>1. at[a].pc = "apply" /\ UNCHANGED <<job, vm, running, todo, request>>
  BY DEF Apply, cluster
<1>2. Uncreated(at[a].dep) /\ JobsQuiet /\ ClusterFlow /\ RemotesKept
  BY <1>1, ReconcilerUncreated, ClusterRests DEF JobsQuiet, cluster, RemotesKept
<1>3. GoesOn(a) /\ at'[a].pc = "close"
  <2>1. at \in [Actors -> Local] /\ at' = [at EXCEPT ![a].pc = "close"]
    BY DEF Apply, Inv, LifecycleInv, Typed, TypeOK
  <2> QED
    BY <1>1, <2>1 DEF GoesOn, Local, ReconcilePlaces
<1>4. RightVerdict(a)' /\ TaskMeant(a)'
  BY <1>3 DEF RightVerdict, TaskMeant
<1>5. CASE UNCHANGED dep
  BY <1>1, <1>2, <1>3, <1>4, <1>5, ReconcileStays DEF ReconcilePlaces
<1>6. ASSUME Exists(d), NEW s \in Outcomes, NEW o \in Origins \cup {dep[d].origin},
             dep' = [dep EXCEPT ![d].status = s, ![d].origin = o]
      PROVE  OwnershipInv'
  <2>1. dep[d] \in Row /\ d \in Deployments
    BY <1>6, ExistingRow DEF Inv, LifecycleInv, Typed
  <2> DEFINE row == [dep[d] EXCEPT !.status = s, !.origin = o]
  <2>2. /\ row \in Row /\ row.vmid = dep[d].vmid /\ row.post = dep[d].post
        /\ dep' = [dep EXCEPT ![d] = row]
    BY <1>6, <2>1 DEF Row, Outcomes, Origins, Inv, LifecycleInv, Typed, TypeOK
  <2> HIDE DEF row
  <2>3. Exists(d)
    BY <1>6
  <2>4. /\ dep'[d] = row /\ VmidOf(d)' = VmidOf(d)
        /\ \A e \in Deployments \ {d} : dep'[e] = dep[e]
    <3>1. dep'[d] = row /\ \A e \in Deployments \ {d} : dep'[e] = dep[e]
      BY <2>1, <2>2 DEF Inv, LifecycleInv, Typed, TypeOK
    <3> QED
      BY <2>1, <2>2, <2>3, <3>1, NoRowIsNoRow DEF Exists, VmidOf
  <2>5. RowsShrink /\ NamesFlow /\ NamesDropped /\ RowsKeptBut(d)
    BY <2>2, <2>3, <2>4, OneRow
  <2> QED
    BY <1>1, <1>2, <1>3, <1>4, <2>5, ReconcileOwns DEF ReconcilePlaces
<1>7. ASSUME at[a].seen = "absent", StillNames(a), dep' = [dep EXCEPT ![d] = NoRow]
      PROVE  OwnershipInv'
  <2>1. Exists(d) /\ VmidOf(d) = at[a].vmid
    BY <1>7 DEF StillNames
  <2>2. Vmless(d) /\ Uncreated(d)
    BY <1>1, <1>2, <1>7, <2>1 DEF Inv, OwnershipInv, Verdict, RightVerdict
  <2>3. /\ ~Exists(d)' /\ VmidOf(d)' = NoVmid
        /\ \A e \in Deployments \ {d} : dep'[e] = dep[e]
    <3>1. d \in Deployments /\ dep'[d] = NoRow /\ \A e \in Deployments \ {d} : dep'[e] = dep[e]
      BY <1>7, <2>1 DEF Exists, Inv, LifecycleInv, Typed, TypeOK
    <3> QED
      BY <3>1 DEF Exists, VmidOf
  <2>4. RowsShrink /\ NamesFlow /\ NamesDropped /\ RowsKeptBut(d)
    BY <2>2, <2>3, OneRow
  <2> QED
    BY <1>1, <1>2, <1>3, <1>4, <2>4, ReconcileOwns DEF ReconcilePlaces
<1> QED
  BY <1>5, <1>6, <1>7, ApplyRows

--------------------------------------------------------------------------------
(* The task that the job left behind, and the row                             *)

\* While a create is under way and the worker reconciles, the worker is about to find it
\* unsettled, or has, or a restart would: it is the worker's own or an uncertain one.
LEMMA LeftBehind ==
  ASSUME Inv, Worker.pc \in {"retain", "read"}, NEW t \in running, t.kind = "create",
         NEW d, d = Worker.dep, job[t.job].dep = d
  PROVE  /\ Exists(d) /\ d \in Deployments
         /\ \/ Uncertain(d)
            \/ /\ Worker.pc = "retain" /\ Worker.job = t.job /\ job[t.job].remote = "create"
               /\ JobActive(t.job)
<1>1. WatchedCreate(t)
  BY DEF Inv, OwnershipInv, CreatesWatched
<1> QED
  BY <1>1, CreateOwned DEF WatchedCreate, Watched

\* A row is marked, by a thread that goes on reconciling it.
LEMMA MarkedRow ==
  ASSUME Inv, NEW d, Exists(d), NEW i \in IdentityStates, NEW s \in Outcomes,
         dep' = [dep EXCEPT ![d].identity = i, ![d].status = s]
  PROVE  /\ RowsShrink /\ NamesDropped /\ NamesFlow /\ RowsKeptBut(d)
         /\ dep'[d].identity = i /\ dep'[d].status = s
<1>1. dep[d] \in Row /\ d \in Deployments
  BY ExistingRow DEF Inv, LifecycleInv, Typed
<1> DEFINE row == [dep[d] EXCEPT !.identity = i, !.status = s]
<1>2. /\ row \in Row /\ row.vmid = dep[d].vmid /\ row.post = dep[d].post
      /\ dep' = [dep EXCEPT ![d] = row] /\ row.identity = i /\ row.status = s
  BY <1>1 DEF Row, Outcomes, IdentityStates, Inv, LifecycleInv, Typed, TypeOK
<1> HIDE DEF row
<1>3. dep'[d] = row /\ \A e \in Deployments \ {d} : dep'[e] = dep[e]
  BY <1>1, <1>2 DEF Inv, LifecycleInv, Typed, TypeOK
<1>4. VmidOf(d)' = VmidOf(d)
  BY <1>1, <1>2, <1>3, NoRowIsNoRow DEF Exists, VmidOf
<1> QED
  BY <1>2, <1>3, <1>4, OneRow

LEMMA RowsRest ==
  ASSUME UNCHANGED dep
  PROVE  RowsShrink /\ NamesDropped /\ NamesFlow /\ \A d \in Deployments : RowKept(d)
<1>1. NamesFlow
  BY DEF NamesFlow, VmidOf, Exists
<1> QED
  BY <1>1, RowsStay

\* A thread that marks the row, or leaves it, and goes on.
LEMMA MarkOwns ==
  ASSUME Inv, NEW a \in Actors, at[a].pc \in {"retain", "read"}, NEW d, d = at[a].dep,
         GoesOn(a), UNCHANGED <<job, cluster, todo, request>>,
         RowsShrink, NamesDropped, NamesFlow, RowsKeptBut(d),
         at'[a].pc \in {"read", "close", "tearDown", "probe"},
         a = "worker" =>
           \A t \in running : t.kind = "create" /\ job[t.job].dep = d => Uncertain(d)'
  PROVE  OwnershipInv'
<1>1. ClusterFlow /\ JobsQuiet /\ RemotesKept
  BY ClusterRests DEF JobsQuiet, RemotesKept
<1>2. RowsShrink /\ NamesDropped /\ NamesFlow /\ RowsKeptBut(d)
  OBVIOUS
<1>3. RightVerdict(a)' /\ TaskMeant(a)' /\ at'[a].pc \in ReconcilePlaces
  BY DEF RightVerdict, TaskMeant, ReconcilePlaces
<1>4. CASE a = "waiter"
  <2>1. Uncreated(at[a].dep)
    BY <1>4, WaiterUncreated DEF Waiter
  <2> QED
    BY <1>1, <1>2, <1>3, <2>1, ReconcileOwns DEF cluster
<1>5. CASE a = "worker"
  <2>1. CreatesWatched'
    BY <1>1, <1>2, <1>5, WatchedStays DEF Worker
  <2>2. Unstarted'
    BY <1>1, <1>2, QueuedStayUnnamed
  <2>3. Selected' /\ Creates("worker")
    BY <1>5, <1>3 DEF Selected, Worker, Creates, CreatePlaces, ReconcilePlaces
  <2> QED
    BY <1>1, <1>2, <1>3, <1>5, <2>1, <2>2, <2>3, WorkerStep
<1> QED
  BY <1>4, <1>5 DEF Actors

LEMMA RetainOwns ==
  ASSUME Inv, NEW a \in Actors, Retain(a)
  PROVE  OwnershipInv'
<1> SUFFICES ASSUME NEW d, d = at[a].dep
             PROVE  OwnershipInv'
  OBVIOUS
<1>1. at[a].pc = "retain" /\ UNCHANGED <<job, cluster, todo, request>>
  BY DEF Retain
<1>2. CASE /\ Exists(d) /\ Goto(a, "close")
           /\ dep' = [dep EXCEPT ![d].identity = "submitting", ![d].status = "error"]
  <2>1. GoesOn(a) /\ at'[a].pc = "close"
    BY <1>1, <1>2, GotoGoesOn DEF Inv, LifecycleInv, ReconcilePlaces
  <2>2. /\ dep'[d].identity = "submitting" /\ dep'[d].status = "error"
        /\ RowsShrink /\ NamesDropped /\ NamesFlow /\ RowsKeptBut(d)
    BY <1>2, MarkedRow DEF Outcomes, IdentityStates
  <2>3. a = "worker" => Uncertain(d)'
    BY <2>1, <2>2 DEF Uncertain, Worker
  <2> QED
    BY <1>1, <2>1, <2>2, <2>3, MarkOwns
<1>3. CASE /\ Goto(a, "read") /\ UNCHANGED dep
           /\ \/ ~Exists(d) \/ job[at[a].job].remote = ""
              \/ {t \in running : t.job = at[a].job /\ t.kind = job[at[a].job].remote} = {}
  <2>1. GoesOn(a) /\ at'[a].pc = "read"
    BY <1>1, <1>3, GotoGoesOn DEF Inv, LifecycleInv, ReconcilePlaces
  <2>2. ASSUME a = "worker", NEW t \in running, t.kind = "create", job[t.job].dep = d
        PROVE  Uncertain(d)'
    <3>1. Exists(d) /\ (Uncertain(d) \/ (at[a].job = t.job /\ job[t.job].remote = "create"))
      BY <1>1, <2>2, LeftBehind DEF Worker
    <3>2. Uncertain(d)
      BY <1>3, <2>2, <3>1
    <3> QED
      BY <1>1, <1>3, <2>1, <2>2, <3>2 DEF Uncertain, Worker, GoesOn
  <2>3. RowsShrink /\ NamesDropped /\ NamesFlow /\ RowsKeptBut(d)
    BY <1>3, RowsRest DEF RowsKeptBut
  <2> QED
    BY <1>1, <2>1, <2>2, <2>3, MarkOwns
<1> QED
  BY <1>2, <1>3 DEF Retain

LEMMA ReadOwns ==
  ASSUME Inv, NEW a \in Actors, Read(a)
  PROVE  OwnershipInv'
<1> SUFFICES ASSUME NEW d, d = at[a].dep
             PROVE  OwnershipInv'
  OBVIOUS
<1>1. at[a].pc = "read" /\ UNCHANGED <<job, cluster, todo, request>>
  BY DEF Read
<1>2. ASSUME a = "worker", NEW t \in running, t.kind = "create", job[t.job].dep = d
      PROVE  Exists(d) /\ Uncertain(d) /\ dep[d].identity = "submitting"
  BY <1>1, <1>2, LeftBehind DEF Worker, Uncertain
<1>3. CASE ~Exists(d) /\ Goto(a, "close") /\ UNCHANGED dep
  <2>1. GoesOn(a) /\ at'[a].pc = "close"
    BY <1>1, <1>3, GotoGoesOn DEF Inv, LifecycleInv, ReconcilePlaces
  <2>2. RowsShrink /\ NamesDropped /\ NamesFlow /\ RowsKeptBut(d)
    BY <1>3, RowsRest DEF RowsKeptBut
  <2>3. ASSUME a = "worker", NEW t \in running, t.kind = "create", job[t.job].dep = d
        PROVE  Uncertain(d)'
    BY <1>2, <1>3, <2>3
  <2> QED
    BY <1>1, <2>1, <2>2, <2>3, MarkOwns
<1>4. CASE Exists(d) /\ dep' = [dep EXCEPT ![d].status = "error"] /\ Goto(a, "close")
  <2>1. GoesOn(a) /\ at'[a].pc = "close"
    BY <1>1, <1>4, GotoGoesOn DEF Inv, LifecycleInv, ReconcilePlaces
  <2>2. PICK i \in IdentityStates : i = dep[d].identity
    BY <1>4, ExistingRow DEF Row, Inv, LifecycleInv, Typed
  <2>3. dep' = [dep EXCEPT ![d].identity = i, ![d].status = "error"]
    <3>1. dep[d] \in Row
      BY <1>4, ExistingRow DEF Inv, LifecycleInv, Typed
    <3>2. [dep[d] EXCEPT !.identity = i, !.status = "error"] = [dep[d] EXCEPT !.status = "error"]
      BY <2>2, <3>1 DEF Row
    <3>3. dep \in [Deployments -> Row \cup {NoRow}] /\ d \in Deployments
      BY <1>4 DEF Inv, LifecycleInv, Typed, TypeOK, Exists
    <3>4. /\ dep' = [dep EXCEPT ![d] = [dep[d] EXCEPT !.status = "error"]]
          /\ [dep EXCEPT ![d].identity = i, ![d].status = "error"]
               = [dep EXCEPT ![d] = [dep[d] EXCEPT !.identity = i, !.status = "error"]]
      BY <1>4, <3>3
    <3> QED
      BY <3>2, <3>4
  <2>4. /\ dep'[d].identity = i /\ dep'[d].status = "error"
        /\ RowsShrink /\ NamesDropped /\ NamesFlow /\ RowsKeptBut(d)
    <3>1. Exists(d) /\ "error" \in Outcomes
      BY <1>4 DEF Outcomes
    <3> QED
      BY <2>3, <3>1, MarkedRow
  <2>5. ASSUME a = "worker", NEW t \in running, t.kind = "create", job[t.job].dep = d
        PROVE  Uncertain(d)'
    BY <1>2, <2>1, <2>2, <2>4, <2>5 DEF Uncertain, Worker
  <2> QED
    BY <1>1, <2>1, <2>4, <2>5, MarkOwns
<1>5. ASSUME Exists(d), dep[d].identity # "submitting", UNCHANGED dep,
             NEW p \in {"tearDown", "probe"},
             at' = [at EXCEPT ![a].vmid = dep[d].vmid, ![a].pc = p]
      PROVE  OwnershipInv'
  <2>1. /\ at'[a].pc = p
        /\ at'[a].dep = at[a].dep /\ at'[a].job = at[a].job /\ at'[a].kind = at[a].kind
        /\ \A b \in Actors \ {a} : at'[b] = at[b]
    <3>1. at \in [Actors -> Local]
      BY DEF Inv, LifecycleInv, Typed, TypeOK
    <3>2. at' = [at EXCEPT ![a] = [at[a] EXCEPT !.vmid = dep[d].vmid, !.pc = p]]
      BY <1>5, <3>1 DEF Local
    <3> QED
      BY <3>1, <3>2 DEF Local
  <2>2. GoesOn(a)
    BY <1>1, <2>1 DEF GoesOn, ReconcilePlaces
  <2>3. RowsShrink /\ NamesDropped /\ NamesFlow /\ RowsKeptBut(d)
    BY <1>5, RowsRest DEF RowsKeptBut
  <2>4. ASSUME a = "worker", NEW t \in running, t.kind = "create", job[t.job].dep = d
        PROVE  Uncertain(d)'
    BY <1>2, <1>5, <2>4
  <2> QED
    BY <1>1, <2>1, <2>2, <2>3, <2>4, MarkOwns
<1> QED
  BY <1>3, <1>4, <1>5 DEF Read

--------------------------------------------------------------------------------
(* The waiting thread takes up a job and leaves it                            *)

\* A job of the waiting thread, or one that it takes up, runs again, ends or stays.
JobWaited(j) ==
  /\ \A i \in JobIds : /\ job'[i].dep = job[i].dep /\ job'[i].type = job[i].type
                       /\ job'[i].remote = job[i].remote
  /\ \A i \in JobIds \ {j} : job'[i].status = job[i].status
  /\ \/ job[j].status # "waiting" /\ job'[j].status = job[j].status
     \/ job[j].status \in {"waiting", "running"} /\ job'[j].status \in Terminal \cup {"running"}

LEMMA WaitedUncreated ==
  ASSUME Inv, NEW j \in JobIds,
         job[j].status = "waiting" \/ (Waiter.job = j /\ Waiter.pc # "idle")
  PROVE  /\ TRUE \in PostBoot /\ job[j].type = "deploy" /\ Uncreated(job[j].dep)
         /\ job[j].dep # 0 => Known(job[j].dep)
<1>1. TRUE \in PostBoot
  BY DEF Inv, OwnershipInv, WaitsApart
<1>2. CASE job[j].status = "waiting"
  <2>1. j # Worker.job
    BY <1>2, Ids DEF Inv, OwnershipInv, LocalsAgree, Terminal
  <2>2. JobActive(j)
    BY <1>2 DEF JobActive, ActiveStatuses
  <2> QED
    BY <1>1, <1>2, <2>1, <2>2
       DEF Inv, OwnershipInv, WaitsApart, CreatesWatched, WatchedCreate, Uncreated, Known
<1>3. CASE Waiter.job = j /\ Waiter.pc # "idle"
  <2>1. j # 0 /\ job[j].dep = Waiter.dep
    BY <1>3, Ids DEF Inv, OwnershipInv, LocalsAgree, Waiter, Actors
  <2> QED
    BY <1>1, <1>3, <2>1, WaiterUncreated DEF Inv, OwnershipInv, WaitsApart, Known
<1> QED
  BY <1>2, <1>3

LEMMA WaitOwns ==
  ASSUME Inv, NEW j \in JobIds, NEW e, e = job[j].dep, JobWaited(j),
         job[j].status = "waiting" \/ (Waiter.job = j /\ Waiter.pc # "idle"),
         at'["worker"] = at["worker"], UNCHANGED <<cluster, todo, request>>,
         \/ Waiter' = Idle
         \/ Waiter' = Waiter
         \/ /\ Waiter'.pc \in {"retain", "resumed"} /\ Waiter'.job = j
            /\ Waiter'.dep = e /\ Waiter'.kind = job[j].type,
         RowsShrink, NamesDropped, NamesFlow, \A d \in Deployments : RowKept(d)
  PROVE  OwnershipInv'
<1>1. /\ Worker' = Worker /\ Waiter' = at'["waiter"]
      /\ Idle.pc = "idle" /\ Idle.dep = 0 /\ Idle.job = 0
  BY DEF Worker, Waiter, Idle
<1>2. /\ TRUE \in PostBoot /\ job[j].type = "deploy" /\ Uncreated(e)
      /\ e # 0 => Known(e)
  BY WaitedUncreated
<1>3. \A i \in JobIds : JobActive(i)' => JobActive(i)
  BY DEF JobWaited, JobActive, ActiveStatuses, Terminal
<1>4. \A d : (Known(d) => Known(d)') /\ (Active(d)' => Active(d))
  BY <1>3 DEF Known, Active, JobWaited
<1>5. Flow
  BY ClusterRests DEF Flow, JobsFlow, JobWaited
<1>6. NoOrphanVm' /\ CreatesApart'
  BY <1>5, FlowOwned
<1>7. Selected'
  <2>1. Worker.pc \in {"prepare", "create"} => RowKept(Worker.dep)
    BY ChosenRow
  <2> QED
    BY <1>5, <2>1, SelectedStays
<1>8. Verdict'
  <2>1. RightVerdict("worker")'
    BY <1>5, VerdictStays DEF Actors
  <2>2. RightVerdict("waiter")'
    <3>1. CASE Waiter' = Waiter
      <4>1. at'["waiter"] = at["waiter"]
        BY <1>1, <3>1 DEF Waiter
      <4> QED
        BY <1>5, <4>1, VerdictStays DEF Actors
    <3>2. CASE Waiter'.pc \in {"idle", "retain", "resumed"}
      BY <1>1, <3>2 DEF RightVerdict
    <3> QED
      BY <1>1, <3>1, <3>2
  <2> QED
    BY <2>1, <2>2 DEF Verdict, Actors
<1>9. Uncrashed'
  BY <1>1 DEF Uncrashed, Inv, OwnershipInv
<1>10. TasksMeant'
  <2>1. TaskMeant("worker")'
    BY WorkerTaskStays DEF cluster
  <2>2. TaskMeant("waiter")'
    <3>1. CASE Waiter' = Waiter
      BY <1>1, <3>1, WaiterTaskStays DEF Waiter
    <3>2. CASE Waiter'.pc \in {"idle", "retain", "resumed"}
      BY <1>1, <3>2 DEF TaskMeant
    <3> QED
      BY <1>1, <3>1, <3>2
  <2> QED
    BY <2>1, <2>2 DEF TasksMeant, Actors
<1>11. LocalsAgree'
  <2>1. Waiter.job \in JobIds \cup {0} /\ Worker.job \in JobIds \cup {0} /\ j # 0
    BY Ids DEF Inv, LifecycleInv, Typed, TypeOK, Local, Waiter, Worker, Actors
  <2>2. /\ Waiter'.dep # 0 => \E i \in JobIds : job'[i].dep = Waiter'.dep
        /\ Waiter'.job # 0 => /\ job'[Waiter'.job].dep = Waiter'.dep
                              /\ job'[Waiter'.job].type = Waiter'.kind
        /\ Waiter'.pc = "idle" => Waiter'.dep = 0 /\ Waiter'.job = 0
    <3>1. CASE Waiter' = Idle
      BY <1>1, <3>1
    <3>2. CASE Waiter' = Waiter
      <4>1. Waiter.dep # 0 => \E i \in JobIds : job'[i].dep = Waiter.dep
        BY <1>4 DEF Inv, OwnershipInv, LocalsAgree, Known, Waiter, Actors, JobWaited
      <4> QED
        BY <2>1, <3>2, <4>1 DEF Inv, OwnershipInv, LocalsAgree, Waiter, Actors, JobWaited
    <3>3. CASE /\ Waiter'.pc \in {"retain", "resumed"} /\ Waiter'.job = j
               /\ Waiter'.dep = e /\ Waiter'.kind = job[j].type
      BY <3>3 DEF JobWaited, Known
    <3> QED
      BY <3>1, <3>2, <3>3
  <2>3. /\ Worker'.dep # 0 => \E i \in JobIds : job'[i].dep = Worker'.dep
        /\ Worker'.job # 0 => /\ job'[Worker'.job].dep = Worker'.dep
                              /\ job'[Worker'.job].type = Worker'.kind
                              /\ job'[Worker'.job].status \in {"running"} \cup Terminal
        /\ Worker'.pc = "idle" => Worker'.dep = 0 /\ Worker'.job = 0
    <3>1. LocalsAgree
      BY DEF Inv, OwnershipInv
    <3>2. Worker.dep # 0 => \E i \in JobIds : job'[i].dep = Worker.dep
      BY <3>1 DEF LocalsAgree, Known, Worker, Actors, JobWaited
    <3>3. Worker.job # 0 => job'[Worker.job].status \in {"running"} \cup Terminal
      BY <2>1, <3>1 DEF LocalsAgree, JobWaited
    <3> QED
      BY <1>1, <2>1, <3>1, <3>2, <3>3 DEF LocalsAgree, Worker, Actors, JobWaited
  <2> QED
    BY <2>2, <2>3 DEF LocalsAgree, Known, Actors, Worker, Waiter
<1>12. RowsKnown'
  <2>1. \A d \in Deployments : Exists(d)' => Known(d)'
    BY <1>4 DEF RowsKnown, Inv, OwnershipInv, RowsShrink
  <2>2. \A d : d = request.dep /\ request # NoRequest => Known(d)' /\ ~Active(d)'
    BY <1>4 DEF RowsKnown, Inv, OwnershipInv
  <2> QED
    BY <2>1, <2>2, RequestAdmits DEF RowsKnown, Known, Active, JobActive
<1>13. WaitsApart'
  <2>1. WaitsApart
    BY DEF Inv, OwnershipInv
  <2>2. \A i \in JobIds : job'[i].status = "waiting" => job[i].status = "waiting"
    BY DEF JobWaited, Terminal
  <2>3. /\ \A i \in JobIds : job'[i].type # "rebuild"
        /\ \A i \in JobIds : job'[i].status = "waiting" => job'[i].type = "deploy"
        /\ request' # NoRequest => request'.op \notin {"rebuild", "rebuildCurrent"}
    BY <1>2, <2>1, <2>2 DEF WaitsApart, JobWaited
  <2>4. ASSUME NEW i \in JobIds, NEW k \in JobIds, job'[i].type = "deploy", job'[k].type = "deploy",
               job'[i].dep = job'[k].dep, job'[i].dep # 0
        PROVE  i = k
    BY <1>2, <2>1, <2>4 DEF WaitsApart, JobWaited
  <2>5. Waiter'.job # 0 => job'[Waiter'.job].type = "deploy"
    <3>1. Waiter.job \in JobIds \cup {0}
      BY DEF Inv, LifecycleInv, Typed, TypeOK, Local, Waiter, Actors
    <3> QED
      BY <1>1, <1>2, <2>1, <3>1 DEF WaitsApart, JobWaited
  <2>6. Worker'.pc \in CreatePlaces => job'[Worker'.job].type = "deploy"
    <3>1. Worker.pc \in CreatePlaces => Worker.job \in JobIds
      BY WorkerAlone DEF CreatePlaces, ExecPlaces
    <3> QED
      BY <1>1, <1>2, <2>1, <3>1 DEF WaitsApart, JobWaited
  <2> QED
    BY <1>2, <2>3, <2>4, <2>5, <2>6 DEF WaitsApart
<1>14. Unstarted'
  <2>0. \A i \in JobIds : job'[i].status = "unused" => job'[i].dep = 0
    BY DEF JobWaited, Inv, OwnershipInv, Unstarted, Terminal
  <2> SUFFICES ASSUME NEW i \in JobIds, NEW d, d = job[i].dep,
                      job[i].type = "deploy", job'[i].status = "queued"
               PROVE  VmidOf(d)' = NoVmid
    BY <2>0 DEF Unstarted, JobWaited, VmidOf, Exists
  <2>1. job[i].status = "queued"
    BY DEF JobWaited, Terminal
  <2>2. VmidOf(d) = NoVmid
    BY <2>1 DEF Inv, OwnershipInv, Unstarted
  <2> QED
    BY <2>2, UnnamedStays DEF NamesDropped
<1>15. CreatesWatched'
  <2> SUFFICES ASSUME NEW t \in running, t.kind = "create"
               PROVE  WatchedCreate(t)'
    BY DEF CreatesWatched, cluster
  <2>1. WatchedCreate(t) /\ t.job \in JobIds
    BY TaskFields DEF Inv, OwnershipInv, CreatesWatched, LifecycleInv
  <2>2. PICK d \in Deployments : d = job[t.job].dep /\ d # 0 /\ Exists(d)
    BY CreateOwned
  <2>3. d # e /\ t.job # j /\ RowKept(d)
    BY <1>2, <2>2 DEF Uncreated
  <2>4. /\ job'[t.job].dep = d /\ job'[t.job].remote = job[t.job].remote
        /\ job'[t.job].status = job[t.job].status
    BY <2>1, <2>2, <2>3 DEF JobWaited
  <2>5. Watched(t) => Watched(t)'
    BY <1>1, <2>4 DEF Watched, JobActive
  <2>6. Uncertain(d) => Uncertain(d)'
    BY <1>1, <2>2, <2>3 DEF Uncertain, RowKept
  <2>7. Waiter'.dep # d
    BY <1>1, <2>1, <2>2, <2>3 DEF WatchedCreate
  <2>8. \A i \in JobIds : JobActive(i)' /\ job'[i].dep = d => i = Worker'.job
    BY <1>1, <1>3, <2>1, <2>2 DEF WatchedCreate, JobWaited
  <2> QED
    BY <2>1, <2>2, <2>4, <2>5, <2>6, <2>7, <2>8 DEF WatchedCreate, Uncertain, JobActive
<1> QED
  BY <1>6, <1>7, <1>8, <1>9, <1>10, <1>11, <1>12, <1>13, <1>14, <1>15 DEF OwnershipInv

LEMMA StatusWaited ==
  ASSUME Inv, NEW j \in JobIds, NEW st \in Terminal \cup {"running"}, SetStatus(j, st),
         job[j].status \in {"waiting", "running"}
  PROVE  JobWaited(j)
<1>1. job \in [JobIds -> JobRow]
  BY DEF Inv, LifecycleInv, Typed, TypeOK
<1> QED
  BY <1>1 DEF SetStatus, JobRow, JobWaited

LEMMA StartsAbout ==
  ASSUME Inv, NEW a \in Actors, NEW p, NEW j, NEW o, Start(a, p, j, o)
  PROVE  /\ at'[a].pc = p /\ at'[a].job = j /\ at'[a].dep = job[j].dep
         /\ at'[a].kind = job[j].type /\ at'[a].out = o
         /\ \A b \in Actors \ {a} : at'[b] = at[b]
BY DEF Start, Inv, LifecycleInv, Typed, TypeOK, Idle

\* A row becomes live or an error: what the others rely on stays.
LEMMA RowSettled ==
  ASSUME Inv, NEW e, Exists(e), NEW s \in {"live", "error"},
         dep' = [dep EXCEPT ![e].status = s, ![e].origin = ""]
  PROVE  RowsShrink /\ NamesDropped /\ NamesFlow /\ \A d \in Deployments : RowKept(d)
<1>1. dep[e] \in Row /\ e \in Deployments
  BY ExistingRow DEF Inv, LifecycleInv, Typed
<1> DEFINE row == [dep[e] EXCEPT !.status = s, !.origin = ""]
<1>2. /\ row \in Row /\ row.vmid = dep[e].vmid /\ row.post = dep[e].post
      /\ row.identity = dep[e].identity /\ row.status = s
      /\ dep' = [dep EXCEPT ![e] = row]
  BY <1>1 DEF Row, Inv, LifecycleInv, Typed, TypeOK
<1> HIDE DEF row
<1>3. dep'[e] = row /\ \A d \in Deployments \ {e} : dep'[d] = dep[d]
  BY <1>1, <1>2 DEF Inv, LifecycleInv, Typed, TypeOK
<1>4. VmidOf(e)' = VmidOf(e)
  BY <1>1, <1>2, <1>3, NoRowIsNoRow DEF Exists, VmidOf
<1>5. RowsShrink /\ NamesDropped /\ NamesFlow /\ RowsKeptBut(e)
  BY <1>2, <1>3, <1>4, OneRow
<1>6. RowKept(e)
  BY <1>2, <1>3, <1>4 DEF RowKept
<1> QED
  BY <1>5, <1>6 DEF RowsKeptBut

LEMMA WaiterCloseOwns ==
  ASSUME Inv, Close("waiter")
  PROVE  OwnershipInv'
<1>1. /\ Waiter.pc = "close" /\ UNCHANGED <<dep, cluster, todo, request>>
      /\ at' = [at EXCEPT !["waiter"] = Idle]
  BY DEF Close, Waiter
<1>2. Waiter.job \in JobIds /\ job[Waiter.job].status \in Terminal
  BY <1>1 DEF Inv, LifecycleInv, Held, Waiter, ReconcilePlaces
<1>3. JobWaited(Waiter.job)
  BY <1>2 DEF Close, Waiter, Terminal, JobWaited
<1>4. Waiter' = Idle /\ at'["worker"] = at["worker"]
  BY <1>1 DEF Waiter, Actors, Inv, LifecycleInv, Typed, TypeOK
<1>5. RowsShrink /\ NamesDropped /\ NamesFlow /\ \A d \in Deployments : RowKept(d)
  BY <1>1, RowsRest
<1> QED
  BY <1>1, <1>2, <1>3, <1>4, <1>5, WaitOwns

\* The waiting thread ends a job and is going to reconcile it.
LEMMA EndWaitOwns ==
  ASSUME Inv, NEW j \in JobIds, NEW o \in {"failed", "canceled"}, EndWait(j, o),
         \/ job[j].status = "waiting"
         \/ Waiter.job = j /\ Waiter.pc = "resumed" /\ job[j].status \in {"waiting", "running"}
  PROVE  OwnershipInv'
<1> SUFFICES ASSUME NEW e, e = job[j].dep
             PROVE  OwnershipInv'
  OBVIOUS
<1>1. /\ UNCHANGED <<dep, cluster, todo, request>> /\ SetStatus(j, o)
      /\ Start("waiter", "retain", j, o)
  BY DEF EndWait
<1>2. JobWaited(j)
  BY <1>1, StatusWaited DEF Terminal
<1>3. /\ Waiter'.pc = "retain" /\ Waiter'.job = j /\ Waiter'.dep = e
      /\ Waiter'.kind = job[j].type /\ at'["worker"] = at["worker"]
  BY <1>1, StartsAbout DEF Waiter, Actors
<1>4. RowsShrink /\ NamesDropped /\ NamesFlow /\ \A d \in Deployments : RowKept(d)
  BY <1>1, RowsRest
<1> QED
  BY <1>1, <1>2, <1>3, <1>4, WaitOwns

LEMMA WaitTimeoutOwns ==
  ASSUME Inv, NEW j \in JobIds, WaitTimeout(j)
  PROVE  OwnershipInv'
<1> SUFFICES ASSUME NEW e, e = job[j].dep
             PROVE  OwnershipInv'
  OBVIOUS
<1>1. /\ UNCHANGED <<cluster, todo, request, at>> /\ SetStatus(j, "failed")
      /\ job[j].status = "waiting"
  BY DEF WaitTimeout, Waiting, control
<1>2. JobWaited(j)
  BY <1>1, StatusWaited DEF Terminal
<1>3. Waiter' = Waiter /\ at'["worker"] = at["worker"]
  BY <1>1 DEF Waiter
<1>4. Exists(e)
  BY DEF WaitTimeout, NoTarget, VmidOf
<1>5. dep' = [dep EXCEPT ![e].status = "error", ![e].origin = ""]
  BY DEF WaitTimeout
<1>6. RowsShrink /\ NamesDropped /\ NamesFlow /\ \A d \in Deployments : RowKept(d)
  BY <1>4, <1>5, RowSettled
<1> QED
  BY <1>1, <1>2, <1>3, <1>6, WaitOwns

LEMMA ResumeOwns ==
  ASSUME Inv, NEW j \in JobIds, Resume(j)
  PROVE  OwnershipInv'
<1> SUFFICES ASSUME NEW e, e = job[j].dep
             PROVE  OwnershipInv'
  OBVIOUS
<1>1. /\ UNCHANGED <<dep, cluster, todo, request>> /\ SetStatus(j, "running")
      /\ Start("waiter", "resumed", j, "") /\ job[j].status = "waiting"
  BY DEF Resume, Waiting
<1>2. JobWaited(j)
  BY <1>1, StatusWaited
<1>3. /\ Waiter'.pc = "resumed" /\ Waiter'.job = j /\ Waiter'.dep = e
      /\ Waiter'.kind = job[j].type /\ at'["worker"] = at["worker"]
  BY <1>1, StartsAbout DEF Waiter, Actors
<1>4. RowsShrink /\ NamesDropped /\ NamesFlow /\ \A d \in Deployments : RowKept(d)
  BY <1>1, RowsRest
<1> QED
  BY <1>1, <1>2, <1>3, <1>4, WaitOwns

LEMMA ResumedOkOwns ==
  ASSUME Inv, ResumedOk
  PROVE  OwnershipInv'
<1> SUFFICES ASSUME NEW j, j = Waiter.job, NEW d, d = Waiter.dep
             PROVE  OwnershipInv'
  OBVIOUS
<1>1. /\ UNCHANGED <<cluster, todo, request>> /\ Waiter.pc = "resumed"
      /\ at' = [at EXCEPT !["waiter"] = Idle]
  BY DEF ResumedOk, Waiter
<1>2. j \in JobIds
  BY <1>1, LocalsTyped DEF Waiter, Actors, Inv, LifecycleInv
<1>3. Waiter' = Idle /\ at'["worker"] = at["worker"]
  BY <1>1 DEF Waiter, Actors, Inv, LifecycleInv, Typed, TypeOK
<1>4. CASE job[j].status = "running" /\ Exists(d)
  <2>1. SetStatus(j, "succeeded") /\ dep' = [dep EXCEPT ![d].status = "live", ![d].origin = ""]
    BY <1>4 DEF ResumedOk, Waiter
  <2>2. JobWaited(j)
    BY <1>2, <1>4, <2>1, StatusWaited DEF Terminal
  <2>3. RowsShrink /\ NamesDropped /\ NamesFlow /\ \A x \in Deployments : RowKept(x)
    <3>1. Exists(d)
      BY <1>4
    <3> QED
      BY <2>1, <3>1, RowSettled
  <2> QED
    BY <1>1, <1>2, <1>3, <2>2, <2>3, WaitOwns
<1>5. CASE UNCHANGED <<job, dep>>
  <2>1. JobWaited(j)
    <3>1. job[j].status \in {"running"} \cup Terminal
      BY <1>1 DEF Inv, LifecycleInv, Held, Waiter
    <3> QED
      BY <1>5, <3>1 DEF JobWaited, Terminal
  <2>2. RowsShrink /\ NamesDropped /\ NamesFlow /\ \A x \in Deployments : RowKept(x)
    BY <1>5, RowsRest
  <2> QED
    BY <1>1, <1>2, <1>3, <2>1, <2>2, WaitOwns
<1> QED
  BY <1>4, <1>5 DEF ResumedOk, Waiter

LEMMA ResumedAbortsOwns ==
  ASSUME Inv, ResumedAborts
  PROVE  OwnershipInv'
<1> SUFFICES ASSUME NEW j, j = Waiter.job
             PROVE  OwnershipInv'
  OBVIOUS
<1>1. Waiter.pc = "resumed" /\ j \in JobIds
  BY LocalsTyped DEF ResumedAborts, Waiter, Actors, Inv, LifecycleInv
<1>2. ASSUME NEW o \in {"failed", "canceled"}, job[j].status \in {"waiting", "running"}, EndWait(j, o)
      PROVE  OwnershipInv'
  BY <1>1, <1>2, EndWaitOwns
<1>3. CASE at' = [at EXCEPT !["waiter"] = Idle] /\ UNCHANGED <<tables, cluster, todo, request>>
  <2>1. JobWaited(j)
    <3>1. job[j].status \in {"running"} \cup Terminal
      BY <1>1 DEF Inv, LifecycleInv, Held, Waiter
    <3> QED
      BY <1>3, <3>1 DEF JobWaited, Terminal, tables
  <2>2. RowsShrink /\ NamesDropped /\ NamesFlow /\ \A x \in Deployments : RowKept(x)
    BY <1>3, RowsRest DEF tables
  <2>3. Waiter' = Idle /\ at'["worker"] = at["worker"]
    BY <1>3 DEF Waiter, Actors, Inv, LifecycleInv, Typed, TypeOK
  <2> QED
    BY <1>1, <1>3, <2>1, <2>2, <2>3, WaitOwns
<1> QED
  BY <1>2, <1>3 DEF ResumedAborts, Waiter

LEMMA WaiterOwns ==
  ASSUME Inv, Wait
  PROVE  OwnershipInv'
<1>1. CASE \E j \in JobIds : WaitCanceled(j) \/ WaitLost(j)
  BY <1>1, EndWaitOwns DEF WaitCanceled, WaitLost, Waiting
<1>2. CASE \E j \in JobIds : WaitTimeout(j)
  BY <1>2, WaitTimeoutOwns
<1>3. CASE \E j \in JobIds : Resume(j)
  BY <1>3, ResumeOwns
<1>4. CASE ResumedOk \/ ResumedAborts
  BY <1>4, ResumedOkOwns, ResumedAbortsOwns
<1> QED
  BY <1>1, <1>2, <1>3, <1>4 DEF Wait

--------------------------------------------------------------------------------
(* The cluster and the handlers: the threads stand still                      *)

LEMMA StandsStill ==
  ASSUME Inv, UNCHANGED <<at, todo>>, Flow, NamesDropped,
         Worker.pc \in {"prepare", "create"} => RowKept(Worker.dep),
         Worker.pc \in {"accept", "record", "import"} => Worker.task \in running'
  PROVE  Uncrashed' /\ TasksMeant' /\ Selected' /\ Verdict' /\ CreatesApart' /\ NoOrphanVm'
<1>1. Worker' = Worker /\ at' = at
  BY DEF Worker
<1>2. Uncrashed'
  BY <1>1 DEF Uncrashed, Inv, OwnershipInv
<1>3. TasksMeant'
  <2>1. TaskMeant("waiter")'
    BY WaiterTaskStays
  <2>2. TaskMeant("worker")'
    BY DEF TaskMeant, Inv, OwnershipInv, TasksMeant, Actors, Worker
  <2> QED
    BY <2>1, <2>2 DEF TasksMeant, Actors
<1>4. Selected'
  BY SelectedStays
<1>5. Verdict'
  BY VerdictStays DEF Verdict
<1> QED
  BY <1>2, <1>3, <1>4, <1>5, FlowOwned

LEMMA ClusterOwns ==
  ASSUME Inv, ClusterNext
  PROVE  OwnershipInv'
<1>1. UNCHANGED <<dep, alloc, job, at, todo, request>>
  BY DEF ClusterNext, TaskStops, ForeignVm, tables, control
<1>2. ClusterFlow /\ \A t \in running : Awaited(t) => t \in running'
  <2>1. CASE TaskStops
    <3>1. PICK t \in running : ~Awaited(t) /\ (Succeeds(t) \/ Fails(t))
      BY <2>1 DEF TaskStops
    <3>2. t \in Task
      BY DEF Inv, LifecycleInv, Typed, TypeOK
    <3> QED
      BY <3>1, <3>2, TaskSucceeds, TaskFails DEF Succeeds, Fails
  <2>2. CASE ForeignVm
    BY <2>2, ForeignFlow DEF ForeignVm
  <2> QED
    BY <2>1, <2>2 DEF ClusterNext
<1>3. JobsQuiet /\ RemotesKept /\ Flow /\ RowsShrink /\ NamesDropped
      /\ \A d \in Deployments : RowKept(d)
  BY <1>1, <1>2, RowsRest DEF JobsQuiet, RemotesKept, Flow, JobsFlow
<1>4. Uncrashed' /\ TasksMeant' /\ Selected' /\ Verdict' /\ CreatesApart' /\ NoOrphanVm'
  <2>1. Worker.pc \in {"accept", "record", "import"} => Worker.task \in running'
    BY <1>2 DEF Inv, OwnershipInv, TasksMeant, TaskMeant, Awaited, Worker, Actors
  <2>2. Worker.pc \in {"prepare", "create"} => RowKept(Worker.dep)
    BY <1>3, ChosenRow
  <2> QED
    BY <1>1, <1>3, <2>1, <2>2, StandsStill
<1>5. RowsKnown' /\ Unstarted'
  BY <1>1, <1>3, RowsStayKnown, QueuedStayUnnamed
<1>6. LocalsAgree' /\ WaitsApart'
  BY <1>1 DEF Inv, OwnershipInv, LocalsAgree, WaitsApart, Known, Exists, Worker, Waiter
<1>7. CreatesWatched'
  <2> SUFFICES ASSUME NEW t \in running', t.kind = "create"
               PROVE  WatchedCreate(t)'
    BY DEF CreatesWatched
  <2>1. t \in running
    BY <1>2 DEF ClusterFlow
  <2>2. WatchedCreate(t)
    BY <2>1 DEF Inv, OwnershipInv, CreatesWatched
  <2> QED
    BY <1>1, <2>2 DEF WatchedCreate, Watched, Uncertain, JobActive, Worker, Waiter
<1> QED
  BY <1>4, <1>5, <1>6, <1>7 DEF OwnershipInv

\* Admitted jobs stay as they are.
JobsKept ==
  \A j \in JobIds : job[j].status # "unused" =>
    /\ job'[j].dep = job[j].dep /\ job'[j].type = job[j].type
    /\ job'[j].status = job[j].status /\ job'[j].remote = job[j].remote
\* Nobody is busy with deployment d.
Quiescent(d) == ~Active(d) /\ Uncreated(d)

LEMMA AdmittedKept ==
  ASSUME Inv, JobsKept
  PROVE  /\ JobsFlow /\ RemotesKept
         /\ \A d : d # 0 /\ Known(d) => Known(d)'
         /\ \A a \in Actors : at[a].job # 0 =>
              at[a].job \in JobIds /\ job[at[a].job].status # "unused"
<1>1. \A j \in JobIds : job[j].dep # 0 => job[j].status # "unused"
  BY DEF Inv, OwnershipInv, Unstarted
<1>2. JobsFlow /\ \A d : d # 0 /\ Known(d) => Known(d)'
  BY <1>1 DEF JobsFlow, JobsKept, Known
<1>3. RemotesKept
  BY <1>1, CreateOwned, TaskFields DEF RemotesKept, JobsKept, Inv, LifecycleInv
<1>4. ASSUME NEW a \in Actors, at[a].job # 0
      PROVE  at[a].job \in JobIds /\ job[at[a].job].status # "unused"
  <2>1. at[a].job \in JobIds
    BY <1>4 DEF Inv, LifecycleInv, Typed, TypeOK, Local
  <2>2. CASE a = "worker"
    <3>1. Worker.job # 0 /\ LocalsAgree
      BY <1>4, <2>2 DEF Worker, Inv, OwnershipInv
    <3>2. job[Worker.job].status \in {"running"} \cup Terminal
      BY <3>1 DEF LocalsAgree
    <3> QED
      BY <2>1, <2>2, <3>2 DEF Worker, Terminal
  <2>3. CASE a = "waiter"
    <3>1. at["waiter"].job # 0 /\ LocalsAgree /\ Held
      BY <1>4, <2>3 DEF Inv, OwnershipInv, LifecycleInv
    <3>2. at["waiter"].pc # "idle"
      BY <3>1 DEF LocalsAgree, Actors
    <3>3. job[at["waiter"].job].status \in {"running"} \cup Terminal
      BY <3>1, <3>2 DEF Held
    <3> QED
      BY <2>1, <2>3, <3>3 DEF Terminal
  <2> QED
    BY <2>1, <2>2, <2>3 DEF Actors
<1> QED
  BY <1>2, <1>3, <1>4

LEMMA HandlerOwns ==
  ASSUME Inv, UNCHANGED <<at, todo, cluster>>, JobsKept, NamesDropped, NamesFlow,
         \A d \in Deployments : RowKept(d) \/ Quiescent(d),
         RowsKnown', WaitsApart', Unstarted',
         \A t \in running : t.kind = "create" =>
           /\ request' # NoRequest => request'.dep # job[t.job].dep
           /\ \A j \in JobIds : JobActive(j)' /\ job'[j].dep = job[t.job].dep => j = Worker.job
  PROVE  OwnershipInv'
<1>1. /\ JobsFlow /\ RemotesKept /\ ClusterFlow /\ Flow /\ Worker' = Worker /\ Waiter' = Waiter
      /\ at' = at /\ running' = running
  BY AdmittedKept, ClusterRests DEF Flow, Worker, Waiter, cluster
<1>2. Uncrashed' /\ TasksMeant' /\ Selected' /\ Verdict' /\ CreatesApart' /\ NoOrphanVm'
  <2>1. Worker.pc \in {"accept", "record", "import"} => Worker.task \in running'
    BY <1>1 DEF Inv, OwnershipInv, TasksMeant, TaskMeant, Worker, Actors
  <2>2. Worker.pc \in {"prepare", "create"} => RowKept(Worker.dep)
    <3>1. ASSUME Worker.pc \in {"prepare", "create"}
          PROVE  Worker.dep \in Deployments /\ Active(Worker.dep)
      BY <3>1, ChosenRow, WorkerAlone DEF Active, ExecPlaces
    <3> QED
      BY <3>1 DEF Quiescent
  <2> QED
    BY <1>1, <2>1, <2>2, StandsStill
<1>3. LocalsAgree'
  <2>1. ASSUME NEW a \in Actors
        PROVE  /\ at[a].dep # 0 => Known(at[a].dep)'
               /\ at[a].job # 0 => job'[at[a].job].dep = at[a].dep /\ job'[at[a].job].type = at[a].kind
    <3>1. ASSUME NEW d, d = at[a].dep, d # 0
          PROVE  Known(d)'
      BY <3>1, AdmittedKept DEF Inv, OwnershipInv, LocalsAgree
    <3>2. at[a].job # 0 => job'[at[a].job].dep = at[a].dep /\ job'[at[a].job].type = at[a].kind
      BY AdmittedKept DEF Inv, OwnershipInv, LocalsAgree, JobsKept
    <3> QED
      BY <3>1, <3>2, <1>1 DEF Known
  <2>2. Worker.job # 0 => job'[Worker.job].status \in {"running"} \cup Terminal
    BY AdmittedKept DEF Inv, OwnershipInv, LocalsAgree, JobsKept, Worker, Actors
  <2> QED
    BY <1>1, <2>1, <2>2 DEF Inv, OwnershipInv, LocalsAgree, Known
<1>4. CreatesWatched'
  <2> SUFFICES ASSUME NEW t \in running, t.kind = "create"
               PROVE  WatchedCreate(t)'
    BY <1>1 DEF CreatesWatched
  <2>1. PICK d \in Deployments : d = job[t.job].dep /\ d # 0 /\ Exists(d)
    BY CreateOwned
  <2>2. WatchedCreate(t) /\ t.job \in JobIds
    BY TaskFields DEF Inv, OwnershipInv, CreatesWatched, LifecycleInv
  <2>3. RowKept(d)
    BY <2>1 DEF Quiescent, Uncreated
  <2>4. /\ job'[t.job].dep = d /\ job'[t.job].remote = job[t.job].remote
        /\ job'[t.job].status = job[t.job].status
    BY <2>1, <2>2 DEF JobsKept, Inv, OwnershipInv, Unstarted
  <2>5. Watched(t) => Watched(t)'
    BY <1>1, <2>4 DEF Watched, JobActive
  <2>6. Uncertain(d) => Uncertain(d)'
    BY <1>1, <2>1, <2>3 DEF Uncertain, RowKept
  <2> QED
    BY <1>1, <2>1, <2>2, <2>4, <2>5, <2>6 DEF WatchedCreate, Uncertain, JobActive
<1> QED
  BY <1>2, <1>3, <1>4 DEF OwnershipInv

LEMMA QuietKept ==
  ASSUME Inv, JobsQuiet, \A j \in JobIds : job'[j].remote = job[j].remote
  PROVE  JobsKept /\ \A d : (Known(d)' <=> Known(d)) /\ (Active(d)' <=> Active(d))
BY DEF JobsQuiet, JobsKept, Known, Active, JobActive

\* A handler that admits nothing.
LEMMA QuietHandlerOwns ==
  ASSUME Inv, UNCHANGED <<at, todo, cluster, request>>,
         JobsQuiet, \A j \in JobIds : job'[j].remote = job[j].remote,
         RowsShrink, NamesDropped, NamesFlow,
         \A d \in Deployments : RowKept(d) \/ Quiescent(d)
  PROVE  OwnershipInv'
<1>1. JobsKept /\ RowsKnown' /\ Unstarted'
  BY QuietKept, RowsStayKnown, QueuedStayUnnamed
<1>2. WaitsApart'
  <2>1. Worker' = Worker /\ Waiter' = Waiter /\ WaitsApart
    BY DEF Worker, Waiter, Inv, OwnershipInv
  <2>2. TRUE \in PostBoot =>
          /\ Waiter.job # 0 => job'[Waiter.job].type = "deploy"
          /\ Worker.pc \in CreatePlaces => job'[Worker.job].type = "deploy"
    <3>1. Waiter.job # 0 => Waiter.job \in JobIds
      BY <1>1, AdmittedKept DEF Waiter, Actors
    <3>2. Worker.pc \in CreatePlaces => Worker.job \in JobIds
      BY WorkerAlone DEF CreatePlaces, ExecPlaces
    <3> QED
      BY <2>1, <3>1, <3>2 DEF WaitsApart, JobsQuiet
  <2> QED
    BY <2>1, <2>2 DEF WaitsApart, JobsQuiet, RowsShrink
<1>3. ASSUME NEW t \in running, t.kind = "create"
      PROVE  /\ request' # NoRequest => request'.dep # job[t.job].dep
             /\ \A j \in JobIds : JobActive(j)' /\ job'[j].dep = job[t.job].dep => j = Worker.job
  <2>1. WatchedCreate(t)
    BY <1>3 DEF Inv, OwnershipInv, CreatesWatched
  <2> QED
    BY <2>1 DEF WatchedCreate, JobsQuiet, JobActive
<1> QED
  BY <1>1, <1>2, <1>3, HandlerOwns

LEMMA CancelOwns ==
  ASSUME Inv, NEW j \in JobIds, Cancel(j)
  PROVE  OwnershipInv'
<1>1. job' = [job EXCEPT ![j].cancel = TRUE] /\ UNCHANGED <<dep, at, todo, cluster, request>>
  BY DEF Cancel, control
<1>2. job[j] \in JobRow /\ job \in [JobIds -> JobRow]
  BY DEF Inv, LifecycleInv, Typed, TypeOK
<1>3. JobsQuiet /\ \A k \in JobIds : job'[k].remote = job[k].remote
  BY <1>1, <1>2 DEF JobsQuiet, JobRow
<1> QED
  BY <1>1, <1>3, RowsRest, QuietHandlerOwns

LEMMA ToggleOwns ==
  ASSUME Inv, ToggleDisabled
  PROVE  OwnershipInv'
<1>1. UNCHANGED <<dep, job, at, todo, cluster, request>>
  BY DEF ToggleDisabled, tables, control
<1> QED
  BY <1>1, RowsRest, QuietHandlerOwns DEF JobsQuiet

LEMMA RefuseOwns ==
  ASSUME Inv, RefuseRequest
  PROVE  OwnershipInv'
<1>1. UNCHANGED <<dep, job, at, todo, cluster>> /\ request' = NoRequest
  BY DEF RefuseRequest, tables
<1>2. JobsQuiet /\ \A j \in JobIds : job'[j].remote = job[j].remote
  BY <1>1 DEF JobsQuiet
<1>3. JobsKept /\ Unstarted'
  BY <1>1, <1>2, RowsRest, QuietKept, QueuedStayUnnamed
<1>4. RowsKnown' /\ WaitsApart'
  BY <1>1 DEF RowsKnown, WaitsApart, Inv, OwnershipInv, Exists, Known, Worker, Waiter
<1>5. ASSUME NEW t \in running, t.kind = "create"
      PROVE  \A j \in JobIds : JobActive(j)' /\ job'[j].dep = job[t.job].dep => j = Worker.job
  <2>1. WatchedCreate(t)
    BY <1>5 DEF Inv, OwnershipInv, CreatesWatched
  <2> QED
    BY <1>1, <2>1 DEF WatchedCreate, JobActive
<1> QED
  BY <1>1, <1>3, <1>4, <1>5, RowsRest, HandlerOwns

\* A row that says neither that its VM is uncertain nor that it has an active job.
LEMMA SettledUncreated ==
  ASSUME Inv, NEW d, ~Active(d), dep[d].identity # "submitting"
  PROVE  Uncreated(d)
<1> SUFFICES ASSUME NEW t \in running, t.kind = "create", job[t.job].dep = d
             PROVE  FALSE
  BY DEF Uncreated
<1>1. WatchedCreate(t) /\ t.job \in JobIds
  BY TaskFields DEF Inv, OwnershipInv, CreatesWatched, LifecycleInv
<1> QED
  BY <1>1 DEF WatchedCreate, Watched, Uncertain, Active

LEMMA BeginRequestOwns ==
  ASSUME Undisturbed, Inv, NEW op, NEW d \in Deployments, BeginRequest(op, d)
  PROVE  OwnershipInv'
<1>1. /\ UNCHANGED <<dep, job, at, todo, cluster>>
      /\ op \in Ops \cap RequestOps /\ Exists(d) /\ ~Active(d) /\ RowAllows(op, d)
      /\ request'.op = op /\ request'.dep = d
  BY DEF BeginRequest, MayStart, Undisturbed, tables
<1>2. Uncreated(d)
  <2>1. dep[d].identity # "submitting"
    BY <1>1 DEF RowAllows, NotPending, RequestOps
  <2> QED
    BY <1>1, <2>1, SettledUncreated
<1>3. JobsQuiet /\ \A j \in JobIds : job'[j].remote = job[j].remote
  BY <1>1 DEF JobsQuiet
<1>4. JobsKept /\ Unstarted'
  BY <1>1, <1>3, RowsRest, QuietKept, QueuedStayUnnamed
<1>5. RowsKnown'
  <2>1. Known(d) /\ ~Active(d) /\ op \in RequestOps
    BY <1>1 DEF Inv, OwnershipInv, RowsKnown
  <2>2. \A e \in Deployments : Exists(e)' => Known(e)'
    BY <1>1 DEF Inv, OwnershipInv, RowsKnown, Exists, Known
  <2> QED
    BY <1>1, <2>1, <2>2 DEF RowsKnown, Known, Active, JobActive
<1>6. WaitsApart'
  <2>1. WaitsApart /\ (TRUE \in PostBoot => op \notin {"rebuild", "rebuildCurrent"})
    BY <1>1 DEF Inv, OwnershipInv, Undisturbed
  <2> QED
    BY <1>1, <2>1 DEF WaitsApart, Exists, Worker, Waiter
<1>7. ASSUME NEW t \in running, t.kind = "create"
      PROVE  /\ request' # NoRequest => request'.dep # job[t.job].dep
             /\ \A j \in JobIds : JobActive(j)' /\ job'[j].dep = job[t.job].dep => j = Worker.job
  <2>1. WatchedCreate(t) /\ job[t.job].dep # d
    BY <1>2, <1>7 DEF Inv, OwnershipInv, CreatesWatched, Uncreated
  <2> QED
    BY <1>1, <2>1 DEF WatchedCreate, JobActive
<1> QED
  BY <1>1, <1>4, <1>5, <1>6, <1>7, RowsRest, HandlerOwns

LEMMA VouchOwns ==
  ASSUME Inv, NEW d \in Deployments, Reconcile(d)
  PROVE  OwnershipInv'
<1>1. /\ UNCHANGED <<at, todo, cluster, request>> /\ Exists(d) /\ ~Active(d)
      /\ dep[d].vmid # NoVmid /\ vm[dep[d].vmid] \in JobIds
  BY DEF Reconcile, MayStart, control
<1> DEFINE row == IF dep[d].status = "cleanup_pending"
                    THEN [dep[d] EXCEPT !.status = "error", !.origin = ""] ELSE dep[d]
           same == [row EXCEPT !.identity = "accepted"]
<1>2. PICK j \in JobIds :
        /\ dep' = [dep EXCEPT ![d] = same] \/ dep' = [dep EXCEPT ![d] = row]
        /\ job' = [job EXCEPT ![j].create = "accepted"] \/ job' = job
  BY DEF Reconcile
<1>3. dep[d] \in Row /\ VmidOf(d) = dep[d].vmid
  BY <1>1, ExistingRow DEF Inv, LifecycleInv, Typed, VmidOf
<1>4. /\ row \in Row /\ row.vmid = dep[d].vmid /\ row.post = dep[d].post
      /\ same \in Row /\ same.vmid = dep[d].vmid /\ same.post = dep[d].post
  BY <1>3 DEF Row, IdentityStates
<1> HIDE DEF row, same
<1>5. Quiescent(d)
  <2> SUFFICES ASSUME NEW t \in running, t.kind = "create", job[t.job].dep = d
               PROVE  FALSE
    BY <1>1 DEF Quiescent, Uncreated
  <2>1. t.vmid = dep[d].vmid
    BY <1>3, CreateOwned
  <2>2. vm[t.vmid] = NoVm
    BY DEF Inv, OwnershipInv, CreatesApart
  <2> QED
    BY <1>1, <2>1, <2>2, Ids
<1>6. JobsQuiet /\ \A k \in JobIds : job'[k].remote = job[k].remote
  BY <1>2, CreateQuiet DEF JobsQuiet, Inv, LifecycleInv
<1>7. PICK r \in Row : /\ dep' = [dep EXCEPT ![d] = r]
                       /\ r.vmid = dep[d].vmid /\ r.post = dep[d].post
  BY <1>2, <1>4
<1>8. RowsKeptBut(d) /\ RowsShrink /\ NamesFlow /\ NamesDropped
  BY <1>1, <1>7, RowRewritten
<1>9. \A e \in Deployments : RowKept(e) \/ Quiescent(e)
  BY <1>5, <1>8 DEF RowsKeptBut
<1> QED
  BY <1>1, <1>6, <1>8, <1>9, QuietHandlerOwns

LEMMA Inserted ==
  ASSUME Inv, NEW j \in JobIds, NEW type, NEW d, NEW c, NEW i, FreshJob(j), Insert(j, type, d, c, i)
  PROVE  /\ job'[j].dep = d /\ job'[j].type = type /\ job'[j].status = "queued"
         /\ job[j].status = "unused" /\ job[j].dep = 0
         /\ \A k \in JobIds \ {j} : job'[k] = job[k]
         /\ JobsKept
         /\ \A e : Active(e)' => e = d \/ Active(e)
<1>1. job[j].status = "unused"
  BY ConstantsTyped DEF FreshJob, JobIds, ConstantsTyped
<1>2. job[j].dep = 0
  BY <1>1 DEF Inv, OwnershipInv, Unstarted
<1>3. /\ job'[j].dep = d /\ job'[j].type = type /\ job'[j].status = "queued"
      /\ \A k \in JobIds \ {j} : job'[k] = job[k]
  BY DEF Insert, Unused, Inv, LifecycleInv, Typed, TypeOK
<1>4. JobsKept
  BY <1>1, <1>3 DEF JobsKept
<1> QED
  BY <1>1, <1>2, <1>3, <1>4 DEF Active, JobActive

\* The worker alone is about a deployment for which a create is under way, also when a job
\* for another deployment is admitted.
LEMMA InsertWatched ==
  ASSUME Inv, NEW j \in JobIds, NEW d, job'[j].dep = d, Uncreated(d),
         \A k \in JobIds \ {j} : job'[k] = job[k],
         NEW t \in running, t.kind = "create"
  PROVE  \A k \in JobIds : JobActive(k)' /\ job'[k].dep = job[t.job].dep => k = Worker.job
<1>1. WatchedCreate(t) /\ job[t.job].dep # d
  BY DEF Inv, OwnershipInv, CreatesWatched, Uncreated
<1> QED
  BY <1>1 DEF WatchedCreate, JobActive

LEMMA InsertWaits ==
  ASSUME Inv, UNCHANGED at, JobsKept, NEW j \in JobIds, job[j].status = "unused",
         \A k \in JobIds \ {j} : job'[k] = job[k], job'[j].status = "queued",
         request' = NoRequest \/ request' = request,
         \A d \in Deployments : Exists(d)' =>
           (Exists(d) /\ dep'[d].post = dep[d].post) \/ dep'[d].post \in PostBoot,
         PostBoot \subseteq BOOLEAN,
         TRUE \in PostBoot =>
           /\ job'[j].type # "rebuild"
           /\ job'[j].type = "deploy" => \A k \in JobIds : job[k].dep # job'[j].dep
  PROVE  WaitsApart'
<1>1. Worker' = Worker /\ Waiter' = Waiter /\ WaitsApart
  BY DEF Worker, Waiter, Inv, OwnershipInv
<1>2. TRUE \notin PostBoot =>
        /\ Waiter.pc = "idle"
        /\ \A k \in JobIds : job'[k].status # "waiting"
        /\ \A d \in Deployments : Exists(d)' => ~dep'[d].post
  BY <1>1 DEF WaitsApart
<1>3. ASSUME TRUE \in PostBoot
      PROVE  /\ \A k \in JobIds : job'[k].type # "rebuild"
             /\ request' # NoRequest => request'.op \notin {"rebuild", "rebuildCurrent"}
             /\ \A k \in JobIds : job'[k].status = "waiting" => job'[k].type = "deploy"
  BY <1>1, <1>3 DEF WaitsApart
<1>4. ASSUME TRUE \in PostBoot, NEW i \in JobIds, NEW k \in JobIds,
             job'[i].type = "deploy", job'[k].type = "deploy",
             job'[i].dep = job'[k].dep, job'[i].dep # 0
      PROVE  i = k
  <2>1. CASE i # j /\ k # j
    BY <1>1, <1>4, <2>1 DEF WaitsApart
  <2>2. CASE i = j \/ k = j
    BY <1>4, <2>2
  <2> QED
    BY <2>1, <2>2
<1>5. TRUE \in PostBoot =>
        /\ Waiter.job # 0 => job'[Waiter.job].type = "deploy"
        /\ Worker.pc \in CreatePlaces => job'[Worker.job].type = "deploy"
  <2>1. Waiter.job # 0 => Waiter.job \in JobIds \ {j}
    BY AdmittedKept DEF Waiter, Actors
  <2>2. Worker.pc \in CreatePlaces => Worker.job \in JobIds \ {j}
    BY WorkerAlone DEF CreatePlaces, ExecPlaces
  <2> QED
    BY <1>1, <2>1, <2>2 DEF WaitsApart
<1> QED
  BY <1>1, <1>2, <1>3, <1>4, <1>5 DEF WaitsApart

LEMMA FinishRequestOwns ==
  ASSUME Inv, FinishRequest
  PROVE  OwnershipInv'
<1> SUFFICES ASSUME NEW d, d = request.dep, NEW op, op = request.op
             PROVE  OwnershipInv'
  OBVIOUS
<1> DEFINE row == [dep[d] EXCEPT
                     !.status = IF request.status = "working" THEN @ ELSE "working",
                     !.origin = IF op = "configure" THEN @ ELSE ""]
<1>1. /\ request # NoRequest /\ ~Active(d) /\ Write(d, row) /\ request' = NoRequest
      /\ UNCHANGED <<at, todo, cluster>>
  BY DEF FinishRequest
<1>2. d \in Deployments /\ op \in RequestOps
  BY <1>1 DEF FinishRequest, Inv, LifecycleInv, Typed, TypeOK
<1>3. PICK j \in JobIds, i \in ContextIps(op, d) :
        /\ FreshJob(j)
        /\ Insert(j, JobType(op), d, IF op = "configure" THEN "accepted" ELSE "", i)
  BY DEF FinishRequest
<1>4. /\ job'[j].dep = d /\ job'[j].type = JobType(op) /\ job'[j].status = "queued"
      /\ job[j].status = "unused"
      /\ \A k \in JobIds \ {j} : job'[k] = job[k]
      /\ JobsKept
  BY <1>3, Inserted
<1>5. JobType(op) # "deploy" /\ (op \notin {"rebuild", "rebuildCurrent"} => JobType(op) # "rebuild")
  BY <1>2 DEF JobType, RequestOps
<1>6. Uncreated(d)
  BY <1>1 DEF Inv, OwnershipInv, CreatesWatched, WatchedCreate, Uncreated
<1>7. RowsKeptBut(d) /\ RowsShrink /\ NamesFlow /\ NamesDropped
  <2>1. CASE ~Exists(d)
    <3>1. dep' = dep
      BY <1>1, <2>1 DEF Write
    <3> QED
      BY <3>1, RowsRest DEF RowsKeptBut
  <2>2. CASE Exists(d)
    <3>1. dep[d] \in Row /\ dep' = [dep EXCEPT ![d] = row]
      BY <1>1, <2>2, ExistingRow DEF Write, Inv, LifecycleInv, Typed
    <3>2. row \in Row /\ row.vmid = dep[d].vmid /\ row.post = dep[d].post
      BY <3>1 DEF Row
    <3>3. PICK r \in Row : /\ dep' = [dep EXCEPT ![d] = r]
                           /\ r.vmid = dep[d].vmid /\ r.post = dep[d].post
      BY <3>1, <3>2
    <3> QED
      BY <2>2, <3>3, RowRewritten
  <2> QED
    BY <2>1, <2>2
<1>8. RowsKnown'
  <2>1. \A e \in Deployments : Exists(e)' => Known(e)'
    <3>1. \A e \in Deployments : Known(e) => Known(e)'
      BY <1>4, AdmittedKept, Ids
    <3> QED
      BY <1>7, <3>1 DEF RowsShrink, Inv, OwnershipInv, RowsKnown
  <2> QED
    BY <1>1, <2>1 DEF RowsKnown
<1>9. WaitsApart'
  <2>1. TRUE \in PostBoot => job'[j].type # "rebuild"
    BY <1>1, <1>4, <1>5 DEF Inv, OwnershipInv, WaitsApart
  <2>2. job'[j].type # "deploy"
    BY <1>4, <1>5
  <2>3. PostBoot \subseteq BOOLEAN
    BY ConstantsTyped DEF ConstantsTyped
  <2> QED
    BY <1>1, <1>4, <1>7, <2>1, <2>2, <2>3, InsertWaits DEF RowsShrink
<1>10. Unstarted'
  <2> SUFFICES ASSUME NEW k \in JobIds
               PROVE  /\ job'[k].type = "deploy" /\ job'[k].status = "queued" =>
                           \A e : e = job'[k].dep => VmidOf(e)' = NoVmid
                      /\ job'[k].status = "unused" => job'[k].dep = 0
    BY DEF Unstarted, VmidOf, Exists
  <2>1. CASE k = j
    BY <1>4, <1>5, <2>1
  <2>2. CASE k # j
    <3>1. job'[k] = job[k]
      BY <1>4, <2>2
    <3>2. job[k].type = "deploy" /\ job[k].status = "queued" => VmidOf(job[k].dep) = NoVmid
      BY DEF Inv, OwnershipInv, Unstarted
    <3>3. job[k].status = "unused" => job[k].dep = 0
      BY DEF Inv, OwnershipInv, Unstarted
    <3>4. ASSUME NEW e, VmidOf(e) = NoVmid
          PROVE  VmidOf(e)' = NoVmid
      BY <1>7, <3>4, UnnamedStays DEF NamesDropped
    <3> QED
      BY <3>1, <3>2, <3>3, <3>4
  <2> QED
    BY <2>1, <2>2
<1>11. \A e \in Deployments : RowKept(e) \/ Quiescent(e)
  BY <1>1, <1>6, <1>7 DEF RowsKeptBut, Quiescent
<1> QED
  BY <1>1, <1>4, <1>6, <1>7, <1>8, <1>9, <1>10, <1>11, InsertWatched, HandlerOwns

LEMMA DeployOwns ==
  ASSUME Inv, Deploy
  PROVE  OwnershipInv'
<1>1. UNCHANGED <<at, todo, cluster, request>>
  BY DEF Deploy, control
<1>2. PICK d \in Deployments, j \in JobIds, post \in PostBoot, i \in Ips \cup {NoIp} :
        /\ FreshDeployment(d) /\ FreshJob(j)
        /\ dep' = [dep EXCEPT ![d] = [status |-> "working", vmid |-> NoVmid, identity |-> "",
                                      origin |-> "", ip |-> i, post |-> post]]
        /\ Insert(j, "deploy", d, "", i)
  BY AllocatedTyped DEF Deploy
<1> DEFINE row == [status |-> "working", vmid |-> NoVmid, identity |-> "", origin |-> "",
                   ip |-> i, post |-> post]
<1>3. /\ job'[j].dep = d /\ job'[j].type = "deploy" /\ job'[j].status = "queued"
      /\ job[j].status = "unused" /\ job[j].dep = 0
      /\ \A k \in JobIds \ {j} : job'[k] = job[k]
      /\ JobsKept
  BY <1>2, Inserted
<1>4. ~Known(d) /\ ~Exists(d) /\ Uncreated(d) /\ VmidOf(d) = NoVmid
  <2>1. d \in Nat /\ d >= d
    BY ConstantsTyped DEF Deployments, ConstantsTyped
  <2>2. ~Known(d)
    BY <1>2, <2>1 DEF FreshDeployment, Known
  <2>3. ~Exists(d)
    BY <2>2 DEF Inv, OwnershipInv, RowsKnown
  <2>4. Uncreated(d)
    BY <2>2, TaskFields DEF Uncreated, Known, Inv, LifecycleInv
  <2> QED
    BY <2>2, <2>3, <2>4 DEF VmidOf
<1>5. /\ dep'[d] = row /\ row.vmid = NoVmid /\ row.post = post
      /\ \A e \in Deployments \ {d} : dep'[e] = dep[e]
  BY <1>2 DEF Inv, LifecycleInv, Typed, TypeOK
<1> HIDE DEF row
<1>6. VmidOf(d)' = NoVmid
  BY <1>5 DEF VmidOf
<1>7. \A e \in Deployments \ {d} : VmidOf(e)' = VmidOf(e) /\ (Exists(e)' <=> Exists(e))
  BY <1>5 DEF VmidOf, Exists
<1>8. NamesDropped /\ NamesFlow /\ \A e \in Deployments : RowKept(e)
  BY <1>4, <1>5, <1>6, <1>7 DEF NamesDropped, NamesFlow, RowKept
<1>9. RowsKnown'
  <2>1. \A e \in Deployments : Known(e) => Known(e)'
    BY <1>3, AdmittedKept, Ids
  <2>2. Known(d)'
    BY <1>3 DEF Known
  <2>3. \A e \in Deployments : Exists(e)' => Known(e)'
    BY <1>7, <2>1, <2>2 DEF Inv, OwnershipInv, RowsKnown
  <2>4. \A e : request # NoRequest /\ e = request.dep => Known(e)' /\ ~Active(e)'
    <3> SUFFICES ASSUME NEW e, request # NoRequest, e = request.dep
                 PROVE  Known(e)' /\ ~Active(e)'
      OBVIOUS
    <3>1. e \in Deployments /\ Known(e) /\ ~Active(e)
      BY DEF Inv, LifecycleInv, Typed, TypeOK, OwnershipInv, RowsKnown
    <3>2. ~Active(e)'
      BY <1>2, <1>4, <3>1, Inserted
    <3> QED
      BY <2>1, <3>1, <3>2
  <2> QED
    BY <1>1, <2>3, <2>4, RequestAdmits DEF RowsKnown, Known, Active, JobActive
<1>10. WaitsApart'
  <2>1. PostBoot \subseteq BOOLEAN
    BY ConstantsTyped DEF ConstantsTyped
  <2>2. \A e \in Deployments : Exists(e)' =>
          (Exists(e) /\ dep'[e].post = dep[e].post) \/ dep'[e].post \in PostBoot
    BY <1>5, <1>7
  <2>3. \A k \in JobIds : job[k].dep # d
    BY <1>4 DEF Known
  <2> QED
    BY <1>1, <1>3, <2>1, <2>2, <2>3, InsertWaits
<1>11. Unstarted'
  <2> SUFFICES ASSUME NEW k \in JobIds
               PROVE  /\ job'[k].type = "deploy" /\ job'[k].status = "queued" =>
                           \A e : e = job'[k].dep => VmidOf(e)' = NoVmid
                      /\ job'[k].status = "unused" => job'[k].dep = 0
    BY DEF Unstarted, VmidOf, Exists
  <2>1. CASE k = j
    BY <1>3, <1>6, <2>1
  <2>2. CASE k # j
    <3>1. job'[k] = job[k]
      BY <1>3, <2>2
    <3>2. job[k].type = "deploy" /\ job[k].status = "queued" => VmidOf(job[k].dep) = NoVmid
      BY DEF Inv, OwnershipInv, Unstarted
    <3>3. job[k].status = "unused" => job[k].dep = 0
      BY DEF Inv, OwnershipInv, Unstarted
    <3>4. ASSUME NEW e, VmidOf(e) = NoVmid
          PROVE  VmidOf(e)' = NoVmid
      BY <1>8, <3>4, UnnamedStays DEF NamesDropped
    <3> QED
      BY <3>1, <3>2, <3>3, <3>4
  <2> QED
    BY <2>1, <2>2
<1>12. ASSUME NEW t \in running, t.kind = "create"
       PROVE  request' # NoRequest => request'.dep # job[t.job].dep
  BY <1>1, <1>12 DEF Inv, OwnershipInv, CreatesWatched, WatchedCreate
<1> QED
  BY <1>1, <1>3, <1>4, <1>8, <1>9, <1>10, <1>11, <1>12, InsertWatched, HandlerOwns

--------------------------------------------------------------------------------
(* The idle worker takes up a job or a cleanup                                *)

\* A queued job that the worker takes up runs or has ended; the others stay.
JobTaken ==
  /\ \A i \in JobIds : /\ job'[i].dep = job[i].dep /\ job'[i].type = job[i].type
                       /\ job'[i].remote = job[i].remote
  /\ \A i \in JobIds :
       \/ job'[i].status = job[i].status
       \/ job[i].status = "queued" /\ job'[i].status \in {"running"} \cup Terminal

LEMMA TakeOwns ==
  ASSUME Inv, Worker.pc = "idle", UNCHANGED <<dep, cluster, todo, request>>,
         at'["waiter"] = at["waiter"], JobTaken,
         NEW d, d = at'["worker"].dep, Uncreated(d), d # 0 => Known(d),
         at'["worker"].pc \in {"retain", "load", "pick", "tearDown", "probe"},
         at'["worker"].pc = "pick" =>
           Vmless(d) /\ at'["worker"].job # 0 /\ at'["worker"].kind = "deploy",
         NEW k, k = at'["worker"].job,
         k # 0 => /\ k \in JobIds /\ job[k].dep = d /\ job[k].type = at'["worker"].kind
                  /\ job'[k].status \in {"running"} \cup Terminal
  PROVE  OwnershipInv'
<1>1. /\ Worker' = at'["worker"] /\ Waiter' = Waiter
      /\ Worker.dep = 0 /\ Worker.job = 0
  BY DEF Worker, Waiter, Inv, OwnershipInv, LocalsAgree, Actors
<1>2. \A i \in JobIds : JobActive(i)' => JobActive(i)
  BY DEF JobTaken, JobActive, ActiveStatuses, Terminal
<1>3. \A e : (Known(e) => Known(e)') /\ (Active(e)' => Active(e))
  BY <1>2 DEF Known, Active, JobTaken
<1>4. RowsShrink /\ NamesDropped /\ NamesFlow /\ Flow
  BY RowsRest, ClusterRests DEF Flow, JobsFlow, JobTaken
<1>5. NoOrphanVm' /\ CreatesApart'
  BY <1>4, FlowOwned
<1>6. Verdict'
  <2>1. RightVerdict("waiter")'
    BY <1>4, VerdictStays DEF Actors
  <2> QED
    BY <2>1 DEF Verdict, RightVerdict, Actors
<1>7. Uncrashed'
  BY <1>1 DEF Uncrashed, Inv, OwnershipInv
<1>8. TasksMeant'
  BY WaiterTaskStays DEF TasksMeant, TaskMeant, Actors
<1>9. Selected'
  <2>1. at'["worker"].pc = "pick" => Vmless(d)'
    BY <1>4, VmlessStays
  <2> QED
    BY <1>1, <2>1 DEF Selected, Vmless
<1>10. LocalsAgree'
  <2>1. Waiter.job \in JobIds \cup {0}
    BY DEF Inv, LifecycleInv, Typed, TypeOK, Local, Waiter, Actors
  <2>2. LocalsAgree
    BY DEF Inv, OwnershipInv
  <2>3. ASSUME NEW e, e = Waiter.dep
        PROVE  /\ e # 0 => Known(e)'
               /\ Waiter.job # 0 => job'[Waiter.job].dep = e /\ job'[Waiter.job].type = Waiter.kind
               /\ Waiter.pc = "idle" => e = 0 /\ Waiter.job = 0
    <3>1. /\ e # 0 => Known(e)
          /\ Waiter.job # 0 => job[Waiter.job].dep = e /\ job[Waiter.job].type = Waiter.kind
          /\ Waiter.pc = "idle" => e = 0 /\ Waiter.job = 0
      BY <2>2, <2>3 DEF LocalsAgree, Waiter, Actors
    <3> QED
      BY <1>3, <2>1, <3>1 DEF JobTaken
  <2>4. /\ d # 0 => Known(d)'
        /\ k # 0 => job'[k].dep = d /\ job'[k].type = at'["worker"].kind
    BY <1>3 DEF JobTaken
  <2> QED
    BY <1>1, <2>3, <2>4 DEF LocalsAgree, Known, Actors, Waiter
<1>11. RowsKnown'
  <2>1. \A e \in Deployments : Exists(e)' => Known(e)'
    BY <1>3 DEF RowsKnown, Inv, OwnershipInv, Exists
  <2>2. \A e : e = request.dep /\ request # NoRequest => Known(e)' /\ ~Active(e)'
    BY <1>3 DEF RowsKnown, Inv, OwnershipInv
  <2> QED
    BY <2>1, <2>2, RequestAdmits DEF RowsKnown, Known, Active, JobActive
<1>12. WaitsApart'
  <2>1. WaitsApart
    BY DEF Inv, OwnershipInv
  <2>2. \A i \in JobIds : job'[i].status = "waiting" => job[i].status = "waiting"
    BY DEF JobTaken, Terminal
  <2>3. TRUE \notin PostBoot =>
          /\ Waiter.pc = "idle"
          /\ \A i \in JobIds : job'[i].status # "waiting"
          /\ \A e \in Deployments : Exists(e)' => ~dep'[e].post
    BY <2>1, <2>2 DEF WaitsApart, Exists
  <2>4. TRUE \in PostBoot =>
          /\ \A i \in JobIds : job'[i].type # "rebuild"
          /\ \A i \in JobIds : job'[i].status = "waiting" => job'[i].type = "deploy"
          /\ request' # NoRequest => request'.op \notin {"rebuild", "rebuildCurrent"}
    BY <2>1, <2>2 DEF WaitsApart, JobTaken
  <2>5. ASSUME TRUE \in PostBoot, NEW i \in JobIds, NEW j \in JobIds,
               job'[i].type = "deploy", job'[j].type = "deploy",
               job'[i].dep = job'[j].dep, job'[i].dep # 0
        PROVE  i = j
    BY <2>1, <2>5 DEF WaitsApart, JobTaken
  <2>6. TRUE \in PostBoot =>
          /\ Waiter.job # 0 => job'[Waiter.job].type = "deploy"
          /\ at'["worker"].pc \in CreatePlaces => job'[k].type = "deploy"
    <3>1. Waiter.job \in JobIds \cup {0}
      BY DEF Inv, LifecycleInv, Typed, TypeOK, Local, Waiter, Actors
    <3>2. at'["worker"].pc \in CreatePlaces => at'["worker"].pc = "pick"
      BY DEF CreatePlaces
    <3> QED
      BY <2>1, <3>1, <3>2 DEF WaitsApart, JobTaken
  <2> QED
    BY <1>1, <2>3, <2>4, <2>5, <2>6 DEF WaitsApart
<1>13. Unstarted'
  <2>1. \A i \in JobIds : job'[i].status \in {"queued", "unused"} => job'[i].status = job[i].status
    BY DEF JobTaken, Terminal
  <2> QED
    BY <2>1 DEF Unstarted, Inv, OwnershipInv, JobTaken, VmidOf, Exists
<1>14. CreatesWatched'
  <2> SUFFICES ASSUME NEW t \in running, t.kind = "create"
               PROVE  WatchedCreate(t)'
    BY DEF CreatesWatched, cluster
  <2>1. PICK e \in Deployments : e = job[t.job].dep /\ e # 0 /\ e # d
    BY CreateOwned DEF Uncreated
  <2>2. WatchedCreate(t) /\ t.job \in JobIds
    BY TaskFields DEF Inv, OwnershipInv, CreatesWatched, LifecycleInv
  <2>3. Uncertain(e)
    BY <2>1, <2>2 DEF WatchedCreate, Watched
  <2>4. Uncertain(e)'
    BY <1>1, <2>1, <2>3 DEF Uncertain
  <2>5. job'[t.job].dep = e
    BY <2>1, <2>2 DEF JobTaken
  <2>6. ASSUME NEW i \in JobIds, JobActive(i)', job'[i].dep = e
        PROVE  FALSE
    <3>1. JobActive(i) /\ job[i].dep = e
      BY <1>2, <2>6 DEF JobTaken
    <3>2. i = 0
      BY <1>1, <2>1, <2>2, <3>1 DEF WatchedCreate
    <3> QED
      BY <3>2, Ids
  <2> QED
    BY <1>1, <2>1, <2>2, <2>4, <2>5, <2>6 DEF WatchedCreate, Uncertain, JobActive
<1> QED
  BY <1>5, <1>6, <1>7, <1>8, <1>9, <1>10, <1>11, <1>12, <1>13, <1>14 DEF OwnershipInv

LEMMA ClaimOwns ==
  ASSUME Inv, NEW j \in JobIds, Claim(j)
  PROVE  OwnershipInv'
<1> SUFFICES ASSUME NEW d, d = job[j].dep
             PROVE  OwnershipInv'
  OBVIOUS
<1>1. /\ Worker.pc = "idle" /\ job[j].status = "queued" /\ j # 0
      /\ UNCHANGED <<dep, cluster, todo, request>>
  BY Ids DEF Claim, NextQueued, Worker
<1>2. PICK st \in {"canceled", "failed", "running"}, p \in {"retain", "load", "pick"},
           o \in {"", "failed", "canceled"} :
        /\ SetStatus(j, st) /\ Start("worker", p, j, o)
        /\ p \in {"retain", FirstPlace(job[j].type)}
  BY DEF Claim, FirstPlace
<1>3. /\ at'["worker"].pc = p /\ at'["worker"].job = j /\ at'["worker"].dep = d
      /\ at'["worker"].kind = job[j].type /\ at'["waiter"] = at["waiter"]
  BY <1>2, StartsAbout DEF Actors
<1>4. JobTaken /\ job'[j].status = st
  <2>1. job \in [JobIds -> JobRow]
    BY DEF Inv, LifecycleInv, Typed, TypeOK
  <2> QED
    BY <1>1, <1>2, <2>1 DEF SetStatus, JobRow, JobTaken, Terminal
<1>5. Worker.job = 0
  BY <1>1 DEF Inv, OwnershipInv, LocalsAgree, Worker, Actors
<1>6. Uncreated(d)
  <2> SUFFICES ASSUME NEW t \in running, t.kind = "create", job[t.job].dep = d
               PROVE  FALSE
    BY DEF Uncreated
  <2>1. WatchedCreate(t)
    BY DEF Inv, OwnershipInv, CreatesWatched
  <2> QED
    BY <1>1, <1>5, <2>1 DEF WatchedCreate, JobActive, ActiveStatuses
<1>7. p = "pick" => job[j].type = "deploy" /\ Vmless(d)
  <2>1. p = "pick" => job[j].type = "deploy"
    BY <1>2 DEF FirstPlace
  <2>2. job[j].type = "deploy" => VmidOf(d) = NoVmid
    BY <1>1 DEF Inv, OwnershipInv, Unstarted
  <2>3. VmidOf(d) = NoVmid => Vmless(d)
    BY UnnamedVmless, Ids DEF Inv, OwnershipInv, LifecycleInv
  <2> QED
    BY <2>1, <2>2, <2>3
<1>8. p \in {"retain", "load", "pick"} /\ Known(d) /\ st \in {"running"} \cup Terminal
  BY <1>2 DEF FirstPlace, Known, Terminal
<1> QED
  BY <1>1, <1>3, <1>4, <1>6, <1>7, <1>8, TakeOwns

LEMMA RetryCleanupOwns ==
  ASSUME Inv, NEW d \in Deployments, RetryCleanup(d)
  PROVE  OwnershipInv'
<1>1. /\ Worker.pc = "idle" /\ Exists(d) /\ dep[d].status = "cleanup_pending"
      /\ UNCHANGED <<dep, job, cluster, todo, request>>
  BY DEF RetryCleanup, Worker, tables
<1>2. /\ at'["worker"].pc \in {"tearDown", "probe"} /\ at'["worker"].job = 0
      /\ at'["worker"].dep = d /\ at'["waiter"] = at["waiter"]
  BY DEF RetryCleanup, Idle, Actors, Inv, LifecycleInv, Typed, TypeOK
<1>3. Worker.dep = 0 /\ d # 0
  BY <1>1, Ids DEF Inv, OwnershipInv, LocalsAgree, Worker, Actors
<1>4. Uncreated(d)
  <2> SUFFICES ASSUME NEW t \in running, t.kind = "create", job[t.job].dep = d
               PROVE  FALSE
    BY DEF Uncreated
  <2>1. WatchedCreate(t)
    BY DEF Inv, OwnershipInv, CreatesWatched
  <2> QED
    BY <1>1, <1>3, <2>1 DEF WatchedCreate, Watched, Uncertain
<1>5. Known(d) /\ JobTaken
  BY <1>1 DEF Inv, OwnershipInv, RowsKnown, JobTaken
<1> QED
  BY <1>1, <1>2, <1>4, <1>5, TakeOwns

--------------------------------------------------------------------------------
(* The theorems                                                               *)

\* No row is forgotten at a user's word.
LEMMA NoCleanup ==
  ASSUME Undisturbed, Inv
  PROVE  ~FinishCleanup /\ ~ \E d \in Deployments, op \in CleanupOps : BeginCleanup(op, d)
BY DEF FinishCleanup, BeginCleanup, CleanupOps, RequestOps, Undisturbed, Inv, OwnershipInv, RowsKnown

LEMMA OwnershipStep ==
  ASSUME Undisturbed, Inv, Next
  PROVE  OwnershipInv'
<1>1. CASE ApiNext
  <2>1. CASE Deploy \/ RefuseRequest \/ FinishRequest \/ ToggleDisabled
    BY <2>1, DeployOwns, RefuseOwns, FinishRequestOwns, ToggleOwns
  <2>2. ~FinishCleanup /\ ~ \E d \in Deployments, op \in CleanupOps : BeginCleanup(op, d)
    BY NoCleanup
  <2>3. CASE \E d \in Deployments : Reconcile(d)
    BY <2>3, VouchOwns
  <2>4. CASE \E d \in Deployments, op \in RequestOps : BeginRequest(op, d)
    BY <2>4, BeginRequestOwns
  <2>5. CASE \E j \in JobIds : Cancel(j)
    BY <2>5, CancelOwns
  <2> QED
    BY <1>1, <2>1, <2>2, <2>3, <2>4, <2>5 DEF ApiNext
<1>2. ASSUME NEW a \in Actors, ReconcileStep(a)
      PROVE  OwnershipInv'
  <2>1. CASE Close(a)
    BY <2>1, WorkerCloseOwns, WaiterCloseOwns DEF Actors
  <2> QED
    BY <1>2, <2>1, RetainOwns, ReadOwns, TearDownOwns, TearDownWaitOwns, ProbeOwns, ApplyOwns
       DEF ReconcileStep
<1>3. CASE WorkerNext
  <2>1. CASE \E j \in JobIds : Claim(j)
    BY <2>1, ClaimOwns
  <2>2. CASE Execute("worker")
    BY <2>2, LoadOwns, StopOwns, DestroyOwns, RecordDestroyOwns, EraseOwns, ConfirmOwns,
       DropOwns, PickOwns, PrepareOwns, CreateOwns, AcceptOwns, RecordOwns, ImportOwns, SetupOwns, BootOwns,
       AnsibleOwns, FinishOwns, SucceedOwns DEF Execute
  <2>3. CASE \E d \in Deployments : RetryCleanup(d)
    BY <2>3, RetryCleanupOwns
  <2>4. ~Recover /\ ~RecoverNext
    BY DEF Recover, RecoverNext, Inv, OwnershipInv, Uncrashed, Worker
  <2> QED
    BY <1>2, <1>3, <2>1, <2>2, <2>3, <2>4 DEF WorkerNext, Actors
<1>4. CASE WaiterNext
  BY <1>2, <1>4, WaiterOwns DEF WaiterNext, Actors
<1>5. ~Crash
  BY DEF Crash, Fault, Undisturbed
<1> QED
  BY <1>1, <1>3, <1>4, <1>5, ClusterOwns DEF Next

LEMMA OwnershipInit ==
  ASSUME Init
  PROVE  OwnershipInv
<1>1. /\ dep = [d \in Deployments |-> NoRow] /\ job = [j \in JobIds |-> Unused]
      /\ vm = [v \in Vmids |-> NoVm] /\ running = {} /\ todo = {} /\ request = NoRequest
      /\ Worker = Idle /\ Waiter = Idle /\ \A a \in Actors : at[a] = Idle
  BY DEF Init, Worker, Waiter, Actors
<1>2. /\ Idle.pc = "idle" /\ Idle.dep = 0 /\ Idle.job = 0
      /\ Unused.dep = 0 /\ Unused.type = "deploy" /\ Unused.status = "unused"
  BY DEF Idle, Unused
<1>3. \A d : ~Exists(d) /\ VmidOf(d) = NoVmid
  BY <1>1 DEF Exists, VmidOf
<1>4. Uncrashed /\ LocalsAgree /\ TasksMeant /\ RowsKnown
  BY <1>1, <1>2, <1>3 DEF Uncrashed, LocalsAgree, TasksMeant, TaskMeant, RowsKnown
<1>5. WaitsApart
  BY <1>1, <1>2, <1>3 DEF WaitsApart, CreatePlaces
<1>6. Selected /\ Unstarted /\ Verdict
  BY <1>1, <1>2, <1>3 DEF Selected, Unstarted, Verdict, RightVerdict
<1>7. CreatesApart /\ CreatesWatched /\ NoOrphanVm
  BY <1>1, Ids DEF CreatesApart, CreatesWatched, NoOrphanVm
<1> QED
  BY <1>4, <1>5, <1>6, <1>7 DEF OwnershipInv

LEMMA OwnershipStutter ==
  ASSUME Inv, UNCHANGED vars
  PROVE  OwnershipInv'
<1>1. UNCHANGED <<dep, job, at, todo, cluster, request>>
  BY DEF vars, cluster
<1> QED
  BY <1>1, RowsRest, QuietHandlerOwns DEF JobsQuiet

\* The inductive invariant.
THEOREM OwnershipInvariant == ASSUME Undisturbed PROVE Spec => []Inv
<1>1. Inv /\ [Next]_vars => Inv'
  <2>1. ASSUME Inv, Next
        PROVE  Inv'
    BY <2>1, OwnershipStep, StepPreserves DEF Inv, LifecycleInv, Preserves
  <2>2. ASSUME Inv, UNCHANGED vars
        PROVE  Inv'
    BY <2>2, OwnershipStutter, StutterInv DEF Inv
  <2> QED
    BY <2>1, <2>2
<1>2. Init => Inv
  BY InitInv, OwnershipInit DEF Inv
<1> QED
  BY <1>1, <1>2, PTL DEF Spec

\* No VM is forgotten: unless the process is restarted, a row is removed by hand, or a
\* rebuild meets a wait, every VM that a job created and every create that Proxmox has
\* accepted belongs to a deployment that names its VM id; whatever tasks fail, hang, or
\* lose their answers, whenever jobs are canceled, and however many deployments share the
\* range of ids (worker.py, _clear_selected_vmid, _retain_unsettled_task and the probes).
THEOREM NoVmOrphaned == ASSUME Undisturbed PROVE Spec => []NoOrphanVm
<1>1. Inv => NoOrphanVm
  BY DEF Inv, OwnershipInv
<1> QED
  BY <1>1, OwnershipInvariant, PTL
================================================================================
