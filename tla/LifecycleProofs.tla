---------------------------- MODULE LifecycleProofs ----------------------------
(* For every number of deployments, jobs, VM ids and addresses, with every    *)
(* operation and every fault: the state of Lifecycle is well typed, a         *)
(* deployment has at most one active lifecycle job, and a job that has ended  *)
(* stays as it ended.                                                         *)
(*                                                                            *)
(* Neither property is inductive.  The worker and the waiting thread write    *)
(* job statuses without the locks of the API, so each rests on where the two  *)
(* threads are: what the worker executes is "running", and nothing else       *)
(* writes the status of that job until it is done (Held).  That in turn, and  *)
(* the types, rest on the local variables a thread has set by the time it     *)
(* gets to a place (Placed).                                                  *)
EXTENDS Lifecycle, TLAPS

\* Places where the VM id, and where the task waited for, have been set.
VmPlaces == {"destroy", "recordDestroy", "erase", "prepare", "create", "accept", "record",
             "import", "setup", "boot", "tearDown", "tearDownWait"}
TaskPlaces == {"recordDestroy", "erase", "accept", "record", "import", "tearDownWait"}

PlacedLocal ==
  {l \in Local :
    /\ l.pc \in ExecPlaces \cup {"resumed"} => l.job \in JobIds
    /\ l.pc \in VmPlaces => l.vmid \in Vmids
    /\ l.pc \in TaskPlaces => l.task \in Task
    /\ l.pc \in ReconcilePlaces /\ l.job # 0 => l.out \in {"failed", "canceled"}}

Placed == at \in [Actors -> PlacedLocal]

\* The worker's job runs, the waiting thread's runs or has been ended by a restart, and
\* they are two; a job the waiting thread reconciles has ended.
Held ==
  /\ at["worker"].pc \in ExecPlaces => job[at["worker"].job].status = "running"
  /\ at["waiter"].pc \in {"idle", "resumed"} \cup ReconcilePlaces
  /\ at["worker"].pc # "resumed"
  /\ at["waiter"].pc = "resumed" =>
       /\ job[at["waiter"].job].status \in {"running"} \cup Terminal
       /\ at["worker"].pc \in ExecPlaces => at["waiter"].job # at["worker"].job
  /\ at["waiter"].pc \in ReconcilePlaces =>
       at["waiter"].job \in JobIds /\ job[at["waiter"].job].status \in Terminal

Typed == TypeOK /\ Placed
LifecycleInv == Typed /\ Held /\ OneActiveLifecycleJob

--------------------------------------------------------------------------------
(* How the threads move                                                       *)

\* A step of thread a from one place of the code it is in to another, or from executing
\* to reconciling.
MovesAt(a) ==
  /\ at'[a].job = at[a].job
  /\ \A b \in Actors \ {a} : at'[b] = at[b]
  /\ at'[a].pc \in ExecPlaces \cup ReconcilePlaces
  /\ at'[a].pc \in ExecPlaces => at[a].pc \in ExecPlaces

\* It is placed if the local variables that the new place needs are set.
LEMMA MovePlaced ==
  ASSUME Placed, NEW a \in Actors, NEW l \in Local, at' = [at EXCEPT ![a] = l],
         at[a].pc \in ExecPlaces \cup ReconcilePlaces, l.pc \in ExecPlaces \cup ReconcilePlaces,
         l.pc \in ExecPlaces => at[a].pc \in ExecPlaces,
         l.pc \in ReconcilePlaces =>
           l.out \in {"failed", "canceled"} \/ (at[a].pc \in ReconcilePlaces /\ l.out = at[a].out),
         l.job = at[a].job,
         l.pc \in VmPlaces => l.vmid \in Vmids,
         l.pc \in TaskPlaces => l.task \in Task
  PROVE  Placed' /\ MovesAt(a)
<1>1. at[a] \in PlacedLocal
  BY DEF Placed
<1>2. l \in PlacedLocal
  BY <1>1 DEF PlacedLocal, ExecPlaces, ReconcilePlaces
<1> QED
  BY <1>2 DEF Placed, MovesAt

LEMMA GotoPlaced ==
  ASSUME Placed, NEW a \in Actors, NEW p \in ExecPlaces \cup ReconcilePlaces, Goto(a, p),
         at[a].pc \in ExecPlaces \cup ReconcilePlaces,
         p \notin TaskPlaces,
         p \in VmPlaces => at[a].vmid \in Vmids,
         p \in ExecPlaces => at[a].pc \in ExecPlaces,
         p \in ReconcilePlaces => at[a].pc \in ReconcilePlaces
  PROVE  Placed' /\ MovesAt(a)
<1> DEFINE l == [at[a] EXCEPT !.pc = p, !.task = NoTask]
<1>1. at[a] \in Local
  BY DEF Placed, PlacedLocal
<1>2. /\ l \in Local /\ l.pc = p /\ l.job = at[a].job /\ l.out = at[a].out
      /\ l.vmid = at[a].vmid
  BY <1>1 DEF Local, Places
<1>3. at' = [at EXCEPT ![a] = l]
  BY <1>1 DEF Goto, Placed, Local
<1> HIDE DEF l
<1> QED
  BY <1>2, <1>3, MovePlaced

LEMMA GotoAwaitingPlaced ==
  ASSUME Placed, NEW a \in Actors, NEW p \in TaskPlaces, NEW t \in Task, GotoAwaiting(a, p, t),
         at[a].pc \in ExecPlaces \cup ReconcilePlaces,
         at[a].vmid \in Vmids,
         p \in ExecPlaces => at[a].pc \in ExecPlaces,
         p \in ReconcilePlaces => at[a].pc \in ReconcilePlaces
  PROVE  Placed' /\ MovesAt(a)
<1> DEFINE l == [at[a] EXCEPT !.pc = p, !.task = t]
<1>1. at[a] \in Local
  BY DEF Placed, PlacedLocal
<1>2. p \in ExecPlaces \cup ReconcilePlaces
  BY DEF TaskPlaces, ExecPlaces, ReconcilePlaces
<1>3. /\ l \in Local /\ l.pc = p /\ l.job = at[a].job /\ l.out = at[a].out
      /\ l.vmid = at[a].vmid /\ l.task = t
  BY <1>1, <1>2 DEF Local, Places
<1>4. at' = [at EXCEPT ![a] = l]
  BY <1>1 DEF GotoAwaiting, Placed, Local
<1> HIDE DEF l
<1> QED
  BY <1>2, <1>3, <1>4, MovePlaced

LEMMA AbortPlaced ==
  ASSUME Placed, NEW a \in Actors, NEW o \in {"failed", "canceled"}, Abort(a, o),
         at[a].pc \in ExecPlaces
  PROVE  Placed' /\ MovesAt(a)
<1> DEFINE l == [at[a] EXCEPT !.pc = "retain", !.out = o, !.task = NoTask]
<1>1. at[a] \in Local
  BY DEF Placed, PlacedLocal
<1>2. l \in Local /\ l.pc = "retain" /\ l.job = at[a].job /\ l.out = o
  BY <1>1 DEF Local, Places, ReconcilePlaces
<1>3. at' = [at EXCEPT ![a] = l]
  BY <1>1 DEF Abort, Placed, Local
<1> HIDE DEF l
<1> QED
  BY <1>2, <1>3, MovePlaced DEF ExecPlaces, ReconcilePlaces, VmPlaces, TaskPlaces

\* A thread that has nothing to do.
LEMMA IdlePlaced ==
  /\ Idle \in Local /\ Idle \in PlacedLocal
  /\ Idle.pc = "idle" /\ Idle.job = 0 /\ Idle.out = ""
BY DEF Idle, PlacedLocal, Local, Places, ExecPlaces, ReconcilePlaces, VmPlaces, TaskPlaces

LEMMA RecoveringPlaced ==
  ASSUME NEW p \in {"recover", "recoverNext"}
  PROVE  [Idle EXCEPT !.pc = p] \in PlacedLocal /\ [Idle EXCEPT !.pc = p].pc = p
<1>1. [Idle EXCEPT !.pc = p] \in Local /\ [Idle EXCEPT !.pc = p].pc = p
  BY IdlePlaced DEF Local, Places
<1> QED
  BY <1>1 DEF PlacedLocal, ExecPlaces, ReconcilePlaces, VmPlaces, TaskPlaces

LEMMA StartPlaced ==
  ASSUME TypeOK, Placed, NEW a \in Actors, NEW p \in {"load", "pick", "retain", "resumed"},
         NEW j \in JobIds, NEW o \in {"", "failed", "canceled"}, Start(a, p, j, o),
         p = "retain" => o # ""
  PROVE  /\ Placed'
         /\ at'[a].pc = p /\ at'[a].job = j
         /\ \A b \in Actors \ {a} : at'[b] = at[b]
<1> DEFINE l == [Idle EXCEPT !.pc = p, !.job = j, !.dep = job[j].dep, !.kind = job[j].type,
                            !.out = o]
<1>1. job[j].dep \in Deployments \cup {0} /\ job[j].type \in LifecycleTypes
  BY DEF TypeOK, JobRow
<1>2. p \in Places
  BY DEF Places, ExecPlaces, ReconcilePlaces
<1>3. l \in Local /\ l.pc = p /\ l.job = j /\ l.out = o
  BY <1>1, <1>2, IdlePlaced DEF Local
<1>4. l \in PlacedLocal
  BY <1>3 DEF PlacedLocal, VmPlaces, TaskPlaces, ReconcilePlaces
<1>5. at' = [at EXCEPT ![a] = l]
  BY DEF Start
<1> QED
  BY <1>3, <1>4, <1>5 DEF Placed

LEMMA BecomesIdle ==
  ASSUME Placed, NEW a \in Actors, at' = [at EXCEPT ![a] = Idle]
  PROVE  /\ Placed'
         /\ at'[a].pc = "idle"
         /\ \A b \in Actors \ {a} : at'[b] = at[b]
BY IdlePlaced DEF Placed

--------------------------------------------------------------------------------
(* How the tables and the cluster change                                      *)

DepTyped == dep \in [Deployments -> Row \cup {NoRow}]
JobTyped == job \in [JobIds -> JobRow]

LEMMA ExistingRow ==
  ASSUME TypeOK, NEW d, Exists(d)
  PROVE  d \in Deployments /\ dep[d] \in Row
BY DEF TypeOK, Exists

LEMMA NamedRow ==
  ASSUME TypeOK, NEW d, VmidOf(d) # NoVmid
  PROVE  Exists(d) /\ VmidOf(d) = dep[d].vmid /\ VmidOf(d) \in Vmids
BY ExistingRow DEF VmidOf, Row

LEMMA WriteTyped ==
  ASSUME TypeOK, NEW d, NEW row, Exists(d) => row \in Row, Write(d, row)
  PROVE  DepTyped'
BY ExistingRow DEF TypeOK, DepTyped, Write

LEMMA DropTyped ==
  ASSUME TypeOK, NEW d, DropRow(d)
  PROVE  DepTyped' /\ alloc' \in [Ips -> Deployments \cup {0}]
<1>1. dep' = [dep EXCEPT ![d] = NoRow]
  BY DEF DropRow
<1>2. alloc' = [i \in Ips |-> IF alloc[i] = d THEN 0 ELSE alloc[i]]
  BY DEF DropRow, Unreserved
<1> QED
  BY <1>1, <1>2 DEF TypeOK, DepTyped

LEMMA StatusTyped ==
  ASSUME TypeOK, NEW j \in JobIds, NEW st \in ActiveStatuses \cup Terminal, SetStatus(j, st)
  PROVE  /\ JobTyped'
         /\ job'[j].status = st /\ job'[j].dep = job[j].dep
         /\ \A i \in JobIds \ {j} : job'[i] = job[i]
<1>1. job[j] \in JobRow
  BY DEF TypeOK
<1>2. [job[j] EXCEPT !.status = st] \in JobRow
  BY <1>1 DEF JobRow
<1> QED
  BY <1>1, <1>2 DEF SetStatus, TypeOK, JobTyped, JobRow

\* Statuses and deployments of the jobs stay: what most steps do to the jobs.
Unmoved == \A j \in JobIds : job'[j].status = job[j].status /\ job'[j].dep = job[j].dep

LEMMA RemoteTyped ==
  ASSUME TypeOK, NEW j \in JobIds, NEW k \in TaskKinds, job' = [job EXCEPT ![j].remote = k]
  PROVE  JobTyped' /\ Unmoved
<1>1. job[j] \in JobRow
  BY DEF TypeOK
<1>2. [job[j] EXCEPT !.remote = k] \in JobRow
  BY <1>1 DEF JobRow
<1> QED
  BY <1>1, <1>2 DEF TypeOK, JobTyped, JobRow, Unmoved

LEMMA CreateTyped ==
  ASSUME TypeOK, NEW j \in JobIds, NEW c \in IdentityStates, job' = [job EXCEPT ![j].create = c]
  PROVE  JobTyped' /\ Unmoved
<1>1. job[j] \in JobRow
  BY DEF TypeOK
<1>2. [job[j] EXCEPT !.create = c] \in JobRow
  BY <1>1 DEF JobRow
<1> QED
  BY <1>1, <1>2 DEF TypeOK, JobTyped, JobRow, Unmoved

LEMMA EffectTyped ==
  ASSUME TypeOK, NEW t \in Task
  PROVE  Effect(t) \in [Vmids -> JobIds \cup {Foreign, NoVm}]
<1>1. t.kind \in {"create", "destroy", "other"} /\ t.job \in JobIds
  BY DEF Task, TaskKinds
<1>2. CASE t.kind = "create"
  BY <1>1, <1>2 DEF Effect, TypeOK
<1>3. CASE t.kind = "destroy"
  BY <1>3 DEF Effect, TypeOK
<1>4. CASE t.kind = "other"
  BY <1>4 DEF Effect, TypeOK
<1> QED
  BY <1>1, <1>2, <1>3, <1>4

--------------------------------------------------------------------------------
(* Each step of a thread that executes or reconciles a job keeps the types    *)
(* and leaves statuses alone                                                  *)

TablesTyped == DepTyped /\ JobTyped /\ alloc \in [Ips -> Deployments \cup {0}]
ClusterTyped == vm \in [Vmids -> JobIds \cup {Foreign, NoVm}] /\ running \subseteq Task

LEMMA TypedStep ==
  ASSUME Typed, Placed', TablesTyped', ClusterTyped', UNCHANGED <<todo, request, environment>>
  PROVE  Typed'
<1>1. at' \in [Actors -> Local]
  BY DEF Placed, PlacedLocal
<1> QED
  BY <1>1 DEF Typed, TypeOK, TablesTyped, ClusterTyped, DepTyped, JobTyped, environment

LEMMA TablesKept ==
  ASSUME Typed, UNCHANGED tables
  PROVE  TablesTyped' /\ Unmoved
BY DEF Typed, TypeOK, TablesTyped, DepTyped, JobTyped, Unmoved, tables

LEMMA ClusterKept ==
  ASSUME Typed, UNCHANGED cluster
  PROVE  ClusterTyped'
BY DEF Typed, TypeOK, ClusterTyped, cluster

\* Thread a is where it executes or reconciles, with the local variables it needs there.
LEMMA LocalsTyped ==
  ASSUME Typed, NEW a \in Actors
  PROVE  /\ at[a] \in Local
         /\ at[a].pc \in ExecPlaces \cup {"resumed"} => at[a].job \in JobIds
         /\ at[a].pc \in VmPlaces => at[a].vmid \in Vmids
         /\ at[a].pc \in TaskPlaces => at[a].task \in Task
         /\ at[a].pc \in ReconcilePlaces /\ at[a].job # 0 => at[a].out \in {"failed", "canceled"}
BY DEF Typed, Placed, PlacedLocal

Moves(a) == Typed' /\ Unmoved /\ MovesAt(a)

LEMMA LoadMoves ==
  ASSUME Typed, NEW a \in Actors, Load(a)
  PROVE  Moves(a)
<1>1. at[a] \in Local /\ at[a].pc = "load"
  BY LocalsTyped DEF Load
<1>2. Placed' /\ MovesAt(a)
  <2>1. CASE Abort(a, "failed") \/ Abort(a, "canceled")
    BY <1>1, <2>1, AbortPlaced DEF Typed, ExecPlaces
  <2>2. CASE /\ ~MissingTarget(a)
             /\ \E p \in {"ansible", "stop"} :
                  at' = [at EXCEPT ![a].vmid = dep[at[a].dep].vmid, ![a].pc = p]
    <3>1. PICK p \in {"ansible", "stop"} :
            at' = [at EXCEPT ![a].vmid = dep[at[a].dep].vmid, ![a].pc = p]
      BY <2>2
    <3> DEFINE l == [at[a] EXCEPT !.vmid = dep[at[a].dep].vmid, !.pc = p]
    <3>2. dep[at[a].dep].vmid \in Vmids \cup {NoVmid}
      BY <2>2, ExistingRow DEF MissingTarget, Row, Typed
    <3>3. at' = [at EXCEPT ![a] = l]
      BY <3>1, <1>1 DEF Typed, Placed, Local
    <3>4. l \in Local /\ l.job = at[a].job /\ l.pc = p
      BY <1>1, <3>2 DEF Local, Places, ExecPlaces
    <3> HIDE DEF l
    <3> QED
      BY <1>1, <3>3, <3>4, MovePlaced DEF Typed, ExecPlaces, ReconcilePlaces, VmPlaces, TaskPlaces
  <2> QED
    BY <2>1, <2>2 DEF Load
<1>3. UNCHANGED <<tables, cluster, todo, request, environment>>
  BY DEF Load
<1> QED
  BY <1>2, <1>3, TablesKept, ClusterKept, TypedStep DEF Moves

\* Steps that go on or give up, and may record another task.
LEMMA OtherTaskMoves ==
  ASSUME Typed, NEW a \in Actors, at[a].pc \in {"stop", "setup"}, NEW v \in Vmids,
         NEW p \in {"destroy", "boot"}, at[a].vmid = v,
         OtherTaskOk(a, p) \/ OtherTaskAborts(a, v)
  PROVE  Placed' /\ MovesAt(a) /\ JobTyped' /\ Unmoved /\ ClusterTyped'
<1>1. at[a].job \in JobIds
  BY LocalsTyped DEF ExecPlaces
<1>2. JobTyped' /\ Unmoved
  <2>1. CASE job' = [job EXCEPT ![at[a].job].remote = "other"]
    BY <1>1, <2>1, RemoteTyped DEF TaskKinds, Typed
  <2>2. CASE job' = job
    BY <2>2 DEF JobTyped, Unmoved, Typed, TypeOK
  <2> QED
    BY <2>1, <2>2 DEF OtherTaskOk, OtherTaskAborts
<1>3. OtherTask(a, v) \in Task
  BY <1>1 DEF OtherTask, Task, TaskKinds, Typed, TypeOK
<1>4. ClusterTyped'
  BY <1>3 DEF OtherTaskOk, OtherTaskAborts, ClusterTyped, cluster, Typed, TypeOK
<1>5. Placed' /\ MovesAt(a)
  <2>1. CASE OtherTaskOk(a, p)
    BY <2>1, GotoPlaced DEF OtherTaskOk, Typed, ExecPlaces, ReconcilePlaces, TaskPlaces
  <2>2. CASE OtherTaskAborts(a, v)
    BY <2>2, AbortPlaced DEF OtherTaskAborts, Typed, ExecPlaces
  <2> QED
    BY <2>1, <2>2
<1> QED
  BY <1>2, <1>4, <1>5

LEMMA StopMoves ==
  ASSUME Typed, NEW a \in Actors, Stop(a)
  PROVE  Moves(a)
<1>1. at[a] \in Local /\ at[a].pc = "stop"
  BY LocalsTyped DEF Stop
<1>2. /\ UNCHANGED <<dep, alloc, todo, request, environment>>
      /\ \/ (Goto(a, "confirm") \/ Abort(a, "failed")) /\ UNCHANGED <<job, cluster>>
         \/ at[a].vmid # NoVmid /\ Goto(a, "destroy") /\ UNCHANGED <<job, cluster>>
         \/ at[a].vmid # NoVmid /\ (OtherTaskOk(a, "destroy") \/ OtherTaskAborts(a, at[a].vmid))
  BY DEF Stop
<1>3. CASE /\ \/ Goto(a, "confirm") \/ Abort(a, "failed")
              \/ at[a].vmid # NoVmid /\ Goto(a, "destroy")
           /\ UNCHANGED <<job, cluster>>
  <2>1. Placed' /\ MovesAt(a)
    <3>1. at[a].vmid # NoVmid => at[a].vmid \in Vmids
      BY <1>1 DEF Local
    <3> QED
      BY <1>1, <1>3, <3>1, GotoPlaced, AbortPlaced
         DEF Typed, ExecPlaces, ReconcilePlaces, TaskPlaces, VmPlaces
  <2>2. UNCHANGED tables
    BY <1>2, <1>3 DEF tables
  <2> QED
    BY <1>2, <1>3, <2>1, <2>2, TablesKept, ClusterKept, TypedStep DEF Moves
<1>4. CASE at[a].vmid # NoVmid /\ (OtherTaskOk(a, "destroy") \/ OtherTaskAborts(a, at[a].vmid))
  <2>1. at[a].vmid \in Vmids
    BY <1>1, <1>4 DEF Local
  <2>2. Placed' /\ MovesAt(a) /\ JobTyped' /\ Unmoved /\ ClusterTyped'
    BY <1>1, <1>4, <2>1, OtherTaskMoves
  <2>3. TablesTyped'
    BY <1>2, <2>2 DEF TablesTyped, DepTyped, Typed, TypeOK
  <2> QED
    BY <1>2, <2>2, <2>3, TypedStep DEF Moves
<1> QED
  BY <1>2, <1>3, <1>4

LEMMA TaskTyped ==
  ASSUME Typed, NEW j \in JobIds, NEW k \in TaskKinds, NEW v \in Vmids,
         NEW on \in JobIds \cup {Foreign, NoVm}
  PROVE  [job |-> j, kind |-> k, vmid |-> v, on |-> on] \in Task
BY DEF Task

LEMMA DestroyMoves ==
  ASSUME Typed, NEW a \in Actors, Destroy(a)
  PROVE  Moves(a)
<1> DEFINE t == [job |-> at[a].job, kind |-> "destroy", vmid |-> at[a].vmid,
                 on |-> vm[at[a].vmid]]
<1>1. at[a].pc = "destroy" /\ at[a].job \in JobIds /\ at[a].vmid \in Vmids
  BY LocalsTyped DEF Destroy, ExecPlaces, VmPlaces
<1>2. t \in Task
  BY <1>1, TaskTyped DEF TaskKinds, Typed, TypeOK
<1>3. /\ UNCHANGED <<vm, tables, todo, request, environment>>
      /\ running' \in {running, running \cup {t}}
      /\ GotoAwaiting(a, "recordDestroy", t) \/ Abort(a, "failed")
  BY DEF Destroy
<1> HIDE DEF t
<1>4. Placed' /\ MovesAt(a)
  BY <1>1, <1>2, <1>3, GotoAwaitingPlaced, AbortPlaced
     DEF Typed, ExecPlaces, ReconcilePlaces, TaskPlaces
<1>5. ClusterTyped'
  BY <1>2, <1>3 DEF ClusterTyped, Typed, TypeOK
<1> QED
  BY <1>3, <1>4, <1>5, TablesKept, TypedStep DEF Moves

LEMMA RecordMoves ==
  ASSUME Typed, NEW a \in Actors, RecordDestroy(a) \/ Record(a)
  PROVE  Moves(a)
<1>1. /\ at[a].pc \in {"recordDestroy", "record"}
      /\ at[a].job \in JobIds /\ at[a].vmid \in Vmids /\ at[a].task \in Task
  BY LocalsTyped DEF RecordDestroy, Record, ExecPlaces, VmPlaces, TaskPlaces
<1>2. /\ \E k \in TaskKinds : job' = [job EXCEPT ![at[a].job].remote = k]
      /\ \E p \in {"erase", "import"} : GotoAwaiting(a, p, at[a].task)
      /\ UNCHANGED <<dep, alloc, cluster, todo, request, environment>>
  BY DEF RecordDestroy, Record, TaskKinds
<1>3. Placed' /\ MovesAt(a)
  BY <1>1, <1>2, GotoAwaitingPlaced DEF Typed, ExecPlaces, ReconcilePlaces, TaskPlaces
<1>4. JobTyped' /\ Unmoved
  BY <1>1, <1>2, RemoteTyped DEF Typed
<1>5. TablesTyped'
  BY <1>2, <1>4 DEF TablesTyped, DepTyped, Typed, TypeOK
<1> QED
  BY <1>2, <1>3, <1>4, <1>5, ClusterKept, TypedStep DEF Moves

LEMMA AwaitMoves ==
  ASSUME Typed, NEW a \in Actors, Erase(a) \/ Import(a)
  PROVE  Moves(a)
<1>1. /\ at[a].pc \in {"erase", "import"}
      /\ at[a].vmid \in Vmids /\ at[a].task \in Task
  BY LocalsTyped DEF Erase, Import, VmPlaces, TaskPlaces
<1>2. UNCHANGED <<tables, todo, request, environment>>
  BY DEF Erase, Import
<1>3. \/ TaskOk(a) /\ (Goto(a, "confirm") \/ Goto(a, "setup"))
      \/ TaskFailed(a) \/ TaskCanceled(a)
  BY DEF Erase, Import
<1>4. Placed' /\ MovesAt(a)
  <2>1. CASE Goto(a, "confirm") \/ Goto(a, "setup")
    BY <1>1, <2>1, GotoPlaced DEF Typed, ExecPlaces, ReconcilePlaces, TaskPlaces, VmPlaces
  <2>2. CASE Abort(a, "failed") \/ Abort(a, "canceled")
    BY <1>1, <2>2, AbortPlaced DEF Typed, ExecPlaces
  <2> QED
    BY <1>3, <2>1, <2>2 DEF TaskFailed, TaskCanceled
<1>5. ClusterTyped'
  <2>1. Succeeds(at[a].task) \/ Fails(at[a].task) \/ UNCHANGED cluster
    BY <1>3 DEF TaskOk, TaskFailed, TaskCanceled
  <2> QED
    BY <1>1, <2>1, EffectTyped DEF Succeeds, Fails, cluster, ClusterTyped, Typed, TypeOK
<1> QED
  BY <1>2, <1>4, <1>5, TablesKept, TypedStep DEF Moves

\* Steps that read the cluster and go on or give up.
LEMMA ConfirmMoves ==
  ASSUME Typed, NEW a \in Actors, Confirm(a) \/ Ansible(a)
  PROVE  Moves(a)
<1>1. at[a].pc \in {"confirm", "ansible"}
  BY DEF Confirm, Ansible
<1>2. /\ UNCHANGED <<tables, cluster, todo, request, environment>>
      /\ \/ \E p \in {"pick", "drop", "finish"} : Goto(a, p)
         \/ Abort(a, "failed") \/ Abort(a, "canceled")
  BY DEF Confirm, Ansible
<1>3. Placed' /\ MovesAt(a)
  BY <1>1, <1>2, GotoPlaced, AbortPlaced
     DEF Typed, ExecPlaces, ReconcilePlaces, TaskPlaces, VmPlaces
<1> QED
  BY <1>2, <1>3, TablesKept, ClusterKept, TypedStep DEF Moves

LEMMA DropMoves ==
  ASSUME Typed, NEW a \in Actors, Drop(a)
  PROVE  Moves(a)
<1>1. /\ at[a].pc = "drop" /\ DropRow(at[a].dep) /\ Goto(a, "succeed")
      /\ UNCHANGED <<job, cluster, todo, request, environment>>
  BY DEF Drop
<1>2. Placed' /\ MovesAt(a)
  BY <1>1, GotoPlaced DEF Typed, ExecPlaces, ReconcilePlaces, TaskPlaces, VmPlaces
<1>3. TablesTyped' /\ Unmoved
  BY <1>1, DropTyped DEF TablesTyped, JobTyped, Unmoved, Typed, TypeOK
<1> QED
  BY <1>1, <1>2, <1>3, ClusterKept, TypedStep DEF Moves

LEMMA RowUpdates ==
  ASSUME NEW row \in Row
  PROVE  /\ \A v \in Vmids \cup {NoVmid} : [row EXCEPT !.vmid = v] \in Row /\ Cleared(row, v) \in Row
         /\ \A i \in IdentityStates : [row EXCEPT !.identity = i] \in Row
BY DEF Row, Cleared

LEMMA PickMoves ==
  ASSUME Typed, NEW a \in Actors, Pick(a)
  PROVE  Moves(a)
<1>1. at[a] \in Local /\ at[a].pc = "pick"
  BY LocalsTyped DEF Pick
<1>2. UNCHANGED <<alloc, job, cluster, todo, request, environment>>
  BY DEF Pick
<1>3. Unmoved
  BY <1>2 DEF Unmoved
<1>4. CASE Abort(a, "failed") /\ UNCHANGED dep
  <2>1. Placed' /\ MovesAt(a)
    BY <1>1, <1>4, AbortPlaced DEF Typed, ExecPlaces
  <2>2. TablesTyped'
    BY <1>2, <1>4 DEF TablesTyped, DepTyped, JobTyped, Typed, TypeOK
  <2> QED
    BY <1>2, <1>3, <2>1, <2>2, ClusterKept, TypedStep DEF Moves
<1>5. CASE /\ ~MissingTarget(a)
           /\ \E v \in IF dep[at[a].dep].vmid # NoVmid THEN {dep[at[a].dep].vmid}
                       ELSE Least(FreeVmids) :
                /\ dep' = [dep EXCEPT ![at[a].dep].vmid = v]
                /\ at' = [at EXCEPT ![a].vmid = v, ![a].pc = "prepare"]
  <2> DEFINE d == at[a].dep
  <2>1. d \in Deployments /\ dep[d] \in Row
    BY <1>5, ExistingRow DEF MissingTarget, Typed
  <2>2. PICK v \in Vmids : /\ dep' = [dep EXCEPT ![d].vmid = v]
                           /\ at' = [at EXCEPT ![a].vmid = v, ![a].pc = "prepare"]
    BY <1>5, <2>1 DEF Row, Least, FreeVmids
  <2>3. [dep[d] EXCEPT !.vmid = v] \in Row
    BY <2>1, RowUpdates
  <2>4. TablesTyped'
    BY <1>2, <2>1, <2>2, <2>3 DEF TablesTyped, DepTyped, JobTyped, Typed, TypeOK
  <2> DEFINE l == [at[a] EXCEPT !.vmid = v, !.pc = "prepare"]
  <2>5. at' = [at EXCEPT ![a] = l]
    BY <1>1, <2>2 DEF Typed, Placed, Local
  <2>6. l \in Local /\ l.pc = "prepare" /\ l.job = at[a].job /\ l.vmid = v
    BY <1>1 DEF Local, Places, ExecPlaces
  <2> HIDE DEF l
  <2>7. Placed' /\ MovesAt(a)
    BY <1>1, <2>5, <2>6, MovePlaced DEF Typed, ExecPlaces, ReconcilePlaces, TaskPlaces
  <2> QED
    BY <1>2, <1>3, <2>4, <2>7, ClusterKept, TypedStep DEF Moves
<1> QED
  BY <1>4, <1>5 DEF Pick

LEMMA PrepareMoves ==
  ASSUME Typed, NEW a \in Actors, Prepare(a)
  PROVE  Moves(a)
<1>1. at[a].pc = "prepare" /\ at[a].job \in JobIds /\ at[a].vmid \in Vmids
  BY LocalsTyped DEF Prepare, ExecPlaces, VmPlaces
<1>2. UNCHANGED <<alloc, cluster, todo, request, environment>>
  BY DEF Prepare
<1>3. \E row : Write(at[a].dep, row) /\ (Exists(at[a].dep) => row \in Row)
  BY <1>1, ExistingRow, RowUpdates DEF Prepare, IdentityStates, Typed
<1>4. DepTyped'
  BY <1>3, WriteTyped DEF Typed
<1>5. JobTyped' /\ Unmoved
  <2>1. job' = [job EXCEPT ![at[a].job].create = "submitting"] \/ UNCHANGED job
    BY DEF Prepare
  <2> QED
    BY <1>1, <2>1, CreateTyped DEF IdentityStates, JobTyped, Unmoved, Typed, TypeOK
<1>6. Placed' /\ MovesAt(a)
  <2>1. Abort(a, "failed") \/ Abort(a, "canceled") \/ Goto(a, "create")
    BY DEF Prepare
  <2> QED
    BY <1>1, <2>1, GotoPlaced, AbortPlaced
       DEF Typed, ExecPlaces, ReconcilePlaces, TaskPlaces, VmPlaces
<1>7. TablesTyped'
  BY <1>2, <1>4, <1>5 DEF TablesTyped, Typed, TypeOK
<1> QED
  BY <1>2, <1>5, <1>6, <1>7, ClusterKept, TypedStep DEF Moves

LEMMA CreateMoves ==
  ASSUME Typed, NEW a \in Actors, Create(a)
  PROVE  Moves(a)
<1> DEFINE t == [job |-> at[a].job, kind |-> "create", vmid |-> at[a].vmid, on |-> NoVm]
<1>1. at[a].pc = "create" /\ at[a].job \in JobIds /\ at[a].vmid \in Vmids
  BY LocalsTyped DEF Create, ExecPlaces, VmPlaces
<1>2. t \in Task
  BY <1>1, TaskTyped DEF TaskKinds
<1>3. /\ UNCHANGED <<vm, alloc, todo, request, environment>>
      /\ running' \in {running, running \cup {t}}
      /\ GotoAwaiting(a, "accept", t) \/ Abort(a, "failed")
  BY DEF Create
<1>4. DepTyped'
  <2>1. UNCHANGED dep \/ \E row : Write(at[a].dep, row) /\ (Exists(at[a].dep) => row \in Row)
    BY <1>1, ExistingRow, RowUpdates DEF Create, IdentityStates, Typed
  <2> QED
    BY <2>1, WriteTyped DEF DepTyped, Typed, TypeOK
<1>5. JobTyped' /\ Unmoved
  <2>1. UNCHANGED job \/ \E c \in IdentityStates : job' = [job EXCEPT ![at[a].job].create = c]
    BY DEF Create, IdentityStates
  <2> QED
    BY <1>1, <2>1, CreateTyped DEF JobTyped, Unmoved, Typed, TypeOK
<1> HIDE DEF t
<1>6. Placed' /\ MovesAt(a)
  BY <1>1, <1>2, <1>3, GotoAwaitingPlaced, AbortPlaced
     DEF Typed, ExecPlaces, ReconcilePlaces, TaskPlaces
<1>7. TablesTyped' /\ ClusterTyped'
  BY <1>2, <1>3, <1>4, <1>5 DEF TablesTyped, ClusterTyped, Typed, TypeOK
<1> QED
  BY <1>3, <1>5, <1>6, <1>7, TypedStep DEF Moves

LEMMA AcceptMoves ==
  ASSUME Typed, NEW a \in Actors, Accept(a)
  PROVE  Moves(a)
<1>1. /\ at[a].pc = "accept"
      /\ at[a].job \in JobIds /\ at[a].vmid \in Vmids /\ at[a].task \in Task
  BY LocalsTyped DEF Accept, ExecPlaces, VmPlaces, TaskPlaces
<1>2. /\ Write(at[a].dep, [dep[at[a].dep] EXCEPT !.identity = "accepted"])
      /\ job' = [job EXCEPT ![at[a].job].create = "accepted"]
      /\ GotoAwaiting(a, "record", at[a].task)
      /\ UNCHANGED <<alloc, cluster, todo, request, environment>>
  BY DEF Accept
<1>3. DepTyped'
  BY <1>2, ExistingRow, RowUpdates, WriteTyped DEF IdentityStates, Typed
<1>4. Placed' /\ MovesAt(a)
  BY <1>1, <1>2, GotoAwaitingPlaced DEF Typed, ExecPlaces, ReconcilePlaces, TaskPlaces
<1>5. JobTyped' /\ Unmoved
  BY <1>1, <1>2, CreateTyped DEF IdentityStates, Typed
<1>6. TablesTyped'
  BY <1>2, <1>3, <1>5 DEF TablesTyped, Typed, TypeOK
<1> QED
  BY <1>2, <1>4, <1>5, <1>6, ClusterKept, TypedStep DEF Moves

LEMMA SetupMoves ==
  ASSUME Typed, NEW a \in Actors, Setup(a)
  PROVE  Moves(a)
<1>1. at[a].pc = "setup" /\ at[a].vmid \in Vmids
  BY LocalsTyped DEF Setup, VmPlaces
<1>2. /\ UNCHANGED <<dep, alloc, todo, request, environment>>
      /\ \/ OtherTaskOk(a, "boot") \/ OtherTaskAborts(a, at[a].vmid)
         \/ Abort(a, "failed") /\ UNCHANGED <<job, cluster>>
  BY DEF Setup
<1>3. Placed' /\ MovesAt(a) /\ JobTyped' /\ Unmoved /\ ClusterTyped'
  <2>1. CASE OtherTaskOk(a, "boot") \/ OtherTaskAborts(a, at[a].vmid)
    BY <1>1, <2>1, OtherTaskMoves
  <2>2. CASE Abort(a, "failed") /\ UNCHANGED <<job, cluster>>
    BY <1>1, <2>2, AbortPlaced, ClusterKept DEF ExecPlaces, JobTyped, Unmoved, Typed, TypeOK
  <2> QED
    BY <1>2, <2>1, <2>2
<1>4. TablesTyped'
  BY <1>2, <1>3 DEF TablesTyped, DepTyped, Typed, TypeOK
<1> QED
  BY <1>2, <1>3, <1>4, TypedStep DEF Moves

LEMMA FinishMoves ==
  ASSUME Typed, NEW a \in Actors, Finish(a)
  PROVE  Moves(a)
<1>1. at[a].pc = "finish"
  BY DEF Finish
<1>2. /\ UNCHANGED <<alloc, job, cluster, todo, request, environment>>
      /\ Goto(a, "succeed") \/ Abort(a, "failed")
  BY DEF Finish
<1>3. Placed' /\ MovesAt(a)
  BY <1>1, <1>2, GotoPlaced, AbortPlaced
     DEF Typed, ExecPlaces, ReconcilePlaces, TaskPlaces, VmPlaces
<1>4. DepTyped'
  <2> DEFINE d == at[a].dep
  <2>1. CASE UNCHANGED dep
    BY <2>1 DEF DepTyped, Typed, TypeOK
  <2>2. CASE Exists(d) /\ dep' = [dep EXCEPT ![d].status = "live", ![d].origin = ""]
    <3>1. dep[d] \in Row
      BY <2>2, ExistingRow DEF Typed
    <3>2. [dep[d] EXCEPT !.status = "live", !.origin = ""] \in Row
      BY <3>1 DEF Row
    <3> QED
      BY <2>2, <3>1, <3>2 DEF DepTyped, Typed, TypeOK, Row
  <2> QED
    BY <2>1, <2>2 DEF Finish
<1>5. TablesTyped' /\ Unmoved
  BY <1>2, <1>4 DEF TablesTyped, JobTyped, Unmoved, Typed, TypeOK
<1> QED
  BY <1>2, <1>3, <1>5, ClusterKept, TypedStep DEF Moves

LEMMA RowChanged ==
  ASSUME Typed, NEW d, Exists(d), NEW row \in Row, dep' = [dep EXCEPT ![d] = row]
  PROVE  DepTyped'
BY ExistingRow DEF DepTyped, Typed, TypeOK

Outcomes == {"working", "live", "error", "cleanup_pending"}
Origins == {"", "deploy", "destroy"}

LEMMA RowStatus ==
  ASSUME Typed, NEW d, Exists(d), NEW s \in Outcomes, NEW o \in Origins
  PROVE  /\ [dep[d] EXCEPT !.status = s, !.origin = o] \in Row
         /\ dep' = [dep EXCEPT ![d].status = s, ![d].origin = o] => DepTyped'
<1>1. d \in Deployments /\ dep[d] \in Row
  BY ExistingRow DEF Typed
<1>2. [dep[d] EXCEPT !.status = s, !.origin = o] \in Row
  BY <1>1 DEF Row, Outcomes, Origins
<1>3. ASSUME dep' = [dep EXCEPT ![d].status = s, ![d].origin = o]
      PROVE  dep' = [dep EXCEPT ![d] = [dep[d] EXCEPT !.status = s, !.origin = o]]
  BY <1>1, <1>3 DEF Typed, TypeOK, Row
<1> QED
  BY <1>2, <1>3, RowChanged

LEMMA RetainMoves ==
  ASSUME Typed, NEW a \in Actors, Retain(a)
  PROVE  Moves(a)
<1> DEFINE d == at[a].dep
<1>1. at[a].pc = "retain"
  BY DEF Retain
<1>2. /\ UNCHANGED <<alloc, job, cluster, todo, request, environment>>
      /\ Goto(a, "close") \/ Goto(a, "read")
  BY DEF Retain
<1>3. Placed' /\ MovesAt(a)
  BY <1>1, <1>2, GotoPlaced DEF Typed, ExecPlaces, ReconcilePlaces, TaskPlaces, VmPlaces
<1>4. DepTyped'
  <2>1. CASE UNCHANGED dep
    BY <2>1 DEF DepTyped, Typed, TypeOK
  <2>2. CASE Exists(d) /\ dep' = [dep EXCEPT ![d].identity = "submitting", ![d].status = "error"]
    <3>1. d \in Deployments /\ dep[d] \in Row
      BY <2>2, ExistingRow DEF Typed
    <3>2. [dep[d] EXCEPT !.identity = "submitting", !.status = "error"] \in Row
      BY <3>1 DEF Row, IdentityStates
    <3> QED
      BY <2>2, <3>1, <3>2 DEF DepTyped, Typed, TypeOK, Row
  <2> QED
    BY <2>1, <2>2 DEF Retain
<1>5. TablesTyped' /\ Unmoved
  BY <1>2, <1>4 DEF TablesTyped, JobTyped, Unmoved, Typed, TypeOK
<1> QED
  BY <1>2, <1>3, <1>5, ClusterKept, TypedStep DEF Moves

LEMMA ReadMoves ==
  ASSUME Typed, NEW a \in Actors, Read(a)
  PROVE  Moves(a)
<1> DEFINE d == at[a].dep
<1>1. at[a] \in Local /\ at[a].pc = "read"
  BY LocalsTyped DEF Read
<1>2. UNCHANGED <<alloc, job, cluster, todo, request, environment>>
  BY DEF Read
<1>3. DepTyped'
  <2>1. CASE UNCHANGED dep
    BY <2>1 DEF DepTyped, Typed, TypeOK
  <2>2. CASE Exists(d) /\ dep' = [dep EXCEPT ![d].status = "error"]
    <3>1. d \in Deployments /\ dep[d] \in Row
      BY <2>2, ExistingRow DEF Typed
    <3>2. [dep[d] EXCEPT !.status = "error"] \in Row
      BY <3>1 DEF Row
    <3> QED
      BY <2>2, <3>1, <3>2 DEF DepTyped, Typed, TypeOK
  <2> QED
    BY <2>1, <2>2 DEF Read
<1>4. TablesTyped' /\ Unmoved
  BY <1>2, <1>3 DEF TablesTyped, JobTyped, Unmoved, Typed, TypeOK
<1>5. Placed' /\ MovesAt(a)
  <2>1. CASE Goto(a, "close")
    BY <1>1, <2>1, GotoPlaced DEF Typed, ExecPlaces, ReconcilePlaces, TaskPlaces, VmPlaces
  <2>2. CASE /\ Exists(d)
             /\ \E p \in {"tearDown", "probe"} :
                  /\ p = "tearDown" => dep[d].vmid # NoVmid
                  /\ at' = [at EXCEPT ![a].vmid = dep[d].vmid, ![a].pc = p]
    <3>1. PICK p \in {"tearDown", "probe"} :
            /\ p = "tearDown" => dep[d].vmid # NoVmid
            /\ at' = [at EXCEPT ![a].vmid = dep[d].vmid, ![a].pc = p]
      BY <2>2
    <3> DEFINE l == [at[a] EXCEPT !.vmid = dep[d].vmid, !.pc = p]
    <3>2. dep[d].vmid \in Vmids \cup {NoVmid}
      BY <2>2, ExistingRow DEF Row, Typed
    <3>3. at' = [at EXCEPT ![a] = l]
      BY <1>1, <3>1 DEF Typed, Placed, Local
    <3>4. /\ l \in Local /\ l.job = at[a].job /\ l.pc = p /\ l.out = at[a].out
          /\ l.vmid = dep[d].vmid
      BY <1>1, <3>2 DEF Local, Places, ReconcilePlaces
    <3> HIDE DEF l
    <3> QED
      BY <1>1, <3>1, <3>2, <3>3, <3>4, MovePlaced
         DEF Typed, ExecPlaces, ReconcilePlaces, VmPlaces, TaskPlaces
  <2> QED
    BY <2>1, <2>2 DEF Read
<1> QED
  BY <1>2, <1>4, <1>5, ClusterKept, TypedStep DEF Moves

LEMMA UnconfirmedTyped ==
  ASSUME Typed, NEW a \in Actors, at[a].pc \in {"tearDown", "tearDownWait"}, TearDownUnconfirmed(a)
  PROVE  DepTyped' /\ Placed' /\ MovesAt(a)
<1>1. at[a].vmid \in Vmids
  BY LocalsTyped DEF VmPlaces
<1>2. ASSUME NEW d \in Deployments, d \in FirstNaming(at[a].vmid)
      PROVE  [dep[d] EXCEPT !.identity = "submitting", !.status = "error"] \in Row
  <2>1. VmidOf(d) # NoVmid
    BY <1>1, <1>2, NothingsDistinct DEF FirstNaming, NamesVm, NothingsDistinct
  <2>2. dep[d] \in Row
    BY <2>1, NamedRow, ExistingRow DEF Typed
  <2> QED
    BY <2>2 DEF Row, IdentityStates
<1>3. DepTyped'
  BY <1>2 DEF TearDownUnconfirmed, DepTyped, Typed, TypeOK
<1>4. Goto(a, "close")
  BY DEF TearDownUnconfirmed
<1> QED
  BY <1>3, <1>4, GotoPlaced DEF Typed, ExecPlaces, ReconcilePlaces, TaskPlaces, VmPlaces

LEMMA TearDownMoves ==
  ASSUME Typed, NEW a \in Actors, TearDown(a)
  PROVE  Moves(a)
<1>1. at[a].pc = "tearDown" /\ at[a].vmid \in Vmids
  BY LocalsTyped DEF TearDown, VmPlaces
<1>2. UNCHANGED <<vm, alloc, todo, request, environment>>
  BY DEF TearDown
<1>3. CASE Goto(a, "probe") /\ UNCHANGED <<dep, job, running>>
  <2>1. Placed' /\ MovesAt(a)
    BY <1>1, <1>3, GotoPlaced DEF Typed, ExecPlaces, ReconcilePlaces, TaskPlaces, VmPlaces
  <2>2. UNCHANGED tables /\ UNCHANGED cluster
    BY <1>2, <1>3 DEF tables, cluster
  <2> QED
    BY <1>2, <2>1, <2>2, TablesKept, ClusterKept, TypedStep DEF Moves
<1>4. CASE \E j \in JobIds :
             LET t == [job |-> j, kind |-> "destroy", vmid |-> at[a].vmid, on |-> vm[at[a].vmid]]
             IN /\ running' \in {running, running \cup {t}, running \cup {[t EXCEPT !.kind = "other"]}}
                /\ UNCHANGED job \/ \E k \in TaskKinds : job' = [job EXCEPT ![j].remote = k]
                /\ \/ GotoAwaiting(a, "tearDownWait", t) /\ UNCHANGED dep
                   \/ Goto(a, "close") /\ UNCHANGED dep
                   \/ TearDownUnconfirmed(a)
  <2>1. PICK j \in JobIds :
             LET t == [job |-> j, kind |-> "destroy", vmid |-> at[a].vmid, on |-> vm[at[a].vmid]]
             IN /\ running' \in {running, running \cup {t}, running \cup {[t EXCEPT !.kind = "other"]}}
                /\ UNCHANGED job \/ \E k \in TaskKinds : job' = [job EXCEPT ![j].remote = k]
                /\ \/ GotoAwaiting(a, "tearDownWait", t) /\ UNCHANGED dep
                   \/ Goto(a, "close") /\ UNCHANGED dep
                   \/ TearDownUnconfirmed(a)
    BY <1>4
  <2> DEFINE t == [job |-> j, kind |-> "destroy", vmid |-> at[a].vmid, on |-> vm[at[a].vmid]]
  <2>2. t \in Task
    BY <1>1, TaskTyped DEF TaskKinds, Typed, TypeOK
  <2>3. [t EXCEPT !.kind = "other"] \in Task
    BY <2>2 DEF Task, TaskKinds
  <2>4. ClusterTyped'
    BY <1>2, <2>1, <2>2, <2>3 DEF ClusterTyped, Typed, TypeOK
  <2>5. JobTyped' /\ Unmoved
    BY <2>1, RemoteTyped DEF JobTyped, Unmoved, Typed, TypeOK
  <2> HIDE DEF t
  <2>6. DepTyped' /\ Placed' /\ MovesAt(a)
    <3>1. CASE GotoAwaiting(a, "tearDownWait", t) /\ UNCHANGED dep
      BY <1>1, <2>2, <3>1, GotoAwaitingPlaced
         DEF DepTyped, Typed, TypeOK, ExecPlaces, ReconcilePlaces, TaskPlaces
    <3>2. CASE TearDownUnconfirmed(a)
      BY <1>1, <3>2, UnconfirmedTyped
    <3>3. CASE Goto(a, "close") /\ UNCHANGED dep
      BY <1>1, <3>3, GotoPlaced
         DEF DepTyped, Typed, TypeOK, ExecPlaces, ReconcilePlaces, TaskPlaces, VmPlaces
    <3> QED
      BY <2>1, <3>1, <3>2, <3>3 DEF t
  <2>7. TablesTyped'
    BY <1>2, <2>5, <2>6 DEF TablesTyped, Typed, TypeOK
  <2> QED
    BY <1>2, <2>4, <2>5, <2>6, <2>7, TypedStep DEF Moves
<1> QED
  BY <1>3, <1>4 DEF TearDown, TaskKinds

LEMMA TearDownWaitMoves ==
  ASSUME Typed, NEW a \in Actors, TearDownWait(a)
  PROVE  Moves(a)
<1>1. at[a].pc = "tearDownWait" /\ at[a].task \in Task
  BY LocalsTyped DEF TearDownWait, TaskPlaces
<1>2. /\ UNCHANGED <<alloc, job, todo, request, environment>>
      /\ Succeeds(at[a].task) \/ Fails(at[a].task) \/ UNCHANGED cluster
      /\ \/ Goto(a, "probe") /\ UNCHANGED dep
         \/ TearDownUnconfirmed(a)
  BY DEF TearDownWait, TaskOk
<1>3. ClusterTyped'
  BY <1>1, <1>2, EffectTyped DEF Succeeds, Fails, cluster, ClusterTyped, Typed, TypeOK
<1>4. DepTyped' /\ Placed' /\ MovesAt(a)
  <2>1. CASE Goto(a, "probe") /\ UNCHANGED dep
    BY <1>1, <2>1, GotoPlaced
       DEF DepTyped, Typed, TypeOK, ExecPlaces, ReconcilePlaces, TaskPlaces, VmPlaces
  <2>2. CASE TearDownUnconfirmed(a)
    BY <1>1, <2>2, UnconfirmedTyped
  <2> QED
    BY <1>2, <2>1, <2>2
<1>5. TablesTyped' /\ Unmoved
  BY <1>2, <1>4 DEF TablesTyped, JobTyped, Unmoved, Typed, TypeOK
<1> QED
  BY <1>2, <1>3, <1>4, <1>5, TypedStep DEF Moves

LEMMA ProbeMoves ==
  ASSUME Typed, NEW a \in Actors, Probe(a)
  PROVE  Moves(a)
<1>1. at[a] \in Local /\ at[a].pc = "probe"
  BY LocalsTyped DEF Probe
<1>2. UNCHANGED <<tables, cluster, todo, request, environment>>
  BY DEF Probe
<1>3. PICK answer \in {"absent", "present", "unknown"} :
        at' = [at EXCEPT ![a].seen = answer, ![a].pc = "apply"]
  BY DEF Probe, Presence, Inventory
<1> DEFINE l == [at[a] EXCEPT !.seen = answer, !.pc = "apply"]
<1>4. at' = [at EXCEPT ![a] = l]
  BY <1>1, <1>3 DEF Typed, Placed, Local
<1>5. l \in Local /\ l.job = at[a].job /\ l.pc = "apply" /\ l.out = at[a].out
  BY <1>1 DEF Local, Places, ReconcilePlaces
<1> HIDE DEF l
<1>6. Placed' /\ MovesAt(a)
  BY <1>1, <1>4, <1>5, MovePlaced DEF Typed, ExecPlaces, ReconcilePlaces, VmPlaces, TaskPlaces
<1> QED
  BY <1>2, <1>6, TablesKept, ClusterKept, TypedStep DEF Moves

AllocTyped == alloc \in [Ips -> Deployments \cup {0}]

LEMMA DropIfMatchesTyped ==
  ASSUME Typed, NEW a \in Actors, NEW c, DropIfMatches(a, c)
  PROVE  DepTyped' /\ AllocTyped'
BY DropTyped DEF DropIfMatches, DepTyped, AllocTyped, Typed, TypeOK

LEMMA SetRowTyped ==
  ASSUME Typed, NEW a \in Actors, NEW s \in Outcomes, NEW o \in Origins, SetRow(a, s, o)
  PROVE  DepTyped' /\ AllocTyped'
<1>1. CASE StillNames(a)
  BY <1>1, RowStatus DEF SetRow, StillNames, AllocTyped, Typed, TypeOK
<1>2. CASE ~StillNames(a)
  BY <1>2 DEF SetRow, DepTyped, AllocTyped, Typed, TypeOK
<1> QED
  BY <1>1, <1>2

LEMMA ApplyMoves ==
  ASSUME Typed, NEW a \in Actors, Apply(a)
  PROVE  Moves(a)
<1>1. at[a] \in Local /\ at[a].pc = "apply"
  BY LocalsTyped DEF Apply
<1>2. UNCHANGED <<job, cluster, todo, request, environment>>
  BY DEF Apply
<1>3. DepTyped' /\ AllocTyped'
  <2>1. CASE \/ \E c : DropIfMatches(a, c)
             \/ \E s \in Outcomes, o \in Origins : SetRow(a, s, o)
    BY <2>1, DropIfMatchesTyped, SetRowTyped
  <2>2. CASE ApplyCanceled(a)
    BY <2>1, <2>2 DEF ApplyCanceled, Outcomes, Origins
  <2>3. CASE ApplyFailed(a)
    <3>1. CASE /\ StillNames(a)
               /\ dep' = [dep EXCEPT ![at[a].dep].status = "error", ![at[a].dep].origin = ""]
               /\ alloc' = Unreserved(at[a].dep) \/ alloc' = alloc
      BY <3>1, RowStatus
         DEF StillNames, Outcomes, Origins, Unreserved, AllocTyped, Typed, TypeOK
    <3>2. CASE UNCHANGED <<dep, alloc>>
      BY <3>2 DEF DepTyped, AllocTyped, Typed, TypeOK
    <3> QED
      BY <2>1, <2>3, <3>1, <3>2 DEF ApplyFailed
  <2>4. CASE ApplyCleanup(a)
    <3>1. (IF Exists(at[a].dep) THEN dep[at[a].dep].origin ELSE "") \in Origins
      BY ExistingRow DEF Row, Origins, Typed
    <3> QED
      BY <2>1, <2>4, <3>1 DEF ApplyCleanup, Outcomes, Origins
  <2> QED
    BY <2>2, <2>3, <2>4 DEF Apply
<1>4. TablesTyped' /\ Unmoved
  BY <1>2, <1>3 DEF TablesTyped, AllocTyped, JobTyped, Unmoved, Typed, TypeOK
<1> DEFINE l == [at[a] EXCEPT !.pc = "close"]
<1>5. at' = [at EXCEPT ![a] = l]
  BY <1>1 DEF Apply
<1>6. l \in Local /\ l.job = at[a].job /\ l.pc = "close" /\ l.out = at[a].out
  BY <1>1 DEF Local, Places, ReconcilePlaces
<1> HIDE DEF l
<1>7. Placed' /\ MovesAt(a)
  BY <1>1, <1>5, <1>6, MovePlaced DEF Typed, ExecPlaces, ReconcilePlaces, VmPlaces, TaskPlaces
<1> QED
  BY <1>2, <1>4, <1>7, ClusterKept, TypedStep DEF Moves

\* All but Boot and Succeed, which write the status of the job, and Close.
LEMMA StepMoves ==
  ASSUME Typed, NEW a \in Actors,
         Execute(a) \/ ReconcileStep(a), ~Boot(a), ~Succeed(a), ~Close(a)
  PROVE  Moves(a)
BY LoadMoves, StopMoves, DestroyMoves, RecordMoves, AwaitMoves, ConfirmMoves, DropMoves,
   PickMoves, PrepareMoves, CreateMoves, AcceptMoves, SetupMoves, FinishMoves, RetainMoves, ReadMoves,
   TearDownMoves, TearDownWaitMoves, ProbeMoves, ApplyMoves
   DEF Execute, ReconcileStep

--------------------------------------------------------------------------------
(* What the threads hold                                                      *)

\* Jobs keep their deployment, and only an active job changes its status.
OnlyActiveMove ==
  \A j \in JobIds :
    /\ job'[j].dep = job[j].dep
    /\ ~JobActive(j) => job'[j].status = job[j].status

Keeps == Typed' /\ Held' /\ OnlyActiveMove

LEMMA MovesHeld ==
  ASSUME Typed, Held, NEW a \in Actors, Unmoved, MovesAt(a),
         a = "waiter" => at[a].pc \in ReconcilePlaces
  PROVE  Held'
<1>1. CASE a = "worker"
  <2>1. /\ at'["waiter"] = at["waiter"] /\ at'["worker"].job = at["worker"].job
        /\ at'["worker"].pc # "resumed"
        /\ at'["worker"].pc \in ExecPlaces => at["worker"].pc \in ExecPlaces
    BY <1>1 DEF MovesAt, Actors, ExecPlaces, ReconcilePlaces
  <2>2. at["worker"].pc \in ExecPlaces => at["worker"].job \in JobIds
    BY <1>1, LocalsTyped
  <2>3. at["waiter"].pc = "resumed" => at["waiter"].job \in JobIds
    BY LocalsTyped DEF Actors
  <2> QED
    BY <2>1, <2>2, <2>3 DEF Held, Unmoved
<1>2. CASE a = "waiter"
  <2>1. /\ at'["worker"] = at["worker"] /\ at'["waiter"].job = at["waiter"].job
        /\ at["waiter"].pc \in ReconcilePlaces /\ at'["waiter"].pc \in ReconcilePlaces
    BY <1>2 DEF MovesAt, Actors, ExecPlaces, ReconcilePlaces
  <2>2. at["worker"].pc \in ExecPlaces => at["worker"].job \in JobIds
    BY LocalsTyped DEF Actors
  <2> QED
    BY <2>1, <2>2 DEF Held, Unmoved, ReconcilePlaces
<1> QED
  BY <1>1, <1>2 DEF Actors

LEMMA UnmovedKeeps ==
  ASSUME Unmoved
  PROVE  OnlyActiveMove
BY DEF Unmoved, OnlyActiveMove

LEMMA MovesKeeps ==
  ASSUME Typed, Held, NEW a \in Actors, Moves(a), a = "waiter" => at[a].pc \in ReconcilePlaces
  PROVE  Keeps
BY MovesHeld, UnmovedKeeps DEF Moves, Keeps

\* The worker leaves a job it executed, whose status alone changes.
LEMMA WorkerLeaves ==
  ASSUME Typed, Held, at["worker"].pc \in ExecPlaces,
         NEW st \in ActiveStatuses \cup Terminal, SetStatus(at["worker"].job, st),
         at' = [at EXCEPT !["worker"] = Idle],
         UNCHANGED <<dep, alloc, cluster, todo, request, environment>>
  PROVE  Keeps
<1> DEFINE k == at["worker"].job
<1>1. k \in JobIds /\ job[k].status = "running"
  BY LocalsTyped DEF Held, Actors
<1>2. /\ JobTyped' /\ job'[k].dep = job[k].dep
      /\ \A i \in JobIds \ {k} : job'[i] = job[i]
  BY <1>1, StatusTyped DEF Typed
<1>3. Placed' /\ at'["worker"].pc = "idle" /\ at'["waiter"] = at["waiter"]
  BY BecomesIdle DEF Typed, Actors
<1>4. Typed'
  BY <1>2, <1>3, ClusterKept, TypedStep DEF TablesTyped, DepTyped, Typed, TypeOK
<1>5. Held'
  <2>1. at["waiter"].pc = "resumed" => at["waiter"].job \in JobIds \ {k}
    BY LocalsTyped DEF Held, Actors
  <2>2. at["waiter"].pc \in ReconcilePlaces => at["waiter"].job \in JobIds \ {k}
    BY <1>1 DEF Held, Terminal
  <2> QED
    BY <1>2, <1>3, <2>1, <2>2 DEF Held, ExecPlaces
<1>6. OnlyActiveMove
  BY <1>1, <1>2 DEF OnlyActiveMove, JobActive, ActiveStatuses
<1> QED
  BY <1>4, <1>5, <1>6 DEF Keeps

LEMMA BootKeeps ==
  ASSUME Typed, Held, Boot("worker")
  PROVE  Keeps
<1> DEFINE a == "worker"
<1>1. a \in Actors /\ at[a].pc = "boot"
  BY DEF Boot, Actors
<1>2. UNCHANGED <<dep, alloc, cluster, todo, request, environment>>
  BY DEF Boot
<1>3. CASE /\ Abort(a, "failed") \/ Abort(a, "canceled") \/ \E p \in {"ansible", "finish"} : Goto(a, p)
           /\ UNCHANGED job
  <2>1. Placed' /\ MovesAt(a)
    BY <1>1, <1>3, GotoPlaced, AbortPlaced
       DEF Typed, ExecPlaces, ReconcilePlaces, TaskPlaces, VmPlaces
  <2>2. UNCHANGED tables
    BY <1>2, <1>3 DEF tables
  <2>3. Moves(a)
    BY <1>2, <2>1, <2>2, TablesKept, ClusterKept, TypedStep DEF Moves
  <2> QED
    BY <1>1, <2>3, MovesKeeps
<1>4. CASE SetStatus(at[a].job, "waiting") /\ at' = [at EXCEPT ![a] = Idle]
  BY <1>1, <1>2, <1>4, WorkerLeaves DEF ActiveStatuses, ExecPlaces
<1> QED
  BY <1>3, <1>4 DEF Boot

LEMMA SucceedKeeps ==
  ASSUME Typed, Held, Succeed("worker")
  PROVE  Keeps
BY WorkerLeaves DEF Succeed, Terminal, ExecPlaces

LEMMA CloseKeeps ==
  ASSUME Typed, Held, NEW a \in Actors, Close(a)
  PROVE  Keeps
<1> DEFINE k == at[a].job
<1>1. at[a] \in Local /\ at[a].pc = "close"
  BY LocalsTyped DEF Close
<1>2. UNCHANGED <<dep, alloc, cluster, todo, request, environment>>
  BY DEF Close
<1>3. /\ Placed' /\ \A b \in Actors \ {a} : at'[b] = at[b]
      /\ at'[a].pc \in {"idle", "recoverNext"}
      /\ a = "waiter" => at'[a].pc = "idle"
  <2>1. PICK l \in PlacedLocal : /\ at' = [at EXCEPT ![a] = l]
                                 /\ l.pc \in {"idle", "recoverNext"}
                                 /\ a = "waiter" => l.pc = "idle"
    BY IdlePlaced, RecoveringPlaced DEF Close
  <2> QED
    BY <2>1 DEF Typed, Placed
<1>4. CASE k # 0 /\ job[k].status = "running"
  <2>1. k \in JobIds /\ at[a].out \in {"failed", "canceled"}
    BY <1>1, <1>4, LocalsTyped DEF Local, ReconcilePlaces
  <2>2. SetStatus(k, at[a].out)
    BY <1>4 DEF Close, SetStatus
  <2>3. /\ JobTyped' /\ job'[k].dep = job[k].dep /\ job'[k].status \in Terminal
        /\ \A i \in JobIds \ {k} : job'[i] = job[i]
    BY <2>1, <2>2, StatusTyped DEF Terminal, Typed
  <2>4. Typed'
    BY <1>2, <1>3, <2>3, ClusterKept, TypedStep DEF TablesTyped, DepTyped, Typed, TypeOK
  <2>5. a = "worker"
    BY <1>1, <1>4 DEF Held, Terminal, ReconcilePlaces, Actors
  <2>6. at'["waiter"] = at["waiter"] /\ at'["worker"].pc \in {"idle", "recoverNext"}
    BY <1>3, <2>5 DEF Actors
  <2>7. at["waiter"].pc = "resumed" => at["waiter"].job \in JobIds
    BY LocalsTyped DEF Actors
  <2>8. at["waiter"].pc \in ReconcilePlaces => at["waiter"].job \in JobIds \ {k}
    BY <1>4 DEF Held, Terminal
  <2>9. Held'
    BY <2>3, <2>6, <2>7, <2>8 DEF Held, ExecPlaces
  <2>10. OnlyActiveMove
    BY <1>4, <2>3 DEF OnlyActiveMove, JobActive, ActiveStatuses
  <2> QED
    BY <2>4, <2>9, <2>10 DEF Keeps
<1>5. CASE ~(k # 0 /\ job[k].status = "running")
  <2>1. UNCHANGED tables
    BY <1>2, <1>5 DEF Close, tables
  <2>2. Typed' /\ Unmoved
    BY <1>2, <1>3, <2>1, TablesKept, ClusterKept, TypedStep
  <2>3. Held'
    <3>1. at["waiter"].pc = "resumed" => at["waiter"].job \in JobIds
      BY LocalsTyped DEF Actors
    <3>2. at["worker"].pc \in ExecPlaces => at["worker"].job \in JobIds
      BY LocalsTyped DEF Actors
    <3>3. job' = job
      BY <2>1 DEF tables
    <3>4. CASE a = "worker"
      <4>1. at'["waiter"] = at["waiter"] /\ at'["worker"].pc \in {"idle", "recoverNext"}
        BY <1>3, <3>4 DEF Actors
      <4> QED
        BY <3>3, <4>1 DEF Held, ExecPlaces
    <3>5. CASE a = "waiter"
      <4>1. at'["worker"] = at["worker"] /\ at'["waiter"].pc = "idle"
        BY <1>3, <3>5 DEF Actors
      <4> QED
        BY <3>3, <4>1 DEF Held, ReconcilePlaces
    <3> QED
      BY <3>4, <3>5 DEF Actors
  <2> QED
    BY <2>2, <2>3, UnmovedKeeps DEF Keeps
<1> QED
  BY <1>4, <1>5

LEMMA WorkerKeeps ==
  ASSUME Typed, Held, NEW a \in Actors, ReconcileStep(a) \/ (a = "worker" /\ Execute(a))
  PROVE  Keeps
<1>1. a = "waiter" => at[a].pc \in ReconcilePlaces
  BY DEF ReconcileStep, Retain, Read, TearDown, TearDownWait, Probe, Apply, Close, ReconcilePlaces
<1>2. CASE Boot(a) \/ Succeed(a)
  <2>1. a = "worker"
    BY <1>1, <1>2 DEF Boot, Succeed, ReconcilePlaces, Actors
  <2> QED
    BY <1>2, <2>1, BootKeeps, SucceedKeeps
<1>3. CASE Close(a)
  BY <1>3, CloseKeeps
<1>4. CASE ~Boot(a) /\ ~Succeed(a) /\ ~Close(a)
  BY <1>1, <1>4, StepMoves, MovesKeeps
<1> QED
  BY <1>2, <1>3, <1>4

\* The worker takes up a queued job, to execute it or to reconcile it.
LEMMA ClaimKeeps ==
  ASSUME Typed, Held, NEW j \in JobIds, Claim(j)
  PROVE  Keeps
<1>1. /\ at["worker"].pc = "idle" /\ job[j].status = "queued"
      /\ UNCHANGED <<dep, alloc, cluster, todo, request, environment>>
  BY DEF Claim, NextQueued
<1>2. PICK st \in {"canceled", "failed", "running"}, o \in {"", "failed", "canceled"},
           p \in {"load", "pick", "retain"} :
        /\ SetStatus(j, st) /\ Start("worker", p, j, o)
        /\ p = "retain" => o # ""
        /\ p # "retain" => st = "running"
  BY DEF Claim, FirstPlace
<1>3. /\ JobTyped' /\ job'[j].status = st /\ job'[j].dep = job[j].dep
      /\ \A i \in JobIds \ {j} : job'[i] = job[i]
  BY <1>2, StatusTyped DEF Typed, ActiveStatuses, Terminal
<1>4. /\ Placed' /\ at'["worker"].pc = p /\ at'["worker"].job = j
      /\ at'["waiter"] = at["waiter"]
  BY <1>2, StartPlaced DEF Typed, Actors
<1>5. Typed'
  BY <1>1, <1>3, <1>4, ClusterKept, TypedStep DEF TablesTyped, DepTyped, Typed, TypeOK
<1>6. Held'
  <2>1. at["waiter"].pc = "resumed" => at["waiter"].job \in JobIds \ {j}
    BY <1>1, LocalsTyped DEF Held, Actors, Terminal
  <2>2. at["waiter"].pc \in ReconcilePlaces => at["waiter"].job \in JobIds \ {j}
    BY <1>1 DEF Held, Terminal
  <2> QED
    BY <1>2, <1>3, <1>4, <2>1, <2>2 DEF Held, ExecPlaces
<1>7. OnlyActiveMove
  BY <1>1, <1>3 DEF OnlyActiveMove, JobActive, ActiveStatuses
<1> QED
  BY <1>5, <1>6, <1>7 DEF Keeps

\* The waiting thread ends a job it holds or that waits, and goes on to reconcile it.
LEMMA EndWaitKeeps ==
  ASSUME Typed, Held, NEW j \in JobIds, NEW o \in {"failed", "canceled"}, EndWait(j, o),
         JobActive(j),
         at["worker"].pc \in ExecPlaces => at["worker"].job # j
  PROVE  Keeps
<1>1. /\ SetStatus(j, o) /\ Start("waiter", "retain", j, o)
      /\ UNCHANGED <<dep, alloc, cluster, todo, request, environment>>
  BY DEF EndWait
<1>2. /\ JobTyped' /\ job'[j].status = o /\ job'[j].dep = job[j].dep
      /\ \A i \in JobIds \ {j} : job'[i] = job[i]
  BY <1>1, StatusTyped DEF Typed, Terminal
<1>3. /\ Placed' /\ at'["waiter"].pc = "retain" /\ at'["waiter"].job = j
      /\ at'["worker"] = at["worker"]
  BY <1>1, StartPlaced DEF Typed, Actors
<1>4. Typed'
  BY <1>1, <1>2, <1>3, ClusterKept, TypedStep DEF TablesTyped, DepTyped, Typed, TypeOK
<1>5. at["worker"].pc \in ExecPlaces => at["worker"].job \in JobIds \ {j}
  BY LocalsTyped DEF Actors
<1>6. Held'
  BY <1>2, <1>3, <1>5 DEF Held, ReconcilePlaces, Terminal
<1>7. OnlyActiveMove
  BY <1>2 DEF OnlyActiveMove
<1> QED
  BY <1>4, <1>6, <1>7 DEF Keeps

LEMMA WaitEndsKeeps ==
  ASSUME Typed, Held, NEW j \in JobIds, WaitCanceled(j) \/ WaitLost(j)
  PROVE  Keeps
<1>1. job[j].status = "waiting" /\ \E o \in {"failed", "canceled"} : EndWait(j, o)
  BY DEF WaitCanceled, WaitLost, Waiting
<1>2. at["worker"].pc \in ExecPlaces => at["worker"].job # j
  BY <1>1 DEF Held
<1> QED
  BY <1>1, <1>2, EndWaitKeeps DEF JobActive, ActiveStatuses

LEMMA WaitTimeoutKeeps ==
  ASSUME Typed, Held, NEW j \in JobIds, WaitTimeout(j)
  PROVE  Keeps
<1> DEFINE d == job[j].dep
<1>1. /\ at["waiter"].pc = "idle" /\ job[j].status = "waiting" /\ SetStatus(j, "failed")
      /\ VmidOf(d) # NoVmid
      /\ dep' = [dep EXCEPT ![d].status = "error", ![d].origin = ""]
      /\ UNCHANGED <<alloc, cluster, control, environment>>
  BY DEF WaitTimeout, Waiting, NoTarget
<1>2. Exists(d) /\ d \in Deployments /\ dep[d] \in Row
  BY <1>1, NamedRow, ExistingRow DEF Typed
<1>3. DepTyped'
  BY <1>1, <1>2 DEF DepTyped, Row, Typed, TypeOK
<1>4. /\ JobTyped' /\ job'[j].status = "failed" /\ job'[j].dep = job[j].dep
      /\ \A i \in JobIds \ {j} : job'[i] = job[i]
  BY <1>1, StatusTyped DEF Typed, Terminal
<1>5. at' = at /\ Placed'
  BY <1>1 DEF control, Typed, Placed
<1>6. Typed'
  BY <1>1, <1>3, <1>4, <1>5, ClusterKept, TypedStep DEF TablesTyped, control, Typed, TypeOK
<1>7. at["worker"].pc \in ExecPlaces => at["worker"].job \in JobIds \ {j}
  BY <1>1, LocalsTyped DEF Held, Actors
<1>8. Held'
  BY <1>1, <1>4, <1>5, <1>7 DEF Held, ReconcilePlaces
<1>9. OnlyActiveMove
  BY <1>1, <1>4 DEF OnlyActiveMove, JobActive, ActiveStatuses
<1> QED
  BY <1>6, <1>8, <1>9 DEF Keeps

LEMMA ResumeKeeps ==
  ASSUME Typed, Held, NEW j \in JobIds, Resume(j)
  PROVE  Keeps
<1>1. /\ at["waiter"].pc = "idle" /\ job[j].status = "waiting"
      /\ SetStatus(j, "running") /\ Start("waiter", "resumed", j, "")
      /\ UNCHANGED <<dep, alloc, cluster, todo, request, environment>>
  BY DEF Resume, Waiting
<1>2. /\ JobTyped' /\ job'[j].status = "running" /\ job'[j].dep = job[j].dep
      /\ \A i \in JobIds \ {j} : job'[i] = job[i]
  BY <1>1, StatusTyped DEF Typed, ActiveStatuses
<1>3. /\ Placed' /\ at'["waiter"].pc = "resumed" /\ at'["waiter"].job = j
      /\ at'["worker"] = at["worker"]
  BY <1>1, StartPlaced DEF Typed, Actors
<1>4. Typed'
  BY <1>1, <1>2, <1>3, ClusterKept, TypedStep DEF TablesTyped, DepTyped, Typed, TypeOK
<1>5. at["worker"].pc \in ExecPlaces => at["worker"].job \in JobIds \ {j}
  BY <1>1, LocalsTyped DEF Held, Actors
<1>6. Held'
  BY <1>2, <1>3, <1>5 DEF Held, ReconcilePlaces
<1>7. OnlyActiveMove
  BY <1>1, <1>2 DEF OnlyActiveMove, JobActive, ActiveStatuses
<1> QED
  BY <1>4, <1>6, <1>7 DEF Keeps

\* The waiting thread stops holding a job.
LEMMA WaiterIdleHeld ==
  ASSUME Typed, Held, at'["waiter"].pc = "idle", at'["worker"] = at["worker"],
         at["worker"].pc \in ExecPlaces => job'[at["worker"].job].status = "running"
  PROVE  Held'
BY DEF Held, ReconcilePlaces

LEMMA ResumedEndsKeeps ==
  ASSUME Typed, Held, ResumedOk \/ ResumedAborts
  PROVE  Keeps
<1> DEFINE j == at["waiter"].job
           d == at["waiter"].dep
<1>1. at["waiter"].pc = "resumed" /\ j \in JobIds
  BY LocalsTyped DEF ResumedOk, ResumedAborts, Actors
<1>2. /\ at["worker"].pc \in ExecPlaces => at["worker"].job \in JobIds \ {j}
      /\ job[j].status \in {"running"} \cup Terminal
  BY <1>1, LocalsTyped DEF Held, Actors
<1>3. CASE \E o \in {"failed", "canceled"} : EndWait(j, o) /\ job[j].status \in {"waiting", "running"}
  BY <1>1, <1>2, <1>3, EndWaitKeeps DEF JobActive, ActiveStatuses
<1>4. CASE at' = [at EXCEPT !["waiter"] = Idle] /\ UNCHANGED <<tables, cluster, todo, request, environment>>
  <2>1. Placed' /\ at'["waiter"].pc = "idle" /\ at'["worker"] = at["worker"]
    BY <1>4, BecomesIdle DEF Typed, Actors
  <2>2. Typed' /\ Unmoved
    BY <1>4, <2>1, TablesKept, ClusterKept, TypedStep
  <2>3. Held'
    BY <1>4, <2>1, WaiterIdleHeld DEF Held, tables
  <2> QED
    BY <2>2, <2>3, UnmovedKeeps DEF Keeps
<1>5. CASE /\ job[j].status = "running" /\ Exists(d)
           /\ SetStatus(j, "succeeded")
           /\ dep' = [dep EXCEPT ![d].status = "live", ![d].origin = ""]
           /\ at' = [at EXCEPT !["waiter"] = Idle]
           /\ UNCHANGED <<alloc, cluster, todo, request, environment>>
  <2>1. Placed' /\ at'["waiter"].pc = "idle" /\ at'["worker"] = at["worker"]
    BY <1>5, BecomesIdle DEF Typed, Actors
  <2>2. d \in Deployments /\ dep[d] \in Row
    BY <1>5, ExistingRow DEF Typed
  <2>3. DepTyped'
    BY <1>5, <2>2 DEF DepTyped, Row, Typed, TypeOK
  <2>4. /\ JobTyped' /\ job'[j].status = "succeeded" /\ job'[j].dep = job[j].dep
        /\ \A i \in JobIds \ {j} : job'[i] = job[i]
    BY <1>1, <1>5, StatusTyped DEF Typed, Terminal
  <2>5. Typed'
    BY <1>5, <2>1, <2>3, <2>4, ClusterKept, TypedStep DEF TablesTyped, Typed, TypeOK
  <2>6. Held'
    BY <1>2, <2>1, <2>4, WaiterIdleHeld DEF Held
  <2>7. OnlyActiveMove
    BY <1>5, <2>4 DEF OnlyActiveMove, JobActive, ActiveStatuses
  <2> QED
    BY <2>5, <2>6, <2>7 DEF Keeps
<1> QED
  BY <1>3, <1>4, <1>5 DEF ResumedOk, ResumedAborts, tables

LEMMA RetryCleanupKeeps ==
  ASSUME Typed, Held, NEW d \in Deployments, RetryCleanup(d)
  PROVE  Keeps
<1> DEFINE p == IF dep[d].origin = "deploy" /\ dep[d].vmid # NoVmid THEN "tearDown" ELSE "probe"
           l == [Idle EXCEPT !.dep = d, !.kind = dep[d].origin, !.out = "cleanup",
                             !.vmid = dep[d].vmid, !.pc = p]
<1>1. /\ at["worker"].pc = "idle" /\ Exists(d) /\ at' = [at EXCEPT !["worker"] = l]
      /\ UNCHANGED <<tables, cluster, todo, request, environment>>
  BY DEF RetryCleanup
<1>2. dep[d] \in Row
  BY <1>1, ExistingRow DEF Typed
<1>3. /\ dep[d].origin \in LifecycleTypes \cup {""} /\ dep[d].vmid \in Vmids \cup {NoVmid}
      /\ p \in {"tearDown", "probe"}
      /\ p = "tearDown" => dep[d].vmid \in Vmids
  BY <1>2 DEF Row, LifecycleTypes
<1>4. /\ l.pc = p /\ l.job = 0 /\ l.vmid = dep[d].vmid /\ l.task = NoTask
      /\ l \in Local
  BY <1>3, IdlePlaced DEF Idle, Local, Places, ReconcilePlaces
<1> HIDE DEF l, p
<1>5. l \in PlacedLocal
  BY <1>3, <1>4 DEF PlacedLocal, ExecPlaces, VmPlaces, TaskPlaces
<1>6. /\ Placed' /\ at'["waiter"] = at["waiter"] /\ at'["worker"].pc \in {"tearDown", "probe"}
  BY <1>1, <1>3, <1>4, <1>5 DEF Typed, Placed, Actors
<1>7. Typed' /\ Unmoved
  BY <1>1, <1>6, TablesKept, ClusterKept, TypedStep
<1>8. Held'
  BY <1>1, <1>6 DEF Held, ExecPlaces, tables
<1> QED
  BY <1>7, <1>8, UnmovedKeeps DEF Keeps

--------------------------------------------------------------------------------
(* Restarts                                                                   *)

RequestTyped ==
  request \in [op : RequestOps \cup CleanupOps, dep : Deployments, ip : Ips \cup {NoIp},
               status : {"working", "live", "error", "cleanup_pending"}] \cup {NoRequest}

LEMMA TypedTogether ==
  ASSUME Placed', TablesTyped', ClusterTyped', todo' \subseteq JobIds, RequestTyped',
         disabled' \in BOOLEAN, crashes' \in 0..MaxCrashes
  PROVE  Typed'
<1>1. at' \in [Actors -> Local]
  BY DEF Placed, PlacedLocal
<1> QED
  BY <1>1 DEF Typed, TypeOK, TablesTyped, ClusterTyped, DepTyped, JobTyped, RequestTyped

LEMMA CrashKeeps ==
  ASSUME Typed, Held, Crash
  PROVE  Keeps
<1> DEFINE r == [Idle EXCEPT !.pc = "recover"]
<1>1. /\ crashes < MaxCrashes /\ crashes' = crashes + 1
      /\ at' = [a \in Actors |-> IF a = "worker" THEN r ELSE Idle]
      /\ todo' = {} /\ request' = NoRequest
      /\ UNCHANGED <<tables, cluster, disabled>>
  BY DEF Crash
<1>2. r \in PlacedLocal /\ r.pc = "recover"
  BY RecoveringPlaced
<1> HIDE DEF r
<1>3. /\ Placed' /\ at'["worker"].pc = "recover" /\ at'["waiter"].pc = "idle"
  BY <1>1, <1>2, IdlePlaced DEF Placed, Actors
<1>4. crashes' \in 0..MaxCrashes
  BY <1>1, ConstantsTyped DEF ConstantsTyped, Typed, TypeOK
<1>5. Typed' /\ Unmoved
  BY <1>1, <1>3, <1>4, TablesKept, ClusterKept, TypedTogether DEF RequestTyped, Typed, TypeOK
<1>6. Held'
  BY <1>3 DEF Held, ExecPlaces, ReconcilePlaces
<1> QED
  BY <1>5, <1>6, UnmovedKeeps DEF Keeps

LEMMA RecoverKeeps ==
  ASSUME Typed, Held, Recover
  PROVE  Keeps
<1> DEFINE orphans == {j \in JobIds : job[j].status = "running"}
           l == [at["worker"] EXCEPT !.pc = "recoverNext"]
<1>1. /\ at["worker"].pc = "recover"
      /\ job' = [j \in JobIds |->
                   IF j \in orphans THEN [job[j] EXCEPT !.status = "failed"] ELSE job[j]]
      /\ todo' = orphans
      /\ UNCHANGED <<dep, alloc, cluster, request, environment>>
  BY DEF Recover
<1>2. at["worker"] \in Local /\ at' = [at EXCEPT !["worker"] = l]
  BY LocalsTyped DEF Recover, Actors, Local, Typed, Placed
<1>3. l \in Local /\ l.pc = "recoverNext"
  BY <1>2 DEF Local, Places
<1> HIDE DEF l
<1>4. l \in PlacedLocal
  BY <1>3 DEF PlacedLocal, ExecPlaces, ReconcilePlaces, VmPlaces, TaskPlaces
<1>5. Placed' /\ at'["waiter"] = at["waiter"] /\ at'["worker"].pc = "recoverNext"
  BY <1>2, <1>3, <1>4 DEF Typed, Placed, Actors
<1>6. \A j \in JobIds :
        /\ job'[j] \in JobRow /\ job'[j].dep = job[j].dep
        /\ job'[j].status = IF job[j].status = "running" THEN "failed" ELSE job[j].status
  <2> SUFFICES ASSUME NEW j \in JobIds
               PROVE  /\ job'[j] \in JobRow /\ job'[j].dep = job[j].dep
                      /\ job'[j].status =
                           IF job[j].status = "running" THEN "failed" ELSE job[j].status
    OBVIOUS
  <2>1. job[j] \in JobRow
    BY DEF Typed, TypeOK
  <2>2. CASE job[j].status = "running"
    <3>1. job'[j] = [job[j] EXCEPT !.status = "failed"]
      BY <1>1, <2>2
    <3> QED
      BY <2>1, <2>2, <3>1 DEF JobRow, Terminal
  <2>3. CASE job[j].status # "running"
    BY <1>1, <2>1, <2>3
  <2> QED
    BY <2>2, <2>3
<1>7. TablesTyped'
  <2>1. job' \in [JobIds -> JobRow]
    BY <1>1, <1>6
  <2> QED
    BY <1>1, <2>1 DEF TablesTyped, DepTyped, JobTyped, Typed, TypeOK
<1>8. Typed'
  BY <1>1, <1>5, <1>7, ClusterKept, TypedTogether DEF RequestTyped, environment, Typed, TypeOK
<1>9. Held'
  <2>1. at["waiter"].pc \in {"resumed"} \cup ReconcilePlaces => at["waiter"].job \in JobIds
    BY LocalsTyped DEF Held, Actors
  <2> QED
    BY <1>5, <1>6, <2>1 DEF Held, ExecPlaces, Terminal
<1>10. OnlyActiveMove
  BY <1>6 DEF OnlyActiveMove, JobActive, ActiveStatuses
<1> QED
  BY <1>8, <1>9, <1>10 DEF Keeps

LEMMA RecoverNextKeeps ==
  ASSUME Typed, Held, RecoverNext
  PROVE  Keeps
<1>1. /\ at["worker"].pc = "recoverNext" /\ todo' \subseteq JobIds
      /\ UNCHANGED <<tables, cluster, request, environment>>
  BY DEF RecoverNext, Typed, TypeOK
<1>2. Placed' /\ at'["worker"].pc \in {"idle", "retain"} /\ at'["waiter"] = at["waiter"]
  <2>1. CASE at' = [at EXCEPT !["worker"] = Idle]
    BY <2>1, BecomesIdle DEF Typed, Actors
  <2>2. CASE \E j \in JobIds : Start("worker", "retain", j, "failed")
    BY <2>2, StartPlaced DEF Typed, Actors
  <2> QED
    BY <2>1, <2>2 DEF RecoverNext, Least, Typed, TypeOK
<1>3. Typed' /\ Unmoved
  BY <1>1, <1>2, TablesKept, ClusterKept, TypedTogether DEF RequestTyped, environment, Typed, TypeOK
<1>4. Held'
  BY <1>1, <1>2 DEF Held, ExecPlaces, tables
<1> QED
  BY <1>3, <1>4, UnmovedKeeps DEF Keeps

--------------------------------------------------------------------------------
(* The cluster                                                                *)

\* The threads stay where they are, and the jobs keep their statuses.
LEMMA StayHeld ==
  ASSUME Typed, Held, at' = at, Unmoved
  PROVE  Held'
<1>1. at["worker"].pc \in ExecPlaces => at["worker"].job \in JobIds
  BY LocalsTyped DEF Actors
<1>2. at["waiter"].pc \in {"resumed"} \cup ReconcilePlaces => at["waiter"].job \in JobIds
  BY LocalsTyped DEF Held, Actors
<1> QED
  BY <1>1, <1>2 DEF Held, Unmoved

LEMMA ClusterKeeps ==
  ASSUME Typed, Held, ClusterNext
  PROVE  Keeps
<1>1. UNCHANGED <<tables, control, environment>>
  BY DEF ClusterNext, TaskStops, ForeignVm
<1>2. ClusterTyped'
  <2>1. CASE TaskStops
    <3>1. PICK t \in running : Succeeds(t) \/ Fails(t)
      BY <2>1 DEF TaskStops
    <3>2. t \in Task
      BY DEF Typed, TypeOK
    <3> QED
      BY <3>1, <3>2, EffectTyped DEF Succeeds, Fails, ClusterTyped, Typed, TypeOK
  <2>2. CASE ForeignVm
    BY <2>2 DEF ForeignVm, ClusterTyped, Typed, TypeOK
  <2> QED
    BY <2>1, <2>2 DEF ClusterNext
<1>3. at' = at /\ UNCHANGED <<todo, request>>
  BY <1>1 DEF control
<1>4. Placed'
  BY <1>3 DEF Typed, Placed
<1>5. Typed' /\ Unmoved
  BY <1>1, <1>2, <1>3, <1>4, TablesKept, TypedStep
<1> QED
  BY <1>3, <1>5, StayHeld, UnmovedKeeps DEF Keeps

--------------------------------------------------------------------------------
(* The API                                                                    *)

EndedStay == \A j \in JobIds : job[j].status \in Terminal => job'[j].status = job[j].status

\* What every step keeps; a step that only moves active jobs does.
Preserves == Typed' /\ Held' /\ OneActiveLifecycleJob' /\ EndedStay

LEMMA KeepsPreserves ==
  ASSUME LifecycleInv, Keeps
  PROVE  Preserves
<1>1. \A j \in JobIds : JobActive(j)' => JobActive(j)
  BY DEF Keeps, OnlyActiveMove, JobActive
<1>2. OneActiveLifecycleJob'
  BY <1>1 DEF LifecycleInv, Keeps, OnlyActiveMove, OneActiveLifecycleJob
<1>3. EndedStay
  BY DEF Keeps, OnlyActiveMove, EndedStay, JobActive, ActiveStatuses, Terminal
<1> QED
  BY <1>2, <1>3 DEF Keeps, Preserves

\* A handler that writes no status: the threads stay where they are.
LEMMA QuietPreserves ==
  ASSUME LifecycleInv, Typed', Unmoved, at' = at
  PROVE  Preserves
BY StayHeld, UnmovedKeeps, KeepsPreserves DEF LifecycleInv, Keeps

\* An inserted job takes an unused id.
LEMMA InsertPreserves ==
  ASSUME LifecycleInv, NEW j \in JobIds, NEW type \in LifecycleTypes, NEW d \in Deployments,
         NEW c \in IdentityStates, NEW i \in Ips \cup {NoIp}, FreshJob(j), ~Active(d),
         Insert(j, type, d, c, i), at' = at
  PROVE  JobTyped' /\ Held' /\ OneActiveLifecycleJob' /\ EndedStay
<1> DEFINE row == [Unused EXCEPT !.type = type, !.status = "queued", !.dep = d, !.create = c,
                                 !.ip = i]
<1>1. job[j].status = "unused"
  BY ConstantsTyped DEF FreshJob, JobIds, ConstantsTyped
<1>2. row \in JobRow /\ row.status = "queued" /\ row.dep = d
  BY DEF JobRow, Unused, ActiveStatuses
<1>3. job' = [job EXCEPT ![j] = row]
  BY DEF Insert
<1> HIDE DEF row
<1>4. /\ JobTyped' /\ job'[j].status = "queued" /\ job'[j].dep = d
      /\ \A k \in JobIds \ {j} : job'[k] = job[k]
  BY <1>2, <1>3 DEF JobTyped, LifecycleInv, Typed, TypeOK
<1>5. Held'
  <2>1. at["worker"].pc \in ExecPlaces => at["worker"].job \in JobIds \ {j}
    BY <1>1, LocalsTyped DEF LifecycleInv, Held, Actors
  <2>2. at["waiter"].pc \in {"resumed"} \cup ReconcilePlaces => at["waiter"].job \in JobIds \ {j}
    BY <1>1, LocalsTyped DEF LifecycleInv, Held, Actors, Terminal
  <2> QED
    BY <1>4, <2>1, <2>2 DEF LifecycleInv, Held
<1>6. OneActiveLifecycleJob'
  <2>1. \A k \in JobIds \ {j} : JobActive(k)' => job'[k].dep # d /\ JobActive(k)
    BY <1>4 DEF Active, JobActive
  <2> QED
    BY <1>4, <2>1 DEF LifecycleInv, OneActiveLifecycleJob
<1>7. EndedStay
  BY <1>1, <1>4 DEF EndedStay, Terminal
<1> QED
  BY <1>4, <1>5, <1>6, <1>7

LEMMA AllocatedTyped ==
  ASSUME NEW d
  PROVE  AllocatedIps(d) \subseteq Ips \cup {NoIp}
BY DEF AllocatedIps, Least

LEMMA ReserveTyped ==
  ASSUME Typed, NEW d \in Deployments, NEW i, Reserve(d, i)
  PROVE  alloc' \in [Ips -> Deployments \cup {0}]
BY DEF Reserve, Typed, TypeOK

LEMMA DeployPreserves ==
  ASSUME LifecycleInv, Deploy
  PROVE  Preserves
<1>0. PICK d \in Deployments, j \in JobIds, post \in PostBoot :
        /\ FreshDeployment(d) /\ FreshJob(j)
        /\ \E i \in AllocatedIps(d) :
             /\ dep' = [dep EXCEPT ![d] = [status |-> "working", vmid |-> NoVmid,
                                           identity |-> "", origin |-> "", ip |-> i,
                                           post |-> post]]
             /\ Reserve(d, i)
             /\ Insert(j, "deploy", d, "", i)
  BY DEF Deploy
<1>1. PICK i \in AllocatedIps(d) :
        /\ dep' = [dep EXCEPT ![d] = [status |-> "working", vmid |-> NoVmid, identity |-> "",
                                      origin |-> "", ip |-> i, post |-> post]]
        /\ Reserve(d, i)
        /\ Insert(j, "deploy", d, "", i)
  BY <1>0
<1>2. UNCHANGED <<cluster, control, environment>>
  BY DEF Deploy
<1>3. i \in Ips \cup {NoIp} /\ post \in BOOLEAN
  BY AllocatedTyped, ConstantsTyped DEF ConstantsTyped
<1>4. DepTyped'
  <2>1. [status |-> "working", vmid |-> NoVmid, identity |-> "", origin |-> "", ip |-> i,
         post |-> post] \in Row
    BY <1>3 DEF Row, IdentityStates
  <2> QED
    BY <1>1, <2>1 DEF DepTyped, LifecycleInv, Typed, TypeOK
<1>5. ~Active(d)
  <2>1. d \in Nat /\ d >= d
    BY ConstantsTyped DEF Deployments, ConstantsTyped
  <2>2. \A k \in JobIds : job[k].dep # d
    BY <1>0, <2>1 DEF FreshDeployment
  <2> QED
    BY <2>2 DEF Active
<1>6. at' = at /\ UNCHANGED <<todo, request, environment>>
  BY <1>2 DEF control
<1>7. JobTyped' /\ Held' /\ OneActiveLifecycleJob' /\ EndedStay
  BY <1>0, <1>1, <1>3, <1>5, <1>6, InsertPreserves DEF LifecycleTypes, IdentityStates
<1>8. Placed' /\ TablesTyped'
  BY <1>1, <1>4, <1>6, <1>7, ReserveTyped DEF TablesTyped, Placed, LifecycleInv, Typed
<1>9. Typed'
  BY <1>2, <1>6, <1>8, ClusterKept, TypedStep DEF LifecycleInv
<1> QED
  BY <1>7, <1>9 DEF Preserves

LEMMA BeginRequestPreserves ==
  ASSUME LifecycleInv, NEW op, NEW d \in Deployments,
         BeginRequest(op, d) \/ BeginCleanup(op, d)
  PROVE  Preserves
<1>1. /\ op \in RequestOps \cup CleanupOps /\ Exists(d)
      /\ request' = [op |-> op, dep |-> d, status |-> dep[d].status, ip |-> dep[d].ip]
      /\ UNCHANGED <<tables, cluster, at, todo, environment>>
  BY DEF BeginRequest, BeginCleanup, MayStart
<1>2. dep[d] \in Row
  BY <1>1, ExistingRow DEF LifecycleInv, Typed
<1>3. RequestTyped'
  BY <1>1, <1>2 DEF RequestTyped, Row
<1>4. Placed'
  BY <1>1 DEF Placed, LifecycleInv, Typed
<1>5. Typed' /\ Unmoved
  BY <1>1, <1>3, <1>4, TablesKept, ClusterKept, TypedTogether
     DEF LifecycleInv, environment, Typed, TypeOK
<1> QED
  BY <1>1, <1>5, QuietPreserves

LEMMA RefuseRequestPreserves ==
  ASSUME LifecycleInv, RefuseRequest
  PROVE  Preserves
<1>1. request' = NoRequest /\ UNCHANGED <<tables, cluster, at, todo, environment>>
  BY DEF RefuseRequest
<1>2. Placed' /\ RequestTyped'
  BY <1>1 DEF Placed, RequestTyped, LifecycleInv, Typed
<1>3. Typed' /\ Unmoved
  BY <1>1, <1>2, TablesKept, ClusterKept, TypedTogether
     DEF LifecycleInv, environment, Typed, TypeOK
<1> QED
  BY <1>1, <1>3, QuietPreserves

LEMMA FinishRequestPreserves ==
  ASSUME LifecycleInv, FinishRequest
  PROVE  Preserves
<1> DEFINE d == request.dep
           op == request.op
           row == [dep[d] EXCEPT
                     !.status = IF request.status = "working" THEN @ ELSE "working",
                     !.origin = IF op = "configure" THEN @ ELSE ""]
<1>1. /\ request # NoRequest /\ ~Active(d) /\ Write(d, row) /\ request' = NoRequest
      /\ UNCHANGED <<cluster, at, todo, environment>>
  BY DEF FinishRequest
<1>2. d \in Deployments /\ op \in RequestOps /\ request.ip \in Ips \cup {NoIp}
  BY <1>1 DEF FinishRequest, LifecycleInv, Typed, TypeOK
<1>3. PICK j \in JobIds, i \in ContextIps(op, d) :
        /\ FreshJob(j)
        /\ Insert(j, JobType(op), d, IF op = "configure" THEN "accepted" ELSE "", i)
        /\ IF op = "rebuildCurrent" THEN Reserve(d, i) ELSE UNCHANGED alloc
  BY DEF FinishRequest
<1>4. Exists(d) => row \in Row
  <2> SUFFICES ASSUME Exists(d)
               PROVE  row \in Row
    OBVIOUS
  <2>1. dep[d] \in Row
    BY ExistingRow DEF LifecycleInv, Typed
  <2> QED
    BY <2>1 DEF Row
<1>5. DepTyped'
  BY <1>1, <1>4, WriteTyped DEF LifecycleInv, Typed
<1>6. i \in Ips \cup {NoIp} /\ JobType(op) \in LifecycleTypes
  BY <1>2, <1>3, AllocatedTyped DEF ContextIps, JobType, RequestOps, LifecycleTypes
<1>7. alloc' \in [Ips -> Deployments \cup {0}]
  BY <1>2, <1>3, ReserveTyped DEF LifecycleInv, Typed, TypeOK
<1> HIDE DEF d, op, row
<1>8. JobTyped' /\ Held' /\ OneActiveLifecycleJob' /\ EndedStay
  <2> DEFINE c == IF op = "configure" THEN "accepted" ELSE ""
  <2>1. c \in IdentityStates
    BY DEF IdentityStates
  <2> HIDE DEF c
  <2>2. Insert(j, JobType(op), d, c, i)
    BY <1>3 DEF c
  <2> QED
    BY <1>1, <1>2, <1>3, <1>6, <2>1, <2>2, InsertPreserves
<1>9. Placed' /\ TablesTyped' /\ RequestTyped'
  BY <1>1, <1>5, <1>7, <1>8 DEF TablesTyped, RequestTyped, Placed, LifecycleInv, Typed
<1>10. Typed'
  BY <1>1, <1>9, ClusterKept, TypedTogether DEF LifecycleInv, environment, Typed, TypeOK
<1> QED
  BY <1>8, <1>10 DEF Preserves

LEMMA CancelPreserves ==
  ASSUME LifecycleInv, NEW j \in JobIds, Cancel(j)
  PROVE  Preserves
<1>1. /\ job' = [job EXCEPT ![j].cancel = TRUE]
      /\ UNCHANGED <<dep, alloc, cluster, control, environment>>
  BY DEF Cancel
<1>2. job[j] \in JobRow
  BY DEF LifecycleInv, Typed, TypeOK
<1>3. JobTyped' /\ Unmoved
  <2>1. [job[j] EXCEPT !.cancel = TRUE] \in JobRow
    BY <1>2 DEF JobRow
  <2> QED
    BY <1>1, <1>2, <2>1 DEF JobTyped, JobRow, Unmoved, LifecycleInv, Typed, TypeOK
<1>4. at' = at /\ UNCHANGED <<todo, request, environment>>
  BY <1>1 DEF control
<1>5. Placed' /\ TablesTyped'
  BY <1>1, <1>3, <1>4 DEF TablesTyped, DepTyped, Placed, LifecycleInv, Typed, TypeOK
<1>6. Typed'
  BY <1>1, <1>4, <1>5, ClusterKept, TypedStep DEF LifecycleInv
<1> QED
  BY <1>3, <1>4, <1>6, QuietPreserves

LEMMA FinishCleanupPreserves ==
  ASSUME LifecycleInv, FinishCleanup
  PROVE  Preserves
<1>1. /\ DropRow(request.dep) /\ request' = NoRequest
      /\ UNCHANGED <<job, cluster, at, todo, environment>>
  BY DEF FinishCleanup
<1>2. Placed' /\ TablesTyped' /\ Unmoved /\ RequestTyped'
  BY <1>1, DropTyped
     DEF TablesTyped, JobTyped, Unmoved, Placed, RequestTyped, LifecycleInv, Typed, TypeOK
<1>3. Typed'
  BY <1>1, <1>2, ClusterKept, TypedTogether DEF LifecycleInv, environment, Typed, TypeOK
<1> QED
  BY <1>1, <1>2, <1>3, QuietPreserves

LEMMA ReconcilePreserves ==
  ASSUME LifecycleInv, NEW d \in Deployments, Reconcile(d)
  PROVE  Preserves
<1>1. Exists(d) /\ UNCHANGED <<alloc, cluster, control, environment>>
  BY DEF Reconcile, MayStart
<1>2. dep[d] \in Row
  BY <1>1, ExistingRow DEF LifecycleInv, Typed
<1> DEFINE row == IF dep[d].status = "cleanup_pending"
                    THEN [dep[d] EXCEPT !.status = "error", !.origin = ""] ELSE dep[d]
<1>3. PICK j \in JobIds :
        /\ \/ dep' = [dep EXCEPT ![d] = [row EXCEPT !.identity = "accepted"]]
           \/ dep' = [dep EXCEPT ![d] = row]
        /\ job' = [job EXCEPT ![j].create = "accepted"] \/ job' = job
  BY DEF Reconcile
<1>4. row \in Row /\ [row EXCEPT !.identity = "accepted"] \in Row
  BY <1>2 DEF Row, IdentityStates
<1> HIDE DEF row
<1>5. DepTyped'
  BY <1>3, <1>4 DEF DepTyped, LifecycleInv, Typed, TypeOK
<1>6. JobTyped' /\ Unmoved
  BY <1>3, CreateTyped DEF JobTyped, Unmoved, IdentityStates, LifecycleInv, Typed, TypeOK
<1>7. at' = at /\ UNCHANGED <<todo, request, environment>>
  BY <1>1 DEF control
<1>8. Placed' /\ TablesTyped'
  BY <1>1, <1>5, <1>6, <1>7 DEF TablesTyped, Placed, LifecycleInv, Typed, TypeOK
<1>9. Typed'
  BY <1>1, <1>7, <1>8, ClusterKept, TypedStep DEF LifecycleInv
<1> QED
  BY <1>6, <1>7, <1>9, QuietPreserves

LEMMA ToggleDisabledPreserves ==
  ASSUME LifecycleInv, ToggleDisabled
  PROVE  Preserves
<1>1. disabled' = ~disabled /\ UNCHANGED <<tables, cluster, control, crashes>>
  BY DEF ToggleDisabled
<1>2. disabled' \in BOOLEAN
  BY <1>1
<1>3. at' = at /\ Placed' /\ RequestTyped'
  BY <1>1 DEF control, Placed, RequestTyped, LifecycleInv, Typed, TypeOK
<1>4. Typed' /\ Unmoved
  BY <1>1, <1>2, <1>3, TablesKept, ClusterKept, TypedTogether
     DEF control, LifecycleInv, Typed, TypeOK
<1> QED
  BY <1>3, <1>4, QuietPreserves

--------------------------------------------------------------------------------
(* The theorems                                                               *)

LEMMA StepPreserves ==
  ASSUME LifecycleInv, Next
  PROVE  Preserves
<1>1. CASE ApiNext
  <2>1. CASE Deploy
    BY <2>1, DeployPreserves
  <2>2. CASE RefuseRequest
    BY <2>2, RefuseRequestPreserves
  <2>3. CASE FinishRequest
    BY <2>3, FinishRequestPreserves
  <2>4. CASE ToggleDisabled
    BY <2>4, ToggleDisabledPreserves
  <2>5. CASE FinishCleanup
    BY <2>5, FinishCleanupPreserves
  <2>6. CASE \E d \in Deployments : Reconcile(d)
    BY <2>6, ReconcilePreserves
  <2>7. CASE \E d \in Deployments : \/ \E op \in RequestOps : BeginRequest(op, d)
                                   \/ \E op \in CleanupOps : BeginCleanup(op, d)
    BY <2>7, BeginRequestPreserves
  <2>8. CASE \E j \in JobIds : Cancel(j)
    BY <2>8, CancelPreserves
  <2> QED
    BY <1>1, <2>1, <2>2, <2>3, <2>4, <2>5, <2>6, <2>7, <2>8 DEF ApiNext
<1>2. CASE WorkerNext
  <2>1. Typed /\ Held
    BY DEF LifecycleInv
  <2>2. CASE \E j \in JobIds : Claim(j)
    BY <2>1, <2>2, ClaimKeeps, KeepsPreserves
  <2>3. CASE Execute("worker") \/ ReconcileStep("worker")
    BY <2>1, <2>3, WorkerKeeps, KeepsPreserves DEF Actors
  <2>4. CASE \E d \in Deployments : RetryCleanup(d)
    BY <2>1, <2>4, RetryCleanupKeeps, KeepsPreserves
  <2>5. CASE Recover
    BY <2>1, <2>5, RecoverKeeps, KeepsPreserves
  <2>6. CASE RecoverNext
    BY <2>1, <2>6, RecoverNextKeeps, KeepsPreserves
  <2> QED
    BY <1>2, <2>2, <2>3, <2>4, <2>5, <2>6 DEF WorkerNext
<1>3. CASE WaiterNext
  <2>1. Typed /\ Held
    BY DEF LifecycleInv
  <2>2. CASE \E j \in JobIds : WaitCanceled(j) \/ WaitLost(j)
    BY <2>1, <2>2, WaitEndsKeeps, KeepsPreserves
  <2>3. CASE \E j \in JobIds : WaitTimeout(j)
    BY <2>1, <2>3, WaitTimeoutKeeps, KeepsPreserves
  <2>4. CASE \E j \in JobIds : Resume(j)
    BY <2>1, <2>4, ResumeKeeps, KeepsPreserves
  <2>5. CASE ResumedOk \/ ResumedAborts
    BY <2>1, <2>5, ResumedEndsKeeps, KeepsPreserves
  <2>6. CASE ReconcileStep("waiter")
    BY <2>1, <2>6, WorkerKeeps, KeepsPreserves DEF Actors
  <2> QED
    BY <1>3, <2>2, <2>3, <2>4, <2>5, <2>6 DEF WaiterNext, Wait
<1>4. CASE ClusterNext
  BY <1>4, ClusterKeeps, KeepsPreserves DEF LifecycleInv
<1>5. CASE Crash
  BY <1>5, CrashKeeps, KeepsPreserves DEF LifecycleInv
<1> QED
  BY <1>1, <1>2, <1>3, <1>4, <1>5 DEF Next

LEMMA InitInv ==
  ASSUME Init
  PROVE  LifecycleInv
<1>1. \A a \in Actors : at[a] = Idle
  BY DEF Init
<1>2. Typed
  <2>1. Placed
    BY IdlePlaced DEF Init, Placed
  <2>2. job \in [JobIds -> JobRow]
    BY DEF Init, Unused, JobRow, LifecycleTypes, IdentityStates
  <2>3. at \in [Actors -> Local]
    BY IdlePlaced DEF Init
  <2>4. crashes \in 0..MaxCrashes
    BY ConstantsTyped DEF ConstantsTyped, Init
  <2> QED
    BY <2>1, <2>2, <2>3, <2>4 DEF Init, Typed, TypeOK
<1>3. Held
  BY <1>1, IdlePlaced DEF Held, Actors, ExecPlaces, ReconcilePlaces
<1>4. OneActiveLifecycleJob
  BY DEF OneActiveLifecycleJob, Init, Unused, JobActive, ActiveStatuses
<1> QED
  BY <1>2, <1>3, <1>4 DEF LifecycleInv

LEMMA StutterInv ==
  ASSUME LifecycleInv, UNCHANGED vars
  PROVE  LifecycleInv' /\ EndedStay
BY DEF vars, LifecycleInv, Typed, TypeOK, Placed, Held, OneActiveLifecycleJob, JobActive,
       EndedStay

\* The inductive invariant.
THEOREM LifecycleInvariant == Spec => []LifecycleInv
<1>1. LifecycleInv /\ [Next]_vars => LifecycleInv'
  BY StepPreserves, StutterInv DEF Preserves, LifecycleInv
<1> QED
  BY <1>1, InitInv, PTL DEF Spec

\* Every table, the cluster and every local variable of the two threads keep their types:
\* in particular an executing thread names a job, and one that talks to the cluster about
\* a VM or a task has chosen that VM and submitted that task.
THEOREM LifecycleTyped == Spec => []TypeOK
<1>1. LifecycleInv => TypeOK
  BY DEF LifecycleInv, Typed
<1> QED
  BY <1>1, LifecycleInvariant, PTL

\* "One in-flight lifecycle job per VM" (api.py:1272), whatever the number of deployments,
\* jobs, VM ids and addresses, the operations, the faults and the restarts.
THEOREM OneActiveJob == Spec => []OneActiveLifecycleJob
<1>1. LifecycleInv => OneActiveLifecycleJob
  BY DEF LifecycleInv
<1> QED
  BY <1>1, LifecycleInvariant, PTL

\* The worker, the waiting thread, restarts and the API never reopen a job that has ended
\* nor change how it ended.
THEOREM EndedJobsStay == Spec => EndedJobsStayEnded
<1>1. LifecycleInv /\ [Next]_vars => [EndedStay]_vars
  BY StepPreserves, StutterInv DEF Preserves
<1>2. [EndedStay]_vars
      => [\A j \in JobIds : job[j].status \in Terminal => job'[j].status = job[j].status]_vars
  BY DEF EndedStay
<1> QED
  BY <1>1, <1>2, LifecycleInvariant, PTL DEF Spec, EndedJobsStayEnded
================================================================================
