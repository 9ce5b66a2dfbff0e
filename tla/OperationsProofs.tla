--------------------------- MODULE OperationsProofs ----------------------------
(* What requests and threads that interleave may not do to each other: the      *)
(* short operations on one VM, and the threads and cleaners of the job table.   *)
EXTENDS VmOperations, JobHistory, StorageProofs, SequenceTheorems, FiniteSetTheorems, TLAPS

--------------------------------------------------------------------------------
(* VmOperations, for any requests, VM ids and sizes, and tasks that outlive the *)
(* wait for them: an operation has the VM of its row to itself from its check   *)
(* to its commit, and what it commits is what the VM is.                        *)
(*                                                                              *)
(* The first rests on the lock: a request past its check holds it, and a job is *)
(* admitted only when it is free.  The second rests on the order of tasks: the  *)
(* task of the request that waits is the last of all, so that nothing is left   *)
(* to run between its end and the commit, whatever ran before it.               *)

Held == {"check", "look", "call", "await", "boot", "done"}
Busy == {"look", "call", "await", "boot", "done"}
Holding ==
  \A r \in Requests :
    /\ call[r].pc \in Held => lock = r
    /\ call[r].pc \in Busy => call[r].vmid \in Vms
    /\ At(r, "boot") => call[r].op = "rollback"

\* A task that is waited for is the last one, and its request waits.
LastAwaited ==
  \A i \in DOMAIN tasks :
    tasks[i].by # Free => i = Len(tasks) /\ At(tasks[i].by, "await")

\* The request waits for what it asked for, or for the start that follows a rollback.
Awaits(r) ==
  LET t == tasks[Len(tasks)] IN
  /\ tasks # <<>>
  /\ t.by = r /\ t.vmid = call[r].vmid /\ t.size = call[r].size
  /\ t.kind = call[r].op \/ call[r].op = "rollback"
AwaitedThere == \A r \in Requests : At(r, "await") => Awaits(r)

\* What is done has been done to the VM, and no other task is left.
Done(r) ==
  LET m == vm[call[r].vmid] IN
  /\ call[r].op \in {"start", "stop", "resize", "grow"} => tasks = <<>>
  /\ call[r].op = "start" => m.on
  /\ call[r].op = "stop" => ~m.on
  /\ call[r].op = "resize" => m.size = call[r].size /\ (m.on \/ ~m.pending)
  /\ call[r].op = "grow" => m.disk = call[r].size
DoneIsSo == \A r \in Requests : At(r, "done") => Done(r)

OperationsInv ==
  /\ OperationsTypeOK /\ Holding /\ OperatesOnOwnVm
  /\ LastAwaited /\ AwaitedThere /\ DoneIsSo

DepRow == [there : BOOLEAN, vmid : Vms \cup {NoVm}, size : Sizes \cup {0}, disk : Sizes \cup {0},
           status : {"none", "running", "stopped", "working", "error", "cleanup_pending"}]
Machine == [there : BOOLEAN, on : BOOLEAN, size : Sizes \cup {0}, disk : Sizes \cup {0},
            pending : BOOLEAN]
PveTask == [kind : TaskOps \cup ConfigOps, vmid : Vms, size : Sizes, by : Requests \cup {Free}]
Going == [op : TaskOps \cup ConfigOps, pc : {"wait", "check", "look", "call", "await", "boot", "done"},
          vmid : Vms \cup {NoVm}, size : Sizes]

LEMMA Shape ==
  OperationsTypeOK <=>
    /\ dep \in DepRow /\ job \in JobTypes \cup {"none"} /\ lock \in Requests \cup {Free}
    /\ vm \in [Vms -> Machine] /\ tasks \in Seq(PveTask)
    /\ call \in [Requests -> {NoCall} \cup Going]
    /\ counted \in [ops : 0..MaxOps, jobs : 0..MaxJobs]
BY DEF OperationsTypeOK, DepRow, Machine, PveTask, Going

LEMMA NextShape ==
  OperationsTypeOK' <=>
    /\ dep' \in DepRow /\ job' \in JobTypes \cup {"none"} /\ lock' \in Requests \cup {Free}
    /\ vm' \in [Vms -> Machine] /\ tasks' \in Seq(PveTask)
    /\ call' \in [Requests -> {NoCall} \cup Going]
    /\ counted' \in [ops : 0..MaxOps, jobs : 0..MaxJobs]
BY DEF OperationsTypeOK, DepRow, Machine, PveTask, Going

LEMMA NoCallIdle == NoCall.pc = "idle" /\ NoCall \notin Going
BY DEF NoCall, Going

\* A request at a place other than idle has its variables.
LEMMA GoingOn ==
  ASSUME OperationsTypeOK, NEW r \in Requests, call[r].pc # "idle"
  PROVE  call[r] \in Going
BY Shape, NoCallIdle

\* What a handler's step leaves to the others
LEMMA OthersStay ==
  ASSUME OperationsTypeOK, NEW r \in Requests, NEW record, call' = [call EXCEPT ![r] = record]
  PROVE  call'[r] = record /\ \A q \in Requests \ {r} : call'[q] = call[q]
BY DEF OperationsTypeOK

LEMMA MovedOn ==
  ASSUME OperationsTypeOK, NEW r \in Requests, NEW pc, To(r, pc), call[r] \in Going
  PROVE  /\ call'[r].pc = pc /\ call'[r].op = call[r].op
         /\ call'[r].vmid = call[r].vmid /\ call'[r].size = call[r].size
         /\ \A q \in Requests \ {r} : call'[q] = call[q]
BY DEF OperationsTypeOK, To, Going

LEMMA MovedTyped ==
  ASSUME OperationsTypeOK, NEW r \in Requests, call[r] \in Going,
         NEW pc \in {"wait", "check", "look", "call", "await", "boot", "done"}, To(r, pc)
  PROVE  call' \in [Requests -> {NoCall} \cup Going]
<1>1. [call[r] EXCEPT !.pc = pc] \in Going
  BY DEF Going
<1> QED
  BY <1>1, Shape DEF To

\* Only one request is past its check.
LEMMA Alone ==
  ASSUME Holding, NEW r \in Requests, call[r].pc \in Held, NEW q \in Requests, call[q].pc \in Held
  PROVE  q = r
BY DEF Holding

\* A step of a request that did not wait for a task
LEMMA AwaitersStay ==
  ASSUME OperationsTypeOK, LastAwaited, UNCHANGED tasks, NEW r \in Requests, ~At(r, "await"),
         \A q \in Requests \ {r} : call'[q] = call[q]
  PROVE  LastAwaited'
<1> SUFFICES ASSUME NEW i \in DOMAIN tasks, tasks[i].by # Free
             PROVE  i = Len(tasks) /\ call'[tasks[i].by].pc = "await"
  BY DEF LastAwaited, At
<1>1. i = Len(tasks) /\ call[tasks[i].by].pc = "await"
  BY DEF LastAwaited, At
<1>2. tasks[i].by \in Requests
  <2>1. tasks \in Seq(PveTask)
    BY Shape
  <2>2. tasks[i] \in PveTask
    BY <2>1
  <2> QED
    BY <2>2 DEF PveTask
<1> QED
  BY <1>1, <1>2 DEF At

LEMMA WaitersStay ==
  ASSUME AwaitedThere, DoneIsSo, UNCHANGED <<tasks, vm>>, NEW r \in Requests,
         call'[r].pc \notin {"await", "done"}, \A q \in Requests \ {r} : call'[q] = call[q]
  PROVE  AwaitedThere' /\ DoneIsSo'
<1>1. ASSUME NEW q \in Requests, At(q, "await")' PROVE Awaits(q)'
  BY <1>1 DEF AwaitedThere, Awaits, At
<1>2. ASSUME NEW q \in Requests, At(q, "done")' PROVE Done(q)'
  BY <1>2 DEF DoneIsSo, Done, At
<1> QED
  BY <1>1, <1>2 DEF AwaitedThere, DoneIsSo

LEMMA InitOperationsInv == OperationsInit => OperationsInv
<1> SUFFICES ASSUME OperationsInit PROVE OperationsInv
  OBVIOUS
<1>1. tasks = <<>> /\ \A r \in Requests : call[r].pc = "idle"
  BY NoCallIdle DEF OperationsInit
<1>2. OperationsTypeOK
  <2> DEFINE v == CHOOSE w \in Vms : TRUE
             n == CHOOSE k \in Sizes : TRUE
  <2>1. v \in Vms /\ n \in Sizes
    BY SomeVm
  <2>2. Created(n, n) \in Machine /\ Gone \in Machine
    BY <2>1 DEF Created, Gone, Machine
  <2>3. vm \in [Vms -> Machine]
    BY <2>2 DEF OperationsInit
  <2>4. dep \in DepRow
    BY <2>1 DEF OperationsInit, DepRow
  <2>5. counted \in [ops : 0..MaxOps, jobs : 0..MaxJobs]
    BY BoundsNat DEF OperationsInit
  <2> QED
    BY <2>3, <2>4, <2>5, Shape DEF OperationsInit
<1> QED
  BY <1>1, <1>2 DEF OperationsInv, Holding, Held, Busy, OperatesOnOwnVm, LastAwaited, AwaitedThere, DoneIsSo, At

(* Steps before the call *)

LEMMA AskKeeps ==
  ASSUME OperationsInv, NEW r \in Requests, NEW op \in TaskOps \cup ConfigOps, NEW n \in Sizes, Ask(r, op, n)
  PROVE  OperationsInv'
<1> USE DEF OperationsInv
<1> DEFINE record == [op |-> op, pc |-> "wait", vmid |-> NoVm, size |-> n]
<1>1. call'[r] = record /\ \A q \in Requests \ {r} : call'[q] = call[q]
  BY OthersStay DEF Ask
<1>2. record \in Going
  BY DEF Going
<1>3. OperationsTypeOK'
  <2>1. call' \in [Requests -> {NoCall} \cup Going]
    BY <1>2, Shape DEF Ask
  <2>2. counted' \in [ops : 0..MaxOps, jobs : 0..MaxJobs]
    BY BoundsNat DEF Ask, OperationsTypeOK
  <2> QED
    BY <2>1, <2>2, Shape DEF Ask, OperationsTypeOK, Going
<1>4. At(r, "idle") /\ call'[r].pc = "wait"
  BY <1>1 DEF Ask
<1>5. Holding' /\ OperatesOnOwnVm'
  BY <1>1, <1>4 DEF Ask, At, Holding, Held, Busy, OperatesOnOwnVm
<1>6. LastAwaited'
  BY <1>1, AwaitersStay DEF Ask, At
<1>7. AwaitedThere' /\ DoneIsSo'
  BY <1>1, <1>4, WaitersStay DEF Ask
<1> QED
  BY <1>3, <1>5, <1>6, <1>7

LEMMA LockKeeps == ASSUME OperationsInv, NEW r \in Requests, Lock(r) PROVE OperationsInv'
<1> USE DEF OperationsInv
<1>1. call[r] \in Going /\ call[r].pc = "wait"
  BY GoingOn DEF Lock, At
<1>2. To(r, "check")
  BY DEF Lock
<1>3. OperationsTypeOK'
  BY <1>1, <1>2, MovedTyped, Shape, NextShape DEF Lock
<1>4. call'[r].pc = "check" /\ \A q \in Requests \ {r} : call'[q] = call[q]
  BY <1>1, <1>2, MovedOn
<1>5. \A q \in Requests : call[q].pc \notin Held
  BY FreeIsNoRequest DEF Lock, Holding
<1>6. Holding' /\ OperatesOnOwnVm'
  BY <1>4, <1>5 DEF Lock, At, Holding, Held, Busy, OperatesOnOwnVm
<1>7. LastAwaited'
  BY <1>1, <1>4, AwaitersStay DEF Lock, At
<1>8. AwaitedThere' /\ DoneIsSo'
  BY <1>4, WaitersStay DEF Lock
<1> QED
  BY <1>3, <1>6, <1>7, <1>8

LEMMA CheckKeeps == ASSUME OperationsInv, NEW r \in Requests, Check(r) PROVE OperationsInv'
<1> USE DEF OperationsInv
<1> DEFINE record == [call[r] EXCEPT !.pc = IF call[r].op \in ConfigOps THEN "look" ELSE "call",
                              !.vmid = dep.vmid]
<1>1. call[r] \in Going /\ call[r].pc = "check"
  BY GoingOn DEF Check, At
<1>2. job = "none" /\ dep.there /\ dep.vmid \in Vms
  BY DEF Check, Quiescent, OperationsTypeOK
<1>3. record \in Going /\ record.pc \in {"look", "call"} /\ record.vmid = dep.vmid
  BY <1>1, <1>2 DEF Going
<1>4. call'[r] = record /\ \A q \in Requests \ {r} : call'[q] = call[q]
  <2>1. call' = [call EXCEPT ![r] = record]
    BY DEF Check
  <2> QED
    BY <2>1, OthersStay
<1>5. OperationsTypeOK'
  <2>1. call' \in [Requests -> {NoCall} \cup Going]
    BY <1>3, Shape DEF Check
  <2> QED
    BY <2>1, Shape, NextShape DEF Check
<1>6. \A q \in Requests \ {r} : call[q].pc \notin Held
  BY <1>1, Alone DEF Held
<1>7. Holding' /\ OperatesOnOwnVm'
  <2>1. Holding'
    <3>1. call'[r].vmid \in Vms /\ call'[r].pc # "boot" /\ lock' = r
      BY <1>1, <1>2, <1>3, <1>4 DEF Check, Holding, Held
    <3>2. \A q \in Requests \ {r} : call'[q].pc \notin Held /\ call'[q].pc # "boot"
      BY <1>4, <1>6 DEF Held
    <3> QED
      BY <3>1, <3>2 DEF At, Holding, Held, Busy
  <2>2. OperatesOnOwnVm'
    BY <1>2, <1>3, <1>4, <1>6 DEF Check, OperatesOnOwnVm, Held
  <2> QED
    BY <2>1, <2>2
<1>8. LastAwaited'
  BY <1>1, <1>4, AwaitersStay DEF Check, At
<1>9. AwaitedThere' /\ DoneIsSo'
  <2>1. call'[r].pc \in {"look", "call"}
    BY <1>3, <1>4
  <2> QED
    BY <1>4, <2>1, WaitersStay DEF Check
<1> QED
  BY <1>5, <1>7, <1>8, <1>9

(* Steps that end an operation *)

LEMMA EndedRequest ==
  ASSUME OperationsInv, NEW r \in Requests, Ended(r)
  PROVE  /\ call'[r] = NoCall /\ \A q \in Requests \ {r} : call'[q] = call[q]
         /\ call' \in [Requests -> {NoCall} \cup Going] /\ lock' \in Requests \cup {Free}
         /\ Holding'
<1> USE DEF OperationsInv
<1>1. call'[r] = NoCall /\ \A q \in Requests \ {r} : call'[q] = call[q]
  BY OthersStay DEF Ended
<1>2. call' \in [Requests -> {NoCall} \cup Going] /\ lock' \in Requests \cup {Free}
  BY Shape DEF Ended
<1>3. Holding'
  BY <1>1, NoCallIdle, FreeIsNoRequest DEF Ended, At, Holding, Held, Busy
<1> QED
  BY <1>1, <1>2, <1>3

\* Nobody waits any longer for the tasks of a request that ends.
Released(r) == [i \in DOMAIN tasks |-> IF tasks[i].by = r THEN [tasks[i] EXCEPT !.by = Free] ELSE tasks[i]]

LEMMA ReleasedTasks ==
  ASSUME OperationsInv, NEW r \in Requests
  PROVE  /\ Released(r) \in Seq(PveTask) /\ Len(Released(r)) = Len(tasks)
         /\ DOMAIN Released(r) = DOMAIN tasks
         /\ \A i \in DOMAIN tasks : Released(r)[i].by \in (Requests \cup {Free}) \ {r}
         /\ \A i \in DOMAIN tasks : tasks[i].by # r => Released(r)[i] = tasks[i]
<1>1. tasks \in Seq(PveTask)
  BY Shape DEF OperationsInv
<1>2. \A i \in DOMAIN tasks : tasks[i] \in PveTask
  BY <1>1
<1>3. \A i \in DOMAIN tasks : Released(r)[i] \in PveTask /\ Released(r)[i].by # r
  BY <1>2, FreeIsNoRequest DEF Released, PveTask
<1>4. DOMAIN Released(r) = 1..Len(tasks) /\ Len(tasks) \in Nat
  BY <1>1 DEF Released
<1>5. Released(r) \in [1..Len(tasks) -> PveTask]
  BY <1>3, <1>4 DEF Released
<1>6. Released(r) \in Seq(PveTask)
  BY <1>4, <1>5
<1>7. Len(Released(r)) = Len(tasks)
  BY <1>4, <1>6
<1> QED
  BY <1>1, <1>3, <1>4, <1>6, <1>7 DEF Released, PveTask

\* An operation that ends without a commit leaves its task to run, or nothing.
LEMMA EndsWithout ==
  ASSUME OperationsInv, NEW r \in Requests, Ended(r), call[r].pc \in Held \cup {"wait"},
         tasks' = Released(r) \/ (At(r, "await") /\ tasks' = SubSeq(tasks, 1, Len(tasks) - 1)),
         UNCHANGED <<dep, job, vm, counted>>
  PROVE  OperationsInv'
<1> USE DEF OperationsInv
<1>0. /\ call'[r] = NoCall /\ \A q \in Requests \ {r} : call'[q] = call[q]
      /\ Holding'
  BY EndedRequest
<1>1. tasks \in Seq(PveTask) /\ Len(tasks) \in Nat
  BY Shape
<1>2. CASE tasks' = Released(r)
  <2>1. OperationsTypeOK'
    BY <1>2, EndedRequest, ReleasedTasks, Shape, NextShape
  <2>2. OperatesOnOwnVm'
    BY <1>0, NoCallIdle DEF OperatesOnOwnVm
  <2>3. LastAwaited'
    BY <1>0, <1>1, <1>2, ReleasedTasks DEF LastAwaited, At, Released, PveTask
  <2>4. AwaitedThere'
    <3> SUFFICES ASSUME NEW q \in Requests, At(q, "await")' PROVE Awaits(q)'
      BY DEF AwaitedThere
    <3>1. q # r /\ call'[q] = call[q] /\ Awaits(q)
      BY <1>0, NoCallIdle DEF At, AwaitedThere
    <3>2. Len(tasks) \in DOMAIN tasks /\ tasks # <<>>
      BY <1>1, <3>1 DEF Awaits
    <3>3. tasks'[Len(tasks)] = tasks[Len(tasks)] /\ Len(tasks') = Len(tasks)
      BY <1>2, <3>1, <3>2, ReleasedTasks DEF Awaits
    <3>4. tasks' # <<>>
      BY <1>1, <3>2, <3>3
    <3> QED
      BY <3>1, <3>3, <3>4 DEF Awaits
  <2>5. DoneIsSo'
    <3> SUFFICES ASSUME NEW q \in Requests, At(q, "done")' PROVE Done(q)'
      BY DEF DoneIsSo
    <3>1. call'[q] = call[q] /\ Done(q)
      BY <1>0, NoCallIdle DEF At, DoneIsSo
    <3>2. tasks = <<>> => tasks' = <<>>
      BY <1>1, <1>2, ReleasedTasks
    <3> QED
      BY <3>1, <3>2 DEF Done
  <2> QED
    BY <1>0, <2>1, <2>2, <2>3, <2>4, <2>5
<1>3. CASE At(r, "await") /\ tasks' = SubSeq(tasks, 1, Len(tasks) - 1)
  <2>1. tasks # <<>> /\ tasks[Len(tasks)].by = r
    BY <1>3 DEF AwaitedThere, Awaits
  <2>2. /\ tasks' \in Seq(PveTask) /\ Len(tasks') = Len(tasks) - 1
        /\ \A i \in DOMAIN tasks' : i \in DOMAIN tasks /\ i < Len(tasks) /\ tasks'[i] = tasks[i]
    <3>1. Len(tasks) >= 1
      BY <1>1, <2>1
    <3>2. \A i \in 1 .. (Len(tasks) - 1) : tasks[i] \in PveTask
      BY <1>1
    <3>3. /\ tasks' \in Seq(PveTask)
          /\ Len(tasks') = IF 1 <= Len(tasks) - 1 THEN (Len(tasks) - 1) - 1 + 1 ELSE 0
          /\ \A i \in 1 .. ((Len(tasks) - 1) - 1 + 1) : tasks'[i] = tasks[1 + i - 1]
      BY <1>1, <1>3, <3>2, SubSeqProperties
    <3>4. Len(tasks') = Len(tasks) - 1
      <4> DEFINE n == Len(tasks)
      <4>1. n \in Nat /\ n >= 1
        BY <1>1, <3>1
      <4>2. Len(tasks') = IF 1 <= n - 1 THEN (n - 1) - 1 + 1 ELSE 0
        BY <3>3
      <4> HIDE DEF n
      <4>3. Len(tasks') = n - 1
        BY <4>1, <4>2
      <4> QED
        BY <4>3 DEF n
    <3>5. \A i \in 1 .. (Len(tasks) - 1) : tasks'[i] = tasks[i]
      BY <1>1, <3>1, <3>3
    <3> QED
      BY <1>1, <3>1, <3>3, <3>4, <3>5
  <2>3. OperationsTypeOK'
    BY <2>2, EndedRequest, Shape, NextShape
  <2>4. OperatesOnOwnVm'
    BY <1>0, NoCallIdle DEF OperatesOnOwnVm
  <2>5. \A q \in Requests \ {r} : call[q].pc \notin Held
    BY <1>3, Alone DEF Held, At
  <2>6. LastAwaited'
    BY <1>1, <2>2 DEF LastAwaited
  <2>7. AwaitedThere' /\ DoneIsSo'
    BY <1>0, <2>5, NoCallIdle DEF AwaitedThere, DoneIsSo, At, Held
  <2> QED
    BY <1>0, <2>3, <2>4, <2>6, <2>7
<1> QED
  BY <1>2, <1>3

LEMMA RefuseKeeps == ASSUME OperationsInv, NEW r \in Requests, Refuse(r) PROVE OperationsInv'
<1>1. call[r] \in Going
  BY GoingOn DEF Refuse, OperationsInv
<1>2. call[r].pc \in Held \cup {"wait"}
  BY <1>1 DEF Going, Held
<1>3. Ended(r) /\ tasks' = Released(r) /\ UNCHANGED <<dep, job, vm, counted>>
  BY DEF Refuse, Released
<1> QED
  BY <1>2, <1>3, EndsWithout

LEMMA WaitTimesOutKeeps == ASSUME OperationsInv, NEW r \in Requests, WaitTimesOut(r) PROVE OperationsInv'
<1>1. Ended(r) /\ UNCHANGED <<dep, job, vm, counted>>
  BY DEF WaitTimesOut, TimedOut
<1>2. At(r, "await") /\ call[r].pc \in Held \cup {"wait"}
  BY DEF WaitTimesOut, At, Held
<1>3. tasks' = Released(r) \/ tasks' = SubSeq(tasks, 1, Len(tasks) - 1)
  BY DEF WaitTimesOut, Released
<1> QED
  BY <1>1, <1>2, <1>3, EndsWithout

LEMMA TaskFailsKeeps == OperationsInv /\ TaskFails => OperationsInv'
<1> SUFFICES ASSUME OperationsInv, TaskFails PROVE OperationsInv'
  OBVIOUS
<1> USE DEF OperationsInv
<1>1. tasks \in Seq(PveTask) /\ tasks # <<>> /\ Head(tasks) = tasks[1] /\ Head(tasks) \in PveTask
  BY Shape DEF TaskFails
<1>2. tasks' = Tail(tasks) /\ UNCHANGED <<dep, job, vm, counted>>
  BY DEF TaskFails
<1>3. /\ tasks' \in Seq(PveTask) /\ Len(tasks') = Len(tasks) - 1 /\ Len(tasks) \in Nat
      /\ \A i \in DOMAIN tasks' : i + 1 \in DOMAIN tasks /\ tasks'[i] = tasks[i + 1]
  BY <1>1, <1>2
<1>4. CASE Head(tasks).by = Free
  <2>1. UNCHANGED <<call, lock>>
    BY <1>4 DEF TaskFails
  <2>2. OperationsTypeOK' /\ Holding' /\ OperatesOnOwnVm'
    BY <1>2, <1>3, <2>1, Shape, NextShape DEF At, Holding, OperatesOnOwnVm
  <2>3. LastAwaited'
    BY <1>3, <2>1 DEF LastAwaited, At
  <2>4. AwaitedThere'
    <3> SUFFICES ASSUME NEW q \in Requests, At(q, "await") PROVE Awaits(q)'
      BY <2>1 DEF AwaitedThere, At
    <3>1. Awaits(q)
      BY DEF AwaitedThere
    <3>2. Len(tasks) # 1
      BY <1>1, <1>4, <3>1, FreeIsNoRequest DEF Awaits
    <3>3. tasks' # <<>> /\ tasks'[Len(tasks')] = tasks[Len(tasks)]
      BY <1>1, <1>3, <3>2
    <3> QED
      BY <2>1, <3>1, <3>3 DEF Awaits
  <2>5. DoneIsSo'
    BY <1>1, <1>2, <2>1 DEF DoneIsSo, Done, At
  <2> QED
    BY <2>2, <2>3, <2>4, <2>5
<1>5. CASE Head(tasks).by # Free
  <2> DEFINE r == Head(tasks).by
  <2>1. r \in Requests /\ Ended(r)
    BY <1>1, <1>5 DEF TaskFails, PveTask
  <2>2. At(r, "await") /\ Len(tasks) = 1
    <3>1. 1 \in DOMAIN tasks /\ tasks[1].by # Free
      BY <1>1, <1>5
    <3>2. 1 = Len(tasks) /\ At(tasks[1].by, "await")
      BY <3>1 DEF LastAwaited
    <3> QED
      BY <1>1, <3>2
  <2>3. tasks' = SubSeq(tasks, 1, Len(tasks) - 1)
    <3>1. tasks' = <<>>
      BY <1>3, <2>2
    <3>2. SubSeq(tasks, 1, 0) = <<>>
      BY SubSeqEmpty
    <3> QED
      BY <2>2, <3>1, <3>2
  <2>4. call[r].pc \in Held \cup {"wait"}
    BY <2>2 DEF At, Held
  <2> QED
    BY <1>2, <2>1, <2>2, <2>3, <2>4, EndsWithout
<1> QED
  BY <1>4, <1>5

(* Steps of an operation under way *)

\* A task is submitted for a request that waits for none: those that are left run
\* for nobody, so that the new one is the only one that is waited for, and the last.
LEMMA SubmittedKeeps ==
  ASSUME OperationsInv, NEW r \in Requests, call[r].pc \in {"call", "boot"}, To(r, "await"),
         NEW kind \in TaskOps \cup ConfigOps, Started(r, kind),
         kind = call[r].op \/ call[r].op = "rollback",
         UNCHANGED <<dep, job, lock, vm, counted>>
  PROVE  OperationsInv'
<1> USE DEF OperationsInv
<1> DEFINE t == [kind |-> kind, vmid |-> call[r].vmid, size |-> call[r].size, by |-> r]
<1>1. call[r] \in Going
  BY GoingOn
<1>2. /\ call'[r].pc = "await" /\ call'[r].op = call[r].op
      /\ call'[r].vmid = call[r].vmid /\ call'[r].size = call[r].size
      /\ \A q \in Requests \ {r} : call'[q] = call[q]
  BY <1>1, MovedOn
<1>3. call[r].vmid \in Vms /\ lock = r
  BY DEF Holding, Busy, Held
<1>4. t \in PveTask
  BY <1>1, <1>3 DEF PveTask, Going
<1>5. tasks \in Seq(PveTask) /\ tasks' = Append(tasks, t)
  BY Shape DEF Started
<1>6. /\ tasks' \in Seq(PveTask) /\ Len(tasks) \in Nat /\ Len(tasks') = Len(tasks) + 1
      /\ tasks'[Len(tasks')] = t
      /\ \A i \in DOMAIN tasks' : i # Len(tasks') => i \in DOMAIN tasks /\ tasks'[i] = tasks[i]
  BY <1>4, <1>5
<1>7. \A q \in Requests \ {r} : call[q].pc \notin Held
  BY Alone DEF Held
<1>8. \A i \in DOMAIN tasks : tasks[i].by = Free
  <2> SUFFICES ASSUME NEW i \in DOMAIN tasks, tasks[i].by # Free PROVE FALSE
    OBVIOUS
  <2>1. tasks[i].by \in Requests /\ call[tasks[i].by].pc = "await"
    <3>1. tasks[i] \in PveTask
      BY <1>5
    <3> QED
      BY <3>1 DEF LastAwaited, At, PveTask
  <2> QED
    BY <1>7, <2>1 DEF Held
<1>9. OperationsTypeOK'
  BY <1>1, <1>6, MovedTyped, Shape, NextShape
<1>10. Holding' /\ OperatesOnOwnVm'
  <2>1. Holding'
    BY <1>2, <1>3, <1>7 DEF At, Holding, Held, Busy
  <2>2. OperatesOnOwnVm'
    BY <1>2, <1>7 DEF OperatesOnOwnVm, Held
  <2> QED
    BY <2>1, <2>2
<1>11. LastAwaited'
  BY <1>2, <1>6, <1>8 DEF LastAwaited, At
<1>12. AwaitedThere'
  <2> SUFFICES ASSUME NEW q \in Requests, At(q, "await")' PROVE Awaits(q)'
    BY DEF AwaitedThere
  <2>1. q = r
    BY <1>2, <1>7 DEF At, Held
  <2>2. tasks' # <<>>
    BY <1>6
  <2>3. /\ t.by = r /\ t.vmid = call'[r].vmid /\ t.size = call'[r].size
        /\ t.kind = call'[r].op \/ call'[r].op = "rollback"
    BY <1>2
  <2> QED
    BY <1>6, <2>1, <2>2, <2>3 DEF Awaits
<1>13. DoneIsSo'
  BY <1>2, <1>7 DEF DoneIsSo, At, Held
<1> QED
  BY <1>9, <1>10, <1>11, <1>12, <1>13

\* What was asked for is done, and no task has to be waited for.
LEMMA DoneAtOnce ==
  ASSUME OperationsInv, NEW r \in Requests, call[r].pc \in {"look", "boot"}, To(r, "done"),
         call[r].op \in {"serial", "rollback"}, UNCHANGED <<dep, job, lock, vm, tasks, counted>>
  PROVE  OperationsInv'
<1> USE DEF OperationsInv
<1>1. call[r] \in Going
  BY GoingOn
<1>2. /\ call'[r].pc = "done" /\ call'[r].op = call[r].op /\ call'[r].vmid = call[r].vmid
      /\ \A q \in Requests \ {r} : call'[q] = call[q]
  BY <1>1, MovedOn
<1>3. lock = r /\ call[r].vmid \in Vms /\ \A q \in Requests \ {r} : call[q].pc \notin Held
  BY Alone DEF Holding, Held, Busy
<1>4. OperationsTypeOK'
  BY <1>1, MovedTyped, Shape, NextShape
<1>5. Holding'
  BY <1>2, <1>3 DEF At, Holding, Held, Busy
<1>6. OperatesOnOwnVm'
  BY <1>2, <1>3 DEF OperatesOnOwnVm, Held
<1>7. LastAwaited'
  BY <1>2, AwaitersStay DEF At
<1>8. AwaitedThere'
  BY <1>2, <1>3 DEF AwaitedThere, At, Held
<1>9. DoneIsSo'
  BY <1>2, <1>3 DEF DoneIsSo, Done, At, Held
<1> QED
  BY <1>4, <1>5, <1>6, <1>7, <1>8, <1>9

LEMMA InspectKeeps == ASSUME OperationsInv, NEW r \in Requests, Inspect(r) PROVE OperationsInv'
<1> USE DEF OperationsInv
<1>1. call[r].pc = "look" /\ call[r] \in Going /\ UNCHANGED <<dep, job, lock, vm, tasks, counted>>
  BY GoingOn DEF Inspect, At
<1>2. CASE call[r].op = "serial" /\ To(r, "done")
  BY <1>1, <1>2, DoneAtOnce
<1>3. CASE To(r, "call")
  <2>1. /\ call'[r].pc = "call" /\ call'[r].vmid = call[r].vmid
        /\ \A q \in Requests \ {r} : call'[q] = call[q]
    BY <1>1, <1>3, MovedOn
  <2>2. lock = r /\ call[r].vmid \in Vms /\ \A q \in Requests \ {r} : call[q].pc \notin Held
    BY <1>1, Alone DEF Holding, Held, Busy
  <2>3. OperationsTypeOK'
    BY <1>1, <1>3, MovedTyped, Shape, NextShape
  <2>4. Holding'
    BY <1>1, <2>1, <2>2 DEF At, Holding, Held, Busy
  <2>5. OperatesOnOwnVm'
    BY <1>1, <2>1, <2>2 DEF OperatesOnOwnVm, Held
  <2>6. LastAwaited'
    BY <1>1, <2>1, AwaitersStay DEF At
  <2>7. AwaitedThere' /\ DoneIsSo'
    BY <1>1, <2>1, WaitersStay
  <2> QED
    BY <2>3, <2>4, <2>5, <2>6, <2>7
<1> QED
  BY <1>2, <1>3 DEF Inspect

LEMMA SubmitKeeps == ASSUME OperationsInv, NEW r \in Requests, Submit(r) PROVE OperationsInv'
<1>1. call[r].pc = "call" /\ call[r] \in Going /\ UNCHANGED <<dep, job, lock, vm, counted>>
  BY GoingOn DEF Submit, At, OperationsInv
<1>2. Started(r, call[r].op) /\ To(r, "await") /\ call[r].op \in TaskOps \cup ConfigOps
  BY <1>1 DEF Submit, Going
<1> QED
  BY <1>1, <1>2, SubmittedKeeps

LEMMA BootAgainKeeps == ASSUME OperationsInv, NEW r \in Requests, BootAgain(r) PROVE OperationsInv'
<1>1. call[r].pc = "boot" /\ call[r].op = "rollback" /\ UNCHANGED <<dep, job, lock, vm, counted>>
  BY DEF BootAgain, At, OperationsInv, Holding
<1>2. CASE To(r, "done") /\ UNCHANGED tasks
  BY <1>1, <1>2, DoneAtOnce
<1>3. CASE Started(r, "start") /\ To(r, "await")
  <2>1. "start" \in TaskOps \cup ConfigOps
    BY DEF TaskOps
  <2> QED
    BY <1>1, <1>3, <2>1, SubmittedKeeps
<1> QED
  BY <1>2, <1>3 DEF BootAgain

LEMMA OutcomeTyped ==
  ASSUME NEW t \in PveTask, NEW m \in Machine, m.there, NEW n \in Outcomes(t, m)
  PROVE  /\ n \in Machine
         /\ t.kind = "start" => n.on
         /\ t.kind = "stop" => ~n.on
         /\ t.kind = "resize" => n.size = t.size /\ (n.on \/ ~n.pending)
         /\ t.kind = "grow" => n.disk = t.size
<1>1. t.kind \in TaskOps \cup ConfigOps /\ t.size \in Sizes
  BY DEF PveTask
<1>2. CASE t.kind = "start"
  BY <1>2 DEF Outcomes, Machine
<1>3. CASE t.kind = "stop"
  BY <1>3 DEF Outcomes, Machine
<1>4. CASE t.kind = "resize"
  BY <1>1, <1>4 DEF Outcomes, Machine
<1>5. CASE t.kind = "grow"
  BY <1>1, <1>5 DEF Outcomes, Machine
<1>6. CASE t.kind \in {"snapshot", "serial"}
  BY <1>6 DEF Outcomes
<1>7. CASE t.kind = "rollback"
  BY <1>7 DEF Outcomes, Machine
<1> QED
  BY <1>1, <1>2, <1>3, <1>4, <1>5, <1>6, <1>7 DEF TaskOps, ConfigOps

\* A task that is waited for is the only one left when it comes to its turn.
LEMMA TaskSucceedsKeeps == OperationsInv /\ TaskSucceeds => OperationsInv'
<1> SUFFICES ASSUME OperationsInv, TaskSucceeds PROVE OperationsInv'
  OBVIOUS
<1> USE DEF OperationsInv
<1> DEFINE t == Head(tasks)
<1>1. tasks \in Seq(PveTask) /\ tasks # <<>> /\ t = tasks[1] /\ t \in PveTask
  BY Shape DEF TaskSucceeds
<1>2. tasks' = Tail(tasks) /\ UNCHANGED <<dep, job, lock, counted>>
  BY DEF TaskSucceeds
<1>3. /\ tasks' \in Seq(PveTask) /\ Len(tasks') = Len(tasks) - 1 /\ Len(tasks) \in Nat
      /\ \A i \in DOMAIN tasks' : i + 1 \in DOMAIN tasks /\ tasks'[i] = tasks[i + 1]
  BY <1>1, <1>2
<1>4. t.vmid \in Vms /\ vm[t.vmid] \in Machine
  BY <1>1, Shape DEF PveTask
<1>5. PICK m \in Outcomes(t, vm[t.vmid]) : vm' = [vm EXCEPT ![t.vmid] = m]
  BY DEF TaskSucceeds
<1>6. /\ m \in Machine
      /\ t.kind = "start" => m.on
      /\ t.kind = "stop" => ~m.on
      /\ t.kind = "resize" => m.size = t.size /\ (m.on \/ ~m.pending)
      /\ t.kind = "grow" => m.disk = t.size
  BY <1>1, <1>4, OutcomeTyped DEF TaskSucceeds
<1>7. vm' \in [Vms -> Machine] /\ vm'[t.vmid] = m
  BY <1>4, <1>5, <1>6, Shape
<1>8. CASE t.by = Free
  <2>1. UNCHANGED call
    BY <1>8 DEF TaskSucceeds
  <2>2. OperationsTypeOK' /\ Holding' /\ OperatesOnOwnVm'
    BY <1>2, <1>3, <1>7, <2>1, Shape, NextShape DEF At, Holding, OperatesOnOwnVm
  <2>3. LastAwaited'
    BY <1>3, <2>1 DEF LastAwaited, At
  <2>4. AwaitedThere'
    <3> SUFFICES ASSUME NEW q \in Requests, At(q, "await") PROVE Awaits(q)'
      BY <2>1 DEF AwaitedThere, At
    <3>1. Awaits(q)
      BY DEF AwaitedThere
    <3>2. Len(tasks) # 1
      BY <1>1, <1>8, <3>1, FreeIsNoRequest DEF Awaits
    <3>3. tasks' # <<>> /\ tasks'[Len(tasks')] = tasks[Len(tasks)]
      BY <1>1, <1>3, <3>2
    <3> QED
      BY <2>1, <3>1, <3>3 DEF Awaits
  <2>5. DoneIsSo'
    BY <1>1, <2>1 DEF DoneIsSo, Done, At
  <2> QED
    BY <2>2, <2>3, <2>4, <2>5
<1>9. CASE t.by # Free
  <2> DEFINE r == t.by
             pc == IF t.kind = "rollback" THEN "boot" ELSE "done"
  <2>1. r \in Requests /\ To(r, pc)
    BY <1>1, <1>9 DEF TaskSucceeds, PveTask
  <2>2. At(r, "await") /\ Len(tasks) = 1
    <3>1. 1 \in DOMAIN tasks /\ tasks[1].by # Free
      BY <1>1, <1>9
    <3>2. 1 = Len(tasks) /\ At(tasks[1].by, "await")
      BY <3>1 DEF LastAwaited
    <3> QED
      BY <1>1, <3>2
  <2>3. /\ t.vmid = call[r].vmid /\ t.size = call[r].size
        /\ t.kind = call[r].op \/ call[r].op = "rollback"
    BY <1>1, <2>1, <2>2 DEF AwaitedThere, Awaits
  <2>4. call[r] \in Going /\ pc \in {"boot", "done"}
    BY <2>1, <2>2, GoingOn DEF At
  <2>5. /\ call'[r].pc = pc /\ call'[r].op = call[r].op
        /\ call'[r].vmid = call[r].vmid /\ call'[r].size = call[r].size
        /\ \A q \in Requests \ {r} : call'[q] = call[q]
    BY <2>1, <2>4, MovedOn
  <2>6. lock = r /\ call[r].vmid \in Vms /\ \A q \in Requests \ {r} : call[q].pc \notin Held
    BY <2>1, <2>2, Alone DEF At, Holding, Held, Busy
  <2>7. tasks' = <<>>
    BY <1>3, <2>2
  <2>8. OperationsTypeOK'
    <3>1. call' \in [Requests -> {NoCall} \cup Going]
      BY <2>1, <2>4, MovedTyped
    <3> QED
      BY <1>2, <1>3, <1>7, <3>1, Shape, NextShape
  <2>9. Holding'
    <3>1. pc = "boot" => call'[r].op = "rollback"
      BY <2>3, <2>5
    <3> QED
      BY <1>2, <2>4, <2>5, <2>6, <3>1 DEF At, Holding, Held, Busy
  <2>10. OperatesOnOwnVm'
    BY <1>2, <2>1, <2>2, <2>5, <2>6 DEF At, OperatesOnOwnVm, Held
  <2>11. LastAwaited' /\ AwaitedThere'
    BY <2>4, <2>5, <2>6, <2>7 DEF LastAwaited, AwaitedThere, At, Held
  <2>12. DoneIsSo'
    <3> SUFFICES ASSUME NEW q \in Requests, At(q, "done")' PROVE Done(q)'
      BY DEF DoneIsSo
    <3>1. q = r
      BY <2>5, <2>6 DEF At, Held
    <3>2. call'[r].op \in {"start", "stop", "resize", "grow"} => t.kind = call'[r].op
      BY <2>3, <2>5
    <3> QED
      BY <1>6, <1>7, <2>3, <2>5, <2>7, <3>1, <3>2 DEF Done
  <2> QED
    BY <2>8, <2>9, <2>10, <2>11, <2>12
<1> QED
  BY <1>8, <1>9

\* A commit changes no more of the row than its status and its sizes.
LEMMA CommittedRow ==
  ASSUME OperationsTypeOK, NEW r \in Requests, Commit(r)
  PROVE  call[r] \in Going /\ dep' \in DepRow
<1>1. call[r] \in Going /\ dep \in DepRow
  BY GoingOn, Shape DEF Commit, At
<1> QED
  BY <1>1 DEF Commit, Committed, Going, DepRow, TaskOps, ConfigOps

LEMMA CommitKeeps == ASSUME OperationsInv, NEW r \in Requests, Commit(r) PROVE OperationsInv'
<1> USE DEF OperationsInv
<1>1. Ended(r) /\ UNCHANGED <<job, vm, tasks, counted>> /\ call[r].pc = "done"
  BY DEF Commit, At
<1>2. /\ call'[r] = NoCall /\ \A q \in Requests \ {r} : call'[q] = call[q]
      /\ Holding'
  BY <1>1, EndedRequest
<1>3. \A q \in Requests \ {r} : call[q].pc \notin Held
  BY <1>1, Alone DEF Held
<1>4. OperationsTypeOK'
  BY <1>1, CommittedRow, EndedRequest, Shape, NextShape
<1>5. OperatesOnOwnVm'
  BY <1>2, <1>3, NoCallIdle DEF OperatesOnOwnVm, Held
<1>6. LastAwaited'
  BY <1>1, <1>2, AwaitersStay DEF At
<1>7. AwaitedThere' /\ DoneIsSo'
  BY <1>1, <1>2, NoCallIdle, WaitersStay
<1> QED
  BY <1>2, <1>4, <1>5, <1>6, <1>7

(* Steps of the lifecycle: none is taken while a request is past its check. *)

LEMMA LifecycleKeeps ==
  ASSUME OperationsInv, OperationsTypeOK', UNCHANGED <<call, tasks, lock>>,
         \A q \in Requests : call[q].pc \notin Busy
  PROVE  OperationsInv'
<1> USE DEF OperationsInv
<1>1. Holding' /\ OperatesOnOwnVm'
  BY DEF At, Holding, OperatesOnOwnVm, Busy
<1>2. LastAwaited' /\ AwaitedThere' /\ DoneIsSo'
  BY DEF LastAwaited, AwaitedThere, Awaits, DoneIsSo, At, Busy
<1> QED
  BY <1>1, <1>2

LEMMA NobodyBusy ==
  ASSUME OperationsInv, lock = Free \/ job # "none"
  PROVE  \A q \in Requests : call[q].pc \notin Busy
BY FreeIsNoRequest DEF OperationsInv, Holding, Held, Busy, OperatesOnOwnVm

LEMMA AdmitJobKeeps == ASSUME OperationsInv, NEW type \in JobTypes, Admit(type) PROVE OperationsInv'
<1>1. \A q \in Requests : call[q].pc \notin Busy
  BY NobodyBusy DEF Admit
<1>2. OperationsTypeOK /\ UNCHANGED <<call, tasks, lock, vm>>
  BY DEF Admit, OperationsInv
<1>3. dep' \in DepRow
  BY <1>2, Shape DEF Admit, DepRow
<1>4. counted' \in [ops : 0..MaxOps, jobs : 0..MaxJobs]
  BY <1>2, Shape, BoundsNat DEF Admit
<1>5. OperationsTypeOK'
  BY <1>2, <1>3, <1>4, Shape, NextShape DEF Admit
<1> QED
  BY <1>1, <1>2, <1>5, LifecycleKeeps

LEMMA JobDestroysKeeps == OperationsInv /\ JobDestroys => OperationsInv'
<1> SUFFICES ASSUME OperationsInv, JobDestroys PROVE OperationsInv'
  OBVIOUS
<1>1. \A q \in Requests : call[q].pc \notin Busy
  BY NobodyBusy DEF JobDestroys
<1>2. OperationsTypeOK /\ UNCHANGED <<job, call, tasks, lock, counted>>
  BY DEF JobDestroys, OperationsInv
<1>3. dep' \in DepRow
  BY <1>2, Shape DEF JobDestroys, DepRow
<1>4. vm' \in [Vms -> Machine]
  BY <1>2, Shape DEF JobDestroys, Machine, Gone
<1>5. OperationsTypeOK'
  BY <1>2, <1>3, <1>4, Shape, NextShape
<1> QED
  BY <1>1, <1>2, <1>5, LifecycleKeeps

LEMMA JobCreatesKeeps == ASSUME OperationsInv, NEW v \in Vms, JobCreates(v) PROVE OperationsInv'
<1>1. \A q \in Requests : call[q].pc \notin Busy
  BY NobodyBusy DEF JobCreates
<1>2. OperationsTypeOK /\ UNCHANGED <<job, call, tasks, lock, counted>>
  BY DEF JobCreates, OperationsInv
<1>3. dep' \in DepRow
  BY <1>2, Shape DEF JobCreates, DepRow
<1>4. Created(dep.size, dep.disk) \in Machine
  BY <1>2, Shape DEF Created, Machine, DepRow
<1>5. vm' \in [Vms -> Machine]
  BY <1>2, <1>4, Shape DEF JobCreates
<1>6. OperationsTypeOK'
  BY <1>2, <1>3, <1>5, Shape, NextShape
<1> QED
  BY <1>1, <1>2, <1>6, LifecycleKeeps

LEMMA NoRowTyped == NoRow \in DepRow
BY DEF NoRow, DepRow

LEMMA JobEndsKeeps == OperationsInv /\ JobEnds => OperationsInv'
<1> SUFFICES ASSUME OperationsInv, JobEnds PROVE OperationsInv'
  OBVIOUS
<1>1. \A q \in Requests : call[q].pc \notin Busy
  BY NobodyBusy DEF JobEnds
<1>2. OperationsTypeOK /\ UNCHANGED <<call, tasks, lock, vm, counted>> /\ job' = "none"
  BY DEF JobEnds, OperationsInv
<1>3. dep' \in DepRow
  <2>1. dep' = NoRow \/ \E status \in {"running", "error", "cleanup_pending"} : dep' = [dep EXCEPT !.status = status]
    BY DEF JobEnds
  <2>2. dep \in DepRow
    BY <1>2, Shape
  <2>3. ASSUME NEW status \in {"running", "error", "cleanup_pending"}, dep' = [dep EXCEPT !.status = status]
        PROVE  dep' \in DepRow
    BY <2>2, <2>3 DEF DepRow
  <2> QED
    BY <2>1, <2>3, NoRowTyped
<1>4. OperationsTypeOK'
  BY <1>2, <1>3, Shape, NextShape
<1> QED
  BY <1>1, <1>2, <1>4, LifecycleKeeps

LEMMA CleanupKeeps == OperationsInv /\ Cleanup => OperationsInv'
<1> SUFFICES ASSUME OperationsInv, Cleanup PROVE OperationsInv'
  OBVIOUS
<1>1. \A q \in Requests : call[q].pc \notin Busy
  BY NobodyBusy DEF Cleanup
<1>2. OperationsTypeOK /\ UNCHANGED <<job, call, tasks, lock, vm, counted>>
  BY DEF Cleanup, OperationsInv
<1>3. dep' \in DepRow
  <2>1. dep' \in {[dep EXCEPT !.status = "stopped"], [dep EXCEPT !.status = "error"], NoRow}
    BY DEF Cleanup
  <2>2. dep \in DepRow
    BY <1>2, Shape
  <2>3. [dep EXCEPT !.status = "stopped"] \in DepRow /\ [dep EXCEPT !.status = "error"] \in DepRow
    BY <2>2 DEF DepRow
  <2> QED
    BY <2>1, <2>3, NoRowTyped
<1>4. OperationsTypeOK'
  BY <1>2, <1>3, Shape, NextShape
<1> QED
  BY <1>1, <1>2, <1>4, LifecycleKeeps

LEMMA NextOperationKeeps == OperationsInv /\ [OperationsNext]_operations => OperationsInv'
<1> SUFFICES ASSUME OperationsInv, [OperationsNext]_operations PROVE OperationsInv'
  OBVIOUS
<1>1. ASSUME NEW r \in Requests, NEW op \in TaskOps \cup ConfigOps, NEW n \in Sizes, Ask(r, op, n)
      PROVE  OperationsInv'
  BY <1>1, AskKeeps
<1>2. ASSUME NEW r \in Requests,
             \/ Lock(r) \/ Check(r) \/ Refuse(r) \/ Inspect(r) \/ Submit(r)
             \/ BootAgain(r) \/ WaitTimesOut(r) \/ Commit(r)
      PROVE  OperationsInv'
  BY <1>2, LockKeeps, CheckKeeps, RefuseKeeps, InspectKeeps, SubmitKeeps, BootAgainKeeps,
     WaitTimesOutKeeps, CommitKeeps
<1>3. ASSUME NEW type \in JobTypes, Admit(type) PROVE OperationsInv'
  BY <1>3, AdmitJobKeeps
<1>4. ASSUME NEW v \in Vms, JobCreates(v) PROVE OperationsInv'
  BY <1>4, JobCreatesKeeps
<1>5. CASE UNCHANGED operations
  <2> USE <1>5 DEF operations, OperationsInv
  <2>1. OperationsTypeOK'
    BY Shape, NextShape
  <2>2. Holding' /\ OperatesOnOwnVm'
    BY DEF Holding, OperatesOnOwnVm, At
  <2>3. LastAwaited' /\ AwaitedThere' /\ DoneIsSo'
    BY DEF LastAwaited, AwaitedThere, Awaits, DoneIsSo, Done, At
  <2> QED
    BY <2>1, <2>2, <2>3
<1> QED
  BY <1>1, <1>2, <1>3, <1>4, <1>5, TaskSucceedsKeeps, TaskFailsKeeps, JobDestroysKeeps,
     JobEndsKeeps, CleanupKeeps DEF OperationsNext

\* Types hold in every behaviour of the operations.
THEOREM OperationsTyped == OperationsSpec => []OperationsTypeOK
<1>1. OperationsInv => OperationsTypeOK
  BY DEF OperationsInv
<1> QED
  BY <1>1, InitOperationsInv, NextOperationKeeps, PTL DEF OperationsSpec

\* From its check to its commit an operation has the deployment to itself and works on
\* the VM the row names (api.py 1212-1224, 1661-1684): OperatesOnOwnVm for every set of
\* requests and VMs.
THEOREM OwnVmOnly == OperationsSpec => []OperatesOnOwnVm
<1>1. OperationsInv => OperatesOnOwnVm
  BY DEF OperationsInv
<1> QED
  BY <1>1, InitOperationsInv, NextOperationKeeps, PTL DEF OperationsSpec

LEMMA DoneCommits ==
  ASSUME OperationsInv, NEW r \in Requests, Commit(r)
  PROVE  LET m == vm'[dep'.vmid]
             op == call[r].op IN
         /\ op \in {"start", "stop"} => (m.on <=> dep'.status = "running")
         /\ op = "resize" => m.size = dep'.size /\ (m.on \/ ~m.pending)
         /\ op = "grow" => m.disk = dep'.disk
<1> USE DEF OperationsInv
<1>1. At(r, "done") /\ Done(r) /\ vm' = vm /\ dep' = Committed(call[r].op, call[r].size)
  BY DEF Commit, DoneIsSo
<1>2. dep.vmid = call[r].vmid /\ dep \in DepRow
  BY <1>1, Shape DEF OperatesOnOwnVm, At
<1>3. dep'.vmid = call[r].vmid
  BY <1>1, <1>2 DEF Committed, DepRow
<1>4. CASE call[r].op = "start"
  BY <1>1, <1>2, <1>3, <1>4 DEF Committed, Done, DepRow
<1>5. CASE call[r].op = "stop"
  BY <1>1, <1>2, <1>3, <1>5 DEF Committed, Done, DepRow
<1>6. CASE call[r].op = "resize"
  BY <1>1, <1>2, <1>3, <1>6 DEF Committed, Done, DepRow
<1>7. CASE call[r].op = "grow"
  BY <1>1, <1>2, <1>3, <1>7 DEF Committed, Done, DepRow
<1> QED
  BY <1>4, <1>5, <1>6, <1>7

\* A step that answers a request whose operation is done is its commit.
LEMMA Untouched ==
  ASSUME OperationsTypeOK, NEW r \in Requests, At(r, "done"), NEW q \in Requests, q # r,
         NEW record, call' = [call EXCEPT ![q] = record]
  PROVE  call'[r] # NoCall
BY OthersStay, NoCallIdle DEF At

LEMMA OnlyCommits ==
  ASSUME OperationsInv, [OperationsNext]_operations, NEW r \in Requests, At(r, "done"), call'[r] = NoCall
  PROVE  Commit(r)
<1> USE DEF OperationsInv
<1>1. call[r] # NoCall /\ ~UNCHANGED call
  BY NoCallIdle DEF At
<1>2. ASSUME NEW q \in Requests, NEW op \in TaskOps \cup ConfigOps, NEW n \in Sizes, Ask(q, op, n)
      PROVE  FALSE
  <2>1. q # r
    BY <1>2 DEF Ask, At
  <2> QED
    BY <1>2, <2>1, Untouched DEF Ask
<1>3. ASSUME NEW q \in Requests, Ended(q), q # r PROVE FALSE
  BY <1>3, Untouched DEF Ended
<1>4. ASSUME NEW q \in Requests, NEW pc, To(q, pc), q # r PROVE FALSE
  BY <1>4, Untouched DEF To
<1>5. ASSUME NEW q \in Requests, Lock(q) \/ Inspect(q) \/ Submit(q) \/ BootAgain(q) PROVE FALSE
  <2>1. q # r
    BY <1>5 DEF Lock, Inspect, Submit, BootAgain, At
  <2>2. \E pc \in {"check", "call", "await", "done"} : To(q, pc)
    BY <1>5 DEF Lock, Inspect, Submit, BootAgain
  <2> QED
    BY <1>4, <2>1, <2>2
<1>6. ASSUME NEW q \in Requests, Check(q) PROVE FALSE
  <2>1. q # r
    BY <1>6 DEF Check, At
  <2>2. call' = [call EXCEPT ![q] =
                 [call[q] EXCEPT !.pc = IF call[q].op \in ConfigOps THEN "look" ELSE "call",
                                 !.vmid = dep.vmid]]
    BY <1>6 DEF Check
  <2> QED
    BY <2>1, <2>2, Untouched
<1>7. ASSUME NEW q \in Requests, Refuse(q) \/ WaitTimesOut(q) PROVE FALSE
  <2>1. q # r /\ Ended(q)
    BY <1>7 DEF Refuse, WaitTimesOut, TimedOut, At
  <2> QED
    BY <1>3, <2>1
<1>8. ASSUME NEW q \in Requests, Commit(q) PROVE Commit(r)
  BY <1>3, <1>8 DEF Commit
<1>9. ASSUME TaskSucceeds \/ TaskFails PROVE FALSE
  <2> DEFINE q == Head(tasks).by
  <2>1. tasks \in Seq(PveTask) /\ tasks # <<>>
    BY <1>9, Shape DEF TaskSucceeds, TaskFails
  <2>2. Head(tasks) = tasks[1] /\ 1 \in DOMAIN tasks /\ Head(tasks) \in PveTask
    BY <2>1
  <2>3. q # Free
    BY <1>1, <1>9 DEF TaskSucceeds, TaskFails
  <2>4. q \in Requests /\ q # r
    BY <2>2, <2>3 DEF LastAwaited, At, PveTask
  <2>5. Ended(q) \/ To(q, "boot") \/ To(q, "done")
    BY <1>9, <2>3 DEF TaskSucceeds, TaskFails
  <2> QED
    BY <1>3, <1>4, <2>4, <2>5
<1>10. ASSUME \/ \E type \in JobTypes : Admit(type)
              \/ JobDestroys \/ (\E v \in Vms : JobCreates(v)) \/ JobEnds \/ Cleanup
              \/ UNCHANGED operations
       PROVE  FALSE
  BY <1>1, <1>10 DEF Admit, JobDestroys, JobCreates, JobEnds, Cleanup, operations
<1> QED
  BY <1>2, <1>5, <1>6, <1>7, <1>8, <1>9, <1>10 DEF OperationsNext

\* "the gate keeps GoblinDock's view and the hypervisor's identical" (api.py 1483-1485):
\* CommitAgrees, whatever tasks outlived the wait for them and however they end.
THEOREM CommitsAgree == OperationsSpec => CommitAgrees
<1> DEFINE Agrees(r) == LET m == vm'[dep'.vmid]
                            op == call[r].op IN
                        /\ op \in {"start", "stop"} => (m.on <=> dep'.status = "running")
                        /\ op = "resize" => m.size = dep'.size /\ (m.on \/ ~m.pending)
                        /\ op = "grow" => m.disk = dep'.disk
           AllAgree == \A r \in Requests : At(r, "done") /\ call'[r] = NoCall => Agrees(r)
<1>1. OperationsInv /\ [OperationsNext]_operations => [AllAgree]_operations
  <2> SUFFICES ASSUME OperationsInv, [OperationsNext]_operations, NEW r \in Requests,
                      At(r, "done"), call'[r] = NoCall
               PROVE  Agrees(r)
    OBVIOUS
  <2> QED
    BY OnlyCommits, DoneCommits
<1>2. OperationsSpec => [][AllAgree]_operations
  BY <1>1, InitOperationsInv, NextOperationKeeps, PTL DEF OperationsSpec
<1> QED
  BY <1>2 DEF CommitAgrees

--------------------------------------------------------------------------------
(* What a set of ids in their order is, and what the latest of it are.  The     *)
(* library has no induction for it; a least counterexample does, and            *)
(* LeastNumber of StorageProofs finds it.                                       *)

\* A set of ids in their order
Increasing(s) == \A i, k \in DOMAIN s : i < k => s[i] < s[k]
Enumeration(s, S) == s \in [1..Cardinality(S) -> S] /\ Increasing(s)

LEMMA EnumerationThere ==
  ASSUME NEW S \in SUBSET Nat, IsFiniteSet(S)
  PROVE  \E s : Enumeration(s, S)
<1> DEFINE T == {n \in Nat : \E R \in SUBSET Nat :
                   IsFiniteSet(R) /\ Cardinality(R) = n /\ \A s : ~Enumeration(s, R)}
<1>1. ASSUME T # {} PROVE FALSE
  <2>1. T \in SUBSET Nat
    OBVIOUS
  <2>2. PICK n \in T : \A k \in T : n <= k
    BY <1>1, <2>1, LeastNumber
  <2>3. PICK R \in SUBSET Nat : IsFiniteSet(R) /\ Cardinality(R) = n /\ \A s : ~Enumeration(s, R)
    OBVIOUS
  <2>4. n \in Nat
    OBVIOUS
  <2>5. R # {}
    <3> SUFFICES ASSUME R = {} PROVE FALSE
      OBVIOUS
    <3>1. n = 0
      BY <2>3, FS_EmptySet
    <3>2. [i \in 1..0 |-> i] \in [1..0 -> R]
      OBVIOUS
    <3>3. Enumeration([i \in 1..0 |-> i], R)
      BY <2>3, <3>1, <3>2 DEF Enumeration, Increasing
    <3> QED
      BY <2>3, <3>3
  <2>6. n # 0
    BY <2>3, <2>5, FS_EmptySet
  <2>7. PICK m \in R : \A k \in R : m <= k
    BY <2>5, LeastNumber
  <2> DEFINE Q == R \ {m}
  <2>8. Q \in SUBSET Nat /\ IsFiniteSet(Q) /\ Cardinality(Q) = n - 1
    BY <2>3, <2>7, FS_RemoveElement
  <2>9. n - 1 \in Nat /\ n - 1 \notin T
    BY <2>2, <2>4, <2>6
  <2>10. PICK s : Enumeration(s, Q)
    BY <2>8, <2>9
  <2>11. s \in [1..(n - 1) -> Q] /\ \A i, k \in 1..(n - 1) : i < k => s[i] < s[k]
    BY <2>8, <2>10 DEF Enumeration, Increasing
  <2>12. \A q \in Q : q \in R /\ m < q /\ q \in Nat /\ m \in Nat
    BY <2>7
  <2> HIDE DEF Q
  <2> DEFINE t == [i \in 1..n |-> IF i = 1 THEN m ELSE s[i - 1]]
  <2>13. \A i \in 1..n : i # 1 => i - 1 \in 1..(n - 1)
    BY <2>4
  <2>14. t \in [1..n -> R]
    BY <2>7, <2>11, <2>12, <2>13
  <2>15. ASSUME NEW i \in 1..n, NEW k \in 1..n, i < k PROVE t[i] < t[k]
    <3>1. k # 1 /\ k - 1 \in 1..(n - 1) /\ t[k] = s[k - 1]
      BY <2>13, <2>15
    <3>2. CASE i = 1
      BY <2>11, <2>12, <3>1, <3>2
    <3>3. CASE i # 1
      <4>1. i - 1 \in 1..(n - 1) /\ t[i] = s[i - 1] /\ i - 1 < k - 1
        BY <2>13, <2>15, <3>3
      <4> QED
        BY <2>11, <3>1, <4>1
    <3> QED
      BY <3>2, <3>3
  <2>16. Enumeration(t, R)
    <3> HIDE DEF t
    <3>1. DOMAIN t = 1..n
      BY <2>14
    <3> QED
      BY <2>3, <2>14, <2>15, <3>1 DEF Enumeration, Increasing
  <2> QED
    BY <2>3, <2>16
<1>2. Cardinality(S) \in Nat
  BY FS_CardinalityType
<1> QED
  BY <1>1, <1>2

LEMMA EnumerationOnto ==
  ASSUME NEW S \in SUBSET Nat, IsFiniteSet(S), NEW s, Enumeration(s, S)
  PROVE  \A x \in S : \E i \in 1..Cardinality(S) : s[i] = x
<1> DEFINE n == Cardinality(S)
<1>1. n \in Nat /\ IsFiniteSet(1..n) /\ Cardinality(1..n) = n
  BY FS_CardinalityType, FS_Interval
<1>2. s \in [1..n -> S] /\ \A i, k \in 1..n : i < k => s[i] < s[k]
  BY DEF Enumeration, Increasing
<1>3. ASSUME NEW i \in 1..n, NEW k \in 1..n, s[i] = s[k] PROVE i = k
  <2>1. s[i] \in S /\ s[k] \in S
    BY <1>2
  <2>2. s[i] \in Nat /\ s[k] \in Nat
    BY <2>1
  <2>3. ~(i < k) /\ ~(k < i)
    <3>1. ~(s[i] < s[k]) /\ ~(s[k] < s[i])
      BY <1>3, <2>2
    <3>2. (i < k => s[i] < s[k]) /\ (k < i => s[k] < s[i])
      BY <1>2
    <3> QED
      BY <3>1, <3>2
  <2> QED
    BY <2>3
<1>4. s \in Injection(1..n, S)
  BY <1>2, <1>3 DEF Injection, IsInjective
<1>5. s \in Surjection(1..n, S)
  BY <1>1, <1>4, FS_Injection
<1> QED
  BY <1>5 DEF Surjection

LEMMA EnumerationUnique ==
  ASSUME NEW S \in SUBSET Nat, IsFiniteSet(S), NEW s, Enumeration(s, S), NEW t, Enumeration(t, S)
  PROVE  s = t
<1> DEFINE n == Cardinality(S)
<1>1. n \in Nat
  BY FS_CardinalityType
<1>2. /\ s \in [1..n -> S] /\ \A i, k \in 1..n : i < k => s[i] < s[k]
      /\ t \in [1..n -> S] /\ \A i, k \in 1..n : i < k => t[i] < t[k]
  BY DEF Enumeration, Increasing
<1>3. \A x \in S : (\E i \in 1..n : s[i] = x) /\ (\E i \in 1..n : t[i] = x)
  BY EnumerationOnto
<1> HIDE DEF n
<1> DEFINE T == {i \in 1..n : s[i] # t[i]}
<1>4. ASSUME T # {} PROVE FALSE
  <2>1. T \in SUBSET Nat
    BY <1>1
  <2>2. PICK i \in T : \A k \in T : i <= k
    BY <1>4, <2>1, LeastNumber
  <2>3. i \in 1..n /\ i \in Nat /\ s[i] # t[i] /\ s[i] \in S /\ t[i] \in S /\ s[i] \in Nat /\ t[i] \in Nat
    <3>1. i \in 1..n /\ s[i] # t[i]
      OBVIOUS
    <3>2. s[i] \in S /\ t[i] \in S
      BY <1>2, <3>1
    <3>3. (\A x \in S : x \in Nat) /\ \A x \in 1..n : x \in Nat
      OBVIOUS
    <3> QED
      BY <3>1, <3>2, <3>3
  <2>4. \A k \in 1..n : k < i => s[k] = t[k]
    BY <1>1, <2>2, <2>3
  <2>5. CASE s[i] < t[i]
    <3>1. PICK k \in 1..n : t[k] = s[i]
      BY <1>3, <2>3
    <3>2. k \in Nat /\ ~(i < k) /\ k # i
      BY <1>1, <1>2, <2>3, <2>5, <3>1
    <3>3. k < i /\ s[k] < s[i]
      BY <1>2, <2>3, <3>2
    <3> QED
      BY <2>3, <2>4, <3>1, <3>3
  <2>6. CASE t[i] < s[i]
    <3>1. PICK k \in 1..n : s[k] = t[i]
      BY <1>3, <2>3
    <3>2. k \in Nat /\ ~(i < k) /\ k # i
      BY <1>1, <1>2, <2>3, <2>6, <3>1
    <3>3. k < i /\ t[k] < t[i]
      BY <1>2, <2>3, <3>2
    <3> QED
      BY <2>3, <2>4, <3>1, <3>3
  <2> QED
    BY <2>3, <2>5, <2>6
<1>5. \A i \in 1..n : s[i] = t[i]
  BY <1>4
<1>6. s = [i \in 1..n |-> s[i]] /\ t = [i \in 1..n |-> t[i]]
  BY <1>2
<1> QED
  BY <1>5, <1>6

LEMMA InOrderIs ==
  ASSUME NEW S \in SUBSET Nat, IsFiniteSet(S)
  PROVE  /\ Enumeration(InOrder(S), S)
         /\ \A s : Enumeration(s, S) => s = InOrder(S)
         /\ InOrder(S) \in Seq(Nat) /\ Len(InOrder(S)) = Cardinality(S)
<1>1. \E s \in [1..Cardinality(S) -> S] : \A i, k \in DOMAIN s : i < k => s[i] < s[k]
  BY EnumerationThere DEF Enumeration, Increasing
<1>2. Enumeration(InOrder(S), S)
  BY <1>1 DEF InOrder, Enumeration, Increasing
<1>3. Cardinality(S) \in Nat
  BY FS_CardinalityType
<1>4. InOrder(S) \in [1..Cardinality(S) -> Nat]
  BY <1>2 DEF Enumeration
<1> QED
  BY <1>2, <1>3, <1>4, EnumerationUnique

\* What follows in time follows in order.
LEMMA InOrderJoins ==
  ASSUME NEW A \in SUBSET Nat, NEW B \in SUBSET Nat, IsFiniteSet(A), IsFiniteSet(B),
         \A a \in A, b \in B : a < b
  PROVE  InOrder(A) \o InOrder(B) = InOrder(A \cup B)
<1> DEFINE s == InOrder(A)  t == InOrder(B)  n == Cardinality(A)  m == Cardinality(B)
<1>1. n \in Nat /\ m \in Nat /\ IsFiniteSet(A \cup B)
  BY FS_CardinalityType, FS_Union
<1>2. Cardinality(A \cup B) = n + m
  <2>1. A \cap B = {}
    <3> SUFFICES ASSUME NEW x \in A, x \in B PROVE FALSE
      OBVIOUS
    <3>1. x < x /\ x \in Nat
      OBVIOUS
    <3> QED
      BY <3>1
  <2>2. Cardinality(A \cap B) = 0
    BY <2>1, FS_EmptySet
  <2>3. Cardinality(A \cup B) = Cardinality(A) + Cardinality(B) - Cardinality(A \cap B)
    BY FS_Union
  <2> QED
    BY <1>1, <2>2, <2>3
<1>3. /\ s \in Seq(Nat) /\ Len(s) = n /\ s \in [1..n -> A] /\ \A i, k \in 1..n : i < k => s[i] < s[k]
      /\ t \in Seq(Nat) /\ Len(t) = m /\ t \in [1..m -> B] /\ \A i, k \in 1..m : i < k => t[i] < t[k]
  BY InOrderIs DEF Enumeration, Increasing
<1> HIDE DEF s, t, n, m
<1> DEFINE st == s \o t
<1>4. /\ st \in Seq(Nat) /\ Len(st) = n + m
      /\ \A i \in 1..(n + m) : st[i] = IF i <= n THEN s[i] ELSE t[i - n]
  BY <1>1, <1>3, ConcatProperties
<1>5. DOMAIN st = 1..(n + m)
  BY <1>4
<1> HIDE DEF st
<1>6. ASSUME NEW i \in 1..(n + m) PROVE st[i] \in A \cup B
  <2>1. CASE i <= n
    BY <1>1, <1>3, <1>4, <2>1
  <2>2. CASE ~(i <= n)
    <3>1. i - n \in 1..m
      BY <1>1, <2>2
    <3> QED
      BY <1>3, <1>4, <2>2, <3>1
  <2> QED
    BY <2>1, <2>2
<1>7. ASSUME NEW i \in 1..(n + m), NEW k \in 1..(n + m), i < k PROVE st[i] < st[k]
  <2>1. CASE k <= n
    BY <1>1, <1>3, <1>4, <1>7, <2>1
  <2>2. CASE ~(k <= n)
    <3>1. k - n \in 1..m /\ st[k] = t[k - n] /\ t[k - n] \in B
      BY <1>1, <1>3, <1>4, <2>2
    <3>2. CASE i <= n
      <4>1. st[i] = s[i] /\ s[i] \in A
        BY <1>1, <1>3, <1>4, <3>2
      <4> QED
        BY <3>1, <4>1
    <3>3. CASE ~(i <= n)
      <4>1. i - n \in 1..m /\ st[i] = t[i - n] /\ i - n < k - n
        BY <1>1, <1>4, <1>7, <3>3
      <4> QED
        BY <1>3, <3>1, <4>1
    <3> QED
      BY <3>2, <3>3
  <2> QED
    BY <2>1, <2>2
<1>8. st \in [1..(n + m) -> A \cup B]
  <2>1. st = [i \in 1..(n + m) |-> st[i]]
    BY <1>4, <1>5
  <2> QED
    BY <1>6, <2>1
<1>9. Enumeration(st, A \cup B)
  BY <1>2, <1>5, <1>7, <1>8 DEF Enumeration, Increasing, n, m
<1>10. A \cup B \in SUBSET Nat
  OBVIOUS
<1> QED
  BY <1>1, <1>9, <1>10, InOrderIs DEF st, s, t

\* The latest of a set: with a member they have all that come after it, and as many as
\* there are in such a subset are that subset.
Upper(U, S) == U \subseteq S /\ \A i \in U, k \in S : k > i => k \in U

LEMMA LatestUpper ==
  ASSUME NEW S \in SUBSET Nat, IsFiniteSet(S), NEW n \in Nat
  PROVE  Upper(Latest(n, S), S)
<1>1. ASSUME NEW i \in Latest(n, S), NEW k \in S, k > i PROVE k \in Latest(n, S)
  <2> DEFINE A == {x \in S : x > k}  B == {x \in S : x > i}
  <2>1. i \in S /\ Cardinality(B) < n
    BY DEF Latest
  <2>2. i \in Nat /\ k \in Nat /\ \A x \in S : x \in Nat
    BY <2>1
  <2>3. ASSUME NEW x \in A PROVE x \in B
    <3>1. x \in S /\ x > k
      OBVIOUS
    <3>2. x \in Nat
      BY <2>2, <3>1
    <3>3. x > i
      BY <1>1, <2>2, <3>1, <3>2
    <3> QED
      BY <3>1, <3>3
  <2>4. B \subseteq S
    OBVIOUS
  <2> HIDE DEF A, B
  <2>5. IsFiniteSet(B) /\ Cardinality(A) <= Cardinality(B)
    BY <2>3, <2>4, FS_Subset
  <2>6. Cardinality(A) \in Nat /\ Cardinality(B) \in Nat
    BY <2>3, <2>5, FS_Subset, FS_CardinalityType
  <2>7. Cardinality(A) < n
    BY <2>1, <2>5, <2>6 DEF B
  <2> QED
    BY <2>7 DEF Latest, A
<1> QED
  BY <1>1 DEF Upper, Latest

LEMMA UpperIsLatest ==
  ASSUME NEW S \in SUBSET Nat, IsFiniteSet(S), NEW U, Upper(U, S)
  PROVE  Latest(Cardinality(U), S) = U
<1>1. U \subseteq S /\ IsFiniteSet(U) /\ Cardinality(U) \in Nat
  BY FS_Subset, FS_CardinalityType DEF Upper
<1>2. \A x \in S : x \in Nat
  OBVIOUS
<1>3. ASSUME NEW i \in U PROVE i \in Latest(Cardinality(U), S)
  <2> DEFINE A == {x \in S : x > i}
  <2>1. ASSUME NEW x \in A PROVE x \in U \ {i}
    <3>1. x \in S /\ x > i /\ x \in U
      BY <1>3 DEF Upper
    <3>2. x \in Nat /\ i \in Nat
      BY <1>1, <1>2, <3>1
    <3> QED
      BY <3>1, <3>2
  <2>2. IsFiniteSet(U \ {i}) /\ Cardinality(U \ {i}) = Cardinality(U) - 1
    BY <1>1, FS_RemoveElement
  <2> HIDE DEF A
  <2>3. Cardinality(A) <= Cardinality(U \ {i}) /\ Cardinality(A) \in Nat
    BY <2>1, <2>2, FS_Subset, FS_CardinalityType
  <2>4. Cardinality(A) < Cardinality(U)
    BY <1>1, <2>2, <2>3
  <2> QED
    BY <1>1, <2>4 DEF Latest, A
<1>4. ASSUME NEW i \in S, i \notin U PROVE i \notin Latest(Cardinality(U), S)
  <2> DEFINE A == {x \in S : x > i}
  <2>1. ASSUME NEW u \in U PROVE u \in A
    <3>1. u \in S /\ u \in Nat /\ i \in Nat /\ u # i /\ ~(i > u)
      BY <1>1, <1>2, <1>4 DEF Upper
    <3> QED
      BY <3>1
  <2>2. U \subseteq A /\ A \subseteq S
    BY <2>1
  <2> HIDE DEF A
  <2>3. Cardinality(U) <= Cardinality(A) /\ Cardinality(A) \in Nat
    BY <2>2, FS_Subset, FS_CardinalityType
  <2>4. ~(Cardinality(A) < Cardinality(U))
    BY <1>1, <2>3
  <2> QED
    BY <2>4 DEF Latest, A
<1> QED
  BY <1>1, <1>3, <1>4 DEF Latest

LEMMA LatestOfFewer ==
  ASSUME NEW S \in SUBSET Nat, IsFiniteSet(S), NEW R \in SUBSET S, NEW n \in Nat, NEW i \in R,
         i \in Latest(n, S)
  PROVE  i \in Latest(n, R)
<1> DEFINE A == {x \in R : x > i}  B == {x \in S : x > i}
<1>1. Cardinality(B) < n
  BY DEF Latest
<1>2. A \subseteq B /\ B \subseteq S
  OBVIOUS
<1> HIDE DEF A, B
<1>3. IsFiniteSet(B) /\ IsFiniteSet(A) /\ Cardinality(A) <= Cardinality(B)
  BY <1>2, FS_Subset
<1>4. Cardinality(A) \in Nat /\ Cardinality(B) \in Nat
  BY <1>3, FS_CardinalityType
<1>5. Cardinality(A) < n
  BY <1>1, <1>3, <1>4
<1> QED
  BY <1>5 DEF Latest, A

LEMMA NewestIs ==
  ASSUME NEW S \in SUBSET Nat, IsFiniteSet(S), S # {}
  PROVE  Newest(S) \in S /\ \A k \in S : k <= Newest(S)
<1> DEFINE n == Cardinality(S)  s == InOrder(S)
<1>1. n \in Nat /\ n # 0
  BY FS_CardinalityType, FS_EmptySet
<1>2. Enumeration(s, S)
  BY InOrderIs
<1>3. s \in [1..n -> S] /\ \A i, k \in 1..n : i < k => s[i] < s[k]
  BY <1>2 DEF Enumeration, Increasing
<1>4. \A x \in S : \E i \in 1..n : s[i] = x
  BY <1>2, EnumerationOnto
<1> HIDE DEF n, s
<1>5. n \in 1..n
  BY <1>1
<1>6. s[n] \in S
  BY <1>3, <1>5
<1>7. ASSUME NEW x \in S PROVE x <= s[n]
  <2>1. PICK i \in 1..n : s[i] = x
    BY <1>4
  <2>2. x \in Nat /\ s[n] \in Nat
    BY <1>6
  <2>3. CASE i = n
    BY <2>1, <2>2, <2>3
  <2>4. CASE i # n
    <3>1. i < n
      BY <1>1, <2>4
    <3>2. s[i] < s[n]
      BY <1>3, <1>5, <3>1
    <3> QED
      BY <2>1, <2>2, <3>2
  <2> QED
    BY <2>3, <2>4
<1> QED
  BY <1>6, <1>7 DEF Newest

--------------------------------------------------------------------------------
(* JobHistory, for any number of jobs and cleaners: a cleaner acts on what it   *)
(* read before, and the jobs that it read have ended; no step gives an ended    *)
(* job another status, because a thread only changes the status of a job that   *)
(* is active, and no two threads have the same.  All this is said of the ids    *)
(* that were not given again under a cleaner's eyes.                            *)

JobRow == [status : Finished \cup Unfinished, hidden : BOOLEAN]
Executing == {"run", "failing"}
HistoryTyped ==
  /\ listed \in [Ids -> {NoJobRow} \cup JobRow]
  /\ given \in 0..MaxRows /\ again \subseteq Ids
  /\ thread \in [Threads -> {NotAtWork} \cup [at : {"run", "failing", "late"}, job : Ids]]
  /\ cleaner \in [Cleaners -> {NotAtWork, Served} \cup [at : {"hide", "purge"}, picks : SUBSET Ids]]

\* No active job is dismissed; and without reuse ids were given to the rows there are.
RowsGiven ==
  /\ \A j \in Ids \ again : listed[j].status \in Unfinished => ~listed[j].hidden
  /\ ~IdsReused => again = {} /\ \A j \in Ids : listed[j] # NoJobRow => j <= given

\* A thread executes a job that has not ended, and no two execute one.
WorkActive ==
  \A t \in Threads : thread[t].at \in Executing /\ thread[t].job \notin again =>
    /\ listed[thread[t].job].status \in {"running", "waiting"}
    /\ t = "main" => listed[thread[t].job].status = "running"
    /\ \A u \in Threads : u # t /\ thread[u].at \in Executing => thread[u].job # thread[t].job

\* What a cleaner has read has ended or is gone, and stays so.
PicksEnded ==
  \A c \in Cleaners : cleaner[c].at \in {"hide", "purge"} =>
    \A j \in cleaner[c].picks :
      /\ j \notin again => listed[j].status \notin Unfinished
      /\ ~IdsReused => j <= given

HistoryInv == HistoryTyped /\ RowsGiven /\ WorkActive /\ PicksEnded

LEMMA Statuses ==
  /\ NoJobRow.status \notin Unfinished /\ NoJobRow.status \notin Finished
  /\ \A r \in JobRow : r.status \in Finished \cup Unfinished /\ r.hidden \in BOOLEAN /\ r # NoJobRow
  /\ Finished \cap Unfinished = {}
  /\ Unfinished = {"queued", "running", "waiting"}
  /\ NotAtWork.at = "idle" /\ Served.at = "served"
<1>1. NoJobRow.status = "none"
  BY DEF NoJobRow
<1> QED
  BY <1>1 DEF JobRow, Finished, Unfinished, NotAtWork, Served

LEMMA InitHistoryInv == HistoryInit => HistoryInv
<1> SUFFICES ASSUME HistoryInit PROVE HistoryInv
  OBVIOUS
<1>1. HistoryTyped
  BY HistoryBounds DEF HistoryInit, HistoryTyped
<1>2. RowsGiven /\ WorkActive /\ PicksEnded
  BY Statuses DEF HistoryInit, RowsGiven, WorkActive, PicksEnded, Executing
<1> QED
  BY <1>1, <1>2 DEF HistoryInv

\* A step that gives an active job another status takes it from nobody.
LEMMA StatusSet ==
  ASSUME HistoryInv, NEW j \in Ids, listed[j].status \in Unfinished \/ j \in again,
         NEW status \in Finished \cup Unfinished, SetStatus(j, status),
         UNCHANGED <<given, again, cleaner>>
  PROVE  /\ listed' \in [Ids -> {NoJobRow} \cup JobRow] /\ RowsGiven' /\ PicksEnded'
         /\ j \notin again => listed'[j].status = status
         /\ \A k \in Ids \ {j} : listed'[k] = listed[k]
         /\ \A k \in Ids : listed[k] # NoJobRow <=> listed'[k] # NoJobRow
         /\ listed[j] # NoJobRow => listed'[j].hidden = listed[j].hidden
<1> USE DEF HistoryInv, HistoryTyped
<1>1. CASE listed[j] = NoJobRow
  <2>1. UNCHANGED listed /\ j \in again
    BY <1>1, Statuses DEF SetStatus
  <2> QED
    BY <2>1, <1>1 DEF RowsGiven, PicksEnded
<1>2. CASE listed[j] # NoJobRow
  <2>1. listed[j] \in JobRow
    BY <1>2
  <2>2. /\ [listed[j] EXCEPT !.status = status] \in JobRow
        /\ [listed[j] EXCEPT !.status = status].status = status
        /\ [listed[j] EXCEPT !.status = status].hidden = listed[j].hidden
    BY <2>1 DEF JobRow
  <2>3. listed' = [listed EXCEPT ![j] = [listed[j] EXCEPT !.status = status]]
    BY <1>2 DEF SetStatus
  <2>4. /\ listed' \in [Ids -> {NoJobRow} \cup JobRow] /\ listed'[j].status = status
        /\ listed'[j].hidden = listed[j].hidden /\ listed'[j] # NoJobRow
        /\ \A k \in Ids \ {j} : listed'[k] = listed[k]
    BY <2>2, <2>3, Statuses
  <2>5. RowsGiven'
    BY <1>2, <2>4 DEF RowsGiven
  <2>6. PicksEnded'
    <3> SUFFICES ASSUME NEW c \in Cleaners, cleaner[c].at \in {"hide", "purge"}, NEW k \in cleaner[c].picks
                 PROVE  /\ k \notin again => listed'[k].status \notin Unfinished
                        /\ ~IdsReused => k <= given
      BY DEF PicksEnded
    <3>1. /\ k \notin again => listed[k].status \notin Unfinished
          /\ ~IdsReused => k <= given
      BY DEF PicksEnded
    <3>2. k \in Ids
      BY Statuses
    <3> QED
      BY <2>4, <3>1, <3>2
  <2> QED
    BY <1>2, <2>4, <2>5, <2>6
<1> QED
  BY <1>1, <1>2

LEMMA ThreadSet ==
  ASSUME HistoryInv, NEW t \in Threads, NEW at \in {"run", "failing", "late"}, NEW j \in Ids, Thread(t, at, j)
  PROVE  /\ thread' \in [Threads -> {NotAtWork} \cup [at : {"run", "failing", "late"}, job : Ids]]
         /\ thread'[t].at = at /\ thread'[t].job = j
         /\ \A u \in Threads \ {t} : thread'[u] = thread[u]
BY DEF Thread, HistoryInv, HistoryTyped

LEMMA ThreadFreed ==
  ASSUME HistoryInv, NEW t \in Threads, FreeThread(t)
  PROVE  /\ thread' \in [Threads -> {NotAtWork} \cup [at : {"run", "failing", "late"}, job : Ids]]
         /\ thread'[t].at = "idle"
         /\ \A u \in Threads \ {t} : thread'[u] = thread[u]
BY Statuses DEF FreeThread, HistoryInv, HistoryTyped

LEMMA WorkersJob ==
  ASSUME HistoryInv, NEW t \in Threads, thread[t].at \in Executing \cup {"late"}
  PROVE  thread[t].job \in Ids
BY Statuses DEF HistoryInv, HistoryTyped, Executing

\* Steps that leave the rows alone
LEMMA RowsStay ==
  ASSUME HistoryInv, UNCHANGED <<listed, given, again, cleaner>>
  PROVE  RowsGiven' /\ PicksEnded'
BY DEF HistoryInv, RowsGiven, PicksEnded

\* The id that is given next names no row.
LEMMA NextIsFree ==
  ASSUME HistoryInv, NextId \in Ids
  PROVE  listed[NextId] = NoJobRow
<1> USE DEF HistoryInv
<1>1. CASE ~IdsReused
  <2>1. NextId = given + 1 /\ given \in Nat
    BY <1>1, HistoryBounds DEF NextId, HistoryTyped
  <2> QED
    BY <1>1, <2>1 DEF RowsGiven
<1>2. CASE IdsReused
  <2> DEFINE S == {j \in Ids : listed[j] # NoJobRow}
  <2>1. NextId = 1 + Newest(S)
    BY <1>2 DEF NextId
  <2>2. IsFiniteSet(Ids) /\ Ids \subseteq Nat
    BY HistoryBounds, FS_Interval DEF Ids
  <2>3. S \in SUBSET Nat /\ IsFiniteSet(S)
    BY <2>2, FS_Subset
  <2>4. CASE S = {}
    BY <2>4
  <2>5. CASE S # {}
    <3>1. Newest(S) \in Nat /\ \A k \in S : k <= Newest(S)
      BY <2>3, <2>5, NewestIs
    <3> HIDE DEF S
    <3>2. NextId \notin S
      BY <2>1, <3>1
    <3> QED
      BY <3>2 DEF S
  <2> QED
    BY <2>4, <2>5
<1> QED
  BY <1>1, <1>2

LEMMA EnqueueKeeps == HistoryInv /\ Enqueue => HistoryInv'
<1> SUFFICES ASSUME HistoryInv, Enqueue PROVE HistoryInv'
  OBVIOUS
<1> USE DEF HistoryInv
<1> DEFINE j == NextId
           row == [status |-> "queued", hidden |-> FALSE]
<1>1. /\ j \in Ids /\ listed' = [listed EXCEPT ![j] = row] /\ given' = j /\ UNCHANGED <<thread, cleaner>>
      /\ again' = (IF ReadByCleaner(j) THEN again \cup {j} ELSE again) /\ listed[j] = NoJobRow
  BY NextIsFree DEF Enqueue
<1>2. row \in JobRow /\ row.status = "queued" /\ ~row.hidden
  BY DEF JobRow, Unfinished
<1>3. ~IdsReused => j = given + 1
  BY DEF NextId
<1> HIDE DEF j, row
<1>4. listed'[j] = row /\ \A k \in Ids \ {j} : listed'[k] = listed[k]
  BY <1>1 DEF HistoryTyped
<1>5. given \in Nat /\ Ids \subseteq 0..MaxRows
  BY HistoryBounds DEF HistoryTyped, Ids
<1>6. HistoryTyped'
  BY <1>1, <1>2, <1>5 DEF HistoryTyped
<1>7. ~IdsReused => ~ReadByCleaner(j)
  BY <1>3, <1>5 DEF ReadByCleaner, PicksEnded
<1>8. RowsGiven'
  <2>1. ASSUME NEW k \in Ids \ again', listed'[k].status \in Unfinished PROVE ~listed'[k].hidden
    BY <1>1, <1>2, <1>4, <2>1 DEF RowsGiven
  <2>2. ASSUME ~IdsReused, NEW k \in Ids, listed'[k] # NoJobRow PROVE k <= given'
    BY <1>1, <1>3, <1>4, <1>5, <2>2 DEF RowsGiven, Ids
  <2>3. ~IdsReused => again' = {}
    BY <1>1, <1>7 DEF RowsGiven
  <2> QED
    BY <2>1, <2>2, <2>3 DEF RowsGiven
<1>9. WorkActive'
  <2>1. ASSUME NEW t \in Threads, thread[t].at \in Executing, thread[t].job \notin again'
        PROVE  thread[t].job # j /\ thread[t].job \in Ids /\ thread[t].job \notin again
    BY <1>1, <2>1, Statuses, WorkersJob DEF WorkActive
  <2> QED
    BY <1>1, <1>4, <2>1 DEF WorkActive
<1>10. PicksEnded'
  <2> SUFFICES ASSUME NEW c \in Cleaners, cleaner[c].at \in {"hide", "purge"}, NEW k \in cleaner[c].picks
               PROVE  /\ k \notin again' => listed'[k].status \notin Unfinished
                      /\ ~IdsReused => k <= given'
    BY <1>1 DEF PicksEnded
  <2>1. /\ k \notin again => listed[k].status \notin Unfinished
        /\ ~IdsReused => k <= given
    BY DEF PicksEnded
  <2>2. k \in Ids
    BY Statuses DEF HistoryTyped
  <2>3. k = j => k \in again'
    BY <1>1 DEF ReadByCleaner
  <2> QED
    BY <1>1, <1>3, <1>4, <1>5, <2>1, <2>2, <2>3 DEF Ids
<1> QED
  BY <1>6, <1>8, <1>9, <1>10

LEMMA ClaimJobKeeps == ASSUME HistoryInv, NEW j \in Ids, ClaimJob(j) PROVE HistoryInv'
<1> USE DEF HistoryInv
<1>1. listed[j].status = "queued" /\ thread["main"] = NotAtWork /\ "main" \in Threads
  BY DEF ClaimJob, Rows, Threads
<1>2. UNCHANGED <<given, again, cleaner>>
  BY DEF ClaimJob, ServerOnly
<1>3. \A t \in Threads : thread[t].at \in Executing /\ thread[t].job \notin again => thread[t].job # j
  BY <1>1 DEF WorkActive
<1>4. CASE UNCHANGED thread /\ \E status \in {"canceled", "failed"} : SetStatus(j, status)
  <2>1. PICK status \in Finished : SetStatus(j, status)
    BY <1>4 DEF Finished
  <2>2. /\ listed' \in [Ids -> {NoJobRow} \cup JobRow] /\ RowsGiven' /\ PicksEnded'
        /\ \A k \in Ids \ {j} : listed'[k] = listed[k]
    BY <1>1, <1>2, <2>1, Statuses, StatusSet
  <2>3. WorkActive'
    BY <1>2, <1>3, <1>4, <2>2, WorkersJob DEF WorkActive
  <2> QED
    BY <1>2, <1>4, <2>2, <2>3 DEF HistoryTyped
<1>5. CASE SetStatus(j, "running") /\ Thread("main", "run", j)
  <2>1. /\ listed' \in [Ids -> {NoJobRow} \cup JobRow] /\ RowsGiven' /\ PicksEnded'
        /\ j \notin again => listed'[j].status = "running"
        /\ \A k \in Ids \ {j} : listed'[k] = listed[k]
    BY <1>1, <1>2, <1>5, Statuses, StatusSet
  <2>2. /\ thread' \in [Threads -> {NotAtWork} \cup [at : {"run", "failing", "late"}, job : Ids]]
        /\ thread'["main"].at = "run" /\ thread'["main"].job = j
        /\ \A u \in Threads \ {"main"} : thread'[u] = thread[u]
    BY <1>1, <1>5, ThreadSet
  <2>3. WorkActive'
    BY <1>2, <1>3, <2>1, <2>2, WorkersJob DEF WorkActive
  <2> QED
    BY <1>2, <2>1, <2>2, <2>3 DEF HistoryTyped
<1> QED
  BY <1>4, <1>5 DEF ClaimJob

\* A thread ends its job or sets it aside.
LEMMA LeftKeeps ==
  ASSUME HistoryInv, NEW t \in Threads, thread[t].at \in Executing,
         NEW status \in Finished \cup Unfinished, SetStatus(thread[t].job, status),
         FreeThread(t) \/ Thread(t, "late", thread[t].job), UNCHANGED <<given, again, cleaner>>
  PROVE  HistoryInv'
<1> USE DEF HistoryInv
<1> DEFINE j == thread[t].job
<1>1. j \in Ids /\ (listed[j].status \in Unfinished \/ j \in again)
  BY WorkersJob, Statuses DEF WorkActive
<1>2. /\ listed' \in [Ids -> {NoJobRow} \cup JobRow] /\ RowsGiven' /\ PicksEnded'
      /\ \A k \in Ids \ {j} : listed'[k] = listed[k]
  BY <1>1, StatusSet
<1>3. /\ thread' \in [Threads -> {NotAtWork} \cup [at : {"run", "failing", "late"}, job : Ids]]
      /\ thread'[t].at \notin Executing
      /\ \A u \in Threads \ {t} : thread'[u] = thread[u]
  BY <1>1, ThreadSet, ThreadFreed DEF Executing
<1>4. \A u \in Threads \ {t} : thread[u].at \in Executing /\ thread[u].job \notin again => thread[u].job # j
  BY DEF WorkActive
<1>5. WorkActive'
  BY <1>2, <1>3, <1>4, WorkersJob DEF WorkActive
<1> QED
  BY <1>2, <1>3, <1>5 DEF HistoryTyped

LEMMA JobEndingsKeep ==
  ASSUME HistoryInv, SucceedJob \/ DeferJob \/ \E t \in Threads : FailJob(t)
  PROVE  HistoryInv'
<1>1. CASE SucceedJob \/ DeferJob
  <2>1. /\ "main" \in Threads /\ thread["main"].at \in Executing /\ UNCHANGED <<given, again, cleaner>>
        /\ \E status \in Finished \cup Unfinished : SetStatus(thread["main"].job, status)
        /\ FreeThread("main") \/ Thread("main", "late", thread["main"].job)
    BY <1>1 DEF SucceedJob, DeferJob, Executing, Threads, ServerOnly, Finished, Unfinished
  <2> QED
    BY <2>1, LeftKeeps
<1>2. ASSUME NEW t \in Threads, FailJob(t) PROVE HistoryInv'
  <2>1. /\ thread[t].at \in Executing /\ UNCHANGED <<given, again, cleaner>> /\ FreeThread(t)
        /\ \E status \in Finished \cup Unfinished : SetStatus(thread[t].job, status)
    BY <1>2 DEF FailJob, Executing, ServerOnly, Finished
  <2> QED
    BY <2>1, LeftKeeps
<1> QED
  BY <1>1, <1>2

LEMMA WriteLineKeeps == ASSUME HistoryInv, NEW t \in Threads, WriteLine(t) PROVE HistoryInv'
<1> USE DEF HistoryInv
<1>1. thread[t].at \in Executing /\ UNCHANGED <<listed, given, again, cleaner>> /\ thread[t].job \in Ids
  BY WorkersJob DEF WriteLine, Executing, ServerOnly
<1>2. PICK at \in {"run", "failing"} : Thread(t, at, thread[t].job)
  BY DEF WriteLine
<1>3. /\ thread' \in [Threads -> {NotAtWork} \cup [at : {"run", "failing", "late"}, job : Ids]]
      /\ thread'[t].job = thread[t].job
      /\ \A u \in Threads \ {t} : thread'[u] = thread[u]
  BY <1>1, <1>2, ThreadSet
<1>4. WorkActive'
  BY <1>1, <1>3 DEF WorkActive
<1> QED
  BY <1>1, <1>3, <1>4, RowsStay DEF HistoryTyped

LEMMA LateLineKeeps == ASSUME HistoryInv, NEW t \in Threads, LateLine(t) PROVE HistoryInv'
<1> USE DEF HistoryInv
<1>1. UNCHANGED <<listed, given, again, cleaner>>
  BY DEF LateLine, ServerOnly
<1>2. /\ thread' \in [Threads -> {NotAtWork} \cup [at : {"run", "failing", "late"}, job : Ids]]
      /\ thread'[t].at = "idle" /\ \A u \in Threads \ {t} : thread'[u] = thread[u]
  BY ThreadFreed DEF LateLine
<1>3. WorkActive'
  BY <1>1, <1>2 DEF WorkActive, Executing
<1> QED
  BY <1>1, <1>2, <1>3, RowsStay DEF HistoryTyped

LEMMA ResumeJobKeeps == ASSUME HistoryInv, NEW j \in Ids, ResumeJob(j) PROVE HistoryInv'
<1> USE DEF HistoryInv
<1>1. /\ listed[j].status = "waiting" /\ thread["waiting"] = NotAtWork /\ "waiting" \in Threads
      /\ UNCHANGED <<given, again, cleaner>>
  BY DEF ResumeJob, Rows, Threads, ServerOnly
<1>2. \A u \in Threads :
        thread[u].at \in Executing => u = "main" /\ (thread[u].job \notin again => thread[u].job # j)
  BY <1>1, Statuses DEF WorkActive, Threads, Executing
<1>3. /\ listed' \in [Ids -> {NoJobRow} \cup JobRow] /\ RowsGiven' /\ PicksEnded'
      /\ j \notin again => listed'[j].status \in {"running", "waiting"}
      /\ \A k \in Ids \ {j} : listed'[k] = listed[k]
  <2>1. CASE UNCHANGED listed
    BY <1>1, <2>1, RowsStay DEF HistoryTyped
  <2>2. CASE SetStatus(j, "running")
    BY <1>1, <2>2, Statuses, StatusSet
  <2> QED
    BY <2>1, <2>2 DEF ResumeJob
<1>4. /\ thread' \in [Threads -> {NotAtWork} \cup [at : {"run", "failing", "late"}, job : Ids]]
      /\ thread'["waiting"].job = j /\ \A u \in Threads \ {"waiting"} : thread'[u] = thread[u]
  <2>1. Thread("waiting", "failing", j) \/ Thread("waiting", "run", j)
    BY DEF ResumeJob
  <2> QED
    BY <1>1, <2>1, ThreadSet
<1>5. WorkActive'
  BY <1>1, <1>2, <1>3, <1>4, WorkersJob DEF WorkActive
<1> QED
  BY <1>1, <1>3, <1>4, <1>5 DEF HistoryTyped

LEMMA EndWaitingKeeps == ASSUME HistoryInv, NEW j \in Ids, EndWaiting(j) PROVE HistoryInv'
<1> USE DEF HistoryInv
<1>1. UNCHANGED <<given, again, cleaner>> /\ "waiting" \in Threads /\ Thread("waiting", "late", j)
  BY DEF EndWaiting, ServerOnly, Threads
<1>2. CASE thread["waiting"] = [at |-> "run", job |-> j] /\ SetStatus(j, "succeeded")
  BY <1>1, <1>2, LeftKeeps DEF Executing, Finished
<1>3. CASE thread["waiting"] = NotAtWork /\ j \in Rows({"waiting"}) /\ SetStatus(j, "failed")
  <2>1. /\ listed' \in [Ids -> {NoJobRow} \cup JobRow] /\ RowsGiven' /\ PicksEnded'
        /\ \A k \in Ids \ {j} : listed'[k] = listed[k]
    BY <1>1, <1>3, Statuses, StatusSet DEF Rows, Finished
  <2>2. /\ thread' \in [Threads -> {NotAtWork} \cup [at : {"run", "failing", "late"}, job : Ids]]
        /\ thread'["waiting"].at = "late" /\ \A u \in Threads \ {"waiting"} : thread'[u] = thread[u]
    BY <1>1, ThreadSet
  <2>3. \A u \in Threads :
          thread[u].at \in Executing => u = "main" /\ (thread[u].job \notin again => thread[u].job # j)
    BY <1>3, Statuses DEF WorkActive, Threads, Executing, Rows
  <2>4. WorkActive'
    BY <1>1, <2>1, <2>2, <2>3, WorkersJob DEF WorkActive, Executing
  <2> QED
    BY <1>1, <2>1, <2>2, <2>4 DEF HistoryTyped
<1> QED
  BY <1>2, <1>3 DEF EndWaiting

LEMMA RestartAllKeeps == HistoryInv /\ RestartAll => HistoryInv'
<1> SUFFICES ASSUME HistoryInv, RestartAll PROVE HistoryInv'
  OBVIOUS
<1> USE DEF HistoryInv
<1>1. \A j \in Ids :
        listed'[j] = IF listed[j].status = "running" THEN [listed[j] EXCEPT !.status = "failed"] ELSE listed[j]
  BY DEF RestartAll
<1>2. ASSUME NEW j \in Ids, listed[j].status = "running"
      PROVE  listed[j] \in JobRow /\ listed'[j] \in JobRow /\ listed'[j].status = "failed"
  <2>1. listed[j] \in JobRow
    BY <1>2, Statuses DEF HistoryTyped
  <2> QED
    BY <1>1, <1>2, <2>1 DEF JobRow, Finished
<1>3. listed' \in [Ids -> {NoJobRow} \cup JobRow]
  <2>1. listed' = [j \in Ids |-> listed'[j]]
    BY DEF RestartAll
  <2>2. \A j \in Ids : listed'[j] \in {NoJobRow} \cup JobRow
    BY <1>1, <1>2 DEF HistoryTyped
  <2> QED
    BY <2>1, <2>2
<1>4. \A j \in Ids : listed'[j].status \in Unfinished => listed'[j] = listed[j]
  BY <1>1, <1>2, Statuses DEF Finished
<1>5. RowsGiven'
  BY <1>1, <1>2, <1>4, Statuses DEF RowsGiven, RestartAll
<1>6. WorkActive' /\ thread' \in [Threads -> {NotAtWork} \cup [at : {"run", "failing", "late"}, job : Ids]]
  BY Statuses DEF RestartAll, WorkActive, Executing
<1>7. /\ cleaner' \in [Cleaners -> {NotAtWork, Served} \cup [at : {"hide", "purge"}, picks : SUBSET Ids]]
      /\ PicksEnded'
  BY Statuses DEF RestartAll, PicksEnded
<1> QED
  BY <1>3, <1>5, <1>6, <1>7 DEF HistoryTyped, RestartAll

LEMMA PickKeeps == ASSUME HistoryInv, NEW c \in Cleaners, Pick(c) PROVE HistoryInv'
<1> USE DEF HistoryInv
<1>1. UNCHANGED <<listed, given, again, thread>>
  BY DEF Pick
<1>2. PICK picks \in SUBSET Removable \ {{}}, does \in {"hide", "purge"} :
        cleaner' = [cleaner EXCEPT ![c] = [at |-> does, picks |-> picks]]
  BY DEF Pick
<1>3. picks \subseteq Ids /\ \A j \in picks : listed[j].status \in Finished
  BY <1>2 DEF Removable, Rows
<1>4. HistoryTyped'
  BY <1>1, <1>2, <1>3 DEF HistoryTyped
<1>5. RowsGiven' /\ WorkActive'
  BY <1>1 DEF RowsGiven, WorkActive
<1>6. \A j \in picks : (~IdsReused => j <= given) /\ listed[j].status \notin Unfinished
  BY <1>3, Statuses DEF RowsGiven
<1>7. PicksEnded'
  BY <1>1, <1>2, <1>6 DEF PicksEnded, HistoryTyped
<1> QED
  BY <1>4, <1>5, <1>7

\* A cleaner dismisses or deletes what it has read: jobs that have ended.
LEMMA CleanerActs ==
  ASSUME HistoryInv, NEW c \in Cleaners, Hide(c) \/ Purge(c)
  PROVE  /\ UNCHANGED <<given, again, thread>> /\ cleaner' = [cleaner EXCEPT ![c] = Served]
         /\ \A j \in Ids \ again : listed[j].status \in Unfinished => listed'[j] = listed[j]
         /\ \A j \in Ids \ again : listed'[j].status \in Unfinished => listed'[j] = listed[j]
         /\ \A j \in Ids : listed'[j] # NoJobRow => listed[j] # NoJobRow
         /\ listed' \in [Ids -> {NoJobRow} \cup JobRow]
<1> USE DEF HistoryInv
<1>1. UNCHANGED <<given, again, thread>> /\ cleaner' = [cleaner EXCEPT ![c] = Served]
  BY DEF Hide, Purge
<1>2. cleaner[c].at \in {"hide", "purge"} /\ cleaner[c].picks \subseteq Ids
  BY Statuses DEF Hide, Purge, HistoryTyped
<1>3. \A j \in cleaner[c].picks \ again : listed[j].status \notin Unfinished
  BY <1>2 DEF PicksEnded
<1>4. CASE Purge(c)
  BY <1>1, <1>3, <1>4, Statuses DEF Purge, HistoryTyped
<1>5. CASE Hide(c) /\ UNCHANGED listed
  BY <1>1, <1>5 DEF HistoryTyped
<1>6. CASE /\ \A j \in cleaner[c].picks : listed[j] # NoJobRow
           /\ listed' = [j \in Ids |-> IF j \in cleaner[c].picks THEN [listed[j] EXCEPT !.hidden = TRUE] ELSE listed[j]]
  <2>1. ASSUME NEW j \in cleaner[c].picks
        PROVE  LET row == [listed[j] EXCEPT !.hidden = TRUE] IN row \in JobRow /\ row.status = listed[j].status
    <3>1. listed[j] \in JobRow
      BY <1>2, <1>6 DEF HistoryTyped
    <3> QED
      BY <3>1 DEF JobRow
  <2> QED
    BY <1>1, <1>3, <1>6, <2>1 DEF HistoryTyped
<1> QED
  BY <1>4, <1>5, <1>6 DEF Hide

LEMMA CleanerKeeps == ASSUME HistoryInv, NEW c \in Cleaners, Hide(c) \/ Purge(c) PROVE HistoryInv'
<1> USE DEF HistoryInv
<1>1. /\ UNCHANGED <<given, again, thread>> /\ cleaner' = [cleaner EXCEPT ![c] = Served]
      /\ \A j \in Ids \ again : listed[j].status \in Unfinished => listed'[j] = listed[j]
      /\ \A j \in Ids \ again : listed'[j].status \in Unfinished => listed'[j] = listed[j]
      /\ \A j \in Ids : listed'[j] # NoJobRow => listed[j] # NoJobRow
      /\ listed' \in [Ids -> {NoJobRow} \cup JobRow]
  BY CleanerActs
<1>2. HistoryTyped'
  BY <1>1 DEF HistoryTyped
<1>3. RowsGiven'
  BY <1>1 DEF RowsGiven
<1>4. WorkActive'
  BY <1>1, Statuses, WorkersJob DEF WorkActive
<1>5. PicksEnded'
  BY <1>1, Statuses DEF PicksEnded, HistoryTyped
<1> QED
  BY <1>2, <1>3, <1>4, <1>5

LEMMA HistoryStep == HistoryInv /\ [HistoryNext]_history => HistoryInv'
<1> SUFFICES ASSUME HistoryInv, [HistoryNext]_history PROVE HistoryInv'
  OBVIOUS
<1>1. CASE \/ UNCHANGED history \/ OpenPage \/ GetJob \/ TakeReply \/ LookAtJob \/ SendFrame
           \/ EndTurn \/ CutStream \/ Reconnect
  <2>1. UNCHANGED <<listed, given, again, thread, cleaner>>
    BY <1>1 DEF history, OpenPage, GetJob, TakeReply, LookAtJob, SendFrame, EndTurn, CutStream,
                Reconnect, PageOnly
  <2> QED
    BY <2>1, RowsStay DEF HistoryInv, HistoryTyped, WorkActive
<1>2. ASSUME NEW j \in Ids, ClaimJob(j) \/ ResumeJob(j) \/ EndWaiting(j) PROVE HistoryInv'
  BY <1>2, ClaimJobKeeps, ResumeJobKeeps, EndWaitingKeeps
<1>3. ASSUME NEW t \in Threads, WriteLine(t) \/ FailJob(t) \/ LateLine(t) PROVE HistoryInv'
  BY <1>3, WriteLineKeeps, JobEndingsKeep, LateLineKeeps
<1>4. ASSUME NEW c \in Cleaners, Pick(c) \/ Hide(c) \/ Purge(c) PROVE HistoryInv'
  BY <1>4, PickKeeps, CleanerKeeps
<1> QED
  BY <1>1, <1>2, <1>3, <1>4, EnqueueKeeps, JobEndingsKeep, RestartAllKeeps DEF HistoryNext

LEMMA ActiveStay ==
  ASSUME HistoryInv, [HistoryNext]_history, NEW j \in Rows(Unfinished) \ again
  PROVE  listed'[j] # NoJobRow /\ ~listed'[j].hidden
<1>1. /\ j \in Ids /\ listed[j].status \in Unfinished /\ listed[j] \in JobRow /\ ~listed[j].hidden
      /\ HistoryInv'
  BY HistoryStep, Statuses DEF Rows, HistoryInv, HistoryTyped, RowsGiven
<1>2. CASE listed'[j] = listed[j]
  BY <1>1, <1>2, Statuses
<1>3. ASSUME NEW k \in Ids, NEW status, SetStatus(k, status)
      PROVE  listed'[j] # NoJobRow /\ ~listed'[j].hidden
  <2>1. listed' = listed \/ listed' = [listed EXCEPT ![k].status = status]
    BY <1>3 DEF SetStatus
  <2>2. CASE listed' = [listed EXCEPT ![k].status = status]
    <3>1. listed'[j].hidden = listed[j].hidden /\ DOMAIN listed'[j] = {"status", "hidden"}
      BY <1>1, <2>2 DEF HistoryInv, HistoryTyped, JobRow
    <3>2. DOMAIN NoJobRow = {"status"}
      BY DEF NoJobRow
    <3> QED
      BY <1>1, <3>1, <3>2
  <2> QED
    BY <1>2, <2>1, <2>2
<1>4. CASE Enqueue
  <2>1. /\ listed' = [listed EXCEPT ![NextId] = [status |-> "queued", hidden |-> FALSE]]
        /\ listed[NextId] = NoJobRow
    BY <1>4, NextIsFree DEF Enqueue
  <2>2. j # NextId
    BY <1>1, <2>1, Statuses
  <2> QED
    BY <1>1, <1>2, <2>1, <2>2 DEF HistoryInv, HistoryTyped
<1>5. CASE RestartAll
  <2>1. listed'[j] = IF listed[j].status = "running" THEN [listed[j] EXCEPT !.status = "failed"] ELSE listed[j]
    BY <1>1, <1>5 DEF RestartAll
  <2>2. [listed[j] EXCEPT !.status = "failed"] \in JobRow /\ [listed[j] EXCEPT !.status = "failed"].hidden = listed[j].hidden
    BY <1>1 DEF JobRow, Finished
  <2> QED
    BY <1>1, <1>2, <2>1, <2>2, Statuses
<1>6. ASSUME NEW c \in Cleaners, Pick(c) \/ Hide(c) \/ Purge(c)
      PROVE  listed'[j] # NoJobRow /\ ~listed'[j].hidden
  <2>1. listed'[j] = listed[j]
    BY <1>1, <1>6, CleanerActs DEF Pick
  <2> QED
    BY <1>2, <2>1
<1>7. ASSUME NEW k \in Ids, ClaimJob(k) \/ ResumeJob(k) \/ EndWaiting(k)
      PROVE  listed'[j] # NoJobRow /\ ~listed'[j].hidden
  <2>1. UNCHANGED listed \/ \E status \in Finished \cup Unfinished : SetStatus(k, status)
    BY <1>7 DEF ClaimJob, ResumeJob, EndWaiting, Finished, Unfinished
  <2> QED
    BY <1>2, <1>3, <2>1
<1>8. ASSUME NEW t \in Threads, WriteLine(t) \/ FailJob(t) \/ LateLine(t)
      PROVE  listed'[j] # NoJobRow /\ ~listed'[j].hidden
  <2>1. CASE FailJob(t)
    <3>1. thread[t].job \in Ids /\ \E status \in Finished : SetStatus(thread[t].job, status)
      BY <1>1, <2>1, WorkersJob DEF FailJob, Executing, Finished
    <3> QED
      BY <1>3, <3>1
  <2>2. CASE UNCHANGED listed
    BY <1>2, <2>2
  <2> QED
    BY <1>8, <2>1, <2>2 DEF WriteLine, LateLine
<1>9. CASE SucceedJob \/ DeferJob
  <2>1. thread["main"].job \in Ids /\ \E status \in Finished \cup Unfinished : SetStatus(thread["main"].job, status)
    BY <1>1, <1>9, WorkersJob DEF SucceedJob, DeferJob, Executing, Threads, Finished, Unfinished
  <2> QED
    BY <1>3, <2>1
<1>10. CASE \/ UNCHANGED history \/ OpenPage \/ GetJob \/ TakeReply \/ LookAtJob \/ SendFrame
            \/ EndTurn \/ CutStream \/ Reconnect
  <2>1. UNCHANGED listed
    BY <1>10 DEF history, OpenPage, GetJob, TakeReply, LookAtJob, SendFrame, EndTurn, CutStream,
                 Reconnect, PageOnly
  <2> QED
    BY <1>2, <2>1
<1> QED
  BY <1>4, <1>5, <1>6, <1>7, <1>8, <1>9, <1>10 DEF HistoryNext

\* "Active jobs are left untouched" (api.py 3069): ActiveJobsStay for any number of jobs
\* and of requests that dismiss or purge, whether ids are given again or not.
THEOREM ActiveLeftUntouched == HistorySpec => ActiveJobsStay
<1> DEFINE SameJob == \A j \in Rows(Unfinished) \ again : listed'[j] # NoJobRow /\ ~listed'[j].hidden
<1>1. HistoryInv /\ [HistoryNext]_history => [SameJob]_listed
  BY ActiveStay
<1>2. HistoryInv /\ [HistoryNext]_history => HistoryInv'
  BY HistoryStep
<1>3. HistorySpec => [][SameJob]_listed
  BY <1>1, <1>2, InitHistoryInv, PTL DEF HistorySpec
<1> QED
  BY <1>3 DEF ActiveJobsStay

--------------------------------------------------------------------------------
(* The page that follows one job, for any number of jobs, of lines and of       *)
(* breaks of the stream, if no id is given twice and no frame comes before the  *)
(* answer to the page's first request.                                          *)

\* The lines of the page's job up to the last one that was sent
Sent == {i \in LinesOf(Watched) : i <= stream.last}
There == listed[Watched] # NoJobRow
\* The page has the latest of them, LogLimit at least.
Shown == \E U \in SUBSET Sent :
  Upper(U, Sent) /\ Latest(LogLimit, Sent) \subseteq U /\ page.log = InOrder(U)

Between == [at : {"off", "turn", "cut", "done", "closed"}, first : BOOLEAN, last : Nat]
InTurn == [at : {"looked", "sent", "cut"}, first : BOOLEAN, last : Nat, status : Finished \cup Unfinished]
LogTyped ==
  /\ line \in Seq(Ids \cup {Removed})
  /\ stream \in Between \cup InTurn /\ stream.last <= Len(line)
  /\ upto \in 0..Len(line)
  /\ DOMAIN page = {"log", "asked", "reply"}

\* The page's job was there once the stream is; a stream that has sent a frame has sent
\* it after the answer to the page's first request.
Opened ==
  /\ stream.at # "off" => given >= Watched
  /\ stream.first => stream.last = 0
  /\ stream.at \in {"sent", "done"} => ~stream.first
  /\ ~stream.first => page.asked = "done" /\ stream.at # "off"

\* The stream knows the final status.
Knows == stream.at = "done" \/ (stream.at \in {"looked", "sent"} /\ stream.status \in Finished)
EndedFirst ==
  /\ There /\ Knows => listed[Watched].status \in Finished
  /\ There /\ Knows /\ stream.at # "looked" => {i \in LinesOf(Watched) : i <= upto} \subseteq Sent

LogInv == LogTyped /\ Opened /\ (There /\ ~stream.first => Shown) /\ EndedFirst

LEMMA LinesFinite ==
  ASSUME NEW l \in Seq(Ids \cup {Removed}), NEW R \in SUBSET {i \in DOMAIN l : l[i] = Watched}
  PROVE  R \in SUBSET Nat /\ IsFiniteSet(R) /\ R \subseteq 1..Len(l)
<1>1. Len(l) \in Nat /\ DOMAIN l = 1..Len(l)
  OBVIOUS
<1>2. IsFiniteSet(1..Len(l))
  BY <1>1, FS_Interval
<1>3. R \subseteq 1..Len(l)
  BY <1>1
<1>4. IsFiniteSet(R)
  BY <1>2, <1>3, FS_Subset
<1> QED
  BY <1>1, <1>3, <1>4

LEMMA LogInvImplies == LogInv => LogHasNoGap
<1> SUFFICES ASSUME LogInv, There, ~stream.first
             PROVE  /\ page.log = InOrder(Latest(Len(page.log), Sent))
                    /\ Len(page.log) >= Cardinality(Latest(LogLimit, Sent))
                    /\ stream.at = "done" => {i \in LinesOf(Watched) : i <= upto} \subseteq Sent
  BY DEF LogHasNoGap, Sent, There
<1>1. Sent \in SUBSET Nat /\ IsFiniteSet(Sent)
  BY LinesFinite DEF LogInv, LogTyped, Sent, LinesOf
<1>2. PICK U \in SUBSET Sent :
         Upper(U, Sent) /\ Latest(LogLimit, Sent) \subseteq U /\ page.log = InOrder(U)
  BY DEF LogInv, Shown
<1>3. U \in SUBSET Nat /\ IsFiniteSet(U)
  BY <1>1, FS_Subset
<1>4. Len(page.log) = Cardinality(U) /\ Cardinality(U) \in Nat
  BY <1>2, <1>3, InOrderIs, FS_CardinalityType
<1>5. page.log = InOrder(Latest(Len(page.log), Sent))
  BY <1>1, <1>2, <1>4, UpperIsLatest
<1>6. Cardinality(Latest(LogLimit, Sent)) <= Cardinality(U)
  BY <1>2, <1>3, FS_Subset
<1>7. Cardinality(Latest(LogLimit, Sent)) \in Nat
  BY <1>2, <1>3, FS_Subset, FS_CardinalityType
<1>8. stream.at = "done" => {i \in LinesOf(Watched) : i <= upto} \subseteq Sent
  BY DEF LogInv, EndedFirst, Knows
<1> QED
  BY <1>4, <1>5, <1>6, <1>7, <1>8

LEMMA InitLogInv == HistoryInit => LogInv
<1> SUFFICES ASSUME HistoryInit PROVE LogInv
  OBVIOUS
<1>1. /\ line = <<>> /\ upto = 0 /\ stream = [at |-> "off", first |-> TRUE, last |-> 0]
      /\ page = [log |-> <<>>, asked |-> "no", reply |-> <<>>]
  BY DEF HistoryInit
<1>2. LogTyped
  <2>1. stream \in Between
    BY <1>1 DEF Between
  <2>2. line \in Seq(Ids \cup {Removed}) /\ Len(line) = 0
    BY <1>1
  <2> QED
    BY <1>1, <2>1, <2>2 DEF LogTyped
<1> QED
  BY <1>1, <1>2 DEF LogInv, Opened, EndedFirst, Knows

\* What the steps of the server do to the log: ids grow, and as long as the page's job is
\* there its lines stay, and once it has ended its status and the last line of before.
LogGrows ==
  /\ line' \in Seq(Ids \cup {Removed}) /\ Len(line') >= Len(line)
  /\ given' >= given
  /\ There' /\ given >= Watched =>
       There /\ \A i \in 1..Len(line) : line'[i] = Watched <=> line[i] = Watched
  /\ There' /\ listed[Watched].status \in Finished => listed'[Watched].status \in Finished /\ upto' = upto
  /\ upto' \in {upto, Len(line)}

LEMMA WatchedIs == Watched \in Ids /\ Watched = 1 /\ Removed = 0
BY HistoryBounds DEF Watched, Ids, Removed

LEMMA GrowsKeeps ==
  ASSUME LogInv, LogGrows, given \in Nat, given' \in Nat,
         \/ UNCHANGED stream
         \/ stream.at \in {"turn", "looked", "sent"} /\ stream' = [stream EXCEPT !.at = "cut"],
         UNCHANGED page \/ page' = [page EXCEPT !.asked = "done"]
  PROVE  LogInv'
<1> USE DEF LogInv
<1>1. /\ stream' \in Between \cup InTurn
      /\ stream'.first = stream.first /\ stream'.last = stream.last
      /\ stream'.at = stream.at \/ (stream'.at = "cut" /\ stream.at # "off")
      /\ stream' = stream \/ stream'.at = "cut"
  <2>1. CASE stream \in Between
    BY <2>1 DEF Between, InTurn, LogTyped
  <2>2. CASE stream \in InTurn
    BY <2>2 DEF Between, InTurn, LogTyped
  <2> QED
    BY <2>1, <2>2 DEF LogTyped
<1>2. Len(line) \in Nat /\ Len(line') \in Nat /\ stream.last \in Nat
  BY DEF LogTyped, LogGrows, Between, InTurn
<1>3. page'.log = page.log /\ DOMAIN page' = DOMAIN page /\ (page'.asked = page.asked \/ page'.asked = "done")
  BY DEF LogTyped
<1>4. LogTyped'
  BY <1>1, <1>2, <1>3 DEF LogTyped, LogGrows
<1>5. Opened'
  BY <1>1, <1>3, WatchedIs DEF Opened, LogGrows
<1>6. ASSUME There', ~stream.first PROVE There /\ Sent' = Sent
  <2>1. There /\ \A i \in 1..Len(line) : line'[i] = Watched <=> line[i] = Watched
    BY <1>6 DEF LogGrows, Opened
  <2>2. DOMAIN line = 1..Len(line) /\ DOMAIN line' = 1..Len(line')
    BY DEF LogTyped, LogGrows
  <2>3. \A i \in 1..Len(line') : i <= stream.last => i \in 1..Len(line)
    BY <1>2 DEF LogTyped
  <2>4. Len(line) <= Len(line')
    BY <1>2 DEF LogGrows
  <2> QED
    BY <1>1, <1>2, <2>1, <2>2, <2>3, <2>4 DEF Sent, LinesOf
<1>7. There' /\ ~stream'.first => Shown'
  BY <1>1, <1>3, <1>6 DEF Shown
<1>8. Knows' => stream' = stream /\ Knows
  BY <1>1 DEF Knows
<1>9. ASSUME There', Knows' PROVE There /\ listed'[Watched].status \in Finished /\ upto' = upto
  <2>1. given >= Watched
    BY <1>8, <1>9 DEF Opened, Knows
  <2>2. There
    BY <1>9, <2>1 DEF LogGrows
  <2>3. listed[Watched].status \in Finished
    BY <1>8, <1>9, <2>2 DEF EndedFirst
  <2> QED
    BY <1>9, <2>2, <2>3 DEF LogGrows
<1>10. ASSUME There', Knows', stream'.at # "looked"
       PROVE  {i \in LinesOf(Watched)' : i <= upto'} \subseteq Sent'
  <2>1. There /\ upto' = upto /\ stream' = stream /\ Knows
    BY <1>8, <1>9, <1>10
  <2>2. ~stream.first
    BY <1>10, <2>1 DEF Opened, Knows
  <2>3. Sent' = Sent /\ {i \in LinesOf(Watched) : i <= upto} \subseteq Sent
    BY <1>6, <1>10, <2>1, <2>2 DEF EndedFirst
  <2>4. \A i \in 1..Len(line) : line'[i] = Watched <=> line[i] = Watched
    BY <1>10, <2>1 DEF LogGrows, Opened, Knows
  <2>5. ASSUME NEW i \in LinesOf(Watched)', i <= upto PROVE i \in LinesOf(Watched)
    <3>1. DOMAIN line = 1..Len(line) /\ DOMAIN line' = 1..Len(line') /\ upto \in 0..Len(line)
      BY DEF LogTyped, LogGrows
    <3>2. i \in 1..Len(line') /\ line'[i] = Watched
      BY <3>1 DEF LinesOf
    <3>3. i \in 1..Len(line)
      BY <1>2, <2>5, <3>1, <3>2
    <3> QED
      BY <2>4, <3>1, <3>2, <3>3 DEF LinesOf
  <2> QED
    BY <2>1, <2>3, <2>5
<1>11. EndedFirst'
  BY <1>9, <1>10 DEF EndedFirst
<1> QED
  BY <1>4, <1>5, <1>7, <1>11

--------------------------------------------------------------------------------
\* The steps of the server

LEMMA SetStatusGrows ==
  ASSUME HistoryInv, LogTyped, NEW j \in Ids, listed[j].status \in Unfinished,
         NEW status \in Finished \cup Unfinished, SetStatus(j, status), UNCHANGED <<line, given>>
  PROVE  LogGrows
<1> USE DEF HistoryInv, HistoryTyped
<1>1. listed[j] \in JobRow /\ listed[j] # NoJobRow
  BY Statuses
<1>2. listed' = [listed EXCEPT ![j].status = status]
  BY <1>1 DEF SetStatus
<1>3. listed'[Watched] = IF j = Watched THEN [listed[j] EXCEPT !.status = status] ELSE listed[Watched]
  BY <1>2, WatchedIs
<1>4. There' => There
  BY <1>1, <1>3 DEF There
<1>5. ASSUME listed[Watched].status \in Finished PROVE listed'[Watched] = listed[Watched] /\ upto' = upto
  <2>1. j # Watched
    BY <1>5, Statuses
  <2> QED
    BY <1>3, <2>1 DEF SetStatus
<1>6. Len(line) \in Nat /\ given \in Nat
  BY HistoryBounds DEF LogTyped
<1>7. upto' \in {upto, Len(line)}
  BY DEF SetStatus
<1>8. line' \in Seq(Ids \cup {Removed}) /\ Len(line') >= Len(line) /\ given' >= given
  BY <1>6 DEF LogTyped
<1> QED
  BY <1>4, <1>5, <1>7, <1>8 DEF LogGrows

LEMMA AddLineGrows ==
  ASSUME HistoryInv, LogTyped, NEW j \in Ids, AddLine(j), UNCHANGED <<listed, given, upto>>
  PROVE  LogGrows
<1>1. line \in Seq(Ids \cup {Removed}) /\ line' = Append(line, j) /\ j \in Ids \cup {Removed}
  BY DEF LogTyped, AddLine
<1>2. /\ line' \in Seq(Ids \cup {Removed}) /\ Len(line) \in Nat /\ Len(line') = Len(line) + 1
      /\ \A i \in 1..Len(line) : line'[i] = line[i]
  BY <1>1
<1>3. given \in Nat
  BY HistoryBounds DEF HistoryInv, HistoryTyped
<1> QED
  BY <1>2, <1>3 DEF LogGrows, There

LEMMA SameGrows ==
  ASSUME HistoryInv, LogTyped, UNCHANGED <<line, given, upto>>, There' => There,
         There' => listed'[Watched].status = listed[Watched].status
  PROVE  LogGrows
<1>1. Len(line) \in Nat /\ given \in Nat
  BY HistoryBounds DEF LogTyped, HistoryInv, HistoryTyped
<1> QED
  BY <1>1 DEF LogGrows, LogTyped

\* A job that a thread executes, or is to execute, has not ended.
LEMMA ThreadsGrow ==
  ASSUME ~IdsReused, HistoryInv, LogTyped,
         \/ SucceedJob \/ DeferJob
         \/ \E j \in Ids : ClaimJob(j) \/ ResumeJob(j) \/ EndWaiting(j)
         \/ \E t \in Threads : WriteLine(t) \/ FailJob(t) \/ LateLine(t)
  PROVE  LogGrows
<1> USE DEF HistoryInv
<1>1. ASSUME NEW t \in Threads, thread[t].at \in Executing \cup {"late"} PROVE thread[t].job \in Ids
  BY <1>1, WorkersJob
<1>2. ASSUME NEW t \in Threads, thread[t].at \in Executing PROVE listed[thread[t].job].status \in Unfinished
  BY <1>2, Statuses DEF WorkActive, RowsGiven
<1>3. CASE SucceedJob
  <2>1. /\ thread["main"].at \in Executing /\ "main" \in Threads /\ "succeeded" \in Finished \cup Unfinished
        /\ SetStatus(thread["main"].job, "succeeded") /\ UNCHANGED <<line, given>>
    BY <1>3 DEF SucceedJob, Executing, Threads, Finished, ServerOnly
  <2> QED
    BY <1>1, <1>2, <2>1, SetStatusGrows
<1>4. CASE DeferJob
  <2>1. /\ thread["main"].at \in Executing /\ "main" \in Threads /\ "waiting" \in Finished \cup Unfinished
        /\ SetStatus(thread["main"].job, "waiting") /\ UNCHANGED <<line, given>>
    BY <1>4 DEF DeferJob, Executing, Threads, Unfinished, ServerOnly
  <2> QED
    BY <1>1, <1>2, <2>1, SetStatusGrows
<1>5. ASSUME NEW j \in Ids, ClaimJob(j) PROVE LogGrows
  <2>1. /\ listed[j].status \in Unfinished /\ UNCHANGED <<line, given>>
        /\ \E status \in Finished \cup Unfinished : SetStatus(j, status)
    BY <1>5 DEF ClaimJob, Rows, Finished, Unfinished, ServerOnly
  <2> QED
    BY <2>1, SetStatusGrows
<1>6. ASSUME NEW j \in Ids, ResumeJob(j) PROVE LogGrows
  <2>1. listed[j].status \in Unfinished /\ UNCHANGED given /\ "running" \in Finished \cup Unfinished
    BY <1>6 DEF ResumeJob, Rows, Unfinished, ServerOnly
  <2>2. \/ AddLine(j) /\ UNCHANGED <<listed, upto>>
        \/ SetStatus(j, "running") /\ UNCHANGED line
    BY <1>6 DEF ResumeJob
  <2> QED
    BY <2>1, <2>2, SetStatusGrows, AddLineGrows
<1>7. ASSUME NEW j \in Ids, EndWaiting(j) PROVE LogGrows
  <2>1. "succeeded" \in Finished \cup Unfinished /\ "failed" \in Finished \cup Unfinished /\ "waiting" \in Threads
    BY DEF Finished, Threads
  <2>2. /\ UNCHANGED <<line, given>>
        /\ \/ thread["waiting"] = [at |-> "run", job |-> j] /\ SetStatus(j, "succeeded")
           \/ listed[j].status \in Unfinished /\ SetStatus(j, "failed")
    BY <1>7 DEF EndWaiting, Rows, Unfinished, ServerOnly
  <2>3. thread["waiting"] = [at |-> "run", job |-> j] => listed[j].status \in Unfinished
    BY <1>2, <2>1 DEF Executing
  <2> QED
    BY <2>1, <2>2, <2>3, SetStatusGrows
<1>8. ASSUME NEW t \in Threads, WriteLine(t) \/ LateLine(t) PROVE LogGrows
  <2>1. thread[t].at \in Executing \cup {"late"} /\ AddLine(thread[t].job) /\ UNCHANGED <<listed, given, upto>>
    BY <1>8 DEF WriteLine, LateLine, Executing, ServerOnly
  <2> QED
    BY <1>1, <2>1, AddLineGrows
<1>9. ASSUME NEW t \in Threads, FailJob(t) PROVE LogGrows
  <2>1. /\ thread[t].at \in Executing /\ UNCHANGED <<line, given>>
        /\ \E status \in Finished \cup Unfinished : SetStatus(thread[t].job, status)
    BY <1>9 DEF FailJob, Executing, Finished, ServerOnly
  <2> QED
    BY <1>1, <1>2, <2>1, SetStatusGrows
<1> QED
  BY <1>3, <1>4, <1>5, <1>6, <1>7, <1>8, <1>9

LEMMA EnqueueGrows == ASSUME ~IdsReused, HistoryInv, LogTyped, Enqueue PROVE LogGrows
<1> USE DEF HistoryInv, HistoryTyped
<1>1. /\ NextId = given + 1 /\ NextId \in Ids /\ given \in Nat
      /\ listed' = [listed EXCEPT ![NextId] = [status |-> "queued", hidden |-> FALSE]]
      /\ given' = NextId /\ UNCHANGED <<line, upto>>
  BY HistoryBounds DEF Enqueue, NextId
<1>2. listed[NextId] = NoJobRow
  BY <1>1 DEF RowsGiven
<1>3. NextId = Watched => ~(given >= Watched)
  BY <1>1, WatchedIs
<1>4. NextId # Watched => listed'[Watched] = listed[Watched]
  BY <1>1, WatchedIs
<1>5. NextId = Watched => listed[Watched].status \notin Finished
  BY <1>2, Statuses
<1>6. given' >= given /\ Len(line) \in Nat
  BY <1>1 DEF LogTyped
<1> QED
  BY <1>1, <1>3, <1>4, <1>5, <1>6 DEF LogGrows, LogTyped, There

LEMMA RestartGrows == ASSUME HistoryInv, LogTyped, RestartAll PROVE LogGrows
<1> USE DEF HistoryInv, HistoryTyped
<1>1. /\ UNCHANGED <<given, line>>
      /\ upto' = IF listed[Watched].status = "running" THEN Len(line) ELSE upto
      /\ listed'[Watched] =
           IF listed[Watched].status = "running" THEN [listed[Watched] EXCEPT !.status = "failed"] ELSE listed[Watched]
  BY WatchedIs DEF RestartAll
<1>2. listed[Watched].status = "running" => There /\ listed[Watched].status \notin Finished
  BY Statuses DEF There
<1>3. Len(line) \in Nat /\ given \in Nat
  BY HistoryBounds DEF LogTyped
<1> QED
  BY <1>1, <1>2, <1>3 DEF LogGrows, LogTyped, There

LEMMA CleanersGrow ==
  ASSUME ~IdsReused, HistoryInv, LogTyped, NEW c \in Cleaners, Pick(c) \/ Hide(c) \/ Purge(c)
  PROVE  LogGrows
<1> USE DEF HistoryInv, HistoryTyped
<1>1. CASE Pick(c)
  BY <1>1, SameGrows DEF Pick, There
<1>2. CASE Hide(c)
  <2>1. UNCHANGED <<given, line, upto>>
    BY <1>2 DEF Hide
  <2>2. CASE UNCHANGED listed
    BY <2>1, <2>2, SameGrows DEF There
  <2>3. CASE /\ \A j \in cleaner[c].picks : listed[j] # NoJobRow
             /\ listed' = [j \in Ids |-> IF j \in cleaner[c].picks THEN [listed[j] EXCEPT !.hidden = TRUE] ELSE listed[j]]
    <3>1. listed'[Watched] = listed[Watched]
            \/ (There /\ listed'[Watched] = [listed[Watched] EXCEPT !.hidden = TRUE])
      BY <2>3, WatchedIs DEF There
    <3>2. There => listed[Watched] \in JobRow
      BY WatchedIs DEF There
    <3>3. (There' => There) /\ listed'[Watched].status = listed[Watched].status
      BY <3>1, <3>2 DEF There, JobRow
    <3> QED
      BY <2>1, <3>3, SameGrows
  <2> QED
    BY <1>2, <2>2, <2>3 DEF Hide
<1>3. CASE Purge(c)
  <2> DEFINE lines == [i \in DOMAIN line |-> IF line[i] \in cleaner[c].picks THEN Removed ELSE line[i]]
  <2>1. /\ UNCHANGED <<given, upto>> /\ line' = Trimmed(lines)
        /\ listed' = [j \in Ids |-> IF j \in cleaner[c].picks THEN NoJobRow ELSE listed[j]]
    BY <1>3 DEF Purge
  <2>2. line \in Seq(Ids \cup {Removed}) /\ Len(line) \in Nat /\ DOMAIN line = 1..Len(line)
    BY DEF LogTyped
  <2>3. lines \in Seq(Ids \cup {Removed}) /\ Len(lines) = Len(line)
    <3>1. lines \in [1..Len(line) -> Ids \cup {Removed}]
      BY <2>2
    <3> HIDE DEF lines
    <3> QED
      BY <2>2, <3>1
  <2>4. line' = lines
    BY <2>1 DEF Trimmed
  <2>5. There' => Watched \notin cleaner[c].picks /\ listed'[Watched] = listed[Watched]
    BY <2>1, WatchedIs DEF There
  <2>6. ASSUME There', NEW i \in 1..Len(line) PROVE line'[i] = Watched <=> line[i] = Watched
    BY <2>2, <2>4, <2>5, <2>6, WatchedIs
  <2>7. There' => There
    BY <2>5 DEF There
  <2>8. given' >= given /\ Len(line') >= Len(line)
    BY <2>1, <2>2, <2>3, <2>4, HistoryBounds
  <2> HIDE DEF lines
  <2> QED
    BY <2>1, <2>3, <2>4, <2>5, <2>6, <2>7, <2>8 DEF LogGrows
<1> QED
  BY <1>1, <1>2, <1>3

LEMMA ServerKeeps ==
  ASSUME ~IdsReused, HistoryInv, LogInv, HistoryInv',
         \/ Enqueue \/ SucceedJob \/ DeferJob \/ RestartAll
         \/ \E j \in Ids : ClaimJob(j) \/ ResumeJob(j) \/ EndWaiting(j)
         \/ \E t \in Threads : WriteLine(t) \/ FailJob(t) \/ LateLine(t)
         \/ \E c \in Cleaners : Pick(c) \/ Hide(c) \/ Purge(c)
  PROVE  LogInv'
<1>1. LogGrows
  BY ThreadsGrow, EnqueueGrows, RestartGrows, CleanersGrow DEF LogInv
<1>2. given \in Nat /\ given' \in Nat
  BY HistoryBounds DEF HistoryInv, HistoryTyped
<1>3. CASE RestartAll
  <2>1. \/ UNCHANGED stream
        \/ stream.at \in {"turn", "looked", "sent"} /\ stream' = [stream EXCEPT !.at = "cut"]
    BY <1>3 DEF RestartAll
  <2>2. UNCHANGED page \/ page' = [page EXCEPT !.asked = "done"]
    BY <1>3 DEF RestartAll
  <2> QED
    BY <1>1, <1>2, <2>1, <2>2, GrowsKeeps
<1>4. CASE ~RestartAll
  <2>1. UNCHANGED <<stream, page>>
    BY <1>4 DEF Enqueue, SucceedJob, DeferJob, ClaimJob, ResumeJob, EndWaiting, WriteLine, FailJob, LateLine,
                Pick, Hide, Purge, ServerOnly
  <2> QED
    BY <1>1, <1>2, <2>1, GrowsKeeps
<1> QED
  BY <1>3, <1>4

--------------------------------------------------------------------------------
\* The steps of the page and its stream

LEMMA LastIsNumber == LogTyped => stream.last \in Nat /\ stream.first \in BOOLEAN
BY DEF LogTyped, Between, InTurn

\* The server's part of the invariant is as before.
LEMMA PageStays ==
  ASSUME LogTyped, PageOnly
  PROVE  /\ UNCHANGED <<listed, given, line, upto>> /\ There' = There /\ LinesOf(Watched)' = LinesOf(Watched)
         /\ Len(line) \in Nat /\ upto \in Nat
BY DEF LogTyped, PageOnly, There, LinesOf

LEMMA OpenPageKeeps == ASSUME ~IdsReused, HistoryInv, LogInv, OpenPage PROVE LogInv'
<1> USE DEF LogInv
<1>1. /\ stream' = [at |-> "turn", first |-> TRUE, last |-> 0] /\ page' = [page EXCEPT !.asked = "yes"]
      /\ There /\ PageOnly
  BY DEF OpenPage, There
<1>2. stream' \in Between /\ stream'.at = "turn" /\ stream'.first /\ stream'.last = 0
  BY <1>1 DEF Between
<1>3. given >= Watched
  BY <1>1, WatchedIs, HistoryBounds DEF HistoryInv, RowsGiven, HistoryTyped, There
<1>4. LogTyped'
  <2>1. DOMAIN page' = {"log", "asked", "reply"}
    BY <1>1 DEF LogTyped
  <2>2. stream'.last <= Len(line')
    BY <1>1, <1>2, PageStays
  <2> QED
    BY <1>1, <1>2, <2>1, <2>2, PageStays DEF LogTyped
<1> QED
  BY <1>1, <1>2, <1>3, <1>4, PageStays DEF Opened, EndedFirst, Knows

\* The answer comes before any frame.
LEMMA AnswersKeep == ASSUME LogInv, GetJob \/ TakeReply PROVE LogInv'
<1> USE DEF LogInv
<1>1. UNCHANGED stream /\ PageOnly /\ page.asked # "done" /\ DOMAIN page' = {"log", "asked", "reply"}
  BY DEF GetJob, TakeReply, LogTyped
<1>2. stream.first
  BY <1>1, LastIsNumber DEF Opened
<1>3. LogTyped'
  BY <1>1, PageStays DEF LogTyped
<1> QED
  BY <1>1, <1>2, <1>3, PageStays DEF Opened, EndedFirst, Knows, Sent

\* What the stream is left with when a turn begins, breaks off or is over
LEMMA StreamMoves ==
  ASSUME LogInv, PageOnly, UNCHANGED page, stream.at # "off", LogTyped', stream'.at # "off",
         \/ stream'.first = stream.first /\ stream'.last = stream.last
         \/ stream'.first /\ stream'.last = 0,
         stream'.at \in {"sent", "done"} => ~stream'.first, EndedFirst'
  PROVE  LogInv'
<1> USE DEF LogInv
<1>1. UNCHANGED given /\ There' = There /\ LinesOf(Watched)' = LinesOf(Watched)
  BY PageStays
<1>2. Opened'
  BY <1>1, LastIsNumber DEF Opened
<1>3. ASSUME There', ~stream'.first PROVE Shown'
  <2>1. ~stream.first /\ Sent' = Sent
    BY <1>1, <1>3 DEF Sent
  <2> QED
    BY <1>1, <1>3, <2>1 DEF Shown
<1> QED
  BY <1>2, <1>3

LEMMA LookAtJobKeeps == ASSUME HistoryInv, LogInv, LookAtJob PROVE LogInv'
<1> USE DEF LogInv
<1>0. PageOnly /\ UNCHANGED page /\ stream.at = "turn"
  BY DEF LookAtJob
<1>1. CASE ~There
  <2>1. stream' = [stream EXCEPT !.at = "closed"] /\ stream \in Between
    BY <1>0, <1>1 DEF LookAtJob, There, LogTyped, InTurn
  <2>2. stream' \in Between /\ stream'.at = "closed" /\ stream'.first = stream.first /\ stream'.last = stream.last
    BY <2>1 DEF Between
  <2>3. LogTyped' /\ EndedFirst'
    BY <1>0, <2>2, PageStays DEF LogTyped, EndedFirst, Knows
  <2> QED
    BY <1>0, <2>2, <2>3, StreamMoves
<1>2. CASE There
  <2>1. stream' = [at |-> "looked", first |-> stream.first, last |-> stream.last, status |-> listed[Watched].status]
    BY <1>0, <1>2 DEF LookAtJob, There
  <2>2. listed[Watched].status \in Finished \cup Unfinished
    BY <1>2, WatchedIs, Statuses DEF HistoryInv, HistoryTyped, There
  <2>3. /\ stream' \in InTurn /\ stream'.at = "looked" /\ stream'.first = stream.first /\ stream'.last = stream.last
        /\ stream'.status = listed[Watched].status
    BY <2>1, <2>2, LastIsNumber DEF InTurn
  <2>4. LogTyped' /\ EndedFirst'
    BY <1>0, <2>3, PageStays DEF LogTyped, EndedFirst, Knows
  <2> QED
    BY <1>0, <2>3, <2>4, StreamMoves
<1> QED
  BY <1>1, <1>2

\* Each frame brings the page up to the last line there is.
LEMMA SendKeeps == ASSUME ~LateReply, LogInv, SendFrame PROVE LogInv'
<1> USE DEF LogInv
<1> DEFINE all == LinesOf(Watched)
           new == IF stream.first THEN Latest(LogLimit, all) ELSE NewLines(stream.last)
<1>1. /\ stream.at = "looked" /\ page.asked = "done" /\ PageOnly
      /\ stream' = [stream EXCEPT !.at = "sent", !.first = FALSE, !.last = IF new # {} THEN Newest(new) ELSE @]
      /\ page' = [page EXCEPT !.log = IF stream.first THEN InOrder(new) ELSE @ \o InOrder(new)]
  BY DEF SendFrame
<1>2. stream \in InTurn /\ stream.last \in Nat /\ stream.first \in BOOLEAN
  BY <1>1 DEF LogTyped, Between, InTurn
<1>3. /\ stream'.at = "sent" /\ ~stream'.first /\ stream'.status = stream.status
      /\ stream'.last = IF new # {} THEN Newest(new) ELSE stream.last
  BY <1>1, <1>2 DEF InTurn
<1>4. /\ page'.log = IF stream.first THEN InOrder(new) ELSE page.log \o InOrder(new)
      /\ page'.asked = "done" /\ DOMAIN page' = {"log", "asked", "reply"}
  BY <1>1 DEF LogTyped
<1>5. /\ UNCHANGED <<listed, given, line, upto>> /\ There' = There /\ LinesOf(Watched)' = all
      /\ Len(line) \in Nat /\ upto \in Nat
  BY <1>1, PageStays
<1>6. all \in SUBSET Nat /\ IsFiniteSet(all) /\ all \subseteq 1..Len(line)
  BY LinesFinite DEF LogTyped, LinesOf
<1>7. new \subseteq all
  BY DEF Latest, NewLines
<1>8. new \in SUBSET Nat /\ IsFiniteSet(new) /\ new \subseteq 1..Len(line)
  BY <1>6, <1>7, FS_Subset
<1> HIDE DEF all
<1>9. LogLimit \in Nat /\ LogLimit # 0
  BY HistoryBounds
<1>10. new = {} /\ stream.first => all = {}
  <2> SUFFICES ASSUME new = {}, stream.first, all # {} PROVE FALSE
    OBVIOUS
  <2>1. Newest(all) \in all /\ \A k \in all : k <= Newest(all)
    BY <1>6, NewestIs
  <2> DEFINE top == Newest(all)
  <2>2. {k \in all : k > top} = {}
    <3> SUFFICES ASSUME NEW k \in all, k > top PROVE FALSE
      OBVIOUS
    <3>1. k \in Nat /\ top \in Nat
      BY <1>6, <2>1
    <3>2. k <= top
      BY <2>1
    <3> QED
      BY <3>1, <3>2
  <2>3. Cardinality({k \in all : k > top}) < LogLimit
    BY <1>9, <2>2, FS_EmptySet
  <2>4. top \in Latest(LogLimit, all)
    BY <2>1, <2>3 DEF Latest
  <2> QED
    BY <2>4
<1>11. new # {} => Newest(new) \in new /\ \A k \in new : k <= Newest(new)
  BY <1>8, NewestIs
<1>12. ASSUME NEW i \in all PROVE i <= stream'.last
  <2>1. i \in Nat
    BY <1>6, <1>12
  <2>2. CASE i \in new
    BY <1>3, <1>11, <2>2
  <2>3. CASE i \notin new /\ ~stream.first
    <3>1. i <= stream.last
      BY <1>2, <2>1, <2>3, <1>12 DEF NewLines, all
    <3>2. CASE new = {}
      BY <1>3, <3>1, <3>2
    <3>3. CASE new # {}
      <4>1. Newest(new) \in Nat /\ Newest(new) > stream.last
        BY <1>8, <1>11, <2>3, <3>3 DEF NewLines
      <4> QED
        BY <1>2, <1>3, <2>1, <3>1, <3>3, <4>1
    <3> QED
      BY <3>2, <3>3
  <2>4. CASE i \notin new /\ stream.first
    <3>1. new # {}
      BY <1>10, <1>12, <2>4
    <3>2. PICK u \in new : TRUE
      BY <3>1
    <3>3. Upper(new, all)
      BY <1>6, <1>9, <2>4, LatestUpper
    <3>4. u \in Nat /\ ~(i > u)
      BY <1>8, <1>12, <2>4, <3>2, <3>3 DEF Upper
    <3>5. u <= Newest(new) /\ Newest(new) \in Nat
      BY <1>8, <1>11, <3>1, <3>2
    <3> QED
      BY <1>3, <2>1, <3>1, <3>4, <3>5
  <2> QED
    BY <2>2, <2>3, <2>4
<1>13. Sent' = all
  BY <1>5, <1>12 DEF Sent
<1>14. stream'.last \in Nat /\ stream'.last <= Len(line)
  <2>1. CASE new = {}
    BY <1>2, <1>3, <2>1 DEF LogTyped
  <2>2. CASE new # {}
    BY <1>3, <1>5, <1>8, <1>11, <2>2
  <2> QED
    BY <2>1, <2>2
<1>15. LogTyped'
  <2>1. stream' \in InTurn
    BY <1>1, <1>2, <1>14 DEF InTurn
  <2> QED
    BY <1>4, <1>5, <1>14, <2>1 DEF LogTyped
<1>16. Opened'
  BY <1>1, <1>3, <1>4, <1>5 DEF Opened
<1>17. EndedFirst'
  BY <1>1, <1>3, <1>5, <1>13 DEF EndedFirst, Knows
<1>18. ASSUME There PROVE Shown'
  <2>1. CASE stream.first
    <3>1. Upper(new, all) /\ new = Latest(LogLimit, all)
      BY <1>6, <1>9, <2>1, LatestUpper
    <3> QED
      BY <1>4, <1>7, <1>13, <2>1, <3>1 DEF Shown
  <2>2. CASE ~stream.first
    <3>1. PICK U \in SUBSET Sent :
             Upper(U, Sent) /\ Latest(LogLimit, Sent) \subseteq U /\ page.log = InOrder(U)
      BY <1>18, <2>2 DEF Shown
    <3>2. /\ \A i \in Sent : i \in all /\ i <= stream.last
          /\ \A i \in all : i \in Sent \/ i \in new
          /\ \A i \in new : i > stream.last
      BY <1>2, <1>6, <2>2 DEF Sent, NewLines, all
    <3>3. Sent \in SUBSET Nat /\ IsFiniteSet(Sent) /\ IsFiniteSet(U) /\ U \in SUBSET Nat
      BY <1>6, <3>2, FS_Subset
    <3> HIDE DEF new
    <3>4. \A a \in U, b \in new : a < b
      <4> SUFFICES ASSUME NEW a \in U, NEW b \in new PROVE a < b
        OBVIOUS
      <4>1. a \in Nat /\ b \in Nat /\ a <= stream.last /\ b > stream.last
        BY <1>8, <3>2, <3>3
      <4> QED
        BY <1>2, <4>1
    <3>5. page'.log = InOrder(U \cup new)
      BY <1>4, <1>8, <2>2, <3>1, <3>3, <3>4, InOrderJoins
    <3>6. U \cup new \in SUBSET all
      BY <1>7, <3>2
    <3>7. Upper(U \cup new, all)
      <4> SUFFICES ASSUME NEW i \in U \cup new, NEW k \in all, k > i PROVE k \in U \cup new
        BY <3>6 DEF Upper
      <4>1. CASE k \in new
        BY <4>1
      <4>2. CASE k \in Sent /\ i \in U
        BY <3>1, <4>2 DEF Upper
      <4>3. CASE k \in Sent /\ i \in new
        <5>1. k <= stream.last /\ i > stream.last
          BY <3>2, <4>3
        <5>2. k \in Nat /\ i \in Nat
          BY <1>8, <3>3, <4>3
        <5> QED
          BY <1>2, <5>1, <5>2
      <4> QED
        BY <3>2, <4>1, <4>2, <4>3
    <3>8. ASSUME NEW i \in Latest(LogLimit, all) PROVE i \in U \cup new
      <4>1. i \in all
        BY DEF Latest
      <4>2. CASE i \in Sent
        <5>1. Sent \in SUBSET all
          BY <3>2
        <5>2. i \in Latest(LogLimit, Sent)
          BY <1>6, <1>9, <4>2, <5>1, LatestOfFewer
        <5> QED
          BY <3>1, <5>2
      <4> QED
        BY <3>2, <4>1, <4>2
    <3> QED
      BY <1>13, <3>5, <3>6, <3>7, <3>8 DEF Shown
  <2> QED
    BY <2>1, <2>2
<1> QED
  BY <1>5, <1>15, <1>16, <1>17, <1>18

LEMMA EndTurnKeeps == ASSUME LogInv, EndTurn PROVE LogInv'
<1> USE DEF LogInv
<1>1. /\ PageOnly /\ UNCHANGED page /\ stream.at = "sent" /\ ~stream.first
      /\ stream' = [at |-> IF stream.status \in Closing THEN "done" ELSE "turn", first |-> FALSE, last |-> stream.last]
  BY DEF EndTurn, FinalStatus, Opened
<1>2. Closing = Finished
  BY DEF Closing, Finished
<1>3. /\ stream' \in Between /\ stream'.at \in {"done", "turn"} /\ ~stream'.first /\ stream'.last = stream.last
      /\ stream'.at = "done" => Knows
  BY <1>1, <1>2, LastIsNumber DEF Between, Knows
<1>4. LogTyped'
  BY <1>1, <1>3, PageStays DEF LogTyped
<1>5. EndedFirst'
  BY <1>1, <1>3, PageStays DEF EndedFirst, Knows, Sent
<1>6. stream'.first = stream.first
  BY <1>1, LastIsNumber
<1>7. stream'.at # "off" /\ stream'.at # "sent"
  BY <1>3
<1> QED
  BY <1>1, <1>3, <1>4, <1>5, <1>6, <1>7, StreamMoves

LEMMA CutKeeps == ASSUME LogInv, CutStream \/ Reconnect PROVE LogInv'
<1> USE DEF LogInv
<1>1. /\ PageOnly /\ UNCHANGED page /\ stream.at # "off"
      /\ \E at \in {"cut", "closed", "turn"} : stream' = [at |-> at, first |-> TRUE, last |-> 0]
  BY DEF CutStream, Reconnect
<1>2. stream' \in Between /\ stream'.at \in {"cut", "closed", "turn"} /\ stream'.first /\ stream'.last = 0
  BY <1>1 DEF Between
<1>3. LogTyped' /\ EndedFirst'
  BY <1>1, <1>2, PageStays DEF LogTyped, EndedFirst, Knows
<1> QED
  BY <1>1, <1>2, <1>3, StreamMoves

LEMMA LogStep ==
  ASSUME ~IdsReused, ~LateReply
  PROVE  HistoryInv /\ LogInv /\ [HistoryNext]_history => LogInv'
<1> SUFFICES ASSUME HistoryInv, LogInv, [HistoryNext]_history PROVE LogInv'
  OBVIOUS
<1>1. HistoryInv'
  BY HistoryStep
<1>2. CASE UNCHANGED history
  BY <1>2 DEF history, LogInv, LogTyped, Opened, Shown, EndedFirst, There, Knows, Sent, LinesOf
<1> QED
  BY <1>1, <1>2, ServerKeeps, OpenPageKeeps, AnswersKeep, LookAtJobKeeps, SendKeeps, EndTurnKeeps, CutKeeps
     DEF HistoryNext

\* LogHasNoGap, for any number of jobs, lines and breaks of the stream and any limit of the
\* first frame (api.py 3161-3173), if no id is given twice and the page has the answer to
\* its first request before a frame.
THEOREM LogsHaveNoGap == ASSUME ~IdsReused, ~LateReply PROVE HistorySpec => []LogHasNoGap
<1> USE ~IdsReused, ~LateReply
<1>1. HistoryInv /\ LogInv /\ [HistoryNext]_history => HistoryInv' /\ LogInv'
  BY HistoryStep, LogStep
<1>2. HistorySpec => []LogInv
  BY <1>1, InitHistoryInv, InitLogInv, PTL DEF HistorySpec
<1> QED
  BY <1>2, LogInvImplies, PTL

--------------------------------------------------------------------------------
\* The types of the page and its stream, whenever the page has its first answer
Answers == {"no", "yes", "answered", "done"}
PageTyped ==
  /\ line \in Seq(Ids \cup {Removed})
  /\ stream \in Between \cup InTurn
  /\ page \in [log : Seq(Nat), asked : Answers, reply : Seq(Nat)]
  /\ cuts \in 0..MaxCuts /\ upto \in Nat

LEMMA HistoryTypeParts == HistoryInv /\ PageTyped => HistoryTypeOK
<1> SUFFICES ASSUME HistoryInv, PageTyped PROVE HistoryTypeOK
  OBVIOUS
<1>1. JobRow = [status : Finished \cup Unfinished, hidden : BOOLEAN]
  BY DEF JobRow
<1>2. /\ stream.at \in {"off", "turn", "looked", "sent", "cut", "done", "closed"}
      /\ stream.first \in BOOLEAN /\ stream.last \in Nat
  BY DEF PageTyped, Between, InTurn
<1>3. page.log \in Seq(Nat) /\ page.asked \in {"no", "yes", "answered", "done"}
  BY DEF PageTyped, Answers
<1> QED
  BY <1>1, <1>2, <1>3 DEF HistoryInv, HistoryTyped, PageTyped, HistoryTypeOK

LEMMA InitPageTyped == HistoryInit => PageTyped
<1> SUFFICES ASSUME HistoryInit PROVE PageTyped
  OBVIOUS
<1>1. /\ line = <<>> /\ upto = 0 /\ cuts = 0 /\ stream = [at |-> "off", first |-> TRUE, last |-> 0]
      /\ page = [log |-> <<>>, asked |-> "no", reply |-> <<>>]
  BY DEF HistoryInit
<1>2. stream \in Between
  BY <1>1 DEF Between
<1>3. page \in [log : Seq(Nat), asked : Answers, reply : Seq(Nat)]
  BY <1>1 DEF Answers
<1> QED
  BY <1>1, <1>2, <1>3, HistoryBounds DEF PageTyped

\* What the stream and the page's first request take from the lines
LEMMA LinesOrdered ==
  ASSUME PageTyped, NEW R \in SUBSET LinesOf(Watched)
  PROVE  InOrder(R) \in Seq(Nat) /\ (R # {} => Newest(R) \in Nat)
<1>1. R \in SUBSET Nat /\ IsFiniteSet(R)
  BY LinesFinite DEF PageTyped, LinesOf
<1> QED
  BY <1>1, InOrderIs, NewestIs

\* A purge leaves as many lines, some of them nobody's
LEMMA LinesEmptied ==
  ASSUME NEW old, old \in Seq(Ids \cup {Removed}), NEW P
  PROVE  [i \in DOMAIN old |-> IF old[i] \in P THEN Removed ELSE old[i]] \in Seq(Ids \cup {Removed})
<1> DEFINE lines == [i \in DOMAIN old |-> IF old[i] \in P THEN Removed ELSE old[i]]
<1>1. Len(old) \in Nat /\ DOMAIN old = 1..Len(old)
  OBVIOUS
<1>2. lines \in [1..Len(old) -> Ids \cup {Removed}]
  BY <1>1
<1> HIDE DEF lines
<1>3. lines \in Seq(Ids \cup {Removed})
  BY <1>1, <1>2
<1> QED
  BY <1>3 DEF lines

LEMMA ServerTyped ==
  ASSUME ~IdsReused, HistoryInv, PageTyped,
         \/ Enqueue \/ SucceedJob \/ DeferJob \/ RestartAll
         \/ \E j \in Ids : ClaimJob(j) \/ ResumeJob(j) \/ EndWaiting(j)
         \/ \E t \in Threads : WriteLine(t) \/ FailJob(t) \/ LateLine(t)
         \/ \E c \in Cleaners : Pick(c) \/ Hide(c) \/ Purge(c)
  PROVE  PageTyped'
<1> USE DEF PageTyped
<1>1. Len(line) \in Nat /\ line \in Seq(Ids \cup {Removed}) /\ DOMAIN line = 1..Len(line)
  OBVIOUS
<1>2. line' \in Seq(Ids \cup {Removed})
  <2>1. ASSUME NEW j \in Ids, AddLine(j) PROVE line' \in Seq(Ids \cup {Removed})
    BY <1>1, <2>1 DEF AddLine
  <2>2. ASSUME NEW c \in Cleaners, Purge(c) PROVE line' \in Seq(Ids \cup {Removed})
    <3>1. line' = [i \in DOMAIN line |-> IF line[i] \in cleaner[c].picks THEN Removed ELSE line[i]]
      BY <2>2 DEF Purge, Trimmed
    <3> QED
      BY <3>1, LinesEmptied
  <2>3. CASE UNCHANGED line
    BY <1>1, <2>3
  <2>4. \A t \in Threads : thread[t].at \in {"run", "failing", "late"} => thread[t].job \in Ids
    BY DEF HistoryInv, HistoryTyped, NotAtWork
  <2> QED
    BY <2>1, <2>2, <2>3, <2>4 DEF Enqueue, SucceedJob, DeferJob, RestartAll, ClaimJob, ResumeJob, EndWaiting,
       WriteLine, FailJob, LateLine, Pick, Hide
<1>3. upto' \in Nat
  BY <1>1 DEF Enqueue, SucceedJob, DeferJob, RestartAll, ClaimJob, ResumeJob, EndWaiting, SetStatus,
     WriteLine, FailJob, LateLine, Pick, Hide, Purge
<1>4. CASE RestartAll
  <2>1. cuts' \in 0..MaxCuts
    BY <1>4, HistoryBounds DEF RestartAll
  <2>2. stream' \in Between \cup InTurn
    BY <1>4 DEF RestartAll, Between, InTurn
  <2>3. page' \in [log : Seq(Nat), asked : Answers, reply : Seq(Nat)]
    BY <1>4 DEF RestartAll, Answers
  <2> QED
    BY <1>2, <1>3, <2>1, <2>2, <2>3
<1>5. CASE UNCHANGED <<stream, page, cuts>>
  BY <1>2, <1>3, <1>5
<1> QED
  BY <1>4, <1>5 DEF ServerOnly, Enqueue, SucceedJob, DeferJob, ClaimJob, ResumeJob, EndWaiting,
     WriteLine, FailJob, LateLine, Pick, Hide, Purge

LEMMA StreamTyped ==
  ASSUME HistoryInv, PageTyped, OpenPage \/ LookAtJob \/ EndTurn \/ CutStream \/ Reconnect
  PROVE  PageTyped'
<1> USE DEF PageTyped
<1>1. UNCHANGED <<line, upto>>
  BY DEF PageOnly, OpenPage, LookAtJob, EndTurn, CutStream, Reconnect
<1>2. stream.first \in BOOLEAN /\ stream.last \in Nat
  BY DEF Between, InTurn
<1>3. page' \in [log : Seq(Nat), asked : Answers, reply : Seq(Nat)]
  <2>1. page' = [page EXCEPT !.asked = "yes"] \/ page' = page
    BY DEF OpenPage, LookAtJob, EndTurn, CutStream, Reconnect, PageOnly
  <2> QED
    BY <2>1 DEF Answers
<1>7. cuts' \in 0..MaxCuts
  BY HistoryBounds DEF OpenPage, LookAtJob, EndTurn, CutStream, Reconnect
<1>4. CASE OpenPage \/ CutStream \/ Reconnect
  <2>1. \E at \in {"turn", "cut", "closed"} : stream' = [at |-> at, first |-> TRUE, last |-> 0]
    BY <1>4 DEF OpenPage, CutStream, Reconnect
  <2>2. stream' \in Between
    BY <2>1 DEF Between
  <2> QED
    BY <1>1, <1>3, <1>7, <2>2
<1>5. CASE EndTurn
  BY <1>1, <1>2, <1>3, <1>7, <1>5 DEF EndTurn, Between
<1>6. CASE LookAtJob
  <2>1. CASE listed[Watched] = NoJobRow
    <3>1. stream' = [stream EXCEPT !.at = "closed"] /\ stream \in Between
      BY <1>6, <2>1 DEF LookAtJob, InTurn
    <3> QED
      BY <1>1, <1>3, <1>7, <3>1 DEF Between
  <2>2. CASE listed[Watched] # NoJobRow
    <3>1. listed[Watched].status \in Finished \cup Unfinished
      BY <2>2, WatchedIs DEF HistoryInv, HistoryTyped, JobRow
    <3> QED
      BY <1>1, <1>2, <1>3, <1>7, <1>6, <2>2, <3>1 DEF LookAtJob, InTurn
  <2> QED
    BY <2>1, <2>2
<1> QED
  BY <1>4, <1>5, <1>6

LEMMA LogOfPageTyped ==
  ASSUME PageTyped, GetJob \/ TakeReply \/ SendFrame
  PROVE  PageTyped'
<1> USE DEF PageTyped
<1>1. UNCHANGED <<line, upto, cuts>>
  BY DEF PageOnly, GetJob, TakeReply, SendFrame
<1>2. \A n, R : Latest(n, R) \in SUBSET R
  BY DEF Latest
<1>3. CASE GetJob
  <2>1. InOrder(Latest(LogLimit, LinesOf(Watched))) \in Seq(Nat)
    BY <1>2, LinesOrdered
  <2> QED
    BY <1>1, <1>3, <2>1 DEF GetJob, Answers
<1>4. CASE TakeReply
  <2>1. page' \in [log : Seq(Nat), asked : Answers, reply : Seq(Nat)]
    BY <1>4 DEF TakeReply, Answers
  <2> QED
    BY <1>1, <1>4, <2>1 DEF TakeReply
<1>5. CASE SendFrame
  <2> DEFINE new == IF stream.first THEN Latest(LogLimit, LinesOf(Watched)) ELSE NewLines(stream.last)
  <2>1. /\ stream' = [stream EXCEPT !.at = "sent", !.first = FALSE, !.last = IF new # {} THEN Newest(new) ELSE @]
        /\ page' = [page EXCEPT !.log = IF stream.first THEN InOrder(new) ELSE @ \o InOrder(new)]
        /\ stream.at = "looked"
    BY <1>5 DEF SendFrame
  <2>2. new \in SUBSET LinesOf(Watched)
    BY <1>2 DEF NewLines
  <2> HIDE DEF new
  <2>3. InOrder(new) \in Seq(Nat) /\ (new # {} => Newest(new) \in Nat)
    BY <2>2, LinesOrdered
  <2>4. stream \in InTurn
    BY <2>1 DEF Between
  <2>5. stream' \in InTurn
    BY <2>1, <2>3, <2>4 DEF InTurn
  <2>6. page.log \o InOrder(new) \in Seq(Nat)
    BY <2>3
  <2>7. page' \in [log : Seq(Nat), asked : Answers, reply : Seq(Nat)]
    BY <2>1, <2>3, <2>6
  <2> QED
    BY <1>1, <2>5, <2>7
<1> QED
  BY <1>3, <1>4, <1>5

LEMMA PageTypedStep == ~IdsReused /\ HistoryInv /\ PageTyped /\ [HistoryNext]_history => PageTyped'
<1> SUFFICES ASSUME ~IdsReused, HistoryInv, PageTyped, [HistoryNext]_history PROVE PageTyped'
  OBVIOUS
<1>1. CASE UNCHANGED history
  BY <1>1 DEF history, PageTyped
<1> QED
  BY <1>1, ServerTyped, StreamTyped, LogOfPageTyped DEF HistoryNext

\* The table of jobs, the cleaners, the threads and the page keep their types, if no id
\* is given twice.
THEOREM HistoryIsTyped == ASSUME ~IdsReused PROVE HistorySpec => []HistoryTypeOK
<1> USE ~IdsReused
<1>1. HistorySpec => [](HistoryInv /\ PageTyped)
  BY HistoryStep, PageTypedStep, InitHistoryInv, InitPageTyped, PTL DEF HistorySpec
<1> QED
  BY <1>1, HistoryTypeParts, PTL
=============================================================================
