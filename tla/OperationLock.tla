----------------------------- MODULE OperationLock -----------------------------
(* The two locks every lifecycle operation of app/api.py goes through:        *)
(*   - _deployment_operation_lock(dep): one lock per deployment, kept in a    *)
(*     registry of reference-counted entries that a short guard protects;     *)
(*   - _lifecycle_admission_lock: one lock for all admissions.                *)
(* A request is one execution of a handler.  Depending on the handler it      *)
(* takes the deployment lock only (power, resize, snapshot, reconcile, the    *)
(* worker's cleanup retry), both, nested in that order (destroy, rebuild,     *)
(* local cleanup, retry of a cleanup), or the admission lock only (deploy).   *)
EXTENDS Naturals, FiniteSets

CONSTANTS
  Requests,    \* the handler executions
  Deployments, \* deployment ids
  Entries,     \* the registry entries the process can hold at one time
  None         \* no entry, no holder (Python's None)

ASSUME RequestsFinite == IsFiniteSet(Requests)
ASSUME NoneIsNothing == None \notin Requests \cup Entries

Kinds == {"operation", "both", "admission"}

VARIABLES
  deployment, \* request -> the deployment id it names
  kind,       \* request -> which locks its handler takes
  pc,         \* request -> where it is
  entry,      \* request -> its local variable `entry`
  guard,      \* _deployment_operation_locks_guard
  registry,   \* _deployment_operation_locks
  users,      \* entry -> its reference count
  holder,     \* entry -> who holds entry.lock
  admission   \* who holds _lifecycle_admission_lock

vars == <<deployment, kind, pc, entry, guard, registry, users, holder, admission>>
request == <<deployment, kind>>

Places == {"start", "lookup", "reference", "waiting", "admitting", "critical",
           "unlock", "leaving", "release", "done"}

\* The places where a request's local `entry` is bound.
Bound(r) == kind[r] # "admission" /\ pc[r] \in Places \ {"start", "lookup", "done"}
\* The places where the request is counted in entry.users.
Counted(r) == Bound(r) /\ pc[r] # "reference"
\* The places where the request holds entry.lock.
Holds(r) == Bound(r) /\ pc[r] \in {"admitting", "critical", "unlock"}

Init ==
  /\ deployment \in [Requests -> Deployments]
  /\ kind \in [Requests -> Kinds]
  /\ pc = [r \in Requests |-> "start"]
  /\ entry = [r \in Requests |-> None]
  /\ guard = None
  /\ registry = [d \in Deployments |-> None]
  /\ users = [e \in Entries |-> 0]
  /\ holder = [e \in Entries |-> None]
  /\ admission = None

Goto(r, place) == pc' = [pc EXCEPT ![r] = place]

\* The garbage collector keeps every entry that is reachable.
Reachable(e) == (\E d \in Deployments : registry[d] = e) \/ (\E r \in Requests : entry[r] = e)

--------------------------------------------------------------------------------
\* `with _deployment_operation_locks_guard:` on the way in
EnterGuard(r) ==
  /\ pc[r] = "start" /\ kind[r] # "admission"
  /\ guard = None
  /\ guard' = r
  /\ Goto(r, "lookup")
  /\ UNCHANGED <<request, entry, registry, users, holder, admission>>

\* entry = _deployment_operation_locks.get(deployment_id), found
LookupFound(r) ==
  /\ pc[r] = "lookup"
  /\ registry[deployment[r]] # None
  /\ entry' = [entry EXCEPT ![r] = registry[deployment[r]]]
  /\ Goto(r, "reference")
  /\ UNCHANGED <<request, guard, registry, users, holder, admission>>

\* ... or missing: a new entry, with a new lock and no users, is registered
LookupCreate(r) ==
  /\ pc[r] = "lookup"
  /\ registry[deployment[r]] = None
  /\ \E e \in Entries :
       /\ ~Reachable(e)
       /\ entry' = [entry EXCEPT ![r] = e]
       /\ registry' = [registry EXCEPT ![deployment[r]] = e]
       /\ users' = [users EXCEPT ![e] = 0]
       /\ holder' = [holder EXCEPT ![e] = None]
  /\ Goto(r, "reference")
  /\ UNCHANGED <<request, guard, admission>>

\* entry.users += 1, and the guard is released
Reference(r) ==
  /\ pc[r] = "reference"
  /\ users' = [users EXCEPT ![entry[r]] = @ + 1]
  /\ guard' = None
  /\ Goto(r, "waiting")
  /\ UNCHANGED <<request, entry, registry, holder, admission>>

\* Mutant of Acquire: one lock for all deployments.
AcquireGlobal(r) ==
  /\ pc[r] = "waiting"
  /\ \A e \in Entries : holder[e] = None
  /\ holder' = [holder EXCEPT ![entry[r]] = r]
  /\ Goto(r, IF kind[r] = "both" THEN "admitting" ELSE "critical")
  /\ UNCHANGED <<request, entry, guard, registry, users, admission>>

\* entry.lock.acquire() succeeds
Acquire(r) ==
  /\ pc[r] = "waiting"
  /\ holder[entry[r]] = None
  /\ holder' = [holder EXCEPT ![entry[r]] = r]
  /\ Goto(r, IF kind[r] = "both" THEN "admitting" ELSE "critical")
  /\ UNCHANGED <<request, entry, guard, registry, users, admission>>

\* `with _lifecycle_admission_lock:`, nested in the deployment's lock or alone
Admit(r) ==
  /\ \/ pc[r] = "admitting"
     \/ pc[r] = "start" /\ kind[r] = "admission"
  /\ admission = None
  /\ admission' = r
  /\ Goto(r, "critical")
  /\ UNCHANGED <<request, entry, guard, registry, users, holder>>

\* Mutant of Leave: a body that fails keeps the admission lock.
LeaveWithoutRelease(r) ==
  /\ pc[r] = "critical"
  /\ \/ admission' = IF admission = r THEN None ELSE admission
     \/ UNCHANGED admission
  /\ Goto(r, IF kind[r] = "admission" THEN "done" ELSE "unlock")
  /\ UNCHANGED <<request, entry, guard, registry, users, holder>>

\* the body ends, by return or by exception; the inner lock goes first
Leave(r) ==
  /\ pc[r] = "critical"
  /\ admission' = IF admission = r THEN None ELSE admission
  /\ Goto(r, IF kind[r] = "admission" THEN "done" ELSE "unlock")
  /\ UNCHANGED <<request, entry, guard, registry, users, holder>>

\* finally: entry.lock.release()
Unlock(r) ==
  /\ pc[r] = "unlock"
  /\ holder' = [holder EXCEPT ![entry[r]] = None]
  /\ Goto(r, "leaving")
  /\ UNCHANGED <<request, entry, guard, registry, users, admission>>

\* `with _deployment_operation_locks_guard:` on the way out
ReenterGuard(r) ==
  /\ pc[r] = "leaving"
  /\ guard = None
  /\ guard' = r
  /\ Goto(r, "release")
  /\ UNCHANGED <<request, entry, registry, users, holder, admission>>

\* Mutants of Release: whoever leaves removes the entry; nobody removes it.
ReleaseAlwaysRemoves(r) ==
  /\ pc[r] = "release"
  /\ users' = [users EXCEPT ![entry[r]] = @ - 1]
  /\ registry' = [registry EXCEPT ![deployment[r]] = None]
  /\ entry' = [entry EXCEPT ![r] = None]
  /\ guard' = None
  /\ Goto(r, "done")
  /\ UNCHANGED <<request, holder, admission>>

ReleaseNeverRemoves(r) ==
  /\ pc[r] = "release"
  /\ users' = [users EXCEPT ![entry[r]] = @ - 1]
  /\ entry' = [entry EXCEPT ![r] = None]
  /\ guard' = None
  /\ Goto(r, "done")
  /\ UNCHANGED <<request, registry, holder, admission>>

\* users -= 1; the last user removes the entry, if it is still the one listed
Release(r) ==
  /\ pc[r] = "release"
  /\ users' = [users EXCEPT ![entry[r]] = @ - 1]
  /\ registry' = IF users'[entry[r]] = 0 /\ registry[deployment[r]] = entry[r]
                   THEN [registry EXCEPT ![deployment[r]] = None]
                   ELSE registry
  /\ entry' = [entry EXCEPT ![r] = None]
  /\ guard' = None
  /\ Goto(r, "done")
  /\ UNCHANGED <<request, holder, admission>>

\* every step a request takes without deciding how long its body runs
Step(r) ==
  \/ EnterGuard(r) \/ LookupFound(r) \/ LookupCreate(r) \/ Reference(r)
  \/ Acquire(r) \/ Admit(r) \/ Unlock(r) \/ ReenterGuard(r) \/ Release(r)

Next == \E r \in Requests : Step(r) \/ Leave(r)

Spec == Init /\ [][Next]_vars
\* Threads run; a body may last for ever (a Proxmox call in it may hang).
StepsSpec == Spec /\ \A r \in Requests : WF_vars(Step(r))
\* Every body ends (every Proxmox call in it has a timeout).
BodiesEnd == \A r \in Requests : WF_vars(Leave(r))

--------------------------------------------------------------------------------
TypeOK ==
  /\ deployment \in [Requests -> Deployments]
  /\ kind \in [Requests -> Kinds]
  /\ pc \in [Requests -> Places]
  /\ entry \in [Requests -> Entries \cup {None}]
  /\ guard \in Requests \cup {None}
  /\ registry \in [Deployments -> Entries \cup {None}]
  /\ users \in [Entries -> Nat]
  /\ holder \in [Entries -> Requests \cup {None}]
  /\ admission \in Requests \cup {None}

\* Two operations never run their bodies at one time for one deployment, although
\* the lock that separates them is created and deleted on the fly: no operation
\* can hold an entry that the registry has already replaced.
MutualExclusion ==
  \A q, r \in Requests :
    q # r /\ Holds(q) /\ Holds(r) => deployment[q] # deployment[r]

\* "Entries therefore exist only while an operation owns or waits for them"
\* (api.py:1089): with the guard free, a deployment has an entry exactly when some
\* operation refers to one, and it is that one, so the registry never leaks.
RegistryExact ==
  guard = None =>
    \A d \in Deployments :
      IF registry[d] = None
        THEN ~ \E r \in Requests : deployment[r] = d /\ Bound(r)
        ELSE /\ \E r \in Requests : deployment[r] = d /\ Bound(r)
             /\ \A r \in Requests : deployment[r] = d /\ Bound(r) => entry[r] = registry[d]

\* What the registry amounts to: where a request is, and who has a deployment's lock.
Stage(r) ==
  CASE pc[r] \in {"start", "lookup", "reference", "waiting"} -> "outside"
    [] pc[r] = "admitting" -> "owning"
    [] pc[r] = "critical" -> "inside"
    [] pc[r] = "unlock" -> "leaving"
    [] pc[r] \in {"leaving", "release", "done"} -> "after"
OwnerOf(d) == IF registry[d] = None THEN None ELSE holder[registry[d]]

\* "Serialize power work and lifecycle admission for one deployment" (api.py:1084): the
\* entries that come and go behave as one lock per deployment that was always there, and
\* with the admission lock as DeploymentLocks says: taken before the body by who finds it
\* free, kept during the body, given back after it.
Locks == INSTANCE DeploymentLocks WITH
  stage <- [r \in Requests |-> Stage(r)], owner <- [d \in Deployments |-> OwnerOf(d)]
LocksImplemented == Locks!LocksSpec

\* Admissions are serialized: at most one body that counts quotas and inserts a
\* row runs at a time, across handlers that do and do not take a deployment lock.
AdmissionSerialized ==
  \A q, r \in Requests :
    /\ q # r /\ pc[q] = "critical" /\ pc[r] = "critical"
    => "operation" \in {kind[q], kind[r]}

\* The two locks are nested in one order by every handler that takes both, so
\* if bodies end every request is served: no deadlock, no lost wake-up.
EveryRequestServed ==
  BodiesEnd => \A r \in Requests : pc[r] = "start" ~> pc[r] = "done"

\* "... without serializing unrelated deployments" (api.py:1090): an operation on
\* a deployment nobody else works on reaches its body even if the bodies of all
\* other operations never end.
UnrelatedNotSerialized ==
  \A r \in Requests :
    (/\ pc[r] = "start" /\ kind[r] = "operation"
     /\ \A q \in Requests \ {r} : kind[q] = "admission" \/ deployment[q] # deployment[r])
    ~> pc[r] = "critical"
================================================================================
