---------------------------- MODULE DeploymentLocks ----------------------------
(* What _deployment_operation_lock and _lifecycle_admission_lock promise to    *)
(* the handlers of app/api.py: every deployment has one lock, which is there   *)
(* whenever somebody wants it, and all admissions together have one more.  A   *)
(* body runs inside the locks of its handler's kind and gives them back in the *)
(* reverse order.  There is no registry, no entry to be counted and no guard.  *)

CONSTANTS Requests, Deployments, None

VARIABLES
  deployment, kind,  \* what each request names and which locks it takes
  stage,             \* request -> how far it is
  owner,             \* deployment -> who has its lock
  admission          \* who has the admission lock

locks == <<deployment, kind, stage, owner, admission>>

LocksInit ==
  /\ deployment \in [Requests -> Deployments]
  /\ kind \in [Requests -> {"operation", "both", "admission"}]
  /\ stage = [r \in Requests |-> "outside"]
  /\ owner = [d \in Deployments |-> None]
  /\ admission = None

Becomes(r, s) == stage' = [stage EXCEPT ![r] = s] /\ UNCHANGED <<deployment, kind>>

Own(r) ==
  /\ stage[r] = "outside" /\ kind[r] # "admission"
  /\ owner[deployment[r]] = None
  /\ owner' = [owner EXCEPT ![deployment[r]] = r]
  /\ Becomes(r, IF kind[r] = "both" THEN "owning" ELSE "inside")
  /\ UNCHANGED admission

Enter(r) ==
  /\ stage[r] = IF kind[r] = "both" THEN "owning" ELSE "outside"
  /\ kind[r] # "operation"
  /\ admission = None
  /\ admission' = r
  /\ Becomes(r, "inside")
  /\ UNCHANGED owner

Finish(r) ==
  /\ stage[r] = "inside"
  /\ admission' = IF kind[r] = "operation" THEN admission ELSE None
  /\ Becomes(r, IF kind[r] = "admission" THEN "after" ELSE "leaving")
  /\ UNCHANGED owner

Disown(r) ==
  /\ stage[r] = "leaving"
  /\ owner' = [owner EXCEPT ![deployment[r]] = None]
  /\ Becomes(r, "after")
  /\ UNCHANGED admission

LocksNext == \E r \in Requests : Own(r) \/ Enter(r) \/ Finish(r) \/ Disown(r)
LocksSpec == LocksInit /\ [][LocksNext]_locks
================================================================================
