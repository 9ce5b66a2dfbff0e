------------------------------ MODULE LockProofs -------------------------------
(* What the locks of app/api.py achieve for every number of requests: the lock *)
(* of each deployment, the admission lock, and the two together.               *)
EXTENDS OperationLock, FiniteSetTheorems, TLAPS

--------------------------------------------------------------------------------
(* For every finite set of requests and every set of deployments: the locks   *)
(* of OperationLock are well typed, exclusive per deployment, never leaked,   *)
(* and admissions are serialized.                                             *)
(*                                                                            *)
(* MutualExclusion is not inductive: that two holders never share a           *)
(* deployment rests on their sharing one registry entry, which rests on the   *)
(* entry not being removed while somebody refers to it, which rests on users  *)
(* counting exactly the requests that refer to it.  LockInv says all of that. *)

GuardPlaces == {"lookup", "reference", "release"}

\* Only the request in the guarded block holds the guard.
GuardHeld == \A r \in Requests : guard = r <=> pc[r] \in GuardPlaces

\* A handler that takes the admission lock alone never visits the registry.
AdmissionPath ==
  \A r \in Requests :
    /\ kind[r] = "admission" => pc[r] \in {"start", "critical", "done"}
    /\ kind[r] # "both" => pc[r] # "admitting"

\* A bound entry is the registered entry of the request's deployment.
EntryRegistered ==
  \A r \in Requests :
    IF Bound(r) THEN entry[r] \in Entries /\ registry[deployment[r]] = entry[r]
                ELSE entry[r] = None

\* Deployments do not share entries.
EntryUnshared ==
  \A c, d \in Deployments : registry[c] = registry[d] /\ registry[c] # None => c = d

\* A registered entry has somebody who refers to it.
EntryNeeded ==
  \A d \in Deployments :
    registry[d] # None => \E r \in Requests : deployment[r] = d /\ Bound(r)

Referrers(e) == {r \in Requests : Counted(r) /\ entry[r] = e}

\* users is the number of requests that count themselves in.
UsersCounted ==
  \A d \in Deployments, e \in Entries : registry[d] = e => users[e] = Cardinality(Referrers(e))

\* holder names the request between acquire and release.
HolderExact ==
  \A d \in Deployments : registry[d] # None =>
    \A r \in Requests : holder[registry[d]] = r <=> Holds(r) /\ entry[r] = registry[d]

\* admission names the body that runs under the admission lock.
AdmissionHeld ==
  \A r \in Requests : admission = r <=> pc[r] = "critical" /\ kind[r] # "operation"

LockInv ==
  /\ TypeOK /\ GuardHeld /\ AdmissionPath /\ EntryRegistered /\ EntryUnshared
  /\ EntryNeeded /\ UsersCounted /\ HolderExact /\ AdmissionHeld

--------------------------------------------------------------------------------
\* The users of an entry are finitely many.
LEMMA ReferrersFinite ==
  ASSUME NEW e
  PROVE  /\ IsFiniteSet(Referrers(e))
         /\ Cardinality(Referrers(e)) \in Nat
<1>1. Referrers(e) \in SUBSET Requests
  BY DEF Referrers
<1>2. QED
  BY <1>1, RequestsFinite, FS_Subset, FS_CardinalityType

LEMMA InitLockInv == Init => LockInv
<1> SUFFICES ASSUME Init PROVE LockInv
  OBVIOUS
<1> QED
  BY NoneIsNothing DEF Init, LockInv, TypeOK, GuardHeld, AdmissionPath, EntryRegistered,
    EntryUnshared, EntryNeeded, UsersCounted, HolderExact, AdmissionHeld, Bound,
    Counted, Holds, Places, Kinds, GuardPlaces

\* A step that moves one request between places where it is counted the same way,
\* and touches neither its entry nor the registry, leaves every count alone.
LEMMA ReferrersUnmoved ==
  ASSUME LockInv, NEW r \in Requests,
         UNCHANGED <<kind, entry, registry, users>>,
         NEW place \in Places, Goto(r, place), Counted(r)' = Counted(r)
  PROVE  UsersCounted'
<1>1. \A e : Referrers(e)' = Referrers(e)
  BY Zenon DEF Referrers, Counted, Bound, Goto, LockInv, TypeOK
<1>2. QED
  BY <1>1 DEF LockInv, UsersCounted

LEMMA EnterGuardKeeps == ASSUME LockInv, NEW r \in Requests, EnterGuard(r) PROVE LockInv'
<1> USE DEF LockInv, EnterGuard, Goto, request
<1>1. TypeOK' /\ GuardHeld' /\ AdmissionPath'
  BY NoneIsNothing DEF TypeOK, GuardHeld, AdmissionPath, GuardPlaces, Places, Kinds
<1>2. EntryRegistered' /\ EntryUnshared' /\ EntryNeeded' /\ HolderExact' /\ AdmissionHeld'
  BY DEF TypeOK, EntryRegistered, EntryUnshared, EntryNeeded, HolderExact, AdmissionHeld,
    Bound, Counted, Holds, Places
<1>3. UsersCounted'
  BY ReferrersUnmoved DEF TypeOK, Counted, Bound, Places
<1>4. QED BY <1>1, <1>2, <1>3

LEMMA AcquireKeeps == ASSUME LockInv, NEW r \in Requests, Acquire(r) PROVE LockInv'
<1> USE DEF LockInv, Acquire, Goto, request
<1>1. TypeOK' /\ GuardHeld' /\ AdmissionPath'
  BY NoneIsNothing DEF TypeOK, GuardHeld, AdmissionPath, GuardPlaces, Places, Kinds
<1>2. EntryRegistered' /\ EntryUnshared' /\ EntryNeeded'
  BY NoneIsNothing DEF TypeOK, AdmissionPath, EntryRegistered, EntryUnshared, EntryNeeded,
    Bound, Places
<1>3. HolderExact' /\ AdmissionHeld'
  BY NoneIsNothing DEF TypeOK, AdmissionPath, EntryRegistered, EntryUnshared, HolderExact,
    AdmissionHeld, Bound, Holds, Places, Kinds
<1>4. UsersCounted'
  BY ReferrersUnmoved DEF TypeOK, AdmissionPath, Counted, Bound, Places
<1>5. QED BY <1>1, <1>2, <1>3, <1>4

LEMMA AdmitKeeps == ASSUME LockInv, NEW r \in Requests, Admit(r) PROVE LockInv'
<1> USE DEF LockInv, Admit, Goto, request
<1>1. TypeOK' /\ GuardHeld' /\ AdmissionPath'
  BY NoneIsNothing DEF TypeOK, GuardHeld, AdmissionPath, GuardPlaces, Places, Kinds
<1>2. EntryRegistered' /\ EntryUnshared' /\ EntryNeeded'
  BY NoneIsNothing DEF TypeOK, AdmissionPath, EntryRegistered, EntryUnshared, EntryNeeded,
    Bound, Places
<1>3. HolderExact' /\ AdmissionHeld'
  BY NoneIsNothing DEF TypeOK, AdmissionPath, EntryRegistered, EntryUnshared, HolderExact,
    AdmissionHeld, Bound, Holds, Places, Kinds
<1>4. UsersCounted'
  BY ReferrersUnmoved DEF TypeOK, AdmissionPath, Counted, Bound, Places
<1>5. QED BY <1>1, <1>2, <1>3, <1>4

LEMMA LeaveKeeps == ASSUME LockInv, NEW r \in Requests, Leave(r) PROVE LockInv'
<1> USE DEF LockInv, Leave, Goto, request
<1>1. TypeOK' /\ GuardHeld' /\ AdmissionPath'
  BY NoneIsNothing DEF TypeOK, GuardHeld, AdmissionPath, GuardPlaces, Places, Kinds
<1>2. EntryRegistered' /\ EntryUnshared' /\ EntryNeeded'
  BY NoneIsNothing DEF TypeOK, AdmissionPath, EntryRegistered, EntryUnshared, EntryNeeded,
    Bound, Places
<1>3. HolderExact' /\ AdmissionHeld'
  BY NoneIsNothing DEF TypeOK, AdmissionPath, EntryRegistered, EntryUnshared, HolderExact,
    AdmissionHeld, Bound, Holds, Places, Kinds
<1>4. UsersCounted'
  BY ReferrersUnmoved DEF TypeOK, AdmissionPath, Counted, Bound, Places
<1>5. QED BY <1>1, <1>2, <1>3, <1>4

LEMMA UnlockKeeps == ASSUME LockInv, NEW r \in Requests, Unlock(r) PROVE LockInv'
<1> USE DEF LockInv, Unlock, Goto, request
<1>1. TypeOK' /\ GuardHeld' /\ AdmissionPath'
  BY NoneIsNothing DEF TypeOK, GuardHeld, AdmissionPath, GuardPlaces, Places, Kinds
<1>2. EntryRegistered' /\ EntryUnshared' /\ EntryNeeded'
  BY NoneIsNothing DEF TypeOK, AdmissionPath, EntryRegistered, EntryUnshared, EntryNeeded,
    Bound, Places
<1>3. HolderExact' /\ AdmissionHeld'
  BY NoneIsNothing DEF TypeOK, AdmissionPath, EntryRegistered, EntryUnshared, HolderExact,
    AdmissionHeld, Bound, Holds, Places, Kinds
<1>4. UsersCounted'
  BY ReferrersUnmoved DEF TypeOK, AdmissionPath, Counted, Bound, Places
<1>5. QED BY <1>1, <1>2, <1>3, <1>4

LEMMA ReenterGuardKeeps == ASSUME LockInv, NEW r \in Requests, ReenterGuard(r) PROVE LockInv'
<1> USE DEF LockInv, ReenterGuard, Goto, request
<1>1. TypeOK' /\ GuardHeld' /\ AdmissionPath'
  BY NoneIsNothing DEF TypeOK, GuardHeld, AdmissionPath, GuardPlaces, Places, Kinds
<1>2. EntryRegistered' /\ EntryUnshared' /\ EntryNeeded'
  BY NoneIsNothing DEF TypeOK, AdmissionPath, EntryRegistered, EntryUnshared, EntryNeeded,
    Bound, Places
<1>3. HolderExact' /\ AdmissionHeld'
  BY NoneIsNothing DEF TypeOK, AdmissionPath, EntryRegistered, EntryUnshared, HolderExact,
    AdmissionHeld, Bound, Holds, Places, Kinds
<1>4. UsersCounted'
  BY ReferrersUnmoved DEF TypeOK, AdmissionPath, Counted, Bound, Places
<1>5. QED BY <1>1, <1>2, <1>3, <1>4

LEMMA LookupFoundKeeps == ASSUME LockInv, NEW r \in Requests, LookupFound(r) PROVE LockInv'
<1> USE DEF LockInv, LookupFound, Goto, request
<1>1. TypeOK' /\ GuardHeld' /\ AdmissionPath'
  BY NoneIsNothing DEF TypeOK, GuardHeld, AdmissionPath, GuardPlaces, Places, Kinds
<1>2. EntryRegistered' /\ EntryUnshared' /\ EntryNeeded'
  BY NoneIsNothing DEF TypeOK, AdmissionPath, EntryRegistered, EntryUnshared, EntryNeeded,
    Bound, Places
<1>3. HolderExact' /\ AdmissionHeld'
  BY NoneIsNothing DEF TypeOK, AdmissionPath, EntryRegistered, EntryUnshared, HolderExact,
    AdmissionHeld, Bound, Holds, Places, Kinds
<1>4. UsersCounted'
  <2>1. \A e \in Entries : Referrers(e)' = Referrers(e)
    BY DEF Referrers, Counted, Bound, TypeOK, EntryRegistered, Places
  <2>2. QED BY <2>1 DEF UsersCounted, TypeOK
<1>5. QED BY <1>1, <1>2, <1>3, <1>4

LEMMA LookupCreateKeeps == ASSUME LockInv, NEW r \in Requests, LookupCreate(r) PROVE LockInv'
<1> USE DEF LockInv, Goto, request
<1>1. PICK e \in Entries :
        /\ ~Reachable(e)
        /\ entry' = [entry EXCEPT ![r] = e]
        /\ registry' = [registry EXCEPT ![deployment[r]] = e]
        /\ users' = [users EXCEPT ![e] = 0]
        /\ holder' = [holder EXCEPT ![e] = None]
  BY DEF LookupCreate
<1>2. /\ pc[r] = "lookup" /\ registry[deployment[r]] = None
      /\ pc' = [pc EXCEPT ![r] = "reference"]
      /\ UNCHANGED <<deployment, kind, guard, admission>>
  BY DEF LookupCreate
<1>3. /\ \A d \in Deployments : registry[d] # e
      /\ \A q \in Requests : entry[q] # e
  BY <1>1 DEF Reachable
<1>4. TypeOK' /\ GuardHeld' /\ AdmissionPath'
  BY <1>1, <1>2, NoneIsNothing DEF TypeOK, GuardHeld, AdmissionPath, GuardPlaces, Places, Kinds
<1>5. EntryRegistered'
  BY <1>1, <1>2, <1>3, NoneIsNothing DEF TypeOK, AdmissionPath, EntryRegistered, Bound, Places
<1>6. EntryUnshared' /\ EntryNeeded'
  BY <1>1, <1>2, <1>3, NoneIsNothing DEF TypeOK, AdmissionPath, EntryUnshared, EntryNeeded, Bound, Places
<1>7. HolderExact'
  BY <1>1, <1>2, <1>3, NoneIsNothing DEF TypeOK, AdmissionPath, HolderExact, Bound, Holds, Places
<1>8. AdmissionHeld'
  BY <1>1, <1>2 DEF TypeOK, AdmissionHeld, Places
<1>9. UsersCounted'
  <2>1. Referrers(e)' = {}
    BY <1>1, <1>2, <1>3 DEF Referrers, Counted, Bound, TypeOK, Places
  <2>2. \A f \in Entries \ {e} : Referrers(f)' = Referrers(f) /\ users'[f] = users[f]
    BY <1>1, <1>2 DEF Referrers, Counted, Bound, TypeOK, EntryRegistered, Places
  <2>3. registry' \in [Deployments -> Entries \cup {None}] /\ users'[e] = 0
    BY <1>1, <1>4 DEF TypeOK
  <2>4. \A d \in Deployments : registry'[d] = registry[d] \/ registry'[d] = e
    BY <1>1 DEF TypeOK
  <2>5. QED BY <2>1, <2>2, <2>3, <2>4, FS_EmptySet DEF UsersCounted
<1>10. QED BY <1>4, <1>5, <1>6, <1>7, <1>8, <1>9

LEMMA ReferenceKeeps == ASSUME LockInv, NEW r \in Requests, Reference(r) PROVE LockInv'
<1> USE DEF LockInv, Reference, Goto, request
<1>0. entry[r] \in Entries
  BY DEF EntryRegistered, TypeOK, Bound, AdmissionPath, Places
<1>1. TypeOK' /\ GuardHeld' /\ AdmissionPath'
  BY <1>0, NoneIsNothing DEF TypeOK, GuardHeld, AdmissionPath, GuardPlaces, Places, Kinds
<1>2. EntryRegistered' /\ EntryUnshared' /\ EntryNeeded'
  BY NoneIsNothing DEF TypeOK, AdmissionPath, EntryRegistered, EntryUnshared, EntryNeeded,
    Bound, Places
<1>3. HolderExact' /\ AdmissionHeld'
  BY NoneIsNothing DEF TypeOK, AdmissionPath, EntryRegistered, EntryUnshared, HolderExact,
    AdmissionHeld, Bound, Holds, Places, Kinds
<1>4. UsersCounted'
  <2> DEFINE e == entry[r]
  <2>1. e \in Entries /\ registry[deployment[r]] = e
    BY DEF EntryRegistered, AdmissionPath, TypeOK, Bound, Places
  <2>2. r \notin Referrers(e) /\ Referrers(e)' = Referrers(e) \cup {r}
    BY <2>1 DEF Referrers, Counted, Bound, TypeOK, AdmissionPath, Places
  <2>3. Cardinality(Referrers(e)') = Cardinality(Referrers(e)) + 1
    BY <2>2, ReferrersFinite, FS_AddElement
  <2>4. \A f \in Entries \ {e} : Referrers(f)' = Referrers(f) /\ users'[f] = users[f]
    BY <2>1 DEF Referrers, Counted, Bound, TypeOK, AdmissionPath, Places
  <2>5. users'[e] = users[e] + 1
    BY <2>1 DEF TypeOK
  <2>6. QED BY <2>1, <2>3, <2>4, <2>5 DEF UsersCounted, TypeOK
<1>5. QED BY <1>1, <1>2, <1>3, <1>4

LEMMA ReleaseKeeps == ASSUME LockInv, NEW r \in Requests, Release(r) PROVE LockInv'
<1> USE DEF LockInv
<1>0. PICK e \in Entries, d \in Deployments :
        pc[r] = "release" /\ e = entry[r] /\ d = deployment[r] /\ registry[d] = e
  BY DEF Release, EntryRegistered, AdmissionPath, TypeOK, Bound, Places
<1>1. /\ pc[r] = "release" /\ pc' = [pc EXCEPT ![r] = "done"]
      /\ users' = [users EXCEPT ![e] = @ - 1]
      /\ entry' = [entry EXCEPT ![r] = None]
      /\ guard' = None
      /\ UNCHANGED <<deployment, kind, holder, admission>>
  BY <1>0 DEF Release, Goto, request
<1>2. kind[r] # "admission" /\ Bound(r) /\ Counted(r) /\ ~Holds(r)
  BY <1>1 DEF AdmissionPath, Bound, Counted, Holds, Places
<1>3. e = entry[r] /\ d = deployment[r] /\ registry[d] = e
  BY <1>0
<1>4. Referrers(e)' = Referrers(e) \ {r} /\ r \in Referrers(e)
  BY <1>1, <1>2, <1>3, NoneIsNothing DEF Referrers, Counted, Bound, TypeOK, Places
<1>5. /\ users[e] = Cardinality(Referrers(e)) /\ users[e] \in Nat \ {0}
      /\ users'[e] = Cardinality(Referrers(e)') /\ users'[e] = users[e] - 1
      /\ users'[e] = 0 <=> Referrers(e)' = {}
  <2>1. users[e] = Cardinality(Referrers(e))
    BY <1>3, NoneIsNothing DEF UsersCounted, TypeOK
  <2>2. Cardinality(Referrers(e)') = Cardinality(Referrers(e)) - 1
    BY <1>4, ReferrersFinite, FS_RemoveElement
  <2>3. IsFiniteSet(Referrers(e)')
    BY <1>4, ReferrersFinite, FS_RemoveElement
  <2>4. Cardinality(Referrers(e)) \in Nat \ {0}
    BY <1>4, ReferrersFinite, FS_EmptySet
  <2>5. users'[e] = users[e] - 1
    BY <1>1, <1>3 DEF TypeOK
  <2>6. Cardinality(Referrers(e)') = 0 <=> Referrers(e)' = {}
    BY <2>3, FS_EmptySet
  <2>7. QED BY <2>1, <2>2, <2>4, <2>5, <2>6
<1>6. registry' = IF users'[e] = 0 THEN [registry EXCEPT ![d] = None] ELSE registry
  BY <1>3 DEF Release
<1>7. \A f \in Entries \ {e} : Referrers(f)' = Referrers(f) /\ users'[f] = users[f]
  BY <1>1, <1>3, NoneIsNothing DEF Referrers, Counted, Bound, TypeOK, Places
\* With the guard held here, nobody is between looking the entry up and counting
\* itself in: whoever still refers to the entry is counted.
<1>8. \A q \in Requests \ {r} : Bound(q) /\ entry[q] = e => q \in Referrers(e)'
  BY <1>1, <1>3, NoneIsNothing DEF GuardHeld, GuardPlaces, Referrers, Counted, Bound, TypeOK, Places
<1>9. TypeOK'
  BY <1>1, <1>3, <1>5, <1>6 DEF TypeOK, Places
<1>10. GuardHeld' /\ AdmissionPath'
  BY <1>1, NoneIsNothing DEF TypeOK, GuardHeld, AdmissionPath, GuardPlaces, Places
<1>11. EntryRegistered'
  <2> SUFFICES ASSUME NEW q \in Requests
               PROVE  IF Bound(q)' THEN entry'[q] \in Entries /\ registry'[deployment'[q]] = entry'[q]
                                   ELSE entry'[q] = None
    BY DEF EntryRegistered
  <2>1. CASE q = r
    BY <2>1, <1>1 DEF TypeOK, Bound, Places
  <2>2. CASE q # r
    <3>1. Bound(q)' = Bound(q) /\ entry'[q] = entry[q]
      BY <2>2, <1>1 DEF TypeOK, Bound
    <3>2. CASE ~Bound(q)
      BY <3>1, <3>2 DEF EntryRegistered
    <3>3. CASE Bound(q)
      <4>1. entry[q] \in Entries /\ registry[deployment[q]] = entry[q]
        BY <3>3 DEF EntryRegistered
      <4>2. deployment[q] = d => users'[e] # 0
        BY <4>1, <2>2, <3>3, <1>3, <1>5, <1>8
      <4>3. QED BY <4>1, <4>2, <3>1, <3>3, <1>1, <1>3, <1>6 DEF TypeOK
    <3>4. QED BY <3>2, <3>3
  <2>3. QED BY <2>1, <2>2
<1>12. EntryUnshared'
  BY <1>3, <1>6, NoneIsNothing DEF EntryUnshared, TypeOK
<1>13. EntryNeeded'
  <2> SUFFICES ASSUME NEW c \in Deployments, registry'[c] # None
               PROVE  \E q \in Requests : deployment'[q] = c /\ Bound(q)'
    BY DEF EntryNeeded
  <2>1. registry'[c] = registry[c]
    BY <1>6, <1>3 DEF TypeOK
  <2>2. CASE c = d
    <3>1. PICK q \in Requests : q \in Referrers(e)'
      BY <2>2, <1>3, <1>5, <1>6 DEF Referrers, TypeOK
    <3>2. Bound(q)' /\ entry'[q] = e
      BY <3>1 DEF Referrers, Counted
    <3>3. deployment'[q] = d
      BY <3>2, <1>11, <1>3, <2>1, <2>2, <1>1, <1>9, NoneIsNothing
      DEF EntryRegistered, EntryUnshared, TypeOK, Bound
    <3>4. QED BY <3>2, <3>3, <2>2
  <2>3. CASE c # d
    <3>1. PICK q \in Requests : deployment[q] = c /\ Bound(q)
      BY <2>1 DEF EntryNeeded
    <3>2. q # r /\ Bound(q)' /\ deployment'[q] = c
      BY <3>1, <2>3, <1>1, <1>3 DEF Bound, TypeOK
    <3>3. QED BY <3>2
  <2>4. QED BY <2>2, <2>3
<1>14. UsersCounted'
  <2> SUFFICES ASSUME NEW c \in Deployments, NEW f \in Entries, registry'[c] = f
               PROVE  users'[f] = Cardinality(Referrers(f)')
    BY DEF UsersCounted
  <2>1. registry[c] = f
    BY <1>6, <1>3, NoneIsNothing DEF TypeOK
  <2>2. QED BY <2>1, <1>5, <1>7 DEF UsersCounted
<1>15. HolderExact'
  <2> SUFFICES ASSUME NEW c \in Deployments, registry'[c] # None, NEW q \in Requests
               PROVE  holder'[registry'[c]] = q <=> Holds(q)' /\ entry'[q] = registry'[c]
    BY DEF HolderExact
  <2>1. registry'[c] = registry[c]
    BY <1>6, <1>3 DEF TypeOK
  <2>2. Holds(q)' = Holds(q) /\ (Holds(q) => entry'[q] = entry[q])
    BY <1>1, <1>2 DEF Holds, Bound, TypeOK, Places
  <2>3. QED BY <2>1, <2>2, <1>1 DEF HolderExact
<1>16. AdmissionHeld'
  BY <1>1 DEF AdmissionHeld, TypeOK, Places
<1>17. QED
  BY <1>9, <1>10, <1>11, <1>12, <1>13, <1>14, <1>15, <1>16

--------------------------------------------------------------------------------
\* LockInv holds in every reachable state.
THEOREM LockInvariant == Spec => []LockInv
<1>1. LockInv /\ [Next]_vars => LockInv'
  <2> SUFFICES ASSUME LockInv, [Next]_vars PROVE LockInv'
    OBVIOUS
  <2>1. CASE UNCHANGED vars
    BY <2>1 DEF vars, LockInv, TypeOK, GuardHeld, AdmissionPath, EntryRegistered,
      EntryUnshared, EntryNeeded, UsersCounted, Referrers, HolderExact, AdmissionHeld, Bound,
      Counted, Holds
  <2>2. CASE Next
    <3>1. PICK r \in Requests : Step(r) \/ Leave(r)
      BY <2>2 DEF Next
    <3>2. QED
      BY <3>1, EnterGuardKeeps, LookupFoundKeeps, LookupCreateKeeps, ReferenceKeeps,
        AcquireKeeps, AdmitKeeps, UnlockKeeps, ReenterGuardKeeps, ReleaseKeeps, LeaveKeeps
      DEF Step
  <2>3. QED BY <2>1, <2>2
<1>2. QED BY <1>1, InitLockInv, PTL DEF Spec

\* The variables of the locks keep their types; in particular no reference count
\* becomes negative (app/api.py, _deployment_operation_lock).
THEOREM Typing == Spec => []TypeOK
BY LockInvariant, PTL DEF LockInv

\* At most one operation runs its body for a deployment at a time
\* (app/api.py, _deployment_operation_lock).
THEOREM Exclusion == Spec => []MutualExclusion
<1>1. LockInv => MutualExclusion
  <2> SUFFICES ASSUME LockInv, NEW q \in Requests, NEW r \in Requests,
                      Holds(q), Holds(r), deployment[q] = deployment[r]
               PROVE  q = r
    BY DEF MutualExclusion
  <2>1. entry[q] = entry[r] /\ registry[deployment[r]] = entry[r] /\ entry[r] \in Entries
    BY DEF LockInv, EntryRegistered, Holds
  <2>2. holder[entry[r]] = q /\ holder[entry[r]] = r
    BY <2>1, NoneIsNothing DEF LockInv, HolderExact, TypeOK
  <2>3. QED BY <2>2
<1>2. QED BY <1>1, LockInvariant, PTL

\* A registry entry exists exactly while an operation refers to it
\* (app/api.py, the docstring of _deployment_operation_lock).
THEOREM NoLeakedEntry == Spec => []RegistryExact
<1>1. LockInv => RegistryExact
  BY NoneIsNothing DEF LockInv, RegistryExact, EntryRegistered, EntryNeeded, TypeOK
<1>2. QED BY <1>1, LockInvariant, PTL

\* At most one body runs under the admission lock, with or without a deployment
\* lock around it (app/api.py, deploy, vm_rebuild, vm_destroy, vm_cleanup_local).
THEOREM Admission == Spec => []AdmissionSerialized
<1>1. LockInv => AdmissionSerialized
  BY DEF LockInv, AdmissionHeld, AdmissionSerialized, TypeOK, Kinds
<1>2. QED BY <1>1, LockInvariant, PTL

--------------------------------------------------------------------------------
(* The registry implements one lock per deployment that is always there.      *)

\* Who has the lock of a deployment is who holds the entry of its requests.
LEMMA OwnerIs ==
  ASSUME LockInv, NEW d \in Deployments, registry[d] # None
  PROVE  /\ OwnerOf(d) = holder[registry[d]]
         /\ \A r \in Requests : OwnerOf(d) = r <=> Holds(r) /\ deployment[r] = d
<1>1. OwnerOf(d) = holder[registry[d]]
  BY DEF OwnerOf
<1>2. ASSUME NEW r \in Requests PROVE OwnerOf(d) = r <=> Holds(r) /\ deployment[r] = d
  <2>1. OwnerOf(d) = r <=> Holds(r) /\ entry[r] = registry[d]
    BY <1>1 DEF LockInv, HolderExact
  <2>2. Holds(r) => registry[deployment[r]] = entry[r] /\ deployment[r] \in Deployments
    BY DEF LockInv, EntryRegistered, Holds, TypeOK
  <2>3. Holds(r) /\ entry[r] = registry[d] => deployment[r] = d
    BY <2>2 DEF LockInv, EntryUnshared
  <2> QED
    BY <2>1, <2>2, <2>3
<1> QED
  BY <1>1, <1>2

\* A step that leaves the registry's locks alone leaves the owners alone.
LEMMA OwnersStay ==
  ASSUME UNCHANGED <<registry, holder>>
  PROVE  \A d \in Deployments : OwnerOf(d)' = OwnerOf(d)
  BY DEF OwnerOf

\* The mapped state
Stages == [r \in Requests |-> Stage(r)]
Owners == [d \in Deployments |-> OwnerOf(d)]

LEMMA StagesMove ==
  ASSUME LockInv, NEW r \in Requests, NEW place \in Places, Goto(r, place),
         NEW s, s = Stage(r)'
  PROVE  Stages' = [Stages EXCEPT ![r] = s]
<1>1. \A q \in Requests \ {r} : pc'[q] = pc[q]
  BY DEF LockInv, TypeOK, Goto
<1>2. \A q \in Requests \ {r} : Stage(q)' = Stage(q)
  BY <1>1 DEF Stage
<1> QED
  BY <1>2 DEF Stages

LEMMA StageOf ==
  ASSUME NEW r \in Requests
  PROVE  /\ pc[r] \in {"start", "lookup", "reference", "waiting"} => Stage(r) = "outside"
         /\ pc[r] = "admitting" => Stage(r) = "owning"
         /\ pc[r] = "critical" => Stage(r) = "inside"
         /\ pc[r] = "unlock" => Stage(r) = "leaving"
         /\ pc[r] \in {"leaving", "release", "done"} => Stage(r) = "after"
  BY DEF Stage

\* A request that goes on without passing from one stage to the next
LEMMA StagesStay ==
  ASSUME LockInv, NEW r \in Requests, NEW place \in Places, Goto(r, place),
         \/ {pc[r], place} \subseteq {"start", "lookup", "reference", "waiting"}
         \/ {pc[r], place} \subseteq {"leaving", "release", "done"}
  PROVE  Stages' = Stages
<1>1. pc'[r] = place /\ \A q \in Requests \ {r} : pc'[q] = pc[q]
  BY DEF LockInv, TypeOK, Goto
<1>2. Stage(r)' = Stage(r)
  BY <1>1 DEF Stage
<1>3. \A q \in Requests \ {r} : Stage(q)' = Stage(q)
  BY <1>1 DEF Stage
<1> QED
  BY <1>2, <1>3 DEF Stages

LEMMA StutterOfLocks ==
  ASSUME Stages' = Stages, Owners' = Owners, UNCHANGED <<deployment, kind, admission>>
  PROVE  UNCHANGED Locks!locks
  BY DEF Locks!locks, Stages, Owners

LEMMA QuietSteps ==
  ASSUME LockInv, NEW r \in Requests,
         EnterGuard(r) \/ LookupFound(r) \/ Reference(r) \/ ReenterGuard(r)
  PROVE  UNCHANGED Locks!locks
<1>1. UNCHANGED <<registry, holder, deployment, kind, admission>>
  BY DEF EnterGuard, LookupFound, Reference, ReenterGuard, request
<1>2. Owners' = Owners
  BY <1>1, OwnersStay DEF Owners
<1>3. \E place \in Places :
        /\ Goto(r, place)
        /\ \/ {pc[r], place} \subseteq {"start", "lookup", "reference", "waiting"}
           \/ {pc[r], place} \subseteq {"leaving", "release", "done"}
  BY DEF EnterGuard, LookupFound, Reference, ReenterGuard, Places
<1> QED
  BY <1>1, <1>2, <1>3, StagesStay, StutterOfLocks

\* A new entry comes unlocked, to a deployment that had none.
LEMMA NewEntryIsFree == ASSUME LockInv, NEW r \in Requests, LookupCreate(r) PROVE UNCHANGED Locks!locks
<1>1. PICK e \in Entries :
        /\ ~Reachable(e)
        /\ registry' = [registry EXCEPT ![deployment[r]] = e]
        /\ holder' = [holder EXCEPT ![e] = None]
  BY DEF LookupCreate
<1>2. registry[deployment[r]] = None /\ Goto(r, "reference") /\ pc[r] = "lookup"
      /\ UNCHANGED <<deployment, kind, admission>>
  BY DEF LookupCreate, request
<1>3. ASSUME NEW d \in Deployments PROVE OwnerOf(d)' = OwnerOf(d)
  <2>1. CASE d = deployment[r]
    BY <1>1, <1>2, <2>1, NoneIsNothing DEF OwnerOf, LockInv, TypeOK
  <2>2. CASE d # deployment[r]
    BY <1>1, <2>2 DEF OwnerOf, LockInv, TypeOK, Reachable
  <2> QED
    BY <2>1, <2>2
<1> QED
  BY <1>2, <1>3, StagesStay, StutterOfLocks DEF Owners, Places

\* An entry is removed only when nobody holds it.
LEMMA RemovedEntryIsFree ==
  ASSUME LockInv, LockInv', NEW r \in Requests, Release(r) PROVE UNCHANGED Locks!locks
<1>1. pc[r] = "release" /\ Goto(r, "done") /\ UNCHANGED <<deployment, kind, admission, holder>>
  BY DEF Release, request
<1>2. ASSUME NEW d \in Deployments PROVE OwnerOf(d)' = OwnerOf(d)
  <2>1. CASE registry'[d] = registry[d]
    BY <1>1, <2>1 DEF OwnerOf
  <2>2. CASE registry'[d] # registry[d]
    <3>1. registry'[d] = None /\ registry[d] # None
      BY <2>2 DEF Release, LockInv, TypeOK
    <3>2. OwnerOf(d)' = None
      BY <3>1 DEF OwnerOf
    <3>3. ASSUME NEW q \in Requests, Holds(q), deployment[q] = d PROVE FALSE
      <4>1. q # r
        BY <1>1, <3>3 DEF Holds
      <4>2. Bound(q)' /\ deployment'[q] = d
        BY <1>1, <3>3, <4>1 DEF Holds, Bound, Goto, LockInv, TypeOK
      <4>3. registry'[d] \in Entries
        BY <4>2 DEF LockInv, EntryRegistered
      <4> QED
        BY <3>1, <4>3, NoneIsNothing
    <3>4. OwnerOf(d) \in Requests \cup {None}
      BY <3>1 DEF OwnerOf, LockInv, TypeOK
    <3> QED
      BY <3>1, <3>2, <3>3, <3>4, OwnerIs
  <2> QED
    BY <2>1, <2>2
<1> QED
  BY <1>1, <1>2, StagesStay, StutterOfLocks DEF Owners, Places

LEMMA AcquireOwns == ASSUME LockInv, NEW r \in Requests, Acquire(r) PROVE Locks!Own(r)
<1> DEFINE d == deployment[r]
           place == IF kind[r] = "both" THEN "admitting" ELSE "critical"
<1>1. /\ pc[r] = "waiting" /\ holder[entry[r]] = None /\ Goto(r, place)
      /\ holder' = [holder EXCEPT ![entry[r]] = r]
      /\ UNCHANGED <<registry, deployment, kind, admission>>
  BY DEF Acquire, request
<1>2. kind[r] # "admission" /\ d \in Deployments
  BY <1>1 DEF LockInv, AdmissionPath, TypeOK
<1>3. registry[d] = entry[r] /\ entry[r] \in Entries
  BY <1>1, <1>2 DEF LockInv, EntryRegistered, Bound, Places
<1>4. OwnerOf(d) = None
  BY <1>1, <1>3, NoneIsNothing DEF OwnerOf
<1>5. Owners' = [Owners EXCEPT ![d] = r]
  <2>1. ASSUME NEW c \in Deployments PROVE OwnerOf(c)' = IF c = d THEN r ELSE OwnerOf(c)
    <3>1. CASE c = d
      BY <1>1, <1>3, <3>1, NoneIsNothing DEF OwnerOf, LockInv, TypeOK
    <3>2. CASE c # d
      <4>1. registry[c] # None => registry[c] # entry[r]
        BY <1>2, <1>3, <3>2 DEF LockInv, EntryUnshared
      <4> QED
        BY <1>1, <3>2, <4>1 DEF OwnerOf, LockInv, TypeOK
    <3> QED
      BY <3>1, <3>2
  <2> QED
    BY <2>1 DEF Owners
<1>6. Stages' = [Stages EXCEPT ![r] = IF kind[r] = "both" THEN "owning" ELSE "inside"]
  <2>1. place \in Places
    BY DEF Places
  <2>2. pc'[r] = place
    BY <1>1 DEF Goto, LockInv, TypeOK
  <2>3. Stage(r)' = IF kind[r] = "both" THEN "owning" ELSE "inside"
    BY <2>2 DEF Stage
  <2> HIDE DEF place
  <2> QED
    BY <1>1, <2>1, <2>3, StagesMove
<1>7. Stage(r) = "outside"
  BY <1>1, StageOf
<1> QED
  BY <1>1, <1>2, <1>4, <1>5, <1>6, <1>7 DEF Locks!Own, Locks!Becomes, Stages, Owners

LEMMA AdmitEnters == ASSUME LockInv, NEW r \in Requests, Admit(r) PROVE Locks!Enter(r)
<1>1. /\ admission = None /\ admission' = r /\ Goto(r, "critical")
      /\ UNCHANGED <<registry, holder, deployment, kind>>
  BY DEF Admit, request
<1>2. \/ pc[r] = "admitting" /\ kind[r] = "both"
      \/ pc[r] = "start" /\ kind[r] = "admission"
  BY DEF Admit, LockInv, AdmissionPath
<1>3. Owners' = Owners
  BY <1>1, OwnersStay DEF Owners
<1>4. Stages' = [Stages EXCEPT ![r] = "inside"]
  <2>1. pc'[r] = "critical" /\ "critical" \in Places
    BY <1>1 DEF Goto, LockInv, TypeOK, Places
  <2>2. Stage(r)' = "inside"
    BY <2>1 DEF Stage
  <2> QED
    BY <1>1, <2>1, <2>2, StagesMove
<1>5. Stage(r) = IF kind[r] = "both" THEN "owning" ELSE "outside"
  BY <1>2, StageOf
<1> QED
  BY <1>1, <1>2, <1>3, <1>4, <1>5 DEF Locks!Enter, Locks!Becomes, Stages, Owners

LEMMA LeaveFinishes == ASSUME LockInv, NEW r \in Requests, Leave(r) PROVE Locks!Finish(r)
<1> DEFINE place == IF kind[r] = "admission" THEN "done" ELSE "unlock"
<1>1. /\ pc[r] = "critical" /\ Goto(r, place)
      /\ admission' = IF admission = r THEN None ELSE admission
      /\ UNCHANGED <<registry, holder, deployment, kind>>
  BY DEF Leave, request
<1>2. admission' = IF kind[r] = "operation" THEN admission ELSE None
  BY <1>1 DEF LockInv, AdmissionHeld
<1>3. Owners' = Owners
  BY <1>1, OwnersStay DEF Owners
<1>4. Stages' = [Stages EXCEPT ![r] = IF kind[r] = "admission" THEN "after" ELSE "leaving"]
  <2>1. place \in Places
    BY DEF Places
  <2>2. pc'[r] = place
    BY <1>1 DEF Goto, LockInv, TypeOK
  <2>3. Stage(r)' = IF kind[r] = "admission" THEN "after" ELSE "leaving"
    BY <2>2 DEF Stage
  <2> HIDE DEF place
  <2> QED
    BY <1>1, <2>1, <2>3, StagesMove
<1>5. Stage(r) = "inside"
  BY <1>1, StageOf
<1> QED
  BY <1>1, <1>2, <1>3, <1>4, <1>5 DEF Locks!Finish, Locks!Becomes, Stages, Owners

LEMMA UnlockDisowns == ASSUME LockInv, NEW r \in Requests, Unlock(r) PROVE Locks!Disown(r)
<1> DEFINE d == deployment[r]
<1>1. /\ pc[r] = "unlock" /\ Goto(r, "leaving")
      /\ holder' = [holder EXCEPT ![entry[r]] = None]
      /\ UNCHANGED <<registry, deployment, kind, admission>>
  BY DEF Unlock, request
<1>2. kind[r] # "admission" /\ d \in Deployments
  BY <1>1 DEF LockInv, AdmissionPath, TypeOK
<1>3. registry[d] = entry[r] /\ entry[r] \in Entries
  BY <1>1, <1>2 DEF LockInv, EntryRegistered, Bound, Places
<1>4. Owners' = [Owners EXCEPT ![d] = None]
  <2>1. ASSUME NEW c \in Deployments PROVE OwnerOf(c)' = IF c = d THEN None ELSE OwnerOf(c)
    <3>1. CASE c = d
      BY <1>1, <1>3, <3>1, NoneIsNothing DEF OwnerOf, LockInv, TypeOK
    <3>2. CASE c # d
      <4>1. registry[c] # None => registry[c] # entry[r]
        BY <1>2, <1>3, <3>2 DEF LockInv, EntryUnshared
      <4> QED
        BY <1>1, <3>2, <4>1 DEF OwnerOf, LockInv, TypeOK
    <3> QED
      BY <3>1, <3>2
  <2> QED
    BY <2>1 DEF Owners
<1>5. Stages' = [Stages EXCEPT ![r] = "after"]
  <2>1. pc'[r] = "leaving" /\ "leaving" \in Places
    BY <1>1 DEF Goto, LockInv, TypeOK, Places
  <2>2. Stage(r)' = "after"
    BY <2>1 DEF Stage
  <2> QED
    BY <1>1, <2>1, <2>2, StagesMove
<1>6. Stage(r) = "leaving"
  BY <1>1, StageOf
<1> QED
  BY <1>1, <1>4, <1>5, <1>6 DEF Locks!Disown, Locks!Becomes, Stages, Owners

\* LocksImplemented: for any number of requests, deployments and entries, each step on
\* the registry is a step on the one lock of a deployment, or nothing to it
\* (app/api.py, _deployment_operation_lock).
THEOREM RegistryImplementsLocks == Spec => LocksImplemented
<1>1. LockInv /\ Init => Locks!LocksInit
  <2> SUFFICES ASSUME LockInv, Init PROVE Locks!LocksInit
    OBVIOUS
  <2>1. Stages = [r \in Requests |-> "outside"]
    BY StageOf DEF Init, Stages
  <2>2. Owners = [d \in Deployments |-> None]
    BY DEF Init, Owners, OwnerOf
  <2> QED
    BY <2>1, <2>2 DEF Init, Locks!LocksInit, Stages, Owners, Kinds
<1>2. LockInv /\ LockInv' /\ [Next]_vars => [Locks!LocksNext]_(Locks!locks)
  <2> SUFFICES ASSUME LockInv, LockInv', [Next]_vars PROVE [Locks!LocksNext]_(Locks!locks)
    OBVIOUS
  <2>1. CASE UNCHANGED vars
    BY <2>1 DEF vars, Locks!locks, Stage, OwnerOf
  <2>2. CASE Next
    <3>1. PICK r \in Requests : Step(r) \/ Leave(r)
      BY <2>2 DEF Next
    <3>2. CASE EnterGuard(r) \/ LookupFound(r) \/ Reference(r) \/ ReenterGuard(r) \/ LookupCreate(r) \/ Release(r)
      BY <3>2, QuietSteps, NewEntryIsFree, RemovedEntryIsFree
    <3>3. CASE Acquire(r) \/ Admit(r) \/ Unlock(r) \/ Leave(r)
      BY <3>3, AcquireOwns, AdmitEnters, UnlockDisowns, LeaveFinishes DEF Locks!LocksNext
    <3> QED
      BY <3>1, <3>2, <3>3 DEF Step
  <2> QED
    BY <2>1, <2>2
<1> QED
  BY <1>1, <1>2, InitLockInv, LockInvariant, PTL DEF Spec, LocksImplemented, Locks!LocksSpec

--------------------------------------------------------------------------------
\* The request is not kept waiting: whatever its next step takes is free.
Moves(r) ==
  \/ pc[r] \in {"lookup", "reference", "critical", "unlock", "release"}
  \/ pc[r] = "waiting" /\ holder[entry[r]] = None
  \/ (pc[r] = "admitting" \/ (pc[r] = "start" /\ kind[r] = "admission")) /\ admission = None
  \/ (pc[r] = "leaving" \/ (pc[r] = "start" /\ kind[r] # "admission")) /\ guard = None

\* Never does everyone wait for someone: while a request is not served there is one that
\* waits for nothing, since the guard's holder never waits for a lock, the admission
\* lock's holder for nothing, and the holder of a deployment's lock for the admission
\* lock at most (app/api.py, the docstring of _deployment_operation_lock and the nesting
\* of the two locks in vm_destroy, vm_rebuild and retry_cleanup).
THEOREM NobodyIsStuck ==
  Spec => []((\E r \in Requests : pc[r] # "done") => \E r \in Requests : Moves(r))
<1> DEFINE Unstuck == (\E r \in Requests : pc[r] # "done") => \E r \in Requests : Moves(r)
<1>1. LockInv => Unstuck
  <2> SUFFICES ASSUME LockInv, NEW r \in Requests, pc[r] # "done", \A q \in Requests : ~Moves(q)
               PROVE  FALSE
    OBVIOUS
  <2>1. guard = None
    BY DEF LockInv, TypeOK, GuardHeld, GuardPlaces, Moves
  <2>2. admission = None
    BY DEF LockInv, TypeOK, AdmissionHeld, Moves
  <2>3. pc[r] = "waiting" /\ holder[entry[r]] # None
    BY <2>1, <2>2 DEF LockInv, TypeOK, Places, Moves
  <2>4. Bound(r) /\ deployment[r] \in Deployments
    BY <2>3 DEF Bound, LockInv, AdmissionPath, TypeOK, Places
  <2>5. registry[deployment[r]] = entry[r] /\ entry[r] \in Entries
    BY <2>4 DEF LockInv, EntryRegistered
  <2>6. PICK q \in Requests : holder[entry[r]] = q
    BY <2>3, <2>5 DEF LockInv, TypeOK
  <2>7. Holds(q)
    BY <2>5, <2>6, NoneIsNothing, <2>4 DEF LockInv, HolderExact
  <2> QED
    BY <2>2, <2>7 DEF Holds, Moves
<1> HIDE DEF Unstuck
<1>2. Spec => []Unstuck
  BY <1>1, LockInvariant, PTL
<1> QED
  BY <1>2 DEF Unstuck
================================================================================
