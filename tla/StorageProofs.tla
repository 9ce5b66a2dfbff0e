----------------------------- MODULE StorageProofs -----------------------------
(* What the process leaves in what is kept outside of it, when admissions run   *)
(* beside each other and when the process or the machine stops: reserved        *)
(* addresses, catalogues, backups, base images, and a database under upgrade.   *)
EXTENDS AddressPool, CatalogSeeds, Backups, ImageCache, SchemaUpgrade,
  FiniteSetTheorems, WellFoundedInduction, TLAPS

--------------------------------------------------------------------------------
(* AddressPool, for subnets of every size, every range, gateway and family, any *)
(* number of deployments and admissions: what is about to be reserved is free,  *)
(* an admission is refused only if nothing is left, and the total that is       *)
(* computed without iterating is the number of usable addresses.                *)
(*                                                                              *)
(* That the unique index is never needed rests on the admission lock: only the  *)
(* thread that has it is between choosing an address and reserving it, and no   *)
(* two deployments have one address when it chooses.                            *)

\* The places of an admission, without its unused ones
Admitting == [pc : {"choose", "write", "exhausted"}, on : Holders, pool : Pool,
              address : Addresses \cup {NoAddress}]

\* Only the holder of the lock admits.
GateKept == \A h \in Admissions : admission[h] # NoAdmission => gate = h

\* uq_ipalloc_net_ip, which the database keeps whatever the program does
NoneShared ==
  \A d, e \in Holders : d # e /\ alloc[d] # NoAddress => alloc[d] # alloc[e]

\* What an admission has chosen, until it is reserved
Chosen(h) ==
  LET d == admission[h].on
      a == admission[h].address IN
  /\ a \in UsableAddresses(admission[h].pool)
  /\ a \notin Taken(d)
  /\ alloc[d] \in {NoAddress, a} \/ alloc[d] \notin UsableAddresses(admission[h].pool)
ChoicesGood == \A h \in Admissions : Stage(h, "write") => Chosen(h)

PoolInv == PoolTypeOK /\ GateKept /\ NoneShared /\ ChoicesGood

(* Operators *)

LEMMA UsableIn ==
  ASSUME NEW p \in Pool
  PROVE  /\ UsableAddresses(p) \subseteq Addresses
         /\ NoAddress \notin UsableAddresses(p)
<1>1. p.start \in Nat /\ p.end \in Nat /\ p.end <= Last
  BY LastNat DEF Pool, Addresses
<1> QED
  BY <1>1, LastNat, NoAddressIsNone DEF UsableAddresses, Addresses

\* Nobody but the deployments themselves has their addresses.
LEMMA TakenMeans ==
  ASSUME NEW d \in Holders, NEW a, NEW e \in Holders \ {d}, a \notin Taken(d)
  PROVE  alloc[e] # a
BY DEF Taken

\* "Count usable slots in O(1)": the reserved addresses that lie in the range are
\* counted once each, wherever gateway, network and broadcast address coincide.
LEMMA CountedOnce ==
  ASSUME NEW p \in Pool
  PROVE  UsableTotal(p) = Cardinality(UsableAddresses(p))
<1> DEFINE range == p.start .. p.end
           inside == {a \in Infrastructure(p) : p.start <= a /\ a <= p.end}
<1>1. p.start \in Nat /\ p.end \in Nat /\ p.start <= p.end /\ p.gateway \in Nat \cup {NoAddress}
  BY LastNat DEF Pool, Addresses
<1>2. IsFiniteSet(range) /\ Cardinality(range) = p.end - p.start + 1
  <2>1. p.start \in Int /\ p.end \in Int /\ ~(p.start > p.end)
    BY <1>1
  <2> QED
    BY <2>1, FS_Interval
<1>3. range \cap Infrastructure(p) = inside
  BY <1>1, LastNat DEF Infrastructure
<1>4. /\ IsFiniteSet(range \ Infrastructure(p))
      /\ Cardinality(range \ Infrastructure(p))
           = Cardinality(range) - Cardinality(range \cap Infrastructure(p))
  BY <1>2, FS_Difference
<1>5. UsableAddresses(p) = range \ Infrastructure(p)
  BY DEF UsableAddresses
<1>6. UsableTotal(p) = p.end - p.start + 1 - Cardinality(inside)
  BY DEF UsableTotal
<1>7. Cardinality(range \cap Infrastructure(p)) = Cardinality(inside)
  BY <1>3
<1>8. Cardinality(range \ Infrastructure(p)) = p.end - p.start + 1 - Cardinality(range \cap Infrastructure(p))
  <2> DEFINE left == Cardinality(range \ Infrastructure(p))
             all == Cardinality(range)
             out == Cardinality(range \cap Infrastructure(p))
  <2>1. left = all - out
    BY <1>4
  <2>2. all = p.end - p.start + 1
    BY <1>2
  <2>3. out \in Nat
    BY <1>2, FS_Intersection, FS_CardinalityType
  <2> HIDE DEF left, all, out
  <2>4. left = p.end - p.start + 1 - out
    BY <1>1, <2>1, <2>2, <2>3
  <2> QED
    BY <2>4 DEF left, out
<1>9. Cardinality(UsableAddresses(p)) = Cardinality(range \ Infrastructure(p))
  BY <1>5
<1> HIDE DEF range, inside
<1> QED
  BY <1>6, <1>7, <1>8, <1>9

(* The invariant *)

LEMMA InitPoolInv == PoolInit => PoolInv
<1> SUFFICES ASSUME PoolInit PROVE PoolInv
  OBVIOUS
<1>1. PoolTypeOK
  BY MaxNetEditsNat DEF PoolInit, PoolTypeOK
<1>2. GateKept /\ NoneShared /\ ChoicesGood
  BY DEF PoolInit, GateKept, NoneShared, ChoicesGood, Stage, NoAdmission
<1> QED
  BY <1>1, <1>2 DEF PoolInv

\* An admission that is not idle has its variables set.
LEMMA WorkerTyped ==
  ASSUME PoolInv, NEW h \in Admissions, ~Stage(h, "idle")
  PROVE  admission[h] \in Admitting /\ gate = h
BY DEF PoolInv, PoolTypeOK, Admitting, Stage, NoAdmission, GateKept

\* Idle admissions have nothing set.
LEMMA IdleIsNone ==
  ASSUME PoolInv, NEW h \in Admissions, Stage(h, "idle")
  PROVE  admission[h] = NoAdmission
BY DEF PoolInv, PoolTypeOK, Stage, NoAdmission

LEMMA AdmitKeeps ==
  ASSUME PoolInv, NEW h \in Admissions, NEW d \in Holders, AdmitStatic(h, d)
  PROVE  PoolInv'
<1> DEFINE new == [pc |-> "choose", on |-> d, pool |-> net.pool, address |-> NoAddress]
<1>1. \A k \in Admissions : admission[k] = NoAdmission
  BY NobodyIsNone DEF PoolInv, GateKept, AdmitStatic, GateFree
<1>2. net.pool \in Pool
  BY DEF PoolInv, PoolTypeOK
<1>3. new \in Admitting
  BY <1>2 DEF Admitting
<1>4. admission' = [admission EXCEPT ![h] = new] /\ gate' = h
      /\ net' = net /\ alloc' = alloc /\ netEdits' = netEdits
  BY DEF AdmitStatic
<1>5. admission \in [Admissions -> {NoAdmission} \cup Admitting]
  BY DEF PoolInv, PoolTypeOK, Admitting
<1>6. admission' \in [Admissions -> {NoAdmission} \cup Admitting]
  BY <1>3, <1>4, <1>5
<1>7. PoolTypeOK'
  BY <1>4, <1>6 DEF PoolInv, PoolTypeOK, Admitting
<1>8. GateKept'
  BY <1>1, <1>4, <1>5 DEF GateKept
<1>9. NoneShared'
  BY <1>4 DEF PoolInv, NoneShared
<1>10. \A k \in Admissions : admission'[k].pc # "write"
  BY <1>1, <1>4, <1>5 DEF NoAdmission
<1> QED
  BY <1>7, <1>8, <1>9, <1>10 DEF PoolInv, ChoicesGood, Stage

\* An address that is chosen is free, of use, and the deployment's own if that was of use.
LEMMA ChosenNow ==
  ASSUME PoolInv, NEW h \in Admissions, NEW a \in UsableAddresses(admission[h].pool),
         admission[h] \in Admitting, a \notin Taken(admission[h].on),
         alloc[admission[h].on] \in {NoAddress, a}
           \/ alloc[admission[h].on] \notin UsableAddresses(admission[h].pool),
         Chooses(h, a), alloc' = alloc
  PROVE  Chosen(h)' /\ admission'[h] \in Admitting
<1>1. admission[h].pool \in Pool
  BY DEF Admitting
<1>2. a \in Addresses
  BY <1>1, UsableIn
<1>3. admission \in [Admissions -> {NoAdmission} \cup Admitting]
  BY DEF PoolInv, PoolTypeOK, Admitting
<1>4. /\ admission'[h].on = admission[h].on /\ admission'[h].pool = admission[h].pool
      /\ admission'[h].address = a /\ admission'[h].pc = "write"
  BY <1>3 DEF Chooses, Admitting
<1>5. admission'[h] \in Admitting
  BY <1>2, <1>3 DEF Chooses, Admitting
<1> QED
  BY <1>4, <1>5 DEF Chosen, Taken

\* Choose leaves everything but its own admission alone.
LEMMA ChooseMoves ==
  ASSUME PoolInv, NEW h \in Admissions, Choose(h)
  PROVE  /\ admission'[h] \in Admitting
         /\ admission'[h].pc \in {"write", "exhausted"}
         /\ admission'[h].pc = "write" => Chosen(h)'
         /\ admission' = [admission EXCEPT ![h] = admission'[h]]
         /\ alloc' = alloc
<1> DEFINE d == admission[h].on
           p == admission[h].pool
           open == UsableAddresses(p) \ Taken(d)
<1>1. admission[h] \in Admitting
  BY WorkerTyped DEF Choose, Stage
<1>2. d \in Holders /\ p \in Pool
  BY <1>1 DEF Admitting
<1>3. admission \in [Admissions -> {NoAdmission} \cup Admitting]
  BY DEF PoolInv, PoolTypeOK, Admitting
<1>4. alloc' = alloc
  BY DEF Choose
<1>5. ASSUME NEW a, Chooses(h, a)
      PROVE  admission'[h].pc = "write" /\ admission' = [admission EXCEPT ![h] = admission'[h]]
  BY <1>1, <1>3, <1>5 DEF Chooses, Admitting
<1>6. CASE Fits(p, alloc[d]) /\ Chooses(h, alloc[d])
  <2>1. alloc[d] \in UsableAddresses(p) /\ alloc[d] # NoAddress
    BY <1>2, <1>6, UsableIn DEF Fits
  <2>2. alloc[d] \notin Taken(d)
    BY <1>2, <2>1 DEF PoolInv, NoneShared, Taken
  <2>3. Chosen(h)' /\ admission'[h] \in Admitting
    BY <1>1, <1>4, <1>6, <2>1, <2>2, ChosenNow
  <2> QED
    BY <1>4, <1>5, <1>6, <2>3
<1>7. CASE ~Fits(p, alloc[d]) /\ \E a \in open : (\A b \in open : a <= b) /\ Chooses(h, a)
  <2>1. PICK a \in open : Chooses(h, a)
    BY <1>7
  <2>2. alloc[d] \notin UsableAddresses(p)
    BY <1>7 DEF Fits
  <2>3. Chosen(h)' /\ admission'[h] \in Admitting
    BY <1>1, <1>4, <2>1, <2>2, ChosenNow
  <2> QED
    BY <1>4, <1>5, <2>1, <2>3
<1>8. CASE admission' = [admission EXCEPT ![h].pc = "exhausted"]
  BY <1>1, <1>3, <1>4, <1>8 DEF Admitting
<1> QED
  BY <1>6, <1>7, <1>8 DEF Choose

LEMMA ChooseKeeps ==
  ASSUME PoolInv, NEW h \in Admissions, Choose(h)
  PROVE  PoolInv'
<1>1. /\ admission'[h] \in Admitting
      /\ admission'[h].pc = "write" => Chosen(h)'
      /\ admission' = [admission EXCEPT ![h] = admission'[h]]
      /\ alloc' = alloc
  BY ChooseMoves
<1>2. gate = h
  BY WorkerTyped DEF Choose, Stage
<1>3. gate' = gate /\ net' = net /\ netEdits' = netEdits
  BY DEF Choose
<1>4. admission \in [Admissions -> {NoAdmission} \cup Admitting]
  BY DEF PoolInv, PoolTypeOK, Admitting
<1>5. admission' \in [Admissions -> {NoAdmission} \cup Admitting]
  BY <1>1, <1>4
<1>6. PoolTypeOK'
  BY <1>1, <1>3, <1>5 DEF PoolInv, PoolTypeOK, Admitting
<1>7. \A k \in Admissions \ {h} : admission'[k] = admission[k] /\ admission[k] = NoAdmission
  BY <1>1, <1>2, <1>4 DEF PoolInv, GateKept
<1>8. GateKept'
  BY <1>2, <1>3, <1>7 DEF GateKept
<1>9. NoneShared'
  BY <1>1 DEF PoolInv, NoneShared
<1>10. ChoicesGood'
  BY <1>1, <1>7 DEF ChoicesGood, Stage, NoAdmission
<1> QED
  BY <1>6, <1>8, <1>9, <1>10 DEF PoolInv

\* An admission ends: the lock is free again, and nobody else was admitting.
LEMMA LeaveKeeps ==
  ASSUME PoolInv, NEW h \in Admissions, ~Stage(h, "idle"), Leave(h),
         alloc' \in [Holders -> Addresses \cup {NoAddress}], NoneShared',
         net' = net, netEdits' = netEdits
  PROVE  PoolInv'
<1>1. gate = h
  BY WorkerTyped
<1>2. admission \in [Admissions -> {NoAdmission} \cup Admitting]
  BY DEF PoolInv, PoolTypeOK, Admitting
<1>3. admission' \in [Admissions -> {NoAdmission} \cup Admitting] /\ gate' = NobodyAdmits
  BY <1>1, <1>2 DEF Leave
<1>4. \A k \in Admissions : admission'[k] = NoAdmission
  BY <1>1, <1>2 DEF Leave, PoolInv, GateKept
<1>5. PoolTypeOK'
  BY <1>3 DEF PoolInv, PoolTypeOK, Admitting
<1>6. GateKept' /\ ChoicesGood'
  BY <1>4 DEF GateKept, ChoicesGood, Stage, NoAdmission
<1> QED
  BY <1>5, <1>6 DEF PoolInv

LEMMA ReserveKeeps ==
  ASSUME PoolInv, NEW h \in Admissions, Reserve(h)
  PROVE  PoolInv'
<1> DEFINE d == admission[h].on
           a == admission[h].address
<1>1. ~Stage(h, "idle") /\ Leave(h) /\ net' = net /\ netEdits' = netEdits
      /\ a \notin Taken(d) /\ alloc' = [alloc EXCEPT ![d] = a]
  BY DEF Reserve, Stage
<1>2. admission[h] \in Admitting
  BY <1>1, WorkerTyped
<1>3. d \in Holders /\ a \in Addresses \cup {NoAddress}
  BY <1>2 DEF Admitting
<1>4. alloc \in [Holders -> Addresses \cup {NoAddress}]
  BY DEF PoolInv, PoolTypeOK
<1>5. \A e \in Holders \ {d} : alloc[e] # a
  BY <1>1 DEF Taken
<1>6. NoneShared'
  BY <1>1, <1>3, <1>4, <1>5 DEF PoolInv, NoneShared
<1>7. alloc' \in [Holders -> Addresses \cup {NoAddress}]
  BY <1>1, <1>3, <1>4
<1> QED
  BY <1>1, <1>6, <1>7, LeaveKeeps

LEMMA GiveUpKeeps ==
  ASSUME PoolInv, NEW h \in Admissions, GiveUp(h)
  PROVE  PoolInv'
<1>1. ~Stage(h, "idle") /\ Leave(h) /\ net' = net /\ netEdits' = netEdits /\ alloc' = alloc
  BY DEF GiveUp
<1>2. alloc' \in [Holders -> Addresses \cup {NoAddress}] /\ NoneShared'
  BY <1>1 DEF PoolInv, PoolTypeOK, NoneShared
<1> QED
  BY <1>1, <1>2, LeaveKeeps

\* A release frees an address that no admission speaks of, but as one it may choose.
LEMMA LockReleaseKeeps ==
  ASSUME PoolInv, NEW d \in Holders, Release(d)
  PROVE  PoolInv'
<1>1. alloc' = [alloc EXCEPT ![d] = NoAddress] /\ UNCHANGED <<net, admission, gate, netEdits>>
      /\ \A h \in Admissions : ~Stage(h, "idle") => admission[h].on # d
  BY DEF Release
<1>2. alloc \in [Holders -> Addresses \cup {NoAddress}]
  BY DEF PoolInv, PoolTypeOK
<1>3. PoolTypeOK' /\ GateKept'
  BY <1>1, <1>2 DEF PoolInv, PoolTypeOK, GateKept
<1>4. NoneShared'
  BY <1>1, <1>2 DEF PoolInv, NoneShared
<1>5. ASSUME NEW h \in Admissions, Stage(h, "write")
      PROVE  Chosen(h)'
  <2>1. admission[h] \in Admitting /\ Chosen(h)
    BY <1>5, WorkerTyped DEF PoolInv, ChoicesGood, Stage
  <2>2. admission[h].on \in Holders \ {d} /\ admission[h].pool \in Pool
    BY <1>1, <1>5, <2>1 DEF Admitting, Stage
  <2>3. admission[h].address # NoAddress
    BY <2>1, <2>2, UsableIn DEF Chosen
  <2>4. admission[h].address \notin Taken(admission[h].on)'
    BY <1>1, <1>2, <2>1, <2>3 DEF Chosen, Taken
  <2>5. alloc'[admission[h].on] = alloc[admission[h].on]
    BY <1>1, <1>2, <2>2
  <2> QED
    BY <1>1, <2>1, <2>4, <2>5 DEF Chosen
<1>6. ChoicesGood'
  BY <1>1, <1>5 DEF ChoicesGood, Stage
<1> QED
  BY <1>3, <1>4, <1>6 DEF PoolInv

\* Edits and deletions of the network do not reach what an admission has read.
LEMMA EditsKeep ==
  ASSUME PoolInv, EditNetwork \/ DeleteNetwork
  PROVE  PoolInv'
<1>1. UNCHANGED <<alloc, admission, gate>>
  BY DEF EditNetwork, DeleteNetwork
<1>2. net' \in [mode : {"static", "dhcp", "deleted"}, pool : Pool]
  BY DEF EditNetwork, DeleteNetwork, PoolInv, PoolTypeOK
<1>3. netEdits' \in 0..MaxNetEdits
  BY MaxNetEditsNat DEF EditNetwork, DeleteNetwork, PoolInv, PoolTypeOK
<1>4. PoolTypeOK'
  BY <1>1, <1>2, <1>3 DEF PoolInv, PoolTypeOK
<1>5. GateKept' /\ NoneShared'
  BY <1>1 DEF PoolInv, GateKept, NoneShared
<1>6. ChoicesGood'
  BY <1>1 DEF PoolInv, ChoicesGood, Chosen, Stage, Taken
<1> QED
  BY <1>4, <1>5, <1>6 DEF PoolInv

LEMMA StepKeepsPoolInv == PoolInv /\ [PoolNext]_pools => PoolInv'
<1> SUFFICES ASSUME PoolInv, [PoolNext]_pools PROVE PoolInv'
  OBVIOUS
<1>1. ASSUME NEW h \in Admissions, NEW d \in Holders, AdmitStatic(h, d) PROVE PoolInv'
  BY <1>1, AdmitKeeps
<1>2. ASSUME NEW h \in Admissions, Choose(h) PROVE PoolInv'
  BY <1>2, ChooseKeeps
<1>3. ASSUME NEW h \in Admissions, Reserve(h) PROVE PoolInv'
  BY <1>3, ReserveKeeps
<1>4. ASSUME NEW h \in Admissions, GiveUp(h) PROVE PoolInv'
  BY <1>4, GiveUpKeeps
<1>5. ASSUME NEW d \in Holders, Release(d) PROVE PoolInv'
  BY <1>5, LockReleaseKeeps
<1>6. CASE EditNetwork \/ DeleteNetwork
  BY <1>6, EditsKeep
<1>7. CASE UNCHANGED pools
  <2>1. PoolTypeOK'
    BY <1>7 DEF pools, PoolInv, PoolTypeOK
  <2>2. GateKept' /\ NoneShared'
    BY <1>7 DEF pools, PoolInv, GateKept, NoneShared
  <2>3. ChoicesGood'
    BY <1>7 DEF pools, PoolInv, ChoicesGood, Chosen, Stage, Taken
  <2> QED
    BY <2>1, <2>2, <2>3 DEF PoolInv
<1> QED
  BY <1>1, <1>2, <1>3, <1>4, <1>5, <1>6, <1>7 DEF PoolNext

\* The inductive invariant of admissions and edits of a network (api.py 306-356).
THEOREM PoolInvariant == PoolSpec => []PoolInv
<1>1. PoolInit => PoolInv
  BY InitPoolInv
<1>2. PoolInv /\ [PoolNext]_pools => PoolInv'
  BY StepKeepsPoolInv
<1> QED
  BY <1>1, <1>2, PTL DEF PoolSpec

(* What it gives *)

\* The total that the UI shows is the number of usable addresses of the pool, whatever
\* administrators edit (network_pool.py 42).
THEOREM TotalIsExact ==
  PoolSpec => [](UsableTotal(net.pool) = Cardinality(UsableAddresses(net.pool)))
<1>1. PoolInv => UsableTotal(net.pool) = Cardinality(UsableAddresses(net.pool))
  BY CountedOnce DEF PoolInv, PoolTypeOK
<1> QED
  BY <1>1, PoolInvariant, PTL

\* Whatever the network was edited to meanwhile, the address that an admission is about
\* to reserve is usable in the pool it read, its old one whenever that is, and nobody
\* else's, so that the unique index never stops an admission (api.py 312-325, 348-351).
THEOREM ReservationsServe == PoolSpec => []ReservationServes
<1>1. PoolInv => ReservationServes
  <2>1. SUFFICES ASSUME PoolInv, NEW h \in Admissions, Stage(h, "write")
                 PROVE  LET d == admission[h].on
                            p == admission[h].pool
                            a == admission[h].address IN
                        /\ p.start <= a /\ a <= p.end
                        /\ a # 0 /\ a # p.gateway /\ (p.family = 4 => a # Last)
                        /\ alloc[d] \in {NoAddress, a} \/ alloc[d] \notin UsableAddresses(p)
                        /\ a \notin Taken(d)
    BY DEF ReservationServes
  <2>2. admission[h] \in Admitting /\ Chosen(h)
    BY <2>1, WorkerTyped DEF PoolInv, ChoicesGood, Stage
  <2>3. admission[h].pool \in Pool
    BY <2>2 DEF Admitting
  <2>4. admission[h].address \in UsableAddresses(admission[h].pool)
    BY <2>2 DEF Chosen
  <2>5. admission[h].address # NoAddress
    BY <2>3, <2>4, UsableIn
  <2>6. admission[h].pool.start \in Nat /\ admission[h].pool.end \in Nat
    BY <2>3, LastNat DEF Pool, Addresses
  <2>7. /\ admission[h].pool.start <= admission[h].address
        /\ admission[h].address <= admission[h].pool.end
    BY <2>4, <2>6 DEF UsableAddresses
  <2>8. admission[h].address \notin Infrastructure(admission[h].pool)
    BY <2>4 DEF UsableAddresses
  <2>9. /\ admission[h].address # 0 /\ admission[h].address # admission[h].pool.gateway
        /\ admission[h].pool.family = 4 => admission[h].address # Last
    BY <2>5, <2>8 DEF Infrastructure
  <2> QED
    BY <2>2, <2>7, <2>9 DEF Chosen
<1> QED
  BY <1>1, PoolInvariant, PTL

\* An admission finds nothing usable only if every usable address is taken.
LEMMA ExhaustedIsFull ==
  ASSUME PoolInv, [PoolNext]_pools, NEW h \in Admissions, Stage(h, "choose"),
         admission'[h].pc = "exhausted"
  PROVE  UsableAddresses(admission[h].pool) \subseteq Taken(admission[h].on)
<1> DEFINE Full == UsableAddresses(admission[h].pool) \subseteq Taken(admission[h].on)
<1>1. /\ admission \in [Admissions -> {NoAdmission} \cup Admitting]
      /\ admission[h] \in Admitting /\ gate = h
  BY WorkerTyped DEF PoolInv, PoolTypeOK, Admitting, Stage
<1>2. ASSUME NEW k \in Admissions, Choose(k) PROVE Full
  <2>1. k = h
    BY <1>1, <1>2, WorkerTyped DEF Choose, Stage
  <2>2. ASSUME NEW a, Chooses(h, a) PROVE admission'[h].pc = "write"
    BY <1>1, <2>2 DEF Chooses, Admitting
  <2> QED
    BY <1>2, <2>1, <2>2 DEF Choose
<1>3. ASSUME NEW k \in Admissions, NEW d \in Holders, AdmitStatic(k, d) PROVE FALSE
  BY <1>1, <1>3, NobodyIsNone DEF AdmitStatic, GateFree
<1>4. ASSUME NEW k \in Admissions, Leave(k) PROVE FALSE
  BY <1>1, <1>4 DEF Leave, NoAdmission, Stage
<1>5. CASE UNCHANGED admission
  BY <1>5 DEF Stage
<1> QED
  BY <1>2, <1>3, <1>4, <1>5
     DEF PoolNext, Reserve, GiveUp, Release, EditNetwork, DeleteNetwork, pools

\* "static IP pool exhausted" is answered only when as many addresses of the range are
\* reserved as the UI counts in it (api.py 356, network_pool.py 42).
THEOREM RefusedOnlyWhenFull == PoolSpec => NeverRefusedEarly
<1> DEFINE Reserved(h) ==
      (Taken(admission[h].on) \cap (admission[h].pool.start .. admission[h].pool.end))
        \ Infrastructure(admission[h].pool)
           Refused(h) == Stage(h, "choose") /\ admission'[h].pc = "exhausted"
           FullThen == \A h \in Admissions :
             Refused(h) => Cardinality(Reserved(h)) = UsableTotal(admission[h].pool)
<1>1. ASSUME PoolInv, [PoolNext]_pools, NEW h \in Admissions, Refused(h)
      PROVE  Cardinality(Reserved(h)) = UsableTotal(admission[h].pool)
  <2>1. UsableAddresses(admission[h].pool) \subseteq Taken(admission[h].on)
    BY <1>1, ExhaustedIsFull
  <2>2. Reserved(h) = UsableAddresses(admission[h].pool)
    BY <2>1 DEF UsableAddresses
  <2>3. admission[h].pool \in Pool
    BY <1>1, WorkerTyped DEF Admitting, Stage
  <2> QED
    BY <2>2, <2>3, CountedOnce
<1>2. PoolInv /\ [PoolNext]_pools => FullThen
  BY <1>1
<1>3. PoolSpec => [][FullThen]_pools
  BY <1>2, PoolInvariant, PTL DEF PoolSpec
<1> QED
  BY <1>3 DEF NeverRefusedEarly

--------------------------------------------------------------------------------
(* CatalogSeeds, for any number of placements and connections, wherever starts  *)
(* break off: what the program serves is sound.  The invariant says what the    *)
(* steps that are passed have reached and which of it outlasts the start; when  *)
(* a start is complete, the next finds nothing to change.                       *)

\* The least connection there is
Below == {p \in Nat \X Nat : p[1] < p[2]}
LEMMA BelowWellFounded == IsWellFoundedOn(Below, Nat)
BY NatLessThanWellFounded DEF OpToRel, Below

\* Any set of numbers has a least one.
LEMMA LeastNumber ==
  ASSUME NEW T \in SUBSET Nat, T # {}
  PROVE  \E n \in T : \A k \in T : n <= k
<1>1. PICK n \in T : \A k \in T : <<k, n>> \notin Below
  BY BelowWellFounded, WFMin
<1>2. ASSUME NEW k \in T PROVE n <= k
  <2>1. n \in Nat /\ k \in Nat /\ <<k, n>> \notin Below
    BY <1>1
  <2>2. ~(k < n)
    BY <2>1 DEF Below
  <2> QED
    BY <2>1, <2>2
<1> QED
  BY <1>2

LEMMA LeastExists ==
  ASSUME NEW T \in SUBSET Connections, T # {}
  PROVE  Least(T) \in T
<1>1. T \in SUBSET Nat
  BY DEF Connections
<1> QED
  BY <1>1, LeastNumber DEF Least

\* The steps of a start, in their order
StepAfter == [recipes |-> "blocks", blocks |-> "images", images |-> "connection",
              connection |-> "starter", starter |-> "networks", networks |-> "credentials",
              credentials |-> "location", location |-> "up"]
LEMMA StepCommits ==
  ASSUME NEW name \in DOMAIN StepAfter, Commits(name)
  PROVE  /\ step = name /\ step' = StepAfter[name]
         /\ name = "location" => untouched'
         /\ name # "location" => untouched' = untouched
<1> DEFINE n == CHOOSE k \in DOMAIN Steps : Steps[k] = name
<1>1. DOMAIN Steps = 1..8 /\ Len(Steps) = 8
  BY DEF Steps
<1>2. /\ Steps[1] = "recipes" /\ Steps[2] = "blocks" /\ Steps[3] = "images"
      /\ Steps[4] = "connection" /\ Steps[5] = "starter" /\ Steps[6] = "networks"
      /\ Steps[7] = "credentials" /\ Steps[8] = "location"
  BY DEF Steps
<1>3. name \in {"recipes", "blocks", "images", "connection", "starter", "networks", "credentials", "location"}
  BY DEF StepAfter
<1>4. \E k \in DOMAIN Steps : Steps[k] = name
  BY <1>1, <1>2, <1>3
<1>5. n \in 1..8 /\ Steps[n] = name
  BY <1>1, <1>4
<1>6. step = name /\ IF n = 8 THEN step' = "up" /\ untouched' = TRUE
                     ELSE step' = Steps[n + 1] /\ UNCHANGED untouched
  BY <1>1 DEF Commits
<1> HIDE DEF n
<1>7. n \in {1, 2, 3, 4, 5, 6, 7, 8}
  BY <1>5
<1> QED
  BY <1>2, <1>5, <1>6, <1>7 DEF StepAfter

AfterCredentials == {"location", "up"}
AfterNetworks == {"credentials", "location"}
AfterStarter == {"networks"} \cup AfterNetworks
AfterBlocks == {"images", "connection", "starter"} \cup AfterStarter \cup AfterCredentials
AfterRecipes == {"blocks"} \cup AfterBlocks

\* A placement is a record of three fields; the starter's location is a row or none.
RecipesTyped ==
  /\ DOMAIN recipe = Placed
  /\ \A p \in Placed : DOMAIN recipe[p] = {"ref", "input", "sound"} /\ recipe[p].ref \in Blocks
LocationTyped ==
  /\ connection \in [Connections -> [there : BOOLEAN, network : BOOLEAN, env : BOOLEAN]]
  /\ starter \in [template : BOOLEAN, connection : 0..MaxConnections, network : 0..MaxConnections]

\* Users do not make blocks of the names of this release or a former one.
BlocksNamed ==
  /\ DOMAIN catalog = Blocks
  /\ catalog["own"] = "custom" /\ catalog["b-ssh"] \in {"absent", "former"}

\* What the steps that are passed have reached
RecipesMoved ==
  step \in AfterRecipes => \A p \in Placed : recipe[p].sound => recipe[p].ref # "b-ssh"
BlocksSynced ==
  step \in AfterBlocks => catalog["b-ssh"] = "absent" /\ catalog["b-user"] = "builtin"
NothingWritten ==
  step \in AfterCredentials =>
    \A p \in Placed : recipe[p].input = Literal => catalog[recipe[p].ref] = "absent"
StarterThere == step \in AfterStarter => starter.template
NetworksThere == step \in AfterNetworks => \A c \in Existing : connection[c].network
AllPlaced ==
  step = "up" /\ untouched =>
    /\ \A c \in Existing : connection[c].network
    /\ Existing # {} => starter.connection # 0 \/ Stranded

SeedsInv ==
  /\ RecipesTyped /\ LocationTyped /\ BlocksNamed /\ RecipesMoved /\ BlocksSynced
  /\ NothingWritten /\ StarterThere /\ NetworksThere /\ AllPlaced

LEMMA Apart == Blank # Literal /\ \A n : Reference(n) # Literal
<1>1. Blank.is = "blank" /\ Literal.is = "literal" /\ \A n : Reference(n).is = "reference"
  BY DEF Blank, Literal, Reference
<1> QED
  BY <1>1

LEMMA BlockNames == Blocks = {"b-ssh", "b-user", "own"}
BY DEF Blocks

LEMMA SeedsImply == SeedsInv => ServedCatalogSound
<1> SUFFICES ASSUME SeedsInv, step = "up" PROVE ServedCatalogSound
  BY DEF ServedCatalogSound
<1>1. step \in AfterCredentials /\ step \in AfterBlocks /\ step \in AfterRecipes
  BY DEF AfterCredentials, AfterBlocks, AfterRecipes
<1>2. \A p \in Placed : recipe[p].sound => catalog[recipe[p].ref] # "absent"
  <2> SUFFICES ASSUME NEW p \in Placed, recipe[p].sound PROVE catalog[recipe[p].ref] # "absent"
    OBVIOUS
  <2>1. recipe[p].ref \in {"b-user", "own"}
    BY <1>1, BlockNames DEF SeedsInv, RecipesTyped, RecipesMoved
  <2> QED
    BY <1>1, <2>1 DEF SeedsInv, BlocksNamed, BlocksSynced
<1>3. \A p \in Placed : recipe[p].input = Literal => catalog[recipe[p].ref] = "absent"
  BY <1>1 DEF SeedsInv, NothingWritten
<1>4. untouched => (\A c \in Existing : connection[c].network) /\ (Existing # {} => starter.connection # 0 \/ Stranded)
  <2>1. AllPlaced
    BY DEF SeedsInv
  <2> QED
    BY <2>1 DEF AllPlaced
<1> QED
  BY <1>2, <1>3, <1>4 DEF ServedCatalogSound

LEMMA InitSeedsInv == SeedsInit => SeedsInv
<1> SUFFICES ASSUME SeedsInit PROVE SeedsInv
  OBVIOUS
<1>1. step = "down"
  BY DEF SeedsInit
<1>2. RecipesTyped
  BY DEF SeedsInit, RecipesTyped
<1>3. LocationTyped
  <2>1. connection \in [Connections -> [there : BOOLEAN, network : BOOLEAN, env : BOOLEAN]]
    <3>1. PICK had \in SUBSET {1} :
            connection = [c \in Connections |-> [NoConnection EXCEPT !.there = c \in had, !.network = c \in had]]
      BY DEF SeedsInit, FormerConnections
    <3>2. \A a, b \in BOOLEAN :
            [NoConnection EXCEPT !.there = a, !.network = b] \in [there : BOOLEAN, network : BOOLEAN, env : BOOLEAN]
      BY DEF NoConnection
    <3>3. \A c \in Connections : (c \in had) \in BOOLEAN
      OBVIOUS
    <3> QED
      BY <3>1, <3>2, <3>3, Zenon
  <2>2. starter \in [template : BOOLEAN, connection : 0..MaxConnections, network : 0..MaxConnections]
    <3>1. starter = NoStarter \/ \E n \in Connections : starter = [template |-> TRUE, connection |-> 0, network |-> n]
      BY DEF SeedsInit, FormerStarters
    <3>2. 0 \in 0..MaxConnections /\ Connections \subseteq 0..MaxConnections
      BY SeedBounds DEF Connections
    <3>3. NoStarter \in [template : BOOLEAN, connection : 0..MaxConnections, network : 0..MaxConnections]
      BY <3>2 DEF NoStarter
    <3>4. \A n \in Connections : [template |-> TRUE, connection |-> 0, network |-> n]
                                \in [template : BOOLEAN, connection : 0..MaxConnections, network : 0..MaxConnections]
      BY <3>2
    <3> QED
      BY <3>1, <3>3, <3>4
  <2> QED
    BY <2>1, <2>2 DEF LocationTyped
<1>4. BlocksNamed
  BY BlockNames DEF SeedsInit, BlocksNamed
<1> QED
  BY <1>1, <1>2, <1>3, <1>4
     DEF SeedsInv, RecipesMoved, BlocksSynced, NothingWritten, StarterThere, NetworksThere, AllPlaced,
         AfterRecipes, AfterBlocks, AfterCredentials, AfterStarter, AfterNetworks

\* What the steps reach, whatever they do to the rows.
LEMMA StartGoes ==
  ASSUME NEW name \in DOMAIN StepAfter, Commits(name)
  PROVE  /\ step' \in AfterRecipes => name = "recipes" \/ step \in AfterRecipes
         /\ step' \in AfterBlocks => name = "blocks" \/ step \in AfterBlocks
         /\ step' \in AfterCredentials => name = "credentials" \/ step \in AfterCredentials
         /\ step' \in AfterStarter => name = "starter" \/ step \in AfterStarter
         /\ step' \in AfterNetworks => name = "networks" \/ step \in AfterNetworks
         /\ step' = "up" => name = "location"
         /\ step = name
<1>1. step = name /\ step' = StepAfter[name]
  BY StepCommits
<1>2. name \in {"recipes", "blocks", "images", "connection", "starter", "networks", "credentials", "location"}
  BY DEF StepAfter
<1>3. CASE name \in {"recipes", "blocks", "images", "connection"}
  BY <1>1, <1>3 DEF StepAfter, AfterRecipes, AfterBlocks, AfterCredentials, AfterStarter, AfterNetworks
<1>4. CASE name \in {"starter", "networks", "credentials", "location"}
  BY <1>1, <1>4 DEF StepAfter, AfterRecipes, AfterBlocks, AfterCredentials, AfterStarter, AfterNetworks
<1> QED
  BY <1>2, <1>3, <1>4

LEMMA MoveRecipesKeeps == SeedsInv /\ MoveRecipes => SeedsInv'
<1> SUFFICES ASSUME SeedsInv, MoveRecipes PROVE SeedsInv'
  OBVIOUS
<1> USE DEF SeedsInv
<1>1. /\ Commits("recipes") /\ "recipes" \in DOMAIN StepAfter
      /\ UNCHANGED <<credential, catalog, secret, image, connection, starter>>
  BY DEF MoveRecipes, StepAfter
<1>2. step = "recipes" /\ step' = "blocks"
  BY <1>1, StepCommits DEF StepAfter
<1>3. ASSUME NEW p \in Placed
      PROVE  /\ DOMAIN recipe'[p] = {"ref", "input", "sound"} /\ recipe'[p].ref \in Blocks
             /\ recipe'[p].sound => recipe'[p].ref # "b-ssh"
  <2>1. recipe'[p] = IF recipe[p].ref = "b-ssh" /\ recipe[p].sound THEN [recipe[p] EXCEPT !.ref = "b-user"]
                     ELSE recipe[p]
    BY DEF MoveRecipes
  <2> QED
    BY <2>1, BlockNames DEF RecipesTyped
<1>4. DOMAIN recipe' = Placed
  BY DEF MoveRecipes
<1>5. RecipesTyped' /\ RecipesMoved' /\ LocationTyped' /\ BlocksNamed'
  BY <1>1, <1>3, <1>4 DEF RecipesTyped, RecipesMoved, LocationTyped, BlocksNamed
<1> QED
  BY <1>2, <1>5 DEF BlocksSynced, NothingWritten, StarterThere, NetworksThere, AllPlaced,
                    AfterBlocks, AfterCredentials, AfterStarter, AfterNetworks

LEMMA SyncBlocksKeeps == SeedsInv /\ SyncBlocks => SeedsInv'
<1> SUFFICES ASSUME SeedsInv, SyncBlocks PROVE SeedsInv'
  OBVIOUS
<1> USE DEF SeedsInv
<1>1. /\ Commits("blocks") /\ "blocks" \in DOMAIN StepAfter
      /\ UNCHANGED <<recipe, credential, secret, image, connection, starter>>
  BY DEF SyncBlocks, StepAfter
<1>2. step = "blocks" /\ step' = "images"
  BY <1>1, StepCommits DEF StepAfter
<1>3. BlocksNamed' /\ BlocksSynced'
  BY BlockNames DEF SyncBlocks, Obsolete, BlocksNamed, BlocksSynced
<1>4. RecipesTyped' /\ RecipesMoved' /\ LocationTyped'
  BY <1>1, <1>2 DEF RecipesTyped, RecipesMoved, LocationTyped, AfterRecipes
<1> QED
  BY <1>2, <1>3, <1>4 DEF NothingWritten, StarterThere, NetworksThere, AllPlaced,
                          AfterCredentials, AfterStarter, AfterNetworks

\* A step of the start that changes neither recipes nor blocks
LEMMA LaterStep ==
  ASSUME SeedsInv, NEW name \in {"images", "connection", "starter", "networks", "location"},
         Commits(name), UNCHANGED <<recipe, catalog>>
  PROVE  /\ RecipesTyped' /\ BlocksNamed' /\ RecipesMoved' /\ BlocksSynced' /\ NothingWritten'
         /\ step = name /\ step' = StepAfter[name]
<1>1. name \in DOMAIN StepAfter
  BY DEF StepAfter
<1>2. step = name /\ step' = StepAfter[name]
  BY <1>1, StepCommits
<1>3. /\ step' \in AfterRecipes => step \in AfterRecipes
      /\ step' \in AfterBlocks => step \in AfterBlocks
      /\ step' \in AfterCredentials => step \in AfterCredentials
  BY <1>1, StartGoes
<1> QED
  BY <1>2, <1>3 DEF SeedsInv, RecipesTyped, BlocksNamed, RecipesMoved, BlocksSynced, NothingWritten

LEMMA AddImagesKeeps == SeedsInv /\ AddImages => SeedsInv'
<1> SUFFICES ASSUME SeedsInv, AddImages PROVE SeedsInv'
  OBVIOUS
<1>1. Commits("images") /\ UNCHANGED <<recipe, catalog, connection, starter>>
  BY DEF AddImages
<1>2. step' = "connection"
  BY <1>1, LaterStep DEF StepAfter
<1> QED
  BY <1>1, <1>2, LaterStep
     DEF SeedsInv, LocationTyped, StarterThere, NetworksThere, AllPlaced, AfterStarter, AfterNetworks

LEMMA AddEnvConnectionKeeps == SeedsInv /\ AddEnvConnection => SeedsInv'
<1> SUFFICES ASSUME SeedsInv, AddEnvConnection PROVE SeedsInv'
  OBVIOUS
<1>1. Commits("connection") /\ UNCHANGED <<recipe, catalog, starter>>
  BY DEF AddEnvConnection
<1>2. step' = "starter"
  BY <1>1, LaterStep DEF StepAfter
<1>3. LocationTyped'
  BY DEF AddEnvConnection, SeedsInv, LocationTyped
<1> QED
  BY <1>1, <1>2, <1>3, LaterStep
     DEF SeedsInv, StarterThere, NetworksThere, AllPlaced, AfterStarter, AfterNetworks

LEMMA AddStarterKeeps == SeedsInv /\ AddStarter => SeedsInv'
<1> SUFFICES ASSUME SeedsInv, AddStarter PROVE SeedsInv'
  OBVIOUS
<1>1. Commits("starter") /\ UNCHANGED <<recipe, catalog, connection>>
  BY DEF AddStarter
<1>2. step' = "networks"
  BY <1>1, LaterStep DEF StepAfter
<1>3. LocationTyped' /\ starter'.template
  <2> DEFINE Starters == [template : BOOLEAN, connection : 0..MaxConnections, network : 0..MaxConnections]
  <2>1. NoStarter \in Starters
    BY SeedBounds DEF NoStarter
  <2>2. [NoStarter EXCEPT !.template = TRUE] \in Starters /\ [NoStarter EXCEPT !.template = TRUE].template
    BY <2>1
  <2>3. starter' = IF starter.template THEN starter ELSE [NoStarter EXCEPT !.template = TRUE]
    BY DEF AddStarter
  <2> QED
    BY <1>1, <2>2, <2>3 DEF SeedsInv, LocationTyped
<1> QED
  BY <1>1, <1>2, <1>3, LaterStep
     DEF SeedsInv, StarterThere, NetworksThere, AllPlaced, AfterNetworks

\* default_network_for gives every connection that is there a network.
LEMMA NetworksGiven ==
  ASSUME NEW table \in [Connections -> [there : BOOLEAN, network : BOOLEAN, env : BOOLEAN]]
  PROVE  /\ WithNetworks(table) \in [Connections -> [there : BOOLEAN, network : BOOLEAN, env : BOOLEAN]]
         /\ \A c \in Connections :
              /\ WithNetworks(table)[c].there = table[c].there
              /\ table[c].there => WithNetworks(table)[c].network
BY DEF WithNetworks

LEMMA AddNetworksKeeps == SeedsInv /\ AddNetworks => SeedsInv'
<1> SUFFICES ASSUME SeedsInv, AddNetworks PROVE SeedsInv'
  OBVIOUS
<1>1. Commits("networks") /\ UNCHANGED <<recipe, catalog, starter>> /\ connection' = WithNetworks(connection)
  BY DEF AddNetworks
<1>2. step = "networks" /\ step' = "credentials"
  BY <1>1, LaterStep DEF StepAfter
<1>3. LocationTyped' /\ \A c \in Existing' : connection'[c].network
  BY <1>1, NetworksGiven DEF SeedsInv, LocationTyped, Existing
<1>4. StarterThere'
  BY <1>1, <1>2 DEF SeedsInv, StarterThere, AfterStarter
<1> QED
  BY <1>1, <1>2, <1>3, <1>4, LaterStep DEF SeedsInv, NetworksThere, AllPlaced

LEMMA MoveCredentialsKeeps == SeedsInv /\ MoveCredentials => SeedsInv'
<1> SUFFICES ASSUME SeedsInv, MoveCredentials PROVE SeedsInv'
  OBVIOUS
<1> USE DEF SeedsInv
<1>1. /\ Commits("credentials") /\ "credentials" \in DOMAIN StepAfter
      /\ UNCHANGED <<credential, catalog, image, connection, starter>>
  BY DEF MoveCredentials, StepAfter
<1>2. step = "credentials" /\ step' = "location"
  BY <1>1, StepCommits DEF StepAfter
<1>3. ASSUME NEW p \in Placed
      PROVE  /\ DOMAIN recipe'[p] = {"ref", "input", "sound"}
             /\ recipe'[p].ref = recipe[p].ref /\ recipe'[p].sound = recipe[p].sound
             /\ recipe'[p].input = Literal => p \notin ToMove /\ recipe[p].input = Literal
  <2> DEFINE name == FreeName(Stored[p - 1])
  <2>1. recipe'[p] = IF p \in ToMove THEN [recipe[p] EXCEPT !.input = Reference(name)] ELSE recipe[p]
    BY DEF MoveCredentials
  <2>2. Reference(name) # Literal
    BY Apart
  <2> HIDE DEF name
  <2> QED
    BY <2>1, <2>2 DEF RecipesTyped
<1>4. DOMAIN recipe' = Placed
  BY DEF MoveCredentials
<1>5. RecipesTyped' /\ RecipesMoved' /\ LocationTyped' /\ BlocksNamed' /\ BlocksSynced'
  BY <1>1, <1>2, <1>3, <1>4
     DEF RecipesTyped, RecipesMoved, LocationTyped, BlocksNamed, BlocksSynced, AfterRecipes, AfterBlocks,
         AfterStarter, AfterNetworks
<1>6. NothingWritten'
  <2> SUFFICES ASSUME NEW p \in Placed, recipe'[p].input = Literal PROVE catalog[recipe[p].ref] = "absent"
    BY <1>1, <1>3 DEF NothingWritten
  <2>1. ~Sensitive(recipe[p].ref) /\ recipe[p].ref \in Blocks
    BY <1>3 DEF ToMove, RecipesTyped
  <2>2. catalog["b-ssh"] = "absent" /\ catalog["b-user"] = "builtin" /\ catalog["own"] = "custom"
    BY <1>2 DEF BlocksNamed, BlocksSynced, AfterBlocks, AfterStarter, AfterNetworks
  <2> QED
    BY <2>1, <2>2, BlockNames DEF Sensitive
<1>7. StarterThere' /\ NetworksThere'
  BY <1>1, <1>2 DEF StarterThere, NetworksThere, AfterStarter, AfterNetworks, Existing
<1> QED
  BY <1>2, <1>5, <1>6, <1>7 DEF AllPlaced

\* A starter that is located has its connection, gets one that is there, or is stranded.
LEMMA LocatedThere ==
  ASSUME NEW table \in [Connections -> [there : BOOLEAN, network : BOOLEAN, env : BOOLEAN]], LocationTyped
  PROVE  /\ Located(table) \in [template : BOOLEAN, connection : 0..MaxConnections, network : 0..MaxConnections]
         /\ Located(table).template = starter.template
         /\ starter.template /\ (\E c \in Connections : table[c].there)
              /\ (\A c \in Connections : table[c].there => table[c].network)
              => \/ Located(table).connection # 0
                 \/ Located(table).network # 0 /\ ~table[Located(table).network].network
<1> DEFINE have == {c \in Connections : table[c].there}
           home == IF starter.network # 0 THEN starter.network ELSE Least(have)
<1>1. have \in SUBSET Connections
  OBVIOUS
<1>2. have # {} => Least(have) \in have
  BY <1>1, LeastExists DEF Connections
<1>3. have # {} => home \in Connections /\ home \in 0..MaxConnections /\ home # 0
  BY <1>2, SeedBounds DEF LocationTyped, Connections
<1>4. Located(table) = IF /\ starter.template /\ starter.connection = 0 /\ have # {}
                          /\ table[home].network
                       THEN [starter EXCEPT !.connection = home, !.network = home] ELSE starter
  BY DEF Located
<1>5. have # {} /\ starter.network = 0 /\ (\A c \in Connections : table[c].there => table[c].network)
        => table[home].network
  BY <1>2
<1>6. starter.network # 0 => home = starter.network
  OBVIOUS
<1> HIDE DEF home
<1>7. have # {} => [starter EXCEPT !.connection = home, !.network = home]
                     \in [template : BOOLEAN, connection : 0..MaxConnections, network : 0..MaxConnections]
                   /\ [starter EXCEPT !.connection = home, !.network = home].connection = home
                   /\ [starter EXCEPT !.connection = home, !.network = home].template = starter.template
  BY <1>3 DEF LocationTyped
<1>8. (\E c \in Connections : table[c].there) => have # {}
  OBVIOUS
<1> HIDE DEF have
<1> QED
  BY <1>3, <1>4, <1>5, <1>6, <1>7, <1>8 DEF LocationTyped

LEMMA PlaceStarterKeeps == SeedsInv /\ PlaceStarter => SeedsInv'
<1> SUFFICES ASSUME SeedsInv, PlaceStarter PROVE SeedsInv'
  OBVIOUS
<1>1. Commits("location") /\ UNCHANGED <<recipe, catalog, connection>> /\ starter' = Located(connection)
  BY DEF PlaceStarter
<1>2. step = "location" /\ step' = "up"
  BY <1>1, LaterStep DEF StepAfter
<1>3. LocationTyped'
  BY <1>1, LocatedThere DEF SeedsInv, LocationTyped
<1>4. AllPlaced'
  BY <1>1, <1>2, LocatedThere
     DEF SeedsInv, LocationTyped, NetworksThere, StarterThere, AllPlaced, AfterStarter, AfterNetworks, Existing,
         Stranded
<1> QED
  BY <1>1, <1>2, <1>3, <1>4, LaterStep DEF SeedsInv, StarterThere, NetworksThere, AfterStarter, AfterNetworks

LEMMA BootHaltKeep == SeedsInv /\ (Boot \/ Halt) => SeedsInv'
<1> SUFFICES ASSUME SeedsInv, Boot \/ Halt PROVE SeedsInv'
  OBVIOUS
<1>1. step' \in {"recipes", "down"} /\ UNCHANGED <<recipe, catalog, connection, starter>>
  BY DEF Boot, Halt, catalogs, Steps
<1> QED
  BY <1>1 DEF SeedsInv, RecipesTyped, LocationTyped, BlocksNamed, RecipesMoved, BlocksSynced, NothingWritten,
              StarterThere, NetworksThere, AllPlaced, AfterRecipes, AfterBlocks, AfterCredentials,
              AfterStarter, AfterNetworks

\* What the operator does while the program serves
LEMMA EditKeeps ==
  ASSUME SeedsInv, EditCatalog("up"), UNCHANGED <<recipe, catalog>>, LocationTyped'
  PROVE  SeedsInv'
<1>1. step = "up" /\ step' = "up" /\ ~untouched'
  BY DEF EditCatalog
<1> QED
  BY <1>1 DEF SeedsInv, RecipesTyped, BlocksNamed, RecipesMoved, BlocksSynced, NothingWritten,
              StarterThere, NetworksThere, AllPlaced, AfterStarter, AfterNetworks

LEMMA ChangesKeep ==
  ASSUME SeedsInv,
         \/ AddConnection \/ MoveStarter \/ DropStarter
         \/ \E c \in Connections : DropNetwork(c) \/ DropConnection(c)
         \/ \E i \in Curated : ChangeImage(i)
  PROVE  SeedsInv'
<1>1. LocationTyped
  BY DEF SeedsInv
<1>2. CASE AddConnection
  <2>1. PICK c \in Connections :
          connection' = WithNetworks([connection EXCEPT ![c] = [@ EXCEPT !.there = TRUE]])
    BY <1>2 DEF AddConnection, NextConnection
  <2>2. connection' \in [Connections -> [there : BOOLEAN, network : BOOLEAN, env : BOOLEAN]]
    <3> DEFINE table == [connection EXCEPT ![c] = [@ EXCEPT !.there = TRUE]]
    <3>1. table \in [Connections -> [there : BOOLEAN, network : BOOLEAN, env : BOOLEAN]]
      BY <1>1 DEF LocationTyped
    <3>2. connection' = WithNetworks(table)
      BY <2>1
    <3> HIDE DEF table
    <3> QED
      BY <3>1, <3>2, NetworksGiven
  <2>3. LocationTyped'
    BY <1>1, <1>2, <2>2, LocatedThere DEF AddConnection, LocationTyped
  <2> QED
    BY <1>2, <2>3, EditKeeps DEF AddConnection
<1>3. CASE DropStarter
  BY <1>1, <1>3, SeedBounds, EditKeeps DEF DropStarter, LocationTyped, NoStarter
<1>4. ASSUME NEW c \in Connections, DropNetwork(c) \/ DropConnection(c) PROVE SeedsInv'
  <2>1. connection' \in [Connections -> [there : BOOLEAN, network : BOOLEAN, env : BOOLEAN]]
    <3>1. connection' = [connection EXCEPT ![c].network = FALSE] \/ connection' = [connection EXCEPT ![c] = NoConnection]
      BY <1>4 DEF DropNetwork, DropConnection
    <3>2. /\ NoConnection \in [there : BOOLEAN, network : BOOLEAN, env : BOOLEAN]
          /\ [connection[c] EXCEPT !.network = FALSE] \in [there : BOOLEAN, network : BOOLEAN, env : BOOLEAN]
      BY <1>1 DEF NoConnection, LocationTyped
    <3> QED
      BY <1>1, <3>1, <3>2 DEF LocationTyped
  <2>2. EditCatalog("up") /\ UNCHANGED <<recipe, catalog, starter>>
    BY <1>4 DEF DropNetwork, DropConnection
  <2> QED
    BY <1>1, <2>1, <2>2, EditKeeps DEF LocationTyped
<1>5. ASSUME NEW i \in Curated, ChangeImage(i) PROVE SeedsInv'
  BY <1>1, <1>5, EditKeeps DEF ChangeImage, LocationTyped
<1>6. CASE MoveStarter
  <2>1. Existing \cup {0} \subseteq 0..MaxConnections /\ 0 \in 0..MaxConnections
    BY SeedBounds DEF Existing, Connections
  <2> QED
    BY <1>1, <1>6, <2>1, EditKeeps DEF MoveStarter, LocationTyped
<1> QED
  BY <1>2, <1>3, <1>4, <1>5, <1>6

LEMMA RunFormerKeeps == ASSUME SeedsInv, NEW p \in Placed, RunFormer(p) PROVE SeedsInv'
<1> USE DEF SeedsInv
<1>1. step' = "down" /\ UNCHANGED <<connection, starter>>
  BY DEF RunFormer
<1>2. RecipesTyped'
  BY BlockNames DEF RunFormer, RecipesTyped
<1>3. BlocksNamed'
  BY BlockNames DEF RunFormer, BlocksNamed
<1> QED
  BY <1>1, <1>2, <1>3 DEF LocationTyped, RecipesMoved, BlocksSynced, NothingWritten, StarterThere,
     NetworksThere, AllPlaced, AfterRecipes, AfterBlocks, AfterCredentials, AfterStarter, AfterNetworks

LEMMA SeedsStep == SeedsInv /\ [SeedsNext]_seeds => SeedsInv'
<1> SUFFICES ASSUME SeedsInv, [SeedsNext]_seeds PROVE SeedsInv'
  OBVIOUS
<1>1. CASE UNCHANGED seeds
  BY <1>1 DEF seeds, catalogs, SeedsInv, RecipesTyped, LocationTyped, BlocksNamed, RecipesMoved, BlocksSynced,
              NothingWritten, StarterThere, NetworksThere, AllPlaced, Existing, Stranded
<1> QED
  BY <1>1, MoveRecipesKeeps, SyncBlocksKeeps, AddImagesKeeps, AddEnvConnectionKeeps, AddStarterKeeps,
     AddNetworksKeeps, MoveCredentialsKeeps, PlaceStarterKeeps, BootHaltKeep, ChangesKeep, RunFormerKeeps
     DEF SeedsNext

\* ServedCatalogSound for every number of placements and connections, wherever starts
\* broke off and whatever an older release wrote in between (seed.py 1557-1932).
THEOREM CatalogsAreSound == SeedsSpec => []ServedCatalogSound
BY InitSeedsInv, SeedsStep, SeedsImply, PTL DEF SeedsSpec

(* The migration of credentials, whose loop is a recursive function: the       *)
(* library has no induction for it, a least counterexample does.               *)

\* One turn of the migration's loop
Turn(store, n) ==
  IF n \in ToMove THEN Append(store, [name |-> FreeName(store), value |-> credential[n]]) ELSE store
After(f, n) == IF n = 0 THEN secret ELSE Turn(f[n - 1], n)
Upto(f, n) == f = [m \in 0..n |-> After(f, m)]

\* The loop's first turns are the same however far it goes ...
LEMMA UptoAgree ==
  ASSUME NEW n \in Nat, NEW m \in Nat, n <= m, NEW f, Upto(f, n), NEW g, Upto(g, m)
  PROVE  \A k \in 0..n : f[k] = g[k]
<1> DEFINE T == {k \in 0..n : f[k] # g[k]}
<1>1. ASSUME T # {} PROVE FALSE
  <2>1. T \in SUBSET Nat
    OBVIOUS
  <2>2. PICK k \in T : \A j \in T : k <= j
    BY <1>1, <2>1, LeastNumber
  <2>3. k \in 0..n /\ k \in 0..m /\ f[k] # g[k]
    OBVIOUS
  <2>4. f[k] = After(f, k) /\ g[k] = After(g, k)
    BY <2>3 DEF Upto
  <2>5. k # 0
    BY <2>3, <2>4 DEF After
  <2>6. k - 1 \in 0..n /\ k - 1 \notin T
    BY <2>2, <2>3, <2>5
  <2>7. f[k - 1] = g[k - 1]
    BY <2>6
  <2> QED
    BY <2>3, <2>4, <2>5, <2>7 DEF After
<1> QED
  BY <1>1

\* ... it can go as far as it likes ...
LEMMA UptoThere == \A n \in Nat : \E f : Upto(f, n)
<1> DEFINE T == {n \in Nat : \A f : ~Upto(f, n)}
<1>1. ASSUME T # {} PROVE FALSE
  <2>1. T \in SUBSET Nat
    OBVIOUS
  <2>2. PICK n \in T : \A k \in T : n <= k
    BY <1>1, <2>1, LeastNumber
  <2>3. n \in Nat /\ \A f : ~Upto(f, n)
    OBVIOUS
  <2>4. n # 0
    <3> DEFINE f == [m \in 0..0 |-> secret]
    <3>1. Upto(f, 0)
      BY DEF Upto, After
    <3> QED
      BY <2>3, <3>1
  <2>5. n - 1 \in Nat /\ n - 1 \notin T
    BY <2>2, <2>3, <2>4
  <2>6. PICK f : Upto(f, n - 1)
    BY <2>5
  <2> DEFINE g == [m \in 0..n |-> IF m = n THEN After(f, n) ELSE f[m]]
  <2>7. ASSUME NEW m \in 0..n PROVE g[m] = After(g, m)
    <3>1. m = 0 \/ (m - 1 \in 0..n /\ m - 1 # n)
      BY <2>3
    <3>2. After(g, m) = After(f, m)
      BY <3>1 DEF After
    <3>3. m # n => f[m] = After(f, m)
      BY <2>3, <2>6 DEF Upto
    <3> QED
      BY <3>2, <3>3
  <2>8. g = [m \in 0..n |-> After(g, m)]
    BY <2>7
  <2> QED
    BY <2>3, <2>8 DEF Upto
<1> QED
  BY <1>1

\* ... and Stored is what it leaves after each turn.
LEMMA StoredTurns ==
  /\ Stored[0] = secret
  /\ \A n \in Nat : n # 0 => Stored[n] = Turn(Stored[n - 1], n)
<1> DEFINE Next(f) == [n \in Nat |-> IF n = 0 THEN secret
                                  ELSE LET store == f[n - 1] IN
                                       IF n \in ToMove
                                       THEN Append(store, [name |-> FreeName(store), value |-> credential[n]])
                                       ELSE store]
           F(n) == CHOOSE f : Upto(f, n)
           g == [n \in Nat |-> F(n)[n]]
<1>1. ASSUME NEW n \in Nat PROVE Upto(F(n), n)
  BY UptoThere
<1>2. ASSUME NEW n \in Nat PROVE g[n] = After(g, n)
  <2>1. F(n)[n] = After(F(n), n)
    <3>1. n \in 0..n
      OBVIOUS
    <3> HIDE DEF F
    <3> QED
      BY <1>1, <3>1 DEF Upto
  <2>2. CASE n = 0
    BY <2>1, <2>2 DEF After
  <2>3. CASE n # 0
    <3>1. n - 1 \in Nat /\ n - 1 <= n /\ n - 1 \in 0..(n - 1)
      BY <2>3
    <3>2. Upto(F(n), n) /\ Upto(F(n - 1), n - 1)
      BY <1>1, <3>1
    <3> HIDE DEF F
    <3>3. F(n)[n - 1] = F(n - 1)[n - 1]
      BY <3>1, <3>2, UptoAgree
    <3>4. g[n] = F(n)[n] /\ g[n - 1] = F(n - 1)[n - 1]
      BY <3>1
    <3> QED
      BY <2>1, <2>3, <3>3, <3>4 DEF After
  <2> QED
    BY <2>2, <2>3
<1>3. g = Next(g)
  <2> HIDE DEF F
  <2>1. g = [n \in Nat |-> After(g, n)]
    <3>1. g = [n \in Nat |-> g[n]]
      OBVIOUS
    <3> HIDE DEF g
    <3> QED
      BY <1>2, <3>1
  <2> HIDE DEF g
  <2>2. Next(g) = [n \in Nat |-> After(g, n)]
    BY DEF After, Turn
  <2> QED
    BY <2>1, <2>2
<1>4. Stored = Next(Stored)
  <2>1. Stored = CHOOSE f : f = Next(f)
    BY DEF Stored
  <2> HIDE DEF Next, g
  <2> QED
    BY <1>3, <2>1
<1>5. \A n \in Nat : Stored[n] = IF n = 0 THEN secret ELSE Turn(Stored[n - 1], n)
  BY <1>4 DEF Turn
<1> QED
  BY <1>5

\* A secret of the store
Entry == [name : Nat, value : Nat \cup {OwnValue}]

\* A store of finitely many names leaves one free that is not larger than their number.
LEMMA NameIsFree ==
  ASSUME NEW store \in Seq(Entry)
  PROVE  FreeName(store) \in Nat /\ FreeName(store) \notin NamesTaken(store)
<1> DEFINE N == Len(store) + 1
           f == [i \in DOMAIN store |-> store[i].name]
           T == {n \in 1..N : n \notin NamesTaken(store)}
<1>1. Len(store) \in Nat /\ DOMAIN store = 1..Len(store)
  OBVIOUS
<1>2. f \in Surjection(DOMAIN store, NamesTaken(store))
  BY DEF NamesTaken, Surjection
<1>3. IsFiniteSet(DOMAIN store) /\ Cardinality(DOMAIN store) = Len(store)
  BY <1>1, FS_Interval
<1> HIDE DEF f
<1>4. IsFiniteSet(NamesTaken(store)) /\ Cardinality(NamesTaken(store)) <= Len(store)
  BY <1>2, <1>3, FS_Surjection
<1>5. Cardinality(1..N) = N
  BY <1>1, FS_Interval
<1>6. T # {}
  <2> SUFFICES ASSUME 1..N \subseteq NamesTaken(store) PROVE FALSE
    OBVIOUS
  <2>1. Cardinality(1..N) <= Cardinality(NamesTaken(store)) /\ Cardinality(NamesTaken(store)) \in Nat
    BY <1>4, FS_Subset, FS_CardinalityType
  <2> QED
    BY <1>1, <1>4, <1>5, <2>1
<1>7. T \in SUBSET Nat
  OBVIOUS
<1>8. PICK n \in T : \A k \in T : n <= k
  BY <1>6, <1>7, LeastNumber
<1>9. n \in 1..N /\ n \notin NamesTaken(store) /\ \A k \in 1..(n - 1) : k \in NamesTaken(store)
  BY <1>1, <1>8
<1>10. FreeName(store) \in 1..N /\ FreeName(store) \notin NamesTaken(store)
  BY <1>9 DEF FreeName
<1> QED
  BY <1>1, <1>10

\* What the lookup by name finds: the first entry of the name has the value.
Serves(store, name, value) ==
  \E i \in DOMAIN store :
    /\ store[i].name = name /\ store[i].value = value
    /\ \A k \in 1..(i - 1) : store[k].name # name

LEMMA ServesResolves ==
  ASSUME NEW name, NEW value, secret \in Seq(Entry), Serves(secret, name, value)
  PROVE  name \in NamesTaken(secret) /\ Resolved(name) = value
<1>1. PICK i \in DOMAIN secret :
         /\ secret[i].name = name /\ secret[i].value = value
         /\ \A k \in 1..(i - 1) : secret[k].name # name
  BY DEF Serves
<1>2. name \in NamesTaken(secret)
  BY <1>1 DEF NamesTaken
<1> DEFINE j == CHOOSE j \in DOMAIN secret :
                  /\ secret[j].name = name
                  /\ \A k \in 1..(j - 1) : secret[k].name # name
<1>3. j \in DOMAIN secret /\ secret[j].name = name /\ \A k \in 1..(j - 1) : secret[k].name # name
  BY <1>1
<1>4. Resolved(name) = secret[j].value
  BY DEF Resolved
<1> HIDE DEF j
<1>5. DOMAIN secret = 1..Len(secret) /\ Len(secret) \in Nat
  OBVIOUS
<1>6. i = j
  BY <1>1, <1>3, <1>5
<1> QED
  BY <1>1, <1>2, <1>4, <1>6

\* The migration's loop keeps what the store serves ...
LEMMA TurnServes ==
  ASSUME NEW store \in Seq(Entry), NEW n \in Nat, credential[n] \in Nat \/ n \notin ToMove
  PROVE  /\ Turn(store, n) \in Seq(Entry)
         /\ \A name, value : Serves(store, name, value) => Serves(Turn(store, n), name, value)
         /\ n \in ToMove => FreeName(store) \in Nat /\ Serves(Turn(store, n), FreeName(store), credential[n])
<1>1. CASE n \notin ToMove
  BY <1>1 DEF Turn
<1>2. CASE n \in ToMove
  <2> DEFINE free == FreeName(store)
             e == [name |-> free, value |-> credential[n]]
             new == Append(store, e)
  <2>1. free \in Nat /\ free \notin NamesTaken(store)
    BY NameIsFree
  <2>2. Turn(store, n) = new
    BY <1>2 DEF Turn
  <2> HIDE DEF free
  <2>3. e \in Entry
    BY <1>2, <2>1 DEF Entry
  <2> HIDE DEF e
  <2>4. /\ new \in Seq(Entry) /\ Len(store) \in Nat /\ DOMAIN store = 1..Len(store)
        /\ DOMAIN new = 1..(Len(store) + 1)
        /\ \A i \in 1..Len(store) : new[i] = store[i]
        /\ new[Len(store) + 1] = e
    BY <2>3
  <2> HIDE DEF new
  <2>5. ASSUME NEW name, NEW value, Serves(store, name, value) PROVE Serves(new, name, value)
    <3>1. PICK i \in DOMAIN store :
             /\ store[i].name = name /\ store[i].value = value
             /\ \A k \in 1..(i - 1) : store[k].name # name
      BY <2>5 DEF Serves
    <3>2. i \in DOMAIN new /\ new[i] = store[i] /\ \A k \in 1..(i - 1) : new[k] = store[k]
      BY <2>4
    <3> QED
      BY <3>1, <3>2 DEF Serves
  <2>6. Serves(new, free, credential[n])
    <3>1. Len(store) + 1 \in DOMAIN new
      BY <2>4
    <3>2. new[Len(store) + 1].name = free /\ new[Len(store) + 1].value = credential[n]
      BY <2>4 DEF e
    <3>3. \A k \in 1..((Len(store) + 1) - 1) : new[k].name # free
      BY <2>1, <2>4 DEF NamesTaken
    <3> QED
      BY <3>1, <3>2, <3>3 DEF Serves
  <2> QED
    BY <2>1, <2>2, <2>4, <2>5, <2>6 DEF free
<1> QED
  BY <1>1, <1>2

\* ... from any of its turns on.
LEMMA StoredServes ==
  ASSUME secret \in Seq(Entry), credential \in [Placed -> Nat]
  PROVE  /\ \A n \in Nat : Stored[n] \in Seq(Entry)
         /\ \A name, value : \A m \in Nat, n \in Nat :
              m <= n /\ Serves(Stored[m], name, value) => Serves(Stored[n], name, value)
<1>1. ASSUME NEW n \in Nat PROVE credential[n] \in Nat \/ n \notin ToMove
  BY DEF ToMove
<1> DEFINE T == {n \in Nat : Stored[n] \notin Seq(Entry)}
<1>2. ASSUME T # {} PROVE FALSE
  <2>1. T \in SUBSET Nat
    OBVIOUS
  <2>2. PICK n \in T : \A k \in T : n <= k
    BY <1>2, <2>1, LeastNumber
  <2>3. n \in Nat /\ n # 0 /\ Stored[n] \notin Seq(Entry)
    BY StoredTurns
  <2>4. n - 1 \in Nat /\ Stored[n - 1] \in Seq(Entry)
    BY <2>2, <2>3
  <2> QED
    BY <1>1, <2>3, <2>4, StoredTurns, TurnServes
<1>3. \A n \in Nat : Stored[n] \in Seq(Entry)
  BY <1>2
<1>4. ASSUME NEW m \in Nat, NEW name, NEW value, Serves(Stored[m], name, value)
      PROVE  \A n \in Nat : m <= n => Serves(Stored[n], name, value)
  <2> DEFINE U == {n \in Nat : m <= n /\ ~Serves(Stored[n], name, value)}
  <2>1. ASSUME U # {} PROVE FALSE
    <3>1. U \in SUBSET Nat
      OBVIOUS
    <3>2. PICK n \in U : \A k \in U : n <= k
      BY <2>1, <3>1, LeastNumber
    <3>3. n \in Nat /\ m <= n /\ n # m /\ ~Serves(Stored[n], name, value)
      BY <1>4
    <3>4. n - 1 \in Nat /\ n # 0 /\ n - 1 \notin U /\ m <= n - 1
      BY <3>2, <3>3
    <3>5. Serves(Stored[n - 1], name, value)
      BY <3>4
    <3>6. Stored[n - 1] \in Seq(Entry) /\ Stored[n] = Turn(Stored[n - 1], n)
      BY <1>3, <3>3, <3>4, StoredTurns
    <3>7. Serves(Turn(Stored[n - 1], n), name, value)
      BY <1>1, <3>3, <3>5, <3>6, TurnServes
    <3> QED
      BY <3>3, <3>6, <3>7
  <2> QED
    BY <2>1
<1> QED
  BY <1>3, <1>4

\* A field that refers to a secret gets from the store what its author typed.
Referring(p) ==
  recipe[p].input.is = "reference" => Serves(secret, recipe[p].input.name, credential[p])

CredentialsInv ==
  /\ SeedsInv
  /\ secret \in Seq(Entry) /\ credential \in [Placed -> Nat] /\ catalogEdits \in Nat
  /\ \A p \in Placed : Referring(p)

LEMMA InitCredentialsInv == SeedsInit => CredentialsInv
<1> SUFFICES ASSUME SeedsInit PROVE CredentialsInv
  OBVIOUS
<1>1. secret \in Seq(Entry)
  <2>1. secret = <<>> \/ secret = <<[name |-> 1, value |-> OwnValue]>>
    BY DEF SeedsInit
  <2>2. [name |-> 1, value |-> OwnValue] \in Entry
    BY DEF Entry
  <2>3. <<>> \in Seq(Entry) /\ \A e \in Entry : <<e>> \in Seq(Entry)
    OBVIOUS
  <2> QED
    BY <2>1, <2>2, <2>3
<1>2. credential \in [Placed -> Nat] /\ catalogEdits = 0
  BY SeedBounds DEF SeedsInit, Placed
<1>3. ASSUME NEW p \in Placed PROVE recipe[p].input.is # "reference"
  <2>1. recipe[p].input \in {Blank, Literal}
    BY DEF SeedsInit
  <2> QED
    BY <2>1 DEF Blank, Literal
<1> QED
  BY <1>1, <1>2, <1>3, InitSeedsInv DEF CredentialsInv, Referring

LEMMA MoveCredentialsServes ==
  ASSUME CredentialsInv, MoveCredentials
  PROVE  secret' \in Seq(Entry) /\ \A p \in Placed : Referring(p)'
<1> USE DEF CredentialsInv
<1>1. /\ secret' = Stored[Placements] /\ credential' = credential /\ Placements \in Nat
      /\ recipe' = [p \in Placed |->
           IF p \in ToMove THEN [recipe[p] EXCEPT !.input = Reference(FreeName(Stored[p - 1]))] ELSE recipe[p]]
  BY SeedBounds DEF MoveCredentials
<1>2. secret' \in Seq(Entry)
  BY <1>1, StoredServes
<1>3. ASSUME NEW p \in Placed PROVE Referring(p)'
  <2>1. p \in Nat /\ p # 0 /\ p - 1 \in Nat /\ p <= Placements
    BY <1>1 DEF Placed
  <2>2. CASE p \notin ToMove
    <3>1. recipe'[p] = recipe[p]
      BY <1>1, <2>2
    <3>2. ASSUME recipe[p].input.is = "reference"
          PROVE  Serves(Stored[Placements], recipe[p].input.name, credential[p])
      <4>1. Serves(Stored[0], recipe[p].input.name, credential[p])
        BY <3>2, StoredTurns DEF Referring
      <4>2. 0 \in Nat /\ 0 <= Placements
        BY <1>1
      <4> QED
        BY <1>1, <4>1, <4>2, StoredServes
    <3> QED
      BY <1>1, <3>1, <3>2 DEF Referring
  <2>3. CASE p \in ToMove
    <3> DEFINE free == FreeName(Stored[p - 1])
    <3>1. recipe'[p] = [recipe[p] EXCEPT !.input = Reference(free)]
      BY <1>1, <2>3
    <3>2. Stored[p - 1] \in Seq(Entry) /\ Stored[p] = Turn(Stored[p - 1], p)
      BY <2>1, StoredServes, StoredTurns
    <3>3. Serves(Stored[p], free, credential[p])
      BY <2>1, <2>3, <3>2, TurnServes
    <3>4. Serves(Stored[Placements], free, credential[p])
      BY <1>1, <2>1, <3>3, StoredServes
    <3> HIDE DEF free
    <3>5. recipe'[p].input = Reference(free)
      BY <3>1 DEF SeedsInv, RecipesTyped
    <3>6. recipe'[p].input.name = free
      BY <3>5 DEF Reference
    <3> QED
      BY <1>1, <3>4, <3>6 DEF Referring
  <2> QED
    BY <2>2, <2>3
<1> QED
  BY <1>2, <1>3

LEMMA CredentialsStep == CredentialsInv /\ [SeedsNext]_seeds => CredentialsInv'
<1> SUFFICES ASSUME CredentialsInv, [SeedsNext]_seeds PROVE CredentialsInv'
  OBVIOUS
<1> USE DEF CredentialsInv
<1>1. SeedsInv'
  BY SeedsStep
<1>2. CASE MoveCredentials
  <2>1. credential' = credential /\ catalogEdits' = catalogEdits
    BY <1>2 DEF MoveCredentials, Commits
  <2> QED
    BY <1>1, <1>2, <2>1, MoveCredentialsServes
<1>3. CASE MoveRecipes
  <2>1. secret' = secret /\ credential' = credential /\ catalogEdits' = catalogEdits
    BY <1>3 DEF MoveRecipes, Commits
  <2>2. ASSUME NEW p \in Placed PROVE recipe'[p].input = recipe[p].input
    BY <1>3 DEF MoveRecipes, SeedsInv, RecipesTyped
  <2> QED
    BY <1>1, <2>1, <2>2 DEF Referring
<1>4. ASSUME NEW q \in Placed, RunFormer(q) PROVE CredentialsInv'
  <2>1. /\ secret' = secret
        /\ credential' = [credential EXCEPT ![q] = Placements + catalogEdits + 1]
        /\ recipe' = [recipe EXCEPT ![q] = [ref |-> "b-ssh", input |-> Literal, sound |-> TRUE]]
    BY <1>4 DEF RunFormer
  <2>2. credential' \in [Placed -> Nat] /\ catalogEdits' \in Nat
    BY <1>4, <2>1, SeedBounds DEF RunFormer
  <2>3. ASSUME NEW p \in Placed PROVE Referring(p)'
    <3>1. CASE p = q
      BY <2>1, <3>1 DEF Referring, Literal, SeedsInv, RecipesTyped
    <3>2. CASE p # q
      BY <2>1, <3>2 DEF Referring, SeedsInv, RecipesTyped
    <3> QED
      BY <3>1, <3>2
  <2> QED
    BY <1>1, <2>1, <2>2, <2>3
<1>5. CASE UNCHANGED <<recipe, secret, credential>> /\ catalogEdits' \in {catalogEdits, catalogEdits + 1}
  BY <1>1, <1>5 DEF Referring
<1>6. \/ MoveCredentials \/ MoveRecipes \/ (\E q \in Placed : RunFormer(q))
      \/ UNCHANGED <<recipe, secret, credential>> /\ catalogEdits' \in {catalogEdits, catalogEdits + 1}
  BY DEF SeedsNext, Commits, seeds, catalogs, Boot, SyncBlocks, AddImages, AddEnvConnection, AddStarter, AddNetworks,
         PlaceStarter, Halt, EditCatalog, AddConnection, MoveStarter, DropStarter, DropNetwork, DropConnection, ChangeImage
<1> QED
  BY <1>2, <1>3, <1>4, <1>5, <1>6

\* CredentialsResolve for every number of placements, whatever the owner's store held
\* and wherever starts broke off (seed.py 1849-1932): the names that the migration makes
\* are new, and entries that it adds hide none that a field refers to.
THEOREM CredentialsMoved == SeedsSpec => []CredentialsResolve
<1>1. CredentialsInv => CredentialsResolve
  BY ServesResolves DEF CredentialsInv, Referring, CredentialsResolve
<1> QED
  BY <1>1, InitCredentialsInv, CredentialsStep, PTL DEF SeedsSpec

(* A complete start leaves nothing to do for the next one. *)

\* With nothing to move the loop leaves the store as it is.
LEMMA StoredUnmoved == ASSUME ToMove = {} PROVE Stored[Placements] = secret
<1>1. \A n \in Nat : n # 0 => Stored[n] = Stored[n - 1]
  BY StoredTurns DEF Turn
<1> DEFINE T == {n \in Nat : Stored[n] # secret}
<1>2. ASSUME T # {} PROVE FALSE
  <2>1. T \in SUBSET Nat
    OBVIOUS
  <2>2. PICK n \in T : \A k \in T : n <= k
    BY <1>2, <2>1, LeastNumber
  <2>3. n \in Nat /\ Stored[n] # secret /\ n # 0
    BY StoredTurns
  <2>4. n - 1 \in Nat /\ n - 1 \notin T
    BY <2>2, <2>3
  <2> QED
    BY <1>1, <2>3, <2>4
<1> QED
  BY <1>2, SeedBounds

AsTables ==
  /\ recipe = [p \in Placed |-> recipe[p]] /\ catalog = [b \in Blocks |-> catalog[b]]
  /\ image = [i \in Curated |-> image[i]]

AfterImages == {"connection", "starter"} \cup AfterStarter \cup {"location"}
AllImages == \A i \in Curated : image[i] # "absent"
ImagesThere == step \in AfterImages => AllImages

\* The connection that the environment names is there, or there is no room for it.
AfterEnv == {"starter"} \cup AfterStarter \cup {"location"}
EnvMade == configured /\ NextConnection # {} => \E k \in Existing : connection[k].env
EnvThere == step \in AfterEnv => EnvMade

Fixed ==
  /\ \A p \in Placed : recipe[p].sound => recipe[p].ref # "b-ssh"
  /\ catalog["b-ssh"] = "absent" /\ catalog["b-user"] = "builtin"
  /\ AllImages /\ EnvMade /\ starter.template
  /\ \A c \in Existing : connection[c].network
  /\ \A p \in Placed : recipe[p].input = Literal => catalog[recipe[p].ref] = "absent"
  /\ Existing # {} => starter.connection # 0 \/ Stranded

SettledInv == SeedsInv /\ AsTables /\ ImagesThere /\ EnvThere /\ (untouched => Fixed)

StartStep ==
  \/ MoveRecipes \/ SyncBlocks \/ AddImages \/ AddEnvConnection \/ AddStarter
  \/ AddNetworks \/ MoveCredentials \/ PlaceStarter

LEMMA InitSettledInv == SeedsInit => SettledInv
<1> SUFFICES ASSUME SeedsInit PROVE SettledInv
  OBVIOUS
<1>1. step = "down" /\ ~untouched
  BY DEF SeedsInit
<1>2. AsTables
  BY DEF SeedsInit, AsTables
<1> QED
  BY <1>1, <1>2, InitSeedsInv DEF SettledInv, ImagesThere, EnvThere, AfterImages, AfterEnv, AfterStarter, AfterNetworks

\* Every step of a start finds its work done.
LEMMA FixedStays == ASSUME SeedsInv, AsTables, Fixed, StartStep PROVE UNCHANGED catalogs
<1> USE DEF SeedsInv, Fixed
<1>1. CASE MoveRecipes
  <2>1. recipe' = recipe
    BY <1>1 DEF MoveRecipes, AsTables
  <2> QED
    BY <1>1, <2>1 DEF MoveRecipes, catalogs
<1>2. CASE SyncBlocks
  <2>1. \A b \in Blocks : b \notin Obsolete /\ (b = "b-user" => catalog[b] = "builtin")
    BY BlockNames DEF Obsolete, BlocksNamed
  <2>2. catalog' = catalog
    BY <1>2, <2>1 DEF SyncBlocks, AsTables
  <2> QED
    BY <1>2, <2>2 DEF SyncBlocks, catalogs
<1>3. CASE AddImages
  <2>1. image' = image
    BY <1>3 DEF AddImages, AsTables, AllImages
  <2> QED
    BY <1>3, <2>1 DEF AddImages, catalogs
<1>4. CASE AddEnvConnection
  <2>1. ~(configured /\ NextConnection # {} /\ \A k \in Existing : ~connection[k].env)
    BY DEF EnvMade
  <2>2. connection' = [c \in Connections |-> connection[c]]
    BY <1>4, <2>1 DEF AddEnvConnection
  <2>3. connection' = connection
    BY <2>2 DEF LocationTyped
  <2> QED
    BY <1>4, <2>3 DEF AddEnvConnection, catalogs
<1>5. CASE AddStarter
  BY <1>5 DEF AddStarter, catalogs
<1>6. CASE AddNetworks
  <2>1. \A c \in Connections : [connection[c] EXCEPT !.network = @ \/ connection[c].there] = connection[c]
    BY DEF LocationTyped, Existing
  <2>2. connection' = connection
    BY <1>6, <2>1 DEF AddNetworks, WithNetworks, LocationTyped
  <2> QED
    BY <1>6, <2>2 DEF AddNetworks, catalogs
<1>7. CASE MoveCredentials
  <2>1. ToMove = {}
    BY BlockNames DEF ToMove, Sensitive, RecipesTyped, BlocksNamed
  <2>2. recipe' = recipe /\ secret' = secret
    BY <1>7, <2>1, StoredUnmoved DEF MoveCredentials, AsTables
  <2> QED
    BY <1>7, <2>2 DEF MoveCredentials, catalogs
<1>8. CASE PlaceStarter
  <2>1. Located(connection) = starter
    BY DEF Located, Existing, Stranded
  <2> QED
    BY <1>8, <2>1 DEF PlaceStarter, catalogs
<1> QED
  BY <1>1, <1>2, <1>3, <1>4, <1>5, <1>6, <1>7, <1>8 DEF StartStep

LEMMA TablesStay == SettledInv /\ [SeedsNext]_seeds => AsTables'
<1> SUFFICES ASSUME SettledInv, [SeedsNext]_seeds PROVE AsTables'
  OBVIOUS
<1>1. AsTables
  BY DEF SettledInv
<1>2. recipe' = [p \in Placed |-> recipe'[p]]
  BY <1>1 DEF AsTables, SeedsNext, seeds, catalogs, Boot, MoveRecipes, SyncBlocks, AddImages, AddEnvConnection,
     AddStarter, AddNetworks, MoveCredentials, PlaceStarter, Halt, AddConnection, MoveStarter, DropStarter, DropNetwork,
     DropConnection, ChangeImage, RunFormer
<1>3. catalog' = [b \in Blocks |-> catalog'[b]]
  BY <1>1 DEF AsTables, SeedsNext, seeds, catalogs, Boot, MoveRecipes, SyncBlocks, AddImages, AddEnvConnection,
     AddStarter, AddNetworks, MoveCredentials, PlaceStarter, Halt, AddConnection, MoveStarter, DropStarter, DropNetwork,
     DropConnection, ChangeImage, RunFormer
<1>4. image' = [i \in Curated |-> image'[i]]
  BY <1>1 DEF AsTables, SeedsNext, seeds, catalogs, Boot, MoveRecipes, SyncBlocks, AddImages, AddEnvConnection,
     AddStarter, AddNetworks, MoveCredentials, PlaceStarter, Halt, AddConnection, MoveStarter, DropStarter, DropNetwork,
     DropConnection, ChangeImage, RunFormer
<1> QED
  BY <1>2, <1>3, <1>4 DEF AsTables

\* Networks are no matter of the environment's connection.
LEMMA EnvStays ==
  ASSUME LocationTyped, EnvMade, UNCHANGED configured, connection' = connection \/ connection' = WithNetworks(connection)
  PROVE  EnvMade'
<1>1. \A c \in Connections : connection'[c].there = connection[c].there /\ connection'[c].env = connection[c].env
  BY DEF LocationTyped, WithNetworks
<1>2. NextConnection' = NextConnection
  <2>1. \A c \in Connections : c > 1 => c - 1 \in Connections
    BY SeedBounds DEF Connections
  <2>2. \A c \in Connections : c..MaxConnections \subseteq Connections
    BY SeedBounds DEF Connections
  <2> QED
    BY <1>1, <2>1, <2>2 DEF NextConnection
<1>3. Existing' = Existing /\ Existing \subseteq Connections
  BY <1>1 DEF Existing
<1> QED
  BY <1>1, <1>2, <1>3 DEF EnvMade

LEMMA EnvIsMade == LocationTyped /\ AddEnvConnection => EnvMade'
<1> SUFFICES ASSUME LocationTyped, AddEnvConnection PROVE EnvMade'
  OBVIOUS
<1>1. UNCHANGED configured
  BY DEF AddEnvConnection, Commits
<1>2. CASE ~configured
  BY <1>1, <1>2 DEF EnvMade
<1>3. CASE NextConnection = {} \/ \E k \in Existing : connection[k].env
  <2>1. connection' = [c \in Connections |-> connection[c]]
    BY <1>3 DEF AddEnvConnection
  <2>2. connection' = connection
    BY <2>1 DEF LocationTyped
  <2>3. EnvMade
    BY <1>3 DEF EnvMade
  <2> QED
    BY <1>1, <2>2, <2>3, EnvStays
<1>4. CASE configured /\ NextConnection # {} /\ \A k \in Existing : ~connection[k].env
  <2>1. PICK c \in NextConnection : TRUE
    BY <1>4
  <2>2. c \in Connections /\ connection'[c] = [there |-> TRUE, network |-> FALSE, env |-> TRUE]
    BY <1>4, <2>1 DEF AddEnvConnection, NextConnection
  <2> QED
    BY <2>2 DEF EnvMade, Existing
<1> QED
  BY <1>2, <1>3, <1>4

\* What a step of a start reaches; the last one has reached all.
LEMMA StartStepReaches ==
  ASSUME SettledInv, SeedsInv', StartStep
  PROVE  /\ ImagesThere' /\ EnvThere' /\ UNCHANGED configured
         /\ untouched' /\ ~untouched => Fixed'
<1> USE DEF SettledInv
<1>0. LocationTyped
  BY DEF SeedsInv
<1>1. ASSUME MoveRecipes \/ SyncBlocks
      PROVE  /\ step' \in {"blocks", "images"} /\ untouched' = untouched /\ UNCHANGED configured
  <2>1. Commits("recipes") \/ Commits("blocks")
    BY <1>1 DEF MoveRecipes, SyncBlocks
  <2> QED
    BY <2>1, StepCommits DEF StepAfter, Commits
<1>2. CASE MoveRecipes \/ SyncBlocks
  BY <1>1, <1>2 DEF ImagesThere, EnvThere, AfterImages, AfterEnv, AfterStarter, AfterNetworks
<1>3. CASE AddImages
  <2>1. step' = "connection" /\ untouched' = untouched /\ UNCHANGED configured
    BY <1>3, StepCommits DEF AddImages, StepAfter, Commits
  <2>2. AllImages'
    BY <1>3 DEF AddImages, AllImages
  <2> QED
    BY <2>1, <2>2 DEF ImagesThere, EnvThere, AfterEnv, AfterStarter, AfterNetworks
<1>4. CASE AddEnvConnection
  <2>1. step = "connection" /\ step' = "starter" /\ untouched' = untouched /\ UNCHANGED <<configured, image>>
    BY <1>4, StepCommits DEF AddEnvConnection, StepAfter, Commits
  <2> QED
    BY <1>0, <1>4, <2>1, EnvIsMade DEF ImagesThere, EnvThere, AllImages, AfterImages
<1>5. CASE AddStarter
  <2>1. step = "starter" /\ step' = "networks" /\ untouched' = untouched /\ UNCHANGED <<configured, image, connection>>
    BY <1>5, StepCommits DEF AddStarter, StepAfter, Commits
  <2> QED
    BY <1>0, <2>1, EnvStays DEF ImagesThere, EnvThere, AllImages, AfterImages, AfterEnv
<1>6. CASE AddNetworks
  <2>1. /\ step = "networks" /\ step' = "credentials" /\ untouched' = untouched /\ UNCHANGED <<configured, image>>
        /\ connection' = WithNetworks(connection)
    BY <1>6, StepCommits DEF AddNetworks, StepAfter, Commits
  <2> QED
    BY <1>0, <2>1, EnvStays DEF ImagesThere, EnvThere, AllImages, AfterImages, AfterEnv, AfterStarter
<1>7. CASE MoveCredentials
  <2>1. step = "credentials" /\ step' = "location" /\ untouched' = untouched /\ UNCHANGED <<configured, image, connection>>
    BY <1>7, StepCommits DEF MoveCredentials, StepAfter, Commits
  <2> QED
    BY <1>0, <2>1, EnvStays
       DEF ImagesThere, EnvThere, AllImages, AfterImages, AfterEnv, AfterStarter, AfterNetworks
<1>8. CASE PlaceStarter
  <2>1. /\ step = "location" /\ step' = "up" /\ untouched'
        /\ UNCHANGED <<configured, recipe, catalog, image, connection>> /\ starter' = Located(connection)
    BY <1>8, StepCommits DEF PlaceStarter, StepAfter, Commits
  <2>2. ImagesThere' /\ EnvThere'
    BY <2>1 DEF ImagesThere, EnvThere, AfterImages, AfterEnv, AfterStarter, AfterNetworks
  <2>3. AllImages' /\ EnvMade'
    BY <1>0, <2>1, EnvStays DEF ImagesThere, EnvThere, AllImages, AfterImages, AfterEnv
  <2>4. starter'.template
    BY <1>0, <2>1, LocatedThere DEF SeedsInv, StarterThere, AfterStarter, AfterNetworks, LocationTyped
  <2>5. (\A c \in Existing' : connection'[c].network) /\ (Existing' # {} => starter'.connection # 0 \/ Stranded')
    BY <2>1 DEF SeedsInv, AllPlaced
  <2>6. /\ \A p \in Placed : recipe'[p].sound => recipe'[p].ref # "b-ssh"
        /\ catalog'["b-ssh"] = "absent" /\ catalog'["b-user"] = "builtin"
        /\ \A p \in Placed : recipe'[p].input = Literal => catalog'[recipe'[p].ref] = "absent"
    BY <2>1 DEF SeedsInv, RecipesMoved, BlocksSynced, NothingWritten, AfterRecipes, AfterBlocks, AfterCredentials
  <2> QED
    BY <2>1, <2>2, <2>3, <2>4, <2>5, <2>6 DEF Fixed
<1> QED
  BY <1>2, <1>3, <1>4, <1>5, <1>6, <1>7, <1>8 DEF StartStep

LEMMA SettledStep ==
  ASSUME SettledInv, [SeedsNext]_seeds
  PROVE  SettledInv' /\ (untouched /\ untouched' => UNCHANGED catalogs)
<1> USE DEF SettledInv
<1>1. SeedsInv' /\ AsTables'
  BY SeedsStep, TablesStay
<1>2. ASSUME untouched, UNCHANGED <<catalogs, configured>> PROVE Fixed'
  BY <1>2 DEF Fixed, catalogs, AllImages, EnvMade, Existing, NextConnection, Stranded
<1>3. CASE StartStep
  <2>1. ImagesThere' /\ EnvThere' /\ UNCHANGED configured /\ (untouched' /\ ~untouched => Fixed')
    BY <1>1, <1>3, StartStepReaches
  <2>2. untouched => UNCHANGED catalogs
    BY <1>3, FixedStays
  <2> QED
    BY <1>1, <1>2, <2>1, <2>2
<1>4. CASE Boot \/ Halt \/ UNCHANGED seeds
  <2>1. UNCHANGED <<catalogs, configured, untouched>> /\ (step' \in {"recipes", "down"} \/ step' = step)
    BY <1>4 DEF Boot, Halt, seeds, Steps
  <2>2. ImagesThere' /\ EnvThere'
    BY <2>1 DEF ImagesThere, EnvThere, AllImages, EnvMade, Existing, NextConnection, catalogs,
                AfterImages, AfterEnv, AfterStarter, AfterNetworks
  <2> QED
    BY <1>1, <1>2, <2>1, <2>2
<1>5. ASSUME \E when \in {"up", "down"} : step' = when /\ ~untouched'
      PROVE  SettledInv' /\ (untouched /\ untouched' => UNCHANGED catalogs)
  BY <1>1, <1>5 DEF ImagesThere, EnvThere, AfterImages, AfterEnv, AfterStarter, AfterNetworks
<1>6. CASE \/ AddConnection \/ MoveStarter \/ DropStarter \/ (\E c \in Connections : DropNetwork(c) \/ DropConnection(c))
           \/ (\E i \in Curated : ChangeImage(i)) \/ \E p \in Placed : RunFormer(p)
  <2>1. \E when \in {"up", "down"} : step' = when /\ ~untouched'
    BY <1>6 DEF AddConnection, MoveStarter, DropStarter, DropNetwork, DropConnection, ChangeImage, RunFormer, EditCatalog
  <2> QED
    BY <1>5, <2>1
<1> QED
  BY <1>3, <1>4, <1>6 DEF SeedsNext, StartStep

\* Seeds are idempotent (seed.py 1698-1700, 1852): RestartChangesNothing, for every
\* number of placements, images and connections.
THEOREM SeedsAreIdempotent == SeedsSpec => RestartChangesNothing
<1> DEFINE Idempotent == untouched /\ untouched' => UNCHANGED catalogs
<1>1. SettledInv /\ [SeedsNext]_seeds => SettledInv' /\ [Idempotent]_seeds
  BY SettledStep
<1>2. SeedsSpec => [][Idempotent]_seeds
  BY <1>1, InitSettledInv, PTL DEF SeedsSpec
<1> QED
  BY <1>2 DEF RestartChangesNothing

\* What a placement, a block and a base image may be
Inputs == {Blank, Literal} \cup [is : {"reference"}, name : Nat]
Placement == [ref : Blocks, sound : BOOLEAN, input : Inputs]
States == {"absent", "former", "builtin", "custom"}
StepNames == {"down", "up", "recipes", "blocks", "images", "connection", "starter", "networks",
              "credentials", "location"}

LEMMA StepsNamed == {"down", "up"} \cup {Steps[n] : n \in DOMAIN Steps} = StepNames
<1>1. DOMAIN Steps = {1, 2, 3, 4, 5, 6, 7, 8}
  BY DEF Steps
<1>2. /\ Steps[1] = "recipes" /\ Steps[2] = "blocks" /\ Steps[3] = "images"
      /\ Steps[4] = "connection" /\ Steps[5] = "starter" /\ Steps[6] = "networks"
      /\ Steps[7] = "credentials" /\ Steps[8] = "location"
  BY DEF Steps
<1> QED
  BY <1>1, <1>2 DEF StepNames

CatalogRowsTyped ==
  /\ recipe \in [Placed -> Placement]
  /\ catalog \in [Blocks -> States]
  /\ image \in [Curated -> {"absent", "curated", "edited"}]
  /\ step \in StepNames /\ configured \in BOOLEAN /\ untouched \in BOOLEAN
  /\ catalogEdits \in 0..MaxCatalogEdits

LEMMA SeedsTypeParts == CredentialsInv /\ CatalogRowsTyped => SeedsTypeOK
<1> SUFFICES ASSUME CredentialsInv, CatalogRowsTyped PROVE SeedsTypeOK
  OBVIOUS
<1>1. Placement = [ref : Blocks, sound : BOOLEAN, input : {Blank, Literal} \cup [is : {"reference"}, name : Nat]]
  BY DEF Placement, Inputs
<1> QED
  BY <1>1, StepsNamed DEF CredentialsInv, CatalogRowsTyped, SeedsInv, LocationTyped, SeedsTypeOK, Entry, States

LEMMA InitCatalogRowsTyped == SeedsInit => CatalogRowsTyped
<1> SUFFICES ASSUME SeedsInit PROVE CatalogRowsTyped
  OBVIOUS
<1>1. recipe \in [Placed -> Placement]
  BY DEF SeedsInit, Placement, Inputs
<1>2. catalog \in [Blocks -> States]
  BY DEF SeedsInit, States
<1>3. image \in [Curated -> {"absent", "curated", "edited"}] /\ step \in StepNames
  BY DEF SeedsInit, StepNames
<1>4. configured \in BOOLEAN /\ untouched \in BOOLEAN
  BY DEF SeedsInit
<1>5. catalogEdits \in 0..MaxCatalogEdits
  BY SeedBounds DEF SeedsInit
<1> QED
  BY <1>1, <1>2, <1>3, <1>4, <1>5 DEF CatalogRowsTyped

LEMMA CatalogRowsTypedStep == CredentialsInv /\ CatalogRowsTyped /\ [SeedsNext]_seeds => CatalogRowsTyped'
<1> SUFFICES ASSUME CredentialsInv, CatalogRowsTyped, [SeedsNext]_seeds PROVE CatalogRowsTyped'
  OBVIOUS
<1> USE DEF CatalogRowsTyped
<1>1. recipe' \in [Placed -> Placement]
  <2>1. CASE MoveRecipes
    <3>1. \A p \in Placed : [recipe[p] EXCEPT !.ref = "b-user"] \in Placement
      BY BlockNames DEF Placement
    <3> QED
      BY <2>1, <3>1 DEF MoveRecipes
  <2>2. CASE MoveCredentials
    <3>1. ASSUME NEW p \in Placed
          PROVE  [recipe[p] EXCEPT !.input = Reference(FreeName(Stored[p - 1]))] \in Placement
      <4>1. p - 1 \in Nat
        BY SeedBounds DEF Placed
      <4>2. Stored[p - 1] \in Seq(Entry)
        BY <4>1, StoredServes DEF CredentialsInv
      <4>3. FreeName(Stored[p - 1]) \in Nat
        BY <4>2, NameIsFree
      <4>4. Reference(FreeName(Stored[p - 1])) \in Inputs
        BY <4>3 DEF Reference, Inputs
      <4> QED
        BY <4>4 DEF Placement
    <3> QED
      BY <2>2, <3>1 DEF MoveCredentials
  <2>3. ASSUME NEW p \in Placed, RunFormer(p) PROVE recipe' \in [Placed -> Placement]
    <3>1. [ref |-> "b-ssh", input |-> Literal, sound |-> TRUE] \in Placement
      BY BlockNames DEF Placement, Inputs
    <3> QED
      BY <2>3, <3>1 DEF RunFormer
  <2>4. CASE UNCHANGED recipe
    BY <2>4
  <2> QED
    BY <2>1, <2>2, <2>3, <2>4 DEF SeedsNext, seeds, catalogs, Boot, SyncBlocks, AddImages, AddEnvConnection,
       AddStarter, AddNetworks, PlaceStarter, Halt, AddConnection, MoveStarter, DropStarter, DropNetwork, DropConnection, ChangeImage
<1>2. catalog' \in [Blocks -> States]
  BY DEF SeedsNext, seeds, catalogs, Boot, MoveRecipes, SyncBlocks, AddImages, AddEnvConnection, States,
     AddStarter, AddNetworks, MoveCredentials, PlaceStarter, Halt, AddConnection, MoveStarter, DropStarter, DropNetwork,
     DropConnection, ChangeImage, RunFormer
<1>3. image' \in [Curated -> {"absent", "curated", "edited"}]
  BY DEF SeedsNext, seeds, catalogs, Boot, MoveRecipes, SyncBlocks, AddImages, AddEnvConnection,
     AddStarter, AddNetworks, MoveCredentials, PlaceStarter, Halt, AddConnection, MoveStarter, DropStarter, DropNetwork,
     DropConnection, ChangeImage, RunFormer
<1>4. step' \in StepNames /\ untouched' \in BOOLEAN
  <2>1. ASSUME NEW name \in DOMAIN StepAfter, Commits(name) PROVE step' \in StepNames /\ untouched' \in BOOLEAN
    <3>1. step' = StepAfter[name] /\ (untouched' = untouched \/ untouched')
      BY <2>1, StepCommits
    <3>2. untouched' \in BOOLEAN
      BY <2>1 DEF Commits
    <3> QED
      BY <3>1, <3>2 DEF StepAfter, StepNames
  <2>2. CASE UNCHANGED <<step, untouched>> \/ Boot \/ Halt
    BY <2>2 DEF Boot, Halt, StepNames, Steps
  <2>3. CASE step' = step /\ untouched' = FALSE
    BY <2>3
  <2>4. DOMAIN StepAfter = StepNames \ {"down", "up"}
    BY DEF StepAfter, StepNames
  <2> QED
    BY <2>1, <2>2, <2>3, <2>4 DEF StepNames, SeedsNext, seeds, MoveRecipes, SyncBlocks, AddImages, AddEnvConnection,
       AddStarter, AddNetworks, MoveCredentials, PlaceStarter, EditCatalog, AddConnection, MoveStarter, DropStarter,
       DropNetwork, DropConnection, ChangeImage, RunFormer
<1>5. configured' \in BOOLEAN /\ catalogEdits' \in 0..MaxCatalogEdits
  <2>1. /\ UNCHANGED configured
        /\ \/ catalogEdits' = catalogEdits
           \/ catalogEdits < MaxCatalogEdits /\ catalogEdits' = catalogEdits + 1
    BY DEF SeedsNext, seeds, Commits, Boot, MoveRecipes, SyncBlocks, AddImages, AddEnvConnection,
       AddStarter, AddNetworks, MoveCredentials, PlaceStarter, Halt, EditCatalog, AddConnection, MoveStarter, DropStarter, DropNetwork,
       DropConnection, ChangeImage, RunFormer
  <2> QED
    BY <2>1, SeedBounds
<1> QED
  BY <1>1, <1>2, <1>3, <1>4, <1>5

\* The tables of the catalogue are what their columns allow, wherever starts break off.
THEOREM SeedsTyped == SeedsSpec => []SeedsTypeOK
<1>1. SeedsSpec => [](CredentialsInv /\ CatalogRowsTyped)
  BY InitCredentialsInv, CredentialsStep, InitCatalogRowsTyped, CatalogRowsTypedStep, PTL DEF SeedsSpec
<1> QED
  BY <1>1, SeedsTypeParts, PTL

--------------------------------------------------------------------------------
(* Backups, for every set of callers and every number to keep, if the clock     *)
(* is not set back: what a loss of power leaves of the backups implements       *)
(* BackupStore, and a backup that was answered for is durable.                  *)
(*                                                                              *)
(* The directory and what the disk holds of it differ in two ways between two   *)
(* flushes: published backups that may yet vanish, and deleted ones that may    *)
(* yet come back.  The first are newer than all that the disk holds; each of    *)
(* the second is outnumbered by backups that neither can happen to.             *)

\* The publication lock names the call that is under way.
OneAtATime == \A c \in Callers : publisher = c <=> caller[c].pc # "idle"

\* The clock is ahead of every name, the database of every content.
Behind == \A b \in dir \cup disk : b.name < clock /\ b.version <= db

\* A call that has not published is ahead of all that is there ...
Ahead(c) ==
  /\ caller[c].pc \in {"copy", "publish"} =>
       caller[c].name < clock /\ \A b \in dir \cup disk : b.name < caller[c].name
  /\ caller[c].pc = "publish" =>
       caller[c].version <= db /\ \A b \in dir \cup disk : b.version <= caller[c].version
\* ... and one that has published is the newest.  Once it is flushed nothing waits to appear;
\* if it could not be flushed it waits itself.
PublishedNewest(c) ==
  /\ caller[c].pc \in {"flush", "rotate"} =>
       Dest(c) \in dir /\ \A b \in dir : b.name <= caller[c].name
  /\ caller[c].pc = "flush" => Dest(c) \notin disk
  /\ caller[c].pc = "rotate" => IF caller[c].flushed THEN dir \subseteq disk ELSE Dest(c) \notin disk

\* The names order the contents, and tell the backups apart.
Ordered ==
  \A a, b \in dir \cup disk :
    /\ a.name < b.name => a.version <= b.version
    /\ a.name = b.name => a = b

\* What may vanish with the power is newer than what the disk holds.
Appearing == \A b \in dir \ disk, c \in disk : c.name < b.name

\* What may come back is outnumbered by what can be seen, and unless a flush failed by what
\* stays.
Outnumbered ==
  \A c \in disk \ dir :
    /\ Cardinality(Newer(c, dir)) >= Kept
    /\ ~Doubt => Cardinality(Newer(c, dir \cap disk)) >= Kept

BackupsInv ==
  /\ BackupsTypeOK /\ IsFiniteSet(dir) /\ IsFiniteSet(disk)
  /\ OneAtATime /\ Behind /\ \A c \in Callers : Ahead(c) /\ PublishedNewest(c)
  /\ Ordered /\ Appearing /\ Outnumbered

LEMMA KeptPositive == Kept \in Nat /\ Kept >= 1
BY KeepNat DEF Kept

\* Counting the newer ones in a larger set.
LEMMA MoreAreNewer ==
  ASSUME NEW S, NEW T, IsFiniteSet(T), S \subseteq T
  PROVE  /\ Cardinality(S) \in Nat /\ Cardinality(T) \in Nat
         /\ Cardinality(S) <= Cardinality(T)
BY FS_Subset, FS_CardinalityType

LEMMA InitBackupsInv == BackupsInit => BackupsInv
<1> SUFFICES ASSUME BackupsInit PROVE BackupsInv
  OBVIOUS
<1>1. dir = {} /\ disk = {} /\ publisher = Unlocked
      /\ \A c \in Callers : caller[c].pc = "idle"
  BY DEF BackupsInit, Absent
<1>2. BackupsTypeOK
  BY BackupBounds DEF BackupsInit, BackupsTypeOK, Absent
<1>3. IsFiniteSet(dir) /\ IsFiniteSet(disk)
  BY <1>1, FS_EmptySet
<1>4. OneAtATime
  BY <1>1, UnlockedIsNoCaller DEF OneAtATime
<1>5. \A c \in Callers : Ahead(c) /\ PublishedNewest(c)
  BY <1>1 DEF Ahead, PublishedNewest
<1> QED
  BY <1>1, <1>2, <1>3, <1>4, <1>5 DEF BackupsInv, Behind, Ordered, Appearing, Outnumbered

Calls(places) == [pc : places, name : Nat, version : Nat, flushed : BOOLEAN]

\* While the directory stays a doubt goes only with a flush, or comes.
LEMMA DoubtStays ==
  ASSUME UNCHANGED <<dir, disk>>,
         \A c \in Callers : caller'[c].pc = "flush" => caller[c].pc = "flush" /\ Dest(c)' = Dest(c)
  PROVE  Doubt => Doubt'
BY DEF Doubt, Call

LEMMA OutnumberedStays ==
  ASSUME Outnumbered, UNCHANGED <<dir, disk>>,
         \A c \in Callers : caller'[c].pc = "flush" => caller[c].pc = "flush" /\ Dest(c)' = Dest(c)
  PROVE  Outnumbered'
BY DoubtStays DEF Outnumbered, Newer

\* Only one call is past its beginning.
LEMMA TheOthersRest ==
  ASSUME BackupsInv, NEW c \in Callers, NEW k \in Callers, k # c, caller[c].pc # "idle"
  PROVE  caller[k].pc = "idle"
BY DEF BackupsInv, OneAtATime

LEMMA CommitRowKeeps == BackupsInv /\ CommitRow => BackupsInv'
<1> SUFFICES ASSUME BackupsInv, CommitRow PROVE BackupsInv'
  OBVIOUS
<1>1. db \in Nat /\ db' = db + 1 /\ db < MaxVersions
      /\ UNCHANGED <<clock, publisher, caller, dir, disk, made>>
  BY BackupBounds DEF CommitRow, BackupsInv, BackupsTypeOK
<1>2. BackupsTypeOK'
  BY <1>1, BackupBounds DEF BackupsInv, BackupsTypeOK
<1>3. \A b \in dir \cup disk : b.version \in Nat
  BY DEF BackupsInv, BackupsTypeOK, Backup
<1>4. Behind'
  BY <1>1, <1>3 DEF BackupsInv, Behind
<1>5. \A c \in Callers : (Ahead(c) /\ PublishedNewest(c))'
  <2> SUFFICES ASSUME NEW c \in Callers PROVE Ahead(c)' /\ PublishedNewest(c)'
    OBVIOUS
  <2>1. caller[c].version \in Nat
    BY DEF BackupsInv, BackupsTypeOK
  <2> QED
    BY <1>1, <2>1 DEF BackupsInv, Ahead, PublishedNewest, Dest
<1> QED
  BY <1>1, <1>2, <1>4, <1>5, OutnumberedStays DEF BackupsInv, OneAtATime, Ordered, Appearing, Dest

LEMMA EnterKeeps == ASSUME BackupsInv, NEW c \in Callers, Enter(c) PROVE BackupsInv'
<1>1. /\ publisher = Unlocked /\ publisher' = c /\ clock' = clock + 1 /\ made' = made + 1
      /\ caller' = [caller EXCEPT ![c] = [pc |-> "copy", name |-> clock, version |-> 0, flushed |-> FALSE]]
      /\ caller[c].pc = "idle" /\ made < MaxBackups
      /\ UNCHANGED <<db, dir, disk>>
  BY DEF Enter, Unheld, Call
<1>2. /\ caller'[c] = [pc |-> "copy", name |-> clock, version |-> 0, flushed |-> FALSE]
      /\ \A k \in Callers \ {c} : caller'[k] = caller[k] /\ caller[k].pc = "idle"
  BY <1>1, UnlockedIsNoCaller DEF BackupsInv, BackupsTypeOK, OneAtATime
<1>3. clock \in Nat /\ \A b \in dir \cup disk : b.name \in Nat
  BY DEF BackupsInv, BackupsTypeOK, Backup
<1>4. BackupsTypeOK'
  BY <1>1, <1>3, BackupBounds DEF BackupsInv, BackupsTypeOK
<1>5. OneAtATime'
  BY <1>1, <1>2 DEF OneAtATime
<1>6. Behind'
  BY <1>1, <1>3 DEF BackupsInv, Behind
<1>7. \A k \in Callers : (Ahead(k) /\ PublishedNewest(k))'
  BY <1>1, <1>2, <1>3 DEF BackupsInv, Behind, Ahead, PublishedNewest
<1> QED
  BY <1>1, <1>2, <1>4, <1>5, <1>6, <1>7, OutnumberedStays DEF BackupsInv, Ordered, Appearing, Dest

LEMMA CopyKeeps == ASSUME BackupsInv, NEW c \in Callers, Copy(c) PROVE BackupsInv'
<1>1. /\ caller[c].pc = "copy"
      /\ caller' = [caller EXCEPT ![c].pc = "publish", ![c].version = db]
      /\ UNCHANGED <<db, clock, publisher, dir, disk, made>>
  BY DEF Copy, Call
<1>2. /\ caller'[c].pc = "publish" /\ caller'[c].name = caller[c].name /\ caller'[c].version = db
      /\ \A k \in Callers \ {c} : caller'[k] = caller[k] /\ caller[k].pc = "idle"
  BY <1>1, TheOthersRest DEF BackupsInv, BackupsTypeOK
<1>3. BackupsTypeOK'
  <2>1. db \in Nat /\ caller[c] \in Calls({"idle", "copy", "publish", "flush", "rotate"})
    BY BackupBounds DEF BackupsInv, BackupsTypeOK, Calls
  <2>2. [caller[c] EXCEPT !.pc = "publish", !.version = db]
          \in Calls({"idle", "copy", "publish", "flush", "rotate"})
    BY <2>1 DEF Calls
  <2>3. caller' = [caller EXCEPT ![c] = [caller[c] EXCEPT !.pc = "publish", !.version = db]]
    BY <1>1 DEF BackupsInv, BackupsTypeOK
  <2> QED
    BY <1>1, <2>2, <2>3 DEF BackupsInv, BackupsTypeOK, Calls
<1>4. OneAtATime'
  BY <1>1, <1>2 DEF BackupsInv, OneAtATime
<1>5. db \in Nat
  BY BackupBounds DEF BackupsInv, BackupsTypeOK
<1>6. \A k \in Callers : (Ahead(k) /\ PublishedNewest(k))'
  <2>1. caller[c].name < clock /\ \A b \in dir \cup disk : b.name < caller[c].name /\ b.version <= db
    BY <1>1 DEF BackupsInv, Behind, Ahead
  <2>2. PublishedNewest(c)'
    BY <1>2 DEF PublishedNewest
  <2>3. Ahead(c)'
    <3>1. caller'[c].version <= db' /\ caller'[c].name < clock'
      BY <1>1, <1>2, <1>5, <2>1
    <3>2. \A b \in (dir \cup disk)' : b.name < caller'[c].name /\ b.version <= caller'[c].version
      BY <1>1, <1>2, <2>1
    <3> QED
      BY <3>1, <3>2 DEF Ahead
  <2> QED
    BY <2>2, <2>3, <1>2 DEF Ahead, PublishedNewest
<1> QED
  BY <1>1, <1>2, <1>3, <1>4, <1>6, OutnumberedStays DEF BackupsInv, Behind, Ordered, Appearing, Dest

\* The lock is released, the directory stays.
LEMMA ReleaseKeeps ==
  ASSUME BackupsInv, publisher' = Unlocked,
         caller' \in [Callers -> Calls({"idle"})],
         UNCHANGED <<db, clock, dir, disk, made>>
  PROVE  BackupsInv'
<1>1. BackupsTypeOK'
  BY DEF BackupsInv, BackupsTypeOK, Calls
<1>2. \A k \in Callers : caller'[k].pc = "idle"
  BY DEF Calls
<1>3. OneAtATime' /\ \A k \in Callers : (Ahead(k) /\ PublishedNewest(k))'
  BY <1>2, UnlockedIsNoCaller DEF OneAtATime, Ahead, PublishedNewest
<1> QED
  BY <1>1, <1>2, <1>3, OutnumberedStays DEF BackupsInv, Behind, Ordered, Appearing

\* A call that ends leaves everybody idle.
LEMMA AllIdle ==
  ASSUME BackupsInv, NEW c \in Callers, caller[c].pc # "idle", caller' = [caller EXCEPT ![c] = Absent]
  PROVE  caller' \in [Callers -> Calls({"idle"})]
<1>1. \A k \in Callers \ {c} : caller[k].pc = "idle"
  BY TheOthersRest
<1> QED
  BY <1>1 DEF BackupsInv, BackupsTypeOK, Absent, Calls

LEMMA EndingsKeep ==
  ASSUME BackupsInv, NEW c \in Callers, Fail(c) \/ Return(c) PROVE BackupsInv'
BY AllIdle, ReleaseKeeps DEF Fail, Return, Call

LEMMA DieKeeps == BackupsInv /\ Die => BackupsInv'
BY ReleaseKeeps DEF Die, Forgotten, Absent, Calls

LEMMA PublishKeeps == ASSUME BackupsInv, NEW c \in Callers, Publish(c) PROVE BackupsInv'
<1> DEFINE new == Dest(c)
<1>1. /\ caller[c].pc = "publish" /\ dir' = {b \in dir : b.name # caller[c].name} \cup {new}
      /\ caller' = [caller EXCEPT ![c].pc = "flush"]
      /\ UNCHANGED <<db, clock, publisher, disk, made>>
  BY DEF Publish, Call, Step
<1>2. /\ caller[c].name < clock /\ caller[c].version <= db
      /\ \A b \in dir \cup disk : b.name < caller[c].name /\ b.version <= caller[c].version
  BY <1>1 DEF BackupsInv, Ahead
<1>3. /\ caller[c].name \in Nat /\ caller[c].version \in Nat
      /\ \A b \in dir \cup disk : b.name \in Nat /\ b.version \in Nat
  BY DEF BackupsInv, BackupsTypeOK, Backup
<1>4. new.name = caller[c].name /\ new.version = caller[c].version /\ new \in Backup
  BY <1>3 DEF Dest, Backup
<1>5. /\ caller'[c].pc = "flush" /\ caller'[c].name = caller[c].name /\ caller'[c].version = caller[c].version
      /\ \A k \in Callers \ {c} : caller'[k] = caller[k] /\ caller[k].pc = "idle"
  BY <1>1, TheOthersRest DEF BackupsInv, BackupsTypeOK
<1>6. Dest(c)' = new
  BY <1>5 DEF Dest
<1> HIDE DEF new
<1>7. dir' = dir \cup {new} /\ new \notin dir /\ new \notin disk
  BY <1>1, <1>2, <1>3, <1>4
<1>8. BackupsTypeOK' /\ IsFiniteSet(dir')
  BY <1>1, <1>4, <1>7, FS_AddElement DEF BackupsInv, BackupsTypeOK
<1>9. OneAtATime'
  BY <1>1, <1>5 DEF BackupsInv, OneAtATime
<1>10. Behind'
  BY <1>1, <1>2, <1>4, <1>7 DEF BackupsInv, Behind
<1>11. \A k \in Callers : (Ahead(k) /\ PublishedNewest(k))'
  <2>1. (Ahead(c) /\ PublishedNewest(c))'
    BY <1>1, <1>2, <1>3, <1>4, <1>5, <1>6, <1>7 DEF Ahead, PublishedNewest
  <2> QED
    BY <2>1, <1>5 DEF Ahead, PublishedNewest
<1>12. Ordered'
  BY <1>1, <1>2, <1>3, <1>4, <1>7 DEF BackupsInv, Ordered
<1>13. Appearing'
  BY <1>1, <1>2, <1>4, <1>7 DEF BackupsInv, Appearing
<1>14. Outnumbered'
  <2>1. dir' \cap disk' = dir \cap disk /\ disk' \ dir' = disk \ dir
    BY <1>1, <1>7
  <2>2. Doubt => Doubt'
    BY <1>1, <1>5, <1>6, <1>7 DEF Doubt, Call
  <2>3. ASSUME NEW d \in disk \ dir PROVE Cardinality(Newer(d, dir')) >= Kept
    <3>1. Newer(d, dir) \subseteq Newer(d, dir') /\ IsFiniteSet(Newer(d, dir'))
      BY <1>7, <1>8, FS_Subset DEF Newer
    <3>2. /\ Cardinality(Newer(d, dir)) <= Cardinality(Newer(d, dir'))
          /\ Cardinality(Newer(d, dir)) \in Nat /\ Cardinality(Newer(d, dir')) \in Nat
      BY <3>1, MoreAreNewer
    <3> QED
      BY <2>3, <3>2, KeptPositive DEF BackupsInv, Outnumbered
  <2> QED
    BY <2>1, <2>2, <2>3 DEF BackupsInv, Outnumbered, Newer
<1> QED
  BY <1>1, <1>8, <1>9, <1>10, <1>11, <1>12, <1>13, <1>14 DEF BackupsInv

LEMMA FlushKeeps == ASSUME BackupsInv, NEW c \in Callers, Flush(c) PROVE BackupsInv'
<1>1. /\ caller[c].pc = "flush"
      /\ UNCHANGED <<db, clock, publisher, dir, made>>
      /\ \E ok \in BOOLEAN :
           /\ IF ok THEN disk' = dir ELSE disk' = disk
           /\ caller' = [caller EXCEPT ![c].pc = "rotate", ![c].flushed = ok]
  BY DEF Flush, Flushed, Call
<1>2. /\ caller'[c].pc = "rotate" /\ caller'[c].name = caller[c].name /\ caller'[c].version = caller[c].version
      /\ \A k \in Callers \ {c} : caller'[k] = caller[k] /\ caller[k].pc = "idle"
      /\ \/ disk' = dir /\ caller'[c].flushed
         \/ disk' = disk /\ ~caller'[c].flushed
  BY <1>1, TheOthersRest DEF BackupsInv, BackupsTypeOK
<1>3. BackupsTypeOK'
  <2>1. caller[c] \in Calls({"idle", "copy", "publish", "flush", "rotate"})
    BY DEF BackupsInv, BackupsTypeOK, Calls
  <2>2. PICK ok \in BOOLEAN : caller' = [caller EXCEPT ![c].pc = "rotate", ![c].flushed = ok]
    BY <1>1
  <2>3. [caller[c] EXCEPT !.pc = "rotate", !.flushed = ok]
          \in Calls({"idle", "copy", "publish", "flush", "rotate"})
    BY <2>1 DEF Calls
  <2>4. caller' = [caller EXCEPT ![c] = [caller[c] EXCEPT !.pc = "rotate", !.flushed = ok]]
    BY <2>2 DEF BackupsInv, BackupsTypeOK
  <2> QED
    BY <1>1, <2>3, <2>4 DEF BackupsInv, BackupsTypeOK, Calls
<1>4. OneAtATime'
  BY <1>1, <1>2 DEF BackupsInv, OneAtATime
<1>5. Dest(c)' = Dest(c) /\ Dest(c) \in dir /\ Dest(c) \notin disk
  BY <1>1, <1>2 DEF Dest, BackupsInv, PublishedNewest
<1>6. CASE disk' = dir /\ caller'[c].flushed
  <2>1. \A k \in Callers : (Ahead(k) /\ PublishedNewest(k))'
    BY <1>1, <1>2, <1>5, <1>6 DEF BackupsInv, Ahead, PublishedNewest
  <2> QED
    BY <1>1, <1>3, <1>4, <1>6, <2>1 DEF BackupsInv, Behind, Ordered, Appearing, Outnumbered
<1>7. CASE disk' = disk /\ ~caller'[c].flushed
  <2>1. \A k \in Callers : (Ahead(k) /\ PublishedNewest(k))'
    BY <1>1, <1>2, <1>5, <1>7 DEF BackupsInv, Ahead, PublishedNewest
  <2>2. Outnumbered'
    BY <1>1, <1>2, <1>7, OutnumberedStays DEF BackupsInv
  <2> QED
    BY <1>1, <1>3, <1>4, <1>7, <2>1, <2>2 DEF BackupsInv, Behind, Ordered, Appearing
<1> QED
  BY <1>2, <1>6, <1>7

\* A deletion: those it outnumbers are outnumbered still.
LEMMA RotateKeeps == ASSUME BackupsInv, NEW c \in Callers, Rotate(c) PROVE BackupsInv'
<1>1. PICK b \in dir : Surplus(b) /\ dir' = dir \ {b}
  BY DEF Rotate
<1>2. caller[c].pc = "rotate" /\ UNCHANGED <<db, clock, publisher, caller, disk, made>>
  BY DEF Rotate, Call
<1>3. \A k \in Callers \ {c} : caller[k].pc = "idle"
  BY <1>2, TheOthersRest
<1>4. /\ Dest(c) \in dir /\ \A d \in dir : d.name <= caller[c].name
      /\ IF caller[c].flushed THEN dir \subseteq disk ELSE Dest(c) \notin disk
  BY <1>2 DEF BackupsInv, PublishedNewest
<1>5. \A d \in dir : d.name \in Nat
  BY DEF BackupsInv, BackupsTypeOK, Backup
<1>6. b # Dest(c)
  <2> SUFFICES ASSUME b = Dest(c) PROVE FALSE
    OBVIOUS
  <2>1. b.name = caller[c].name
    BY DEF Dest
  <2>2. Newer(b, dir) = {}
    BY <1>4, <1>5, <2>1 DEF Newer
  <2>3. Cardinality(Newer(b, dir)) = 0
    BY <2>2, FS_EmptySet
  <2> QED
    BY <2>3, <1>1, KeptPositive DEF Surplus
<1>7. BackupsTypeOK' /\ IsFiniteSet(dir')
  BY <1>1, <1>2, FS_Subset DEF BackupsInv, BackupsTypeOK
<1>8. \A k \in Callers : (Ahead(k) /\ PublishedNewest(k))'
  <2>1. (Ahead(c) /\ PublishedNewest(c))'
    BY <1>1, <1>2, <1>4, <1>6 DEF Ahead, PublishedNewest, Dest
  <2> QED
    BY <2>1, <1>2, <1>3 DEF Ahead, PublishedNewest
<1>9. Outnumbered'
  <2> SUFFICES ASSUME NEW d \in disk \ dir'
               PROVE  /\ Cardinality(Newer(d, dir')) >= Kept
                      /\ ~Doubt' => Cardinality(Newer(d, dir' \cap disk)) >= Kept
    BY <1>2 DEF Outnumbered, Newer
  <2>1. ~Doubt' => dir' \cap disk = dir'
    <3>1. ~caller[c].flushed => Doubt'
      BY <1>1, <1>2, <1>3, <1>4, <1>6 DEF Doubt, Call, Dest
    <3> QED
      BY <3>1, <1>1, <1>4
  <2>2. IsFiniteSet(Newer(d, dir'))
    BY <1>7, FS_Subset DEF Newer
  <2>3. Newer(b, dir) \subseteq dir'
    BY <1>1, <1>5 DEF Newer
  <2>4. CASE d = b \/ b.name > d.name
    <3>1. d.name \in Nat
      BY DEF BackupsInv, BackupsTypeOK, Backup
    <3>2. Newer(b, dir) \subseteq Newer(d, dir')
      BY <2>3, <2>4, <1>5, <3>1 DEF Newer
    <3>3. /\ Cardinality(Newer(b, dir)) <= Cardinality(Newer(d, dir'))
          /\ Cardinality(Newer(b, dir)) \in Nat /\ Cardinality(Newer(d, dir')) \in Nat
      BY <3>2, <2>2, MoreAreNewer
    <3> QED
      BY <3>3, <1>1, <2>1, KeptPositive DEF Surplus
  <2>5. CASE d # b /\ ~(b.name > d.name)
    <3>1. Newer(d, dir') = Newer(d, dir)
      BY <2>5, <1>1 DEF Newer
    <3>2. d \in disk \ dir
      BY <2>5, <1>1
    <3> QED
      BY <3>1, <3>2, <2>1 DEF BackupsInv, Outnumbered
  <2> QED
    BY <2>4, <2>5
<1> QED
  BY <1>1, <1>2, <1>7, <1>8, <1>9 DEF BackupsInv, OneAtATime, Behind, Ordered, Appearing

LEMMA PowerLossKeeps == BackupsInv /\ PowerLoss => BackupsInv'
<1> SUFFICES ASSUME BackupsInv, PowerLoss PROVE BackupsInv'
  OBVIOUS
<1>1. /\ \A k \in Callers : caller'[k] = Absent
      /\ caller' \in [Callers -> {Absent}] /\ publisher' = Unlocked
      /\ disk' = dir' /\ dir' \subseteq dir \cup disk
      /\ UNCHANGED <<db, clock, made>>
  BY DEF PowerLoss, Forgotten
<1>2. BackupsTypeOK'
  <2>1. Absent \in Calls({"idle", "copy", "publish", "flush", "rotate"})
    BY DEF Absent, Calls
  <2>2. caller' \in [Callers -> Calls({"idle", "copy", "publish", "flush", "rotate"})]
    BY <1>1, <2>1
  <2> QED
    BY <1>1, <2>2 DEF BackupsInv, BackupsTypeOK, Calls
<1>3. IsFiniteSet(dir') /\ IsFiniteSet(disk')
  BY <1>1, FS_Union, FS_Subset DEF BackupsInv
<1>4. OneAtATime' /\ \A k \in Callers : (Ahead(k) /\ PublishedNewest(k))'
  BY <1>1, UnlockedIsNoCaller DEF OneAtATime, Ahead, PublishedNewest, Absent
<1> QED
  BY <1>1, <1>2, <1>3, <1>4 DEF BackupsInv, Behind, Ordered, Appearing, Outnumbered

LEMMA BackupsStep == ~ClockBack /\ BackupsInv /\ [BackupsNext]_backups => BackupsInv'
<1> SUFFICES ASSUME ~ClockBack, BackupsInv, [BackupsNext]_backups PROVE BackupsInv'
  OBVIOUS
<1>1. CASE UNCHANGED backups
  BY <1>1, OutnumberedStays DEF backups, BackupsInv, BackupsTypeOK, OneAtATime, Behind, Ahead, PublishedNewest,
    Dest, Ordered, Appearing
<1>2. CASE CommitRow \/ SetBack \/ Die \/ PowerLoss
  BY <1>2, CommitRowKeeps, DieKeeps, PowerLossKeeps DEF SetBack
<1>3. ASSUME NEW c \in Callers,
             Enter(c) \/ Copy(c) \/ Fail(c) \/ Publish(c) \/ Flush(c) \/ Rotate(c) \/ Return(c)
      PROVE  BackupsInv'
  BY <1>3, EnterKeeps, CopyKeeps, EndingsKeep, PublishKeeps, FlushKeeps, RotateKeeps
<1> QED
  BY <1>1, <1>2, <1>3 DEF BackupsNext

\* The inductive invariant of the backups (backup.py 21-136).
THEOREM BackupsInvariant == ASSUME ~ClockBack PROVE BackupsSpec => []BackupsInv
<1>1. BackupsInit => BackupsInv
  BY InitBackupsInv
<1>2. BackupsInv /\ [BackupsNext]_backups => BackupsInv'
  BY BackupsStep
<1> QED
  BY <1>1, <1>2, PTL DEF BackupsSpec

\* Of the backups that are there the one with the newest name has the newest data.
THEOREM NewestIsNewest == ASSUME ~ClockBack PROVE BackupsSpec => []NewestNameNewestData
<1>1. BackupsInv => NewestNameNewestData
  BY DEF BackupsInv, Ordered, NewestNameNewestData
<1> QED
  BY <1>1, BackupsInvariant, PTL

\* A call that returns leaves its backup in the directory, and on the disk if the flush
\* took effect.
THEOREM AnswersAreDurable == ASSUME ~ClockBack PROVE BackupsSpec => AnsweredIsDurable
<1> DEFINE Durable ==
      \A c \in Callers :
        Call(c, "rotate") /\ caller'[c] = Absent /\ dir' = dir /\ disk' = disk
        => Dest(c) \in dir /\ (caller[c].flushed => Dest(c) \in disk)
<1>1. BackupsInv /\ [BackupsNext]_backups => [Durable]_backups
  BY DEF BackupsInv, PublishedNewest, Call
<1> QED
  BY <1>1, BackupsInvariant, PTL DEF BackupsSpec, AnsweredIsDurable

\* Both modules count alike.
LEMMA SameCount == ASSUME NEW S PROVE Store!Cardinality(S) = Cardinality(S)
BY DEF Store!Cardinality, Cardinality

LEMMA StoreWords == Store!Kept = Kept /\ \A b, s : Store!Newer(b, s) = Newer(b, s)
BY DEF Newer, Store!Newer, Kept, Store!Kept

\* A publication is newer than all that was there, a deletion leaves enough newer ones.
LEMMA DirectoryTurnsOver ==
  ASSUME BackupsInv, NEW c \in Callers, Publish(c) \/ Rotate(c), Doubt' = Doubt
  PROVE  Store!Turn
<1>1. CASE Publish(c)
  <2>1. caller[c].pc = "publish" /\ dir' = {b \in dir : b.name # caller[c].name} \cup {Dest(c)} /\ disk' = disk
    BY <1>1 DEF Publish, Call
  <2>2. \A b \in dir : b.name < caller[c].name /\ b.version <= caller[c].version
    BY <2>1 DEF BackupsInv, Ahead
  <2>3. \A b \in dir : b.name \in Nat /\ caller[c].name \in Nat
    BY DEF BackupsInv, BackupsTypeOK, Backup
  <2>4. dir \subseteq dir'
    BY <2>1, <2>2, <2>3
  <2>5. \A b \in dir' \ dir : b = Dest(c)
    BY <2>1
  <2> QED
    BY <2>1, <2>2, <2>4, <2>5 DEF Store!Turn, Store!Turnover, Store!Renewed, Dest
<1>2. CASE Rotate(c)
  <2>1. PICK b \in dir : Surplus(b) /\ dir' = dir \ {b} /\ disk' = disk
    BY <1>2 DEF Rotate
  <2>2. \A d \in dir : d.name \in Nat
    BY DEF BackupsInv, BackupsTypeOK, Backup
  <2>3. Newer(b, dir') = Newer(b, dir)
    BY <2>1, <2>2 DEF Newer
  <2>4. Cardinality(Store!Newer(b, dir')) >= Store!Kept
    BY <2>1, <2>3, StoreWords DEF Surplus
  <2> QED
    BY <2>1, <2>4, SameCount DEF Store!Turn, Store!Turnover, Store!Renewed
<1> QED
  BY <1>1, <1>2

\* What a loss of power leaves: additions are newer than what was firm, and what goes is
\* outnumbered.
LEMMA DiskTurnsOver ==
  ASSUME BackupsInv, PowerLoss
  PROVE  Store!Lose
<1>1. /\ dir \cap disk \subseteq dir' /\ dir' \subseteq dir \cup disk /\ disk' = dir'
  BY DEF PowerLoss
<1>2. ~Doubt'
  BY <1>1 DEF Doubt
<1>3. Store!Renewed(disk, dir')
  BY <1>1 DEF BackupsInv, Appearing, Ordered, Store!Renewed
<1>4. ASSUME NEW c \in disk \ dir' PROVE Cardinality(Store!Newer(c, dir)) >= Store!Kept
  BY <1>1, <1>4, StoreWords DEF BackupsInv, Outnumbered
<1>5. ASSUME ~Doubt, NEW c \in disk \ dir' PROVE Cardinality(Store!Newer(c, dir')) >= Store!Kept
  <2>1. Cardinality(Newer(c, dir \cap disk)) >= Kept
    BY <1>1, <1>5 DEF BackupsInv, Outnumbered
  <2>2. IsFiniteSet(dir')
    BY <1>1, FS_Union, FS_Subset DEF BackupsInv
  <2>3. Newer(c, dir \cap disk) \subseteq Newer(c, dir') /\ IsFiniteSet(Newer(c, dir'))
    BY <1>1, <2>2, FS_Subset DEF Newer
  <2>4. /\ Cardinality(Newer(c, dir \cap disk)) <= Cardinality(Newer(c, dir'))
        /\ Cardinality(Newer(c, dir \cap disk)) \in Nat /\ Cardinality(Newer(c, dir')) \in Nat
    BY <2>3, MoreAreNewer
  <2> QED
    BY <2>1, <2>4, StoreWords, KeptPositive
<1> QED
  BY <1>1, <1>2, <1>3, <1>4, <1>5, SameCount DEF Store!Lose, Store!Turnover

\* What a step does to the doubt.
LEMMA DoubtChanges ==
  ASSUME BackupsInv, [BackupsNext]_backups, UNCHANGED <<dir, disk>>, Doubt
  PROVE  Doubt'
<1>1. ASSUME NEW c \in Callers, caller'[c].pc = "flush"
      PROVE  (caller[c].pc = "flush" /\ Dest(c)' = Dest(c)) \/ Publish(c)
  <2> USE DEF BackupsInv, BackupsTypeOK, Dest
  <2>1. CASE UNCHANGED caller \/ Forgotten
    BY <1>1, <2>1 DEF Forgotten, Absent
  <2>2. ASSUME NEW k \in Callers,
               Enter(k) \/ Copy(k) \/ Fail(k) \/ Publish(k) \/ Flush(k) \/ Return(k)
        PROVE  (caller[c].pc = "flush" /\ Dest(c)' = Dest(c)) \/ Publish(c)
    BY <1>1, <2>2 DEF Enter, Copy, Fail, Publish, Flush, Return, Step, Absent
  <2> QED
    BY <2>1, <2>2 DEF BackupsNext, backups, CommitRow, SetBack, Die, PowerLoss, Rotate
<1>2. \A c \in Callers : ~Publish(c)
  <2> SUFFICES ASSUME NEW c \in Callers, Publish(c) PROVE FALSE
    OBVIOUS
  <2>1. caller[c].pc = "publish" /\ Dest(c) \in dir
    BY DEF Publish, Call
  <2>2. Dest(c).name < caller[c].name /\ caller[c].name \in Nat
    BY <2>1 DEF BackupsInv, Ahead, BackupsTypeOK
  <2> QED
    BY <2>2 DEF Dest
<1> QED
  BY <1>1, <1>2, DoubtStays

\* The directory, and what a loss of power leaves of it, implement BackupStore.
THEOREM BackupsImplementStore == ASSUME ~ClockBack PROVE BackupsSpec => StoreImplemented
<1>1. BackupsInit => Store!StoreInit
  BY DEF BackupsInit, Store!StoreInit, Doubt
<1>2. BackupsInv /\ [BackupsNext]_backups => [Store!StoreNext]_<<dir, disk, Doubt>>
  <2> SUFFICES ASSUME BackupsInv, [BackupsNext]_backups PROVE [Store!StoreNext]_<<dir, disk, Doubt>>
    OBVIOUS
  <2>1. CASE PowerLoss
    BY <2>1, DiskTurnsOver DEF Store!StoreNext
  <2>2. CASE UNCHANGED <<dir, disk>>
    <3>1. CASE Doubt
      BY <2>2, <3>1, DoubtChanges
    <3>2. CASE ~Doubt /\ Doubt'
      <4>1. ~(dir \subseteq disk)
        BY <2>2, <3>2 DEF Doubt
      <4> QED
        BY <2>2, <3>2, <4>1 DEF Store!StoreNext, Store!Unsettle
    <3> QED
      BY <2>2, <3>1, <3>2 DEF Doubt
  <2>3. ASSUME NEW c \in Callers, Flush(c), disk' # disk PROVE Store!Settle
    BY <2>3 DEF Flush, Flushed, Store!Settle, Doubt
  <2>4. ASSUME NEW c \in Callers, Publish(c) PROVE Doubt' = Doubt
    <3>1. /\ caller[c].pc = "publish" /\ dir' = {b \in dir : b.name # caller[c].name} \cup {Dest(c)}
          /\ disk' = disk /\ caller' = [caller EXCEPT ![c].pc = "flush"]
      BY <2>4 DEF Publish, Call, Step
    <3>2. \A k \in Callers : caller[k].pc # "flush" /\ (k # c => caller'[k].pc # "flush")
      BY <3>1, TheOthersRest DEF BackupsInv, BackupsTypeOK
    <3>3. Dest(c)' = Dest(c) /\ caller'[c].pc = "flush"
      BY <3>1 DEF Dest, BackupsInv, BackupsTypeOK
    <3>4. \A b \in dir : b.name # caller[c].name /\ b # Dest(c)
      BY <3>1 DEF BackupsInv, BackupsTypeOK, Backup, Ahead, Dest
    <3>5. Doubt = (dir \ disk # {})
      BY <3>2 DEF Doubt, Call
    <3>6. Doubt' = (\E b \in dir' \ disk' : b # Dest(c))
      BY <3>2, <3>3 DEF Doubt, Call
    <3> QED
      BY <3>1, <3>4, <3>5, <3>6
  <2>5. ASSUME NEW c \in Callers, Rotate(c) PROVE Doubt' = Doubt
    <3>1. PICK b \in dir : Surplus(b) /\ dir' = dir \ {b}
      BY <2>5 DEF Rotate
    <3>2. caller[c].pc = "rotate" /\ UNCHANGED <<caller, disk>>
      BY <2>5 DEF Rotate, Call
    <3>3. \A k \in Callers : caller[k].pc # "flush" /\ caller'[k].pc # "flush"
      BY <3>2, TheOthersRest
    <3>4. Doubt = (dir \ disk # {}) /\ Doubt' = (dir' \ disk # {})
      BY <3>2, <3>3 DEF Doubt, Call
    <3>5. CASE dir \subseteq disk
      BY <3>1, <3>4, <3>5
    <3>6. CASE Dest(c) \in dir \ disk
      <4>1. BackupsInv'
        BY <2>5, RotateKeeps
      <4>2. Dest(c) \in dir'
        BY <3>2, <4>1 DEF BackupsInv, PublishedNewest, Dest
      <4> QED
        BY <3>4, <3>6, <4>2
    <3> QED
      BY <3>2, <3>5, <3>6 DEF BackupsInv, PublishedNewest
  <2>6. ASSUME NEW c \in Callers, Publish(c) \/ Rotate(c) PROVE Store!Turn
    BY <2>4, <2>5, <2>6, DirectoryTurnsOver
  <2> QED
    BY <2>1, <2>2, <2>3, <2>6 DEF BackupsNext, backups, CommitRow, SetBack, Die, Enter, Copy, Fail, Flush, Return,
      Store!StoreNext
<1> QED
  BY <1>1, <1>2, BackupsInvariant, PTL DEF BackupsSpec, StoreImplemented, Store!StoreSpec

\* Types hold wherever the clock is set to.
LEMMA BackupsTypesStep == BackupsTypeOK /\ [BackupsNext]_backups => BackupsTypeOK'
<1> SUFFICES ASSUME BackupsTypeOK, [BackupsNext]_backups PROVE BackupsTypeOK'
  OBVIOUS
<1> DEFINE All == Calls({"idle", "copy", "publish", "flush", "rotate"})
<1>1. clock' \in Nat \ {0} /\ db' \in 0..MaxVersions /\ made' \in 0..MaxBackups
  <2>1. clock \in Nat \ {0} /\ db \in 0..MaxVersions /\ made \in 0..MaxBackups
    BY DEF BackupsTypeOK
  <2>2. \/ clock' = clock
        \/ clock' = clock + 1
        \/ clock' \in 1..clock
    BY DEF BackupsNext, backups, CommitRow, SetBack, Die, PowerLoss, Enter, Copy, Fail, Publish, Flush, Rotate, Return
  <2>3. clock' \in Nat \ {0}
    BY <2>1, <2>2
  <2>4. db' = db \/ (db < MaxVersions /\ db' = db + 1)
    BY DEF BackupsNext, backups, CommitRow, SetBack, Die, PowerLoss, Enter, Copy, Fail, Publish, Flush, Rotate, Return
  <2>5. made' = made \/ (made < MaxBackups /\ made' = made + 1)
    BY DEF BackupsNext, backups, CommitRow, SetBack, Die, PowerLoss, Enter, Copy, Fail, Publish, Flush, Rotate, Return
  <2> QED
    BY <2>1, <2>3, <2>4, <2>5, BackupBounds
<1>2. publisher' \in Callers \cup {Unlocked}
  BY DEF BackupsTypeOK, BackupsNext, backups, CommitRow, SetBack, Die, PowerLoss, Forgotten, Enter, Copy,
    Fail, Publish, Flush, Rotate, Return
<1>3. caller' \in [Callers -> All]
  <2>1. clock \in Nat /\ db \in Nat /\ Absent \in All /\ caller \in [Callers -> All]
    BY DEF BackupsTypeOK, Absent, Calls
  <2>2. CASE UNCHANGED caller \/ Forgotten
    BY <2>1, <2>2 DEF Forgotten
  <2>3. ASSUME NEW c \in Callers,
               \/ Enter(c) \/ Copy(c) \/ Fail(c) \/ Return(c)
               \/ \E pc \in {"flush", "rotate"} : Step(c, pc)
               \/ Flush(c)
        PROVE  caller' \in [Callers -> All]
    <3> USE <2>1 DEF Calls
    <3>1. CASE Enter(c)
      BY <3>1 DEF Enter
    <3>2. CASE Copy(c)
      BY <3>2 DEF Copy
    <3>3. CASE Fail(c) \/ Return(c)
      BY <3>3 DEF Fail, Return
    <3>4. CASE \E pc \in {"flush", "rotate"} : Step(c, pc)
      BY <3>4 DEF Step
    <3>5. CASE Flush(c)
      <4>1. PICK ok \in BOOLEAN : caller' = [caller EXCEPT ![c].pc = "rotate", ![c].flushed = ok]
        BY <3>5 DEF Flush
      <4>2. [caller[c] EXCEPT !.pc = "rotate", !.flushed = ok] \in All
        OBVIOUS
      <4>3. caller' = [caller EXCEPT ![c] = [caller[c] EXCEPT !.pc = "rotate", !.flushed = ok]]
        BY <4>1
      <4> QED
        BY <4>2, <4>3
    <3> QED
      BY <2>3, <3>1, <3>2, <3>3, <3>4, <3>5
  <2> QED
    BY <2>2, <2>3 DEF BackupsNext, backups, CommitRow, SetBack, Die, PowerLoss, Publish, Rotate
<1>4. dir' \subseteq Backup /\ disk' \subseteq Backup
  <2>1. \A c \in Callers : Dest(c) \in Backup
    BY DEF BackupsTypeOK, Dest, Backup
  <2> QED
    BY <2>1 DEF BackupsTypeOK, BackupsNext, backups, CommitRow, SetBack, Die, PowerLoss, Enter, Copy,
      Fail, Publish, Flush, Flushed, Rotate, Return
<1> QED
  BY <1>1, <1>2, <1>3, <1>4 DEF BackupsTypeOK, Calls

\* The published files, the callers and the clock keep their types, wherever the clock is set.
THEOREM BackupsTyped == BackupsSpec => []BackupsTypeOK
<1>1. BackupsInit => BackupsTypeOK
  BY BackupBounds DEF BackupsInit, BackupsTypeOK, Absent, Forgotten
<1> QED
  BY <1>1, BackupsTypesStep, PTL DEF BackupsSpec

--------------------------------------------------------------------------------
(* ImageCache, for every set of names, whatever downloads outlive their        *)
(* job and wherever the worker dies: an import reads a complete file if         *)
(* the settings can be written, and a file that was imported stays if storage   *)
(* can be listed.                                                               *)
(*                                                                              *)
(* That an import reads a complete file is not inductive.  It rests on the mark *)
(* of distrust: it stands on every part of a file, and on every name whose file *)
(* an abandoned download may still write, unless the file is complete already.  *)

PartsMarked == \A n \in Names : file[n] = "partial" => marker[n] = "untrusted"
OrphansMarked == \A n \in orphans : marker[n] = "untrusted" \/ file[n] = "complete"

\* What has been done when the worker is at a stage.
StageReached ==
  /\ worker.pc \in {"submit", "wait", "verify", "discard"} => marker[worker.name] = "untrusted"
  /\ worker.pc \in {"verify", "record", "use"} => file[worker.name] = "complete"
  /\ worker.pc = "record" => marker[worker.name] = "verified"
  /\ worker.pc = "use" /\ checksummed => marker[worker.name] = "verified"

ImagesInv == ImagesTypeOK /\ PartsMarked /\ OrphansMarked /\ StageReached

Stages == {"idle", "look", "distrust", "submit", "wait", "verify", "record", "discard", "use"}

LEMMA BaseNamed == Base \in Names
BY DEF Names

\* The worker at a new place
LEMMA Proceeded ==
  ASSUME ImagesTypeOK, NEW pc \in Stages, Proceed(pc)
  PROVE  worker' \in [pc : Stages, name : Names] /\ worker'.pc = pc /\ worker'.name = worker.name
BY DEF ImagesTypeOK, Stages, Proceed

LEMMA Rested ==
  ASSUME Rest
  PROVE  worker' \in [pc : Stages, name : Names] /\ worker'.pc = "idle" /\ worker'.name = Base
BY BaseNamed DEF Rest, Resting, Stages

\* What a download does to the volumes
LEMMA Written ==
  ASSUME ImagesTypeOK, NEW n \in Names, NEW good \in BOOLEAN, Downloaded(n, good)
  PROVE  /\ file' \in [Names -> {"absent", "partial", "complete"}]
         /\ \A k \in Names \ {n} : file'[k] = file[k]
         /\ file[n] = "complete" => file'[n] = "complete"
         /\ good => file'[n] = "complete"
         /\ file'[n] = "partial" => file[n] # "complete"
<1>1. CASE good
  BY <1>1 DEF Downloaded, ImagesTypeOK
<1>2. CASE ~good
  <2>1. PICK left \in {"absent", "partial"} : file' = [file EXCEPT ![n] = IF @ = "absent" THEN left ELSE @]
    BY <1>2 DEF Downloaded
  <2> QED
    BY <1>2, <2>1 DEF ImagesTypeOK
<1> QED
  BY <1>1, <1>2

LEMMA InitImagesInv == ImagesInit => ImagesInv
<1> SUFFICES ASSUME ImagesInit PROVE ImagesInv
  OBVIOUS
<1>1. \A n \in Names : file[n] \in {"absent", "complete"} /\ marker[n] = "none"
  BY DEF ImagesInit
<1>2. worker = [pc |-> "idle", name |-> Base] /\ orphans = {}
  BY DEF ImagesInit, Resting
<1>3. ImagesTypeOK
  BY <1>2, BaseNamed, MaxJobsNatural DEF ImagesInit, ImagesTypeOK
<1> QED
  BY <1>1, <1>2, <1>3 DEF ImagesInv, PartsMarked, OrphansMarked, StageReached

LEMMA BeginJobKeeps == ImagesInv /\ BeginJob => ImagesInv'
<1> SUFFICES ASSUME ImagesInv, BeginJob PROVE ImagesInv'
  OBVIOUS
<1>1. PICK n \in Names : worker' = [pc |-> "look", name |-> n] /\ taken' = taken \cup {n}
  BY DEF BeginJob, With, IsNew, ImagesInv, ImagesTypeOK
<1>2. jobs < MaxImageJobs /\ jobs' = jobs + 1 /\ UNCHANGED <<checksummed, file, marker, active, orphans, used>>
  BY DEF BeginJob
<1>3. ImagesTypeOK'
  BY <1>1, <1>2, MaxJobsNatural DEF ImagesInv, ImagesTypeOK
<1> QED
  BY <1>1, <1>2, <1>3 DEF ImagesInv, PartsMarked, OrphansMarked, StageReached

LEMMA LookKeeps == ImagesInv /\ Look => ImagesInv'
<1> SUFFICES ASSUME ImagesInv, Look PROVE ImagesInv'
  OBVIOUS
<1>1. UNCHANGED <<checksummed, file, marker, active, orphans, jobs, used>>
  BY DEF Look
<1>2. worker.name \in Names
  BY DEF ImagesInv, ImagesTypeOK
<1>3. CASE file[worker.name] # "absent" /\ ~Distrusted(worker.name) /\ Proceed("use") /\ UNCHANGED taken
  <2>1. worker' \in [pc : Stages, name : Names] /\ worker'.pc = "use" /\ worker'.name = worker.name
    BY <1>3, Proceeded DEF Stages, ImagesInv
  <2>2. file[worker.name] = "complete" /\ (checksummed => marker[worker.name] = "verified")
    BY <1>2, <1>3 DEF ImagesInv, ImagesTypeOK, PartsMarked, Distrusted
  <2> QED
    BY <1>1, <1>3, <2>1, <2>2 DEF ImagesInv, ImagesTypeOK, PartsMarked, OrphansMarked, StageReached, Stages
<1>4. CASE \E k \in Names : With("distrust", k)
  BY <1>1, <1>4 DEF With, ImagesInv, ImagesTypeOK, PartsMarked, OrphansMarked, StageReached
<1>5. CASE Proceed("distrust") /\ UNCHANGED taken
  <2>1. worker' \in [pc : Stages, name : Names] /\ worker'.pc = "distrust"
    BY <1>5, Proceeded DEF Stages, ImagesInv
  <2> QED
    BY <1>1, <1>5, <2>1 DEF ImagesInv, ImagesTypeOK, PartsMarked, OrphansMarked, StageReached, Stages
<1> QED
  BY <1>3, <1>4, <1>5 DEF Look

LEMMA DistrustKeeps == ImagesInv /\ Distrust => ImagesInv'
<1> SUFFICES ASSUME ImagesInv, Distrust PROVE ImagesInv'
  OBVIOUS
<1>1. marker' = [marker EXCEPT ![worker.name] = "untrusted"]
      /\ UNCHANGED <<checksummed, file, active, orphans, taken, jobs, used>>
  BY DEF Distrust, Mark
<1>2. worker' \in [pc : Stages, name : Names] /\ worker'.pc = "submit" /\ worker'.name = worker.name
  BY Proceeded DEF Stages, ImagesInv, Distrust
<1>3. ImagesTypeOK'
  BY <1>1, <1>2 DEF ImagesInv, ImagesTypeOK, Stages
<1>4. worker.name \in Names
  BY DEF ImagesInv, ImagesTypeOK
<1> QED
  BY <1>1, <1>2, <1>3, <1>4 DEF ImagesInv, ImagesTypeOK, PartsMarked, OrphansMarked, StageReached

LEMMA SubmitDownloadKeeps == ImagesInv /\ SubmitDownload => ImagesInv'
<1> SUFFICES ASSUME ImagesInv, SubmitDownload PROVE ImagesInv'
  OBVIOUS
<1>1. /\ orphans' \in {orphans, orphans \cup {worker.name}} /\ worker.pc = "submit"
      /\ UNCHANGED <<checksummed, file, marker, active, taken, jobs, used>>
  BY DEF SubmitDownload, AtWork
<1>2. worker' \in [pc : Stages, name : Names] /\ worker'.pc \in {"wait", "discard"} /\ worker'.name = worker.name
  BY Proceeded DEF Stages, ImagesInv, SubmitDownload
<1>3. ImagesTypeOK'
  BY <1>1, <1>2 DEF ImagesInv, ImagesTypeOK, Stages
<1> QED
  BY <1>1, <1>2, <1>3 DEF ImagesInv, PartsMarked, OrphansMarked, StageReached

LEMMA WaitEndsKeeps == ImagesInv /\ WaitEnds => ImagesInv'
<1> SUFFICES ASSUME ImagesInv, WaitEnds PROVE ImagesInv'
  OBVIOUS
<1>1. PICK good \in BOOLEAN :
        Downloaded(worker.name, good) /\ Proceed(IF good THEN "verify" ELSE "discard")
  BY DEF WaitEnds
<1>2. worker.pc = "wait" /\ UNCHANGED <<checksummed, marker, active, orphans, taken, jobs, used>>
  BY DEF WaitEnds, AtWork
<1>3. worker.name \in Names
  BY DEF ImagesInv, ImagesTypeOK
<1>4. /\ file' \in [Names -> {"absent", "partial", "complete"}]
      /\ \A k \in Names \ {worker.name} : file'[k] = file[k]
      /\ file[worker.name] = "complete" => file'[worker.name] = "complete"
      /\ good => file'[worker.name] = "complete"
  BY <1>1, <1>3, Written DEF ImagesInv
<1>5. /\ worker' \in [pc : Stages, name : Names] /\ worker'.name = worker.name
      /\ worker'.pc = IF good THEN "verify" ELSE "discard"
  BY <1>1, Proceeded DEF Stages, ImagesInv
<1>6. ImagesTypeOK'
  BY <1>2, <1>4, <1>5 DEF ImagesInv, ImagesTypeOK, Stages
<1>7. PartsMarked' /\ OrphansMarked' /\ StageReached'
  BY <1>2, <1>3, <1>4, <1>5 DEF ImagesInv, ImagesTypeOK, PartsMarked, OrphansMarked, StageReached
<1> QED
  BY <1>6, <1>7 DEF ImagesInv

LEMMA OrphanEndsKeeps == ASSUME ImagesInv, NEW n \in Names, OrphanEnds(n) PROVE ImagesInv'
<1>1. PICK good \in BOOLEAN : Downloaded(n, good)
  BY DEF OrphanEnds
<1>2. /\ n \in orphans /\ orphans' = orphans \ {n}
      /\ UNCHANGED <<checksummed, marker, active, worker, taken, jobs, used>>
  BY DEF OrphanEnds
<1>3. /\ file' \in [Names -> {"absent", "partial", "complete"}]
      /\ \A k \in Names \ {n} : file'[k] = file[k]
      /\ file[n] = "complete" => file'[n] = "complete"
      /\ file'[n] = "partial" => file[n] # "complete"
  BY <1>1, Written DEF ImagesInv
<1>4. ImagesTypeOK'
  BY <1>2, <1>3 DEF ImagesInv, ImagesTypeOK
<1>5. worker.name \in Names
  BY DEF ImagesInv, ImagesTypeOK
<1>6. PartsMarked' /\ OrphansMarked' /\ StageReached'
  BY <1>2, <1>3, <1>5 DEF ImagesInv, ImagesTypeOK, PartsMarked, OrphansMarked, StageReached
<1> QED
  BY <1>4, <1>6 DEF ImagesInv

\* A wait that fails, and a crash, may leave a download to itself.
LEMMA AbandonKeeps ==
  ASSUME ImagesInv, worker' \in [pc : {"discard", "idle"}, name : Names],
         worker'.pc = "discard" => worker.pc = "wait" /\ worker'.name = worker.name,
         orphans' \in {orphans, orphans \cup {worker.name}},
         orphans' # orphans => worker.pc = "wait",
         UNCHANGED <<checksummed, file, marker, active, taken, jobs, used>>
  PROVE  ImagesInv'
<1>1. ImagesTypeOK'
  BY DEF ImagesInv, ImagesTypeOK
<1> QED
  BY <1>1 DEF ImagesInv, PartsMarked, OrphansMarked, StageReached

LEMMA WaitFailsKeeps == ImagesInv /\ WaitFails => ImagesInv'
<1> SUFFICES ASSUME ImagesInv, WaitFails PROVE ImagesInv'
  OBVIOUS
<1>1. worker' \in [pc : {"discard"}, name : Names] /\ worker'.name = worker.name
  BY Proceeded DEF Stages, ImagesInv, WaitFails
<1> QED
  BY <1>1, AbandonKeeps DEF WaitFails, AtWork

LEMMA CrashKeeps == ImagesInv /\ Crash => ImagesInv'
<1> SUFFICES ASSUME ImagesInv, Crash PROVE ImagesInv'
  OBVIOUS
<1>1. worker' \in [pc : {"idle"}, name : Names]
  BY Rested DEF Crash
<1> QED
  BY <1>1, AbandonKeeps DEF Crash, AtWork

LEMMA VerifyKeeps == "record" \notin Faults /\ ImagesInv /\ Verify => ImagesInv'
<1> SUFFICES ASSUME "record" \notin Faults, ImagesInv, Verify PROVE ImagesInv'
  OBVIOUS
<1>1. /\ worker.pc = "verify" /\ marker' = [marker EXCEPT ![worker.name] = "verified"]
      /\ UNCHANGED <<checksummed, file, active, orphans, taken, jobs, used>>
  BY DEF Verify, AtWork
<1>2. worker' \in [pc : Stages, name : Names] /\ worker'.pc = "record" /\ worker'.name = worker.name
  BY Proceeded DEF Stages, ImagesInv, Verify
<1>3. ImagesTypeOK'
  BY <1>1, <1>2 DEF ImagesInv, ImagesTypeOK, Stages
<1>4. worker.name \in Names
  BY DEF ImagesInv, ImagesTypeOK
<1> QED
  BY <1>1, <1>2, <1>3, <1>4 DEF ImagesInv, ImagesTypeOK, PartsMarked, OrphansMarked, StageReached

LEMMA RecordKeeps == "record" \notin Faults /\ ImagesInv /\ Record => ImagesInv'
<1> SUFFICES ASSUME "record" \notin Faults, ImagesInv, Record PROVE ImagesInv'
  OBVIOUS
<1>1. /\ worker.pc = "record" /\ active' = worker.name
      /\ UNCHANGED <<checksummed, file, marker, orphans, taken, jobs, used>>
  BY DEF Record, AtWork
<1>2. worker' \in [pc : Stages, name : Names] /\ worker'.pc = "use" /\ worker'.name = worker.name
  BY Proceeded DEF Stages, ImagesInv, Record
<1>3. ImagesTypeOK'
  BY <1>1, <1>2 DEF ImagesInv, ImagesTypeOK, Stages
<1> QED
  BY <1>1, <1>2, <1>3 DEF ImagesInv, PartsMarked, OrphansMarked, StageReached

LEMMA DiscardKeeps == ImagesInv /\ Discard => ImagesInv'
<1> SUFFICES ASSUME ImagesInv, Discard PROVE ImagesInv'
  OBVIOUS
<1>1. /\ worker.pc = "discard" /\ file' \in {file, [file EXCEPT ![worker.name] = "absent"]}
      /\ UNCHANGED <<checksummed, marker, active, orphans, taken, jobs, used>>
  BY DEF Discard, Leftover, AtWork
<1>2. worker' \in [pc : Stages, name : Names] /\ worker'.pc = "idle"
  BY Rested DEF Discard
<1>3. ImagesTypeOK'
  BY <1>1, <1>2 DEF ImagesInv, ImagesTypeOK, Stages
<1>4. worker.name \in Names
  BY DEF ImagesInv, ImagesTypeOK
<1> QED
  BY <1>1, <1>2, <1>3, <1>4 DEF ImagesInv, ImagesTypeOK, PartsMarked, OrphansMarked, StageReached

LEMMA UseKeeps == ImagesInv /\ Use => ImagesInv'
<1> SUFFICES ASSUME ImagesInv, Use PROVE ImagesInv'
  OBVIOUS
<1>1. /\ used' = used \cup {worker.name}
      /\ UNCHANGED <<checksummed, file, marker, active, orphans, taken, jobs>>
  BY DEF Use
<1>2. worker' \in [pc : Stages, name : Names] /\ worker'.pc = "idle"
  BY Rested DEF Use
<1>3. ImagesTypeOK'
  BY <1>1, <1>2 DEF ImagesInv, ImagesTypeOK, Stages
<1> QED
  BY <1>1, <1>2, <1>3 DEF ImagesInv, PartsMarked, OrphansMarked, StageReached

LEMMA ImagesStep == "record" \notin Faults /\ ImagesInv /\ [ImagesNext]_images => ImagesInv'
<1> SUFFICES ASSUME "record" \notin Faults, ImagesInv, [ImagesNext]_images PROVE ImagesInv'
  OBVIOUS
<1>1. CASE UNCHANGED images
  BY <1>1 DEF images, ImagesInv, ImagesTypeOK, PartsMarked, OrphansMarked, StageReached
<1>2. CASE ImagesNext
  BY <1>2, BeginJobKeeps, LookKeeps, DistrustKeeps, SubmitDownloadKeeps, WaitEndsKeeps, WaitFailsKeeps,
    VerifyKeeps, RecordKeeps, DiscardKeeps, UseKeeps, CrashKeeps, OrphanEndsKeeps DEF ImagesNext
<1> QED
  BY <1>1, <1>2

\* The inductive invariant of the image cache (worker.py 443-551).
THEOREM ImagesInvariant == ASSUME "record" \notin Faults PROVE ImagesSpec => []ImagesInv
<1>1. ImagesInit => ImagesInv
  BY InitImagesInv
<1>2. ImagesInv /\ [ImagesNext]_images => ImagesInv'
  BY ImagesStep
<1> QED
  BY <1>1, <1>2, PTL DEF ImagesSpec

\* No leftover of a canceled, failed or lost download is ever imported, and of a source
\* with a checksum only what a task of this installation has verified.
THEOREM ImportsAreComplete == ASSUME "record" \notin Faults PROVE ImagesSpec => []UsedIsComplete
<1>1. ImagesInv => UsedIsComplete
  BY DEF ImagesInv, StageReached, UsedIsComplete, AtWork
<1> QED
  BY <1>1, ImagesInvariant, PTL

(* That imported files stay rests on names: what a job downloads it discards,  *)
(* and no job downloads under a name that was imported.                        *)
NamesApart ==
  /\ Base \in taken /\ worker.name \in taken /\ active \in taken /\ used \subseteq taken
  /\ worker.pc \in {"distrust", "submit", "wait", "verify", "record", "discard"} => worker.name \notin used
  /\ \A n \in used : file[n] = "complete"

LEMMA NamesStep ==
  Faults = {} /\ ImagesInv /\ ImagesInv' /\ NamesApart /\ [ImagesNext]_images
  => NamesApart' /\ \A n \in used : file[n] = "complete" => file'[n] = "complete"
<1> SUFFICES ASSUME Faults = {}, ImagesInv, ImagesInv', NamesApart, [ImagesNext]_images
             PROVE  NamesApart' /\ \A n \in used : file'[n] = "complete"
  BY DEF NamesApart
<1>1. worker.name \in Names /\ used \subseteq Names /\ file \in [Names -> {"absent", "partial", "complete"}]
  BY DEF ImagesInv, ImagesTypeOK
<1>2. CASE UNCHANGED images
  BY <1>2 DEF images, NamesApart
<1>3. CASE BeginJob
  <2>1. PICK n : worker' = [pc |-> "look", name |-> n] /\ taken' = taken \cup {n}
    BY <1>3 DEF BeginJob, With
  <2> QED
    BY <2>1, <1>3 DEF BeginJob, NamesApart
<1>4. CASE Look
  <2>1. UNCHANGED <<file, active, used>>
    BY <1>4 DEF Look
  <2>2. CASE Proceed("use") /\ UNCHANGED taken
    BY <2>1, <2>2, Proceeded DEF ImagesInv, Stages, NamesApart
  <2>3. CASE \E k \in Names : IsNew(k) /\ With("distrust", k)
    BY <2>1, <2>3 DEF IsNew, With, NamesApart
  <2>4. CASE file[worker.name] = "absent" /\ Proceed("distrust") /\ UNCHANGED taken
    BY <2>1, <2>4, Proceeded DEF ImagesInv, Stages, NamesApart
  <2> QED
    BY <1>4, <2>2, <2>3, <2>4 DEF Look
<1>5. CASE Distrust \/ SubmitDownload \/ WaitFails \/ Verify \/ Record
  <2>1. UNCHANGED <<file, taken, used>> /\ active' \in {active, worker.name}
    BY <1>5 DEF Distrust, SubmitDownload, WaitFails, Verify, Record
  <2>2. /\ worker.pc \in {"distrust", "submit", "wait", "verify", "record"}
        /\ \E pc \in Stages : Proceed(pc)
    BY <1>5 DEF Distrust, SubmitDownload, WaitFails, Verify, Record, AtWork, Stages
  <2>3. worker'.name = worker.name
    BY <2>2, Proceeded DEF ImagesInv
  <2> QED
    BY <2>1, <2>2, <2>3 DEF NamesApart
<1>6. CASE WaitEnds
  <2>1. PICK good \in BOOLEAN :
          Downloaded(worker.name, good) /\ Proceed(IF good THEN "verify" ELSE "discard")
    BY <1>6 DEF WaitEnds
  <2>2. worker.pc = "wait" /\ UNCHANGED <<taken, active, used>>
    BY <1>6 DEF WaitEnds, AtWork
  <2>3. worker'.name = worker.name
    BY <2>1, Proceeded DEF ImagesInv, Stages
  <2>4. \A k \in Names \ {worker.name} : file'[k] = file[k]
    BY <2>1, <1>1, Written DEF ImagesInv
  <2> QED
    BY <2>2, <2>3, <2>4, <1>1 DEF NamesApart
<1>7. ASSUME NEW n \in Names, OrphanEnds(n) PROVE NamesApart' /\ \A k \in used : file'[k] = "complete"
  <2>1. PICK good \in BOOLEAN : Downloaded(n, good)
    BY <1>7 DEF OrphanEnds
  <2>2. \A k \in Names : file[k] = "complete" => file'[k] = "complete"
    BY <2>1, Written DEF ImagesInv
  <2> QED
    BY <1>7, <2>2, <1>1 DEF OrphanEnds, NamesApart
<1>8. CASE Discard
  <2>1. /\ worker.pc = "discard" /\ file' \in {file, [file EXCEPT ![worker.name] = "absent"]}
        /\ worker'.pc = "idle" /\ worker'.name = Base /\ UNCHANGED <<taken, active, used>>
    BY <1>8, Rested DEF Discard, Leftover, AtWork
  <2>2. Base \in taken
    BY DEF NamesApart
  <2> QED
    BY <2>1, <2>2, <1>1 DEF NamesApart
<1>9. CASE Use \/ Crash
  <2>1. /\ worker'.pc = "idle" /\ worker'.name = Base /\ UNCHANGED <<file, taken, active>>
        /\ used' = used \/ (worker.pc = "use" /\ used' = used \cup {worker.name})
    BY <1>9, Rested DEF Use, Crash, AtWork
  <2>2. Base \in taken
    BY DEF NamesApart
  <2> QED
    BY <2>1, <2>2 DEF NamesApart, ImagesInv, StageReached
<1> QED
  BY <1>2, <1>3, <1>4, <1>5, <1>6, <1>7, <1>8, <1>9 DEF ImagesNext

\* A file that was handed to an import stays complete.
THEOREM ImportedFilesStay == ASSUME Faults = {} PROVE ImagesSpec => UsedStays
<1>1. ImagesInit => NamesApart
  BY DEF ImagesInit, NamesApart, Resting
<1> DEFINE Staying == \A n \in used : file[n] = "complete" => file'[n] = "complete"
<1>2. ImagesInv /\ ImagesInv' /\ NamesApart /\ [ImagesNext]_images => NamesApart' /\ [Staying]_images
  BY NamesStep
<1>3. ImagesSpec => []ImagesInv
  BY ImagesInvariant
<1> QED
  BY <1>1, <1>2, <1>3, PTL DEF ImagesSpec, UsedStays

LEMMA ImagesTypesStep == ImagesTypeOK /\ [ImagesNext]_images => ImagesTypeOK'
<1> SUFFICES ASSUME ImagesTypeOK, [ImagesNext]_images PROVE ImagesTypeOK'
  OBVIOUS
<1>1. worker' \in [pc : Stages, name : Names]
  <2>1. worker \in [pc : Stages, name : Names] /\ active \in Names /\ Resting \in [pc : Stages, name : Names]
    BY BaseNamed DEF ImagesTypeOK, Stages, Resting
  <2>2. CASE UNCHANGED images \/ \E n \in Names : OrphanEnds(n)
    BY <2>1, <2>2 DEF images, OrphanEnds
  <2>3. CASE BeginJob \/ Discard \/ Use \/ Crash
    BY <2>1, <2>3 DEF BeginJob, Discard, Use, Crash, With, Rest, IsNew, Stages
  <2>4. CASE Look
    BY <2>1, <2>4 DEF Look, With, Proceed, IsNew, Stages
  <2>5. CASE Distrust \/ SubmitDownload \/ WaitEnds \/ WaitFails \/ Verify \/ Record
    BY <2>1, <2>5 DEF Distrust, SubmitDownload, WaitEnds, WaitFails, Verify, Record, Proceed, Stages
  <2> QED
    BY <2>2, <2>3, <2>4, <2>5 DEF ImagesNext
<1>2. worker.name \in Names
  BY DEF ImagesTypeOK
<1>3. file' \in [Names -> {"absent", "partial", "complete"}]
  <2>1. CASE \E n \in Names, good \in BOOLEAN : Downloaded(n, good)
    BY <2>1, Written
  <2>2. CASE UNCHANGED file \/ Discard
    BY <2>2 DEF Discard, Leftover, ImagesTypeOK
  <2> QED
    BY <1>2, <2>1, <2>2 DEF ImagesNext, images, BeginJob, Look, Distrust, SubmitDownload, WaitEnds, WaitFails,
      Verify, Record, Use, Crash, OrphanEnds
<1>4. marker' \in [Names -> {"none", "untrusted", "verified"}] /\ active' \in Names /\ checksummed' \in BOOLEAN
  BY <1>2 DEF ImagesTypeOK, ImagesNext, images, BeginJob, Look, Distrust, Mark, SubmitDownload, WaitEnds, WaitFails,
      Verify, Record, Discard, Use, Crash, OrphanEnds
<1>5. orphans' \subseteq Names /\ used' \subseteq Names
  BY <1>2 DEF ImagesTypeOK, ImagesNext, images, BeginJob, Look, Distrust, SubmitDownload, WaitEnds, WaitFails,
      Verify, Record, Discard, Use, Crash, OrphanEnds
<1>6. taken' \subseteq Names
  BY <1>2 DEF ImagesTypeOK, ImagesNext, images, BeginJob, Look, With, IsNew, Distrust, SubmitDownload, WaitEnds,
      WaitFails, Verify, Record, Discard, Use, Crash, OrphanEnds
<1>7. jobs' \in 0..MaxImageJobs
  BY MaxJobsNatural DEF ImagesTypeOK, ImagesNext, images, BeginJob, Look, Distrust, SubmitDownload, WaitEnds,
      WaitFails, Verify, Record, Discard, Use, Crash, OrphanEnds
<1> QED
  BY <1>1, <1>3, <1>4, <1>5, <1>6, <1>7 DEF ImagesTypeOK, Stages

\* The file, its record and what imports of it keep their types, whatever fails.
THEOREM ImagesTyped == ImagesSpec => []ImagesTypeOK
<1>1. ImagesInit => ImagesTypeOK
  <2> SUFFICES ASSUME ImagesInit PROVE ImagesTypeOK
    OBVIOUS
  <2>1. Base \in Names
    BY DEF Names
  <2>2. worker = [pc |-> "idle", name |-> Base] /\ jobs = 0
    BY DEF ImagesInit, Resting
  <2> QED
    BY <2>1, <2>2, MaxJobsNatural DEF ImagesInit, ImagesTypeOK
<1> QED
  BY <1>1, ImagesTypesStep, PTL DEF ImagesSpec

--------------------------------------------------------------------------------
(* SchemaUpgrade, for every old layout and wherever init_db dies: an upgrade     *)
(* strands no library, invents no original plan and leaves no answer in plain   *)
(* text.  The invariant says what the stages that are passed have reached; a    *)
(* start that finds the work of an earlier one goes through them again.         *)

\* There is one table of templates, the old or the new one, and the library is in it;
\* a deployment's answers are in columns that exist.
OneTable == tables \in {{}, {"recipes"}, {"templates"}} /\ (library \in tables \/ tables = {})
AnswersThere == \A d \in Deps : answers[d] \subseteq columns
Origins == \A d \in Deps : original[d] # "second" /\ (original[d] = "first" => past[d][1] = "good")

\* What the stages that are passed have reached
Sealed == {"backfill", "stamp", "serving"}
Made == {"add", "move"} \cup Sealed
Reached ==
  /\ stage \in {"relink", "create"} \cup Made => "recipes" \notin tables /\ library = "templates"
  /\ stage \in {"create"} \cup Made => (link = "recipe_id" => sqlite = "old")
  /\ stage \in Made => link # "none"
  /\ stage \in {"move"} \cup Sealed => "enc" \in columns
  /\ stage \in Sealed => \A d \in Deps : "json" \notin answers[d]
  /\ stage = "serving" => version = Current
EmptyIsNew == tables = {} => library = "templates"

UpgradeInv ==
  UpgradeTypeOK /\ OneTable /\ EmptyIsNew /\ AnswersThere /\ Origins /\ Reached

LEMMA NextStage ==
  /\ \A s \in {"rename", "relink", "create", "move", "backfill", "stamp"} :
       AtStage(s) => stage = s /\ stage' = Following[s]
  /\ Following["off"] = "rename" /\ Following["rename"] = "relink"
  /\ Following["relink"] = "create" /\ Following["create"] = "add" /\ Following["add"] = "move"
  /\ Following["move"] = "backfill" /\ Following["backfill"] = "stamp"
  /\ Following["stamp"] = "serving"
  /\ DOMAIN Following = {"off", "create", "rename", "relink", "add", "move", "backfill", "stamp"}
BY DEF AtStage, Following

LEMMA InitUpgradeInv == UpgradeInit => UpgradeInv
<1> SUFFICES ASSUME UpgradeInit PROVE UpgradeInv
  OBVIOUS
<1>1. stage = "off" /\ deaths \in 0..MaxDeaths /\ version \in {0, Current, Current + 1}
  BY MaxDeathsNat DEF UpgradeInit
<1>2. CASE /\ tables = {} /\ columns = {} /\ link = "none" /\ library = "templates"
           /\ answers = [d \in Deps |-> {}] /\ original = [d \in Deps |-> "none"]
  BY <1>1, <1>2, NextStage
     DEF UpgradeInv, UpgradeTypeOK, OneTable, EmptyIsNew, AnswersThere, Origins, Reached, Made, Sealed
<1>3. CASE /\ tables \in {{"recipes"}, {"templates"}} /\ library \in tables
           /\ columns \in {{"json"}, {"json", "enc"}, {"enc"}}
           /\ link \in {"recipe_id", "template_id"}
           /\ answers \in [Deps -> {{}} \cup {{c} : c \in columns}]
           /\ original \in [Deps -> {"none", "saved"}]
  <2>1. AnswersThere /\ answers \in [Deps -> SUBSET {"json", "enc"}]
    <3>1. \A d \in Deps : answers[d] \subseteq columns
      BY <1>3
    <3>2. columns \subseteq {"json", "enc"} /\ answers = [d \in Deps |-> answers[d]]
      BY <1>3
    <3> QED
      BY <3>1, <3>2 DEF AnswersThere
  <2>2. original \in [Deps -> {"none", "saved", "first", "second"}] /\ Origins
    BY <1>3 DEF Origins
  <2>3. UpgradeTypeOK
    BY <1>1, <1>3, <2>1, <2>2, NextStage DEF UpgradeTypeOK
  <2>4. OneTable /\ EmptyIsNew
    BY <1>3 DEF OneTable, EmptyIsNew
  <2>5. Reached
    BY <1>1 DEF Reached, Made, Sealed
  <2> QED
    BY <2>1, <2>2, <2>3, <2>4, <2>5 DEF UpgradeInv
<1> QED
  BY <1>2, <1>3 DEF UpgradeInit

LEMMA StartUpKeeps == UpgradeInv /\ StartUp => UpgradeInv'
<1> SUFFICES ASSUME UpgradeInv, StartUp PROVE UpgradeInv'
  OBVIOUS
<1> USE DEF UpgradeInv
<1>1. UpgradeTypeOK'
  BY NextStage DEF StartUp, UpgradeTypeOK
<1>2. OneTable' /\ EmptyIsNew'
  BY DEF StartUp, OneTable, EmptyIsNew
<1>3. AnswersThere' /\ Origins'
  BY DEF StartUp, AnswersThere, Origins
<1>4. Reached'
  BY NextStage DEF StartUp, Reached, Made, Sealed
<1> QED
  BY <1>1, <1>2, <1>3, <1>4

LEMMA RenameTableKeeps == UpgradeInv /\ RenameTable => UpgradeInv'
<1> SUFFICES ASSUME UpgradeInv, RenameTable PROVE UpgradeInv'
  OBVIOUS
<1> USE DEF UpgradeInv
<1>1. UpgradeTypeOK'
  BY NextStage DEF RenameTable, UpgradeTypeOK
<1>2. OneTable' /\ EmptyIsNew'
  BY DEF RenameTable, OneTable, EmptyIsNew, UpgradeTypeOK
<1>3. AnswersThere' /\ Origins'
  BY DEF RenameTable, AnswersThere, Origins
<1>4. Reached'
  BY NextStage DEF RenameTable, Reached, Made, Sealed, OneTable, EmptyIsNew, UpgradeTypeOK
<1> QED
  BY <1>1, <1>2, <1>3, <1>4

LEMMA RenameLinkKeeps == UpgradeInv /\ RenameLink => UpgradeInv'
<1> SUFFICES ASSUME UpgradeInv, RenameLink PROVE UpgradeInv'
  OBVIOUS
<1> USE DEF UpgradeInv
<1>1. UpgradeTypeOK'
  BY NextStage DEF RenameLink, UpgradeTypeOK
<1>2. OneTable' /\ EmptyIsNew'
  BY DEF RenameLink, OneTable, EmptyIsNew
<1>3. AnswersThere' /\ Origins'
  BY DEF RenameLink, AnswersThere, Origins
<1>4. Reached'
  BY NextStage DEF RenameLink, Reached, Made, Sealed, UpgradeTypeOK
<1> QED
  BY <1>1, <1>2, <1>3, <1>4

LEMMA CreateAllKeeps == UpgradeInv /\ CreateAll => UpgradeInv'
<1> SUFFICES ASSUME UpgradeInv, CreateAll PROVE UpgradeInv'
  OBVIOUS
<1> USE DEF UpgradeInv
<1>1. UpgradeTypeOK'
  BY NextStage DEF CreateAll, UpgradeTypeOK
<1>2. OneTable' /\ EmptyIsNew'
  BY NextStage DEF CreateAll, OneTable, EmptyIsNew, Reached
<1>3. AnswersThere' /\ Origins'
  BY DEF CreateAll, AnswersThere, Origins, UpgradeTypeOK
<1>4. Reached'
  BY NextStage DEF CreateAll, Reached, Made, Sealed
<1> QED
  BY <1>1, <1>2, <1>3, <1>4

LEMMA AddColumnKeeps == UpgradeInv /\ AddColumn => UpgradeInv'
<1> SUFFICES ASSUME UpgradeInv, AddColumn PROVE UpgradeInv'
  OBVIOUS
<1> USE DEF UpgradeInv
<1>1. UpgradeTypeOK'
  BY NextStage DEF AddColumn, UpgradeTypeOK
<1>2. OneTable' /\ EmptyIsNew'
  BY DEF AddColumn, OneTable, EmptyIsNew
<1>3. AnswersThere' /\ Origins'
  BY DEF AddColumn, AddNeeded, AnswersThere, Origins
<1>4. Reached'
  BY NextStage DEF AddColumn, Reached, Made, Sealed
<1> QED
  BY <1>1, <1>2, <1>3, <1>4

LEMMA MoveAnswersKeeps == UpgradeInv /\ MoveAnswers => UpgradeInv'
<1> SUFFICES ASSUME UpgradeInv, MoveAnswers PROVE UpgradeInv'
  OBVIOUS
<1> USE DEF UpgradeInv
<1>1. UpgradeTypeOK'
  <2>1. answers' \in [Deps -> SUBSET {"json", "enc"}] /\ columns' \subseteq {"json", "enc"}
    BY DEF MoveAnswers, Moved, UpgradeTypeOK
  <2> QED
    BY <2>1, NextStage DEF MoveAnswers, UpgradeTypeOK
<1>2. OneTable' /\ EmptyIsNew'
  BY DEF MoveAnswers, OneTable, EmptyIsNew
<1>3. AnswersThere' /\ Origins'
  BY DEF MoveAnswers, AtStage, Moved, AnswersThere, Origins, Reached, UpgradeTypeOK
<1>4. Reached'
  <2>1. \A d \in Deps : "json" \notin answers'[d]
    BY DEF MoveAnswers, Moved, AnswersThere
  <2> QED
    BY <2>1, NextStage DEF MoveAnswers, Reached, Made, Sealed
<1> QED
  BY <1>1, <1>2, <1>3, <1>4

LEMMA BackfillKeeps == UpgradeInv /\ Backfill => UpgradeInv'
<1> SUFFICES ASSUME UpgradeInv, Backfill PROVE UpgradeInv'
  OBVIOUS
<1> USE DEF UpgradeInv
<1>1. UpgradeTypeOK'
  <2>1. original' \in [Deps -> {"none", "saved", "first", "second"}]
    BY DEF Backfill, Recovered, UpgradeTypeOK
  <2> QED
    BY <2>1, NextStage DEF Backfill, UpgradeTypeOK, Reached, Sealed
<1>2. OneTable' /\ EmptyIsNew'
  BY DEF Backfill, OneTable, EmptyIsNew
<1>3. AnswersThere' /\ Origins'
  BY DEF Backfill, Recovered, AnswersThere, Origins
<1>4. Reached'
  BY NextStage DEF Backfill, Reached, Made, Sealed
<1> QED
  BY <1>1, <1>2, <1>3, <1>4

LEMMA StampKeeps == UpgradeInv /\ Stamp => UpgradeInv'
<1> SUFFICES ASSUME UpgradeInv, Stamp PROVE UpgradeInv'
  OBVIOUS
<1> USE DEF UpgradeInv
<1>1. UpgradeTypeOK'
  BY NextStage DEF Stamp, UpgradeTypeOK, Reached, Sealed
<1>2. OneTable' /\ EmptyIsNew'
  BY DEF Stamp, OneTable, EmptyIsNew
<1>3. AnswersThere' /\ Origins'
  BY DEF Stamp, AnswersThere, Origins
<1>4. Reached'
  BY NextStage DEF Stamp, Reached, Made, Sealed
<1> QED
  BY <1>1, <1>2, <1>3, <1>4

LEMMA StopProcessKeeps == UpgradeInv /\ StopProcess => UpgradeInv'
<1> SUFFICES ASSUME UpgradeInv, StopProcess PROVE UpgradeInv'
  OBVIOUS
<1> USE DEF UpgradeInv
<1>1. UpgradeTypeOK'
  BY NextStage, MaxDeathsNat DEF StopProcess, UpgradeTypeOK
<1>2. OneTable' /\ EmptyIsNew'
  BY DEF StopProcess, OneTable, EmptyIsNew
<1>3. AnswersThere' /\ Origins'
  BY DEF StopProcess, AnswersThere, Origins
<1>4. Reached'
  BY NextStage DEF StopProcess, Reached, Made, Sealed
<1> QED
  BY <1>1, <1>2, <1>3, <1>4

LEMMA UpgradeStep == UpgradeInv /\ [UpgradeNext]_schema => UpgradeInv'
<1> SUFFICES ASSUME UpgradeInv, [UpgradeNext]_schema PROVE UpgradeInv'
  OBVIOUS
<1>1. CASE UNCHANGED schema
  BY <1>1 DEF schema, UpgradeInv, UpgradeTypeOK, OneTable, EmptyIsNew, AnswersThere, Origins, Reached
<1> QED
  BY <1>1, StartUpKeeps, RenameTableKeeps, RenameLinkKeeps, CreateAllKeeps, AddColumnKeeps,
     MoveAnswersKeeps, BackfillKeeps, StampKeeps, StopProcessKeeps DEF UpgradeNext, Upgrading

\* HistoryKept, whatever the old layout and however often the process dies: the library
\* is never left in an old table beside an empty new one (db.py 72-100), and an original
\* plan is never a later deploy's (db.py 249-312).
THEOREM UpgradeKeepsHistory == UpgradeSpec => []HistoryKept
<1>1. UpgradeInv => HistoryKept
  BY DEF UpgradeInv, UpgradeTypeOK, OneTable, Origins, Reached, Made, Sealed, HistoryKept
<1> QED
  BY <1>1, InitUpgradeInv, UpgradeStep, PTL DEF UpgradeSpec

\* AnswersSealed: no step of an upgrade loses answers, and what it serves holds none in
\* plain text (db.py 172-193).
THEOREM UpgradeSealsAnswers == UpgradeSpec => AnswersSealed
<1> DEFINE Sealing == /\ \A d \in Deps : answers[d] # {} => answers[d]' # {}
                      /\ stage' = "serving" => \A d \in Deps : "json" \notin answers'[d]
<1>1. UpgradeInv /\ [UpgradeNext]_schema => [Sealing]_schema
  <2> SUFFICES ASSUME UpgradeInv, UpgradeNext PROVE Sealing
    OBVIOUS
  <2>1. ASSUME NEW d \in Deps, answers[d] # {} PROVE answers'[d] # {}
    BY <2>1 DEF UpgradeNext, Upgrading, StartUp, RenameTable, RenameLink, CreateAll, AddColumn,
                MoveAnswers, Moved, Backfill, Stamp, StopProcess
  <2>2. stage' = "serving" => \A d \in Deps : "json" \notin answers'[d]
    BY UpgradeStep DEF UpgradeInv, Reached, Sealed
  <2> QED
    BY <2>1, <2>2
<1>2. UpgradeSpec => [][Sealing]_schema
  BY <1>1, InitUpgradeInv, UpgradeStep, PTL DEF UpgradeSpec
<1> QED
  BY <1>2 DEF AnswersSealed
================================================================================
