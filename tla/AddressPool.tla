------------------------------ MODULE AddressPool ------------------------------
(* The static pool of one network: network_pool.py, api.py 306-356, 3395-3507, *)
(* serialize.py 541-549.  Admissions allocate under the admission lock; an     *)
(* administrator edits or deletes the network and the worker releases          *)
(* reservations without it.  An address is its offset in the subnet.           *)
EXTENDS Integers, FiniteSets

CONSTANTS
  Last,         \* the last address of the subnet
  NoAddress,
  Holders,      \* deployments that may have a reservation
  Admissions,   \* threads that admit a deploy or a rebuild
  NobodyAdmits,
  MaxNetEdits   \* bound: edits of the network

ASSUME LastNat == Last \in Nat \ {0}
ASSUME NoAddressIsNone == NoAddress \notin Nat
ASSUME NobodyIsNone == NobodyAdmits \notin Admissions
ASSUME MaxNetEditsNat == MaxNetEdits \in Nat

VARIABLES
  net,        \* the Network row
  alloc,      \* IpAllocation: the address of each deployment
  admission,  \* place and variables of each admission
  gate,       \* _lifecycle_admission_lock
  netEdits

pools == <<net, alloc, admission, gate, netEdits>>

Addresses == 0..Last
\* parse_static_pool: a range inside the subnet, a gateway inside it or none.  Old rows
\* may have infrastructure in their range.
Pool == {p \in [family : {4, 6}, start : Addresses, end : Addresses, gateway : Addresses \cup {NoAddress}] :
           p.start <= p.end}

\* StaticPool.is_reserved
Infrastructure(p) == {0} \cup (IF p.family = 4 THEN {Last} ELSE {}) \cup ({p.gateway} \ {NoAddress})
\* StaticPool.iter_usable
UsableAddresses(p) == (p.start .. p.end) \ Infrastructure(p)
\* Mutant of UsableTotal: the reserved addresses are counted one by one.
UsableTotalTwice(p) ==
  p.end - p.start + 1
  - Cardinality({a \in {0} : p.start <= a})
  - Cardinality({a \in {Last} : p.family = 4 /\ a <= p.end})
  - Cardinality({a \in {p.gateway} \ {NoAddress} : p.start <= a /\ a <= p.end})
\* StaticPool.usable_total, which iterates over nothing
UsableTotal(p) == p.end - p.start + 1 - Cardinality({a \in Infrastructure(p) : p.start <= a /\ a <= p.end})

\* _validate_network_body
Admissible(p) == \A a \in Infrastructure(p) : ~(p.start <= a /\ a <= p.end)

NoAdmission == [pc |-> "idle"]

PoolInit ==
  /\ net \in [mode : {"static"}, pool : Pool]
  /\ alloc = [d \in Holders |-> NoAddress]
  /\ admission = [h \in Admissions |-> NoAdmission]
  /\ gate = NobodyAdmits
  /\ netEdits = 0

Stage(h, pc) == admission[h].pc = pc
\* Mutant of GateFree: admissions are not serialised.
GateIgnored == TRUE
GateFree == gate = NobodyAdmits

\* A deploy, or a rebuild on current settings, has read the network.
AdmitStatic(h, d) ==
  /\ Stage(h, "idle") /\ GateFree
  /\ net.mode = "static"
  /\ \A k \in Admissions : ~Stage(k, "idle") => admission[k].on # d
  /\ gate' = h
  /\ admission' = [admission EXCEPT ![h] =
       [pc |-> "choose", on |-> d, pool |-> net.pool, address |-> NoAddress]]
  /\ UNCHANGED <<net, alloc, netEdits>>

Taken(d) == {alloc[e] : e \in Holders \ {d}}
\* A reservation is used again if it lies in the pool.
Fits(p, a) == a \in UsableAddresses(p)

Chooses(h, a) == admission' = [admission EXCEPT ![h].pc = "write", ![h].address = a]

\* allocate_ip: the address it has, else the first one that is free, else an error
Choose(h) ==
  LET d == admission[h].on
      p == admission[h].pool
      open == UsableAddresses(p) \ Taken(d)
  IN
  /\ Stage(h, "choose")
  /\ \/ Fits(p, alloc[d]) /\ Chooses(h, alloc[d])
     \/ ~Fits(p, alloc[d]) /\ \E a \in open : (\A b \in open : a <= b) /\ Chooses(h, a)
     \/ /\ ~Fits(p, alloc[d]) /\ open = {}
        /\ admission' = [admission EXCEPT ![h].pc = "exhausted"]
  /\ UNCHANGED <<net, alloc, gate, netEdits>>

Leave(h) ==
  /\ admission' = [admission EXCEPT ![h] = NoAdmission]
  /\ gate' = IF gate = h THEN NobodyAdmits ELSE gate

\* The reservation is inserted or moved and the admission commits; uq_ipalloc_net_ip and
\* the foreign key of a network that is gone make it fail instead.
Reserve(h) ==
  /\ Stage(h, "write")
  /\ net.mode # "deleted" /\ admission[h].address \notin Taken(admission[h].on)
  /\ alloc' = [alloc EXCEPT ![admission[h].on] = admission[h].address]
  /\ Leave(h)
  /\ UNCHANGED <<net, netEdits>>

\* The pool is exhausted, or the admission fails for another reason.
GiveUp(h) ==
  /\ ~Stage(h, "idle")
  /\ Leave(h)
  /\ UNCHANGED <<net, alloc, netEdits>>

\* A failed deploy gives its address back, a destroyed deployment goes.
Release(d) ==
  /\ alloc[d] # NoAddress
  /\ \A h \in Admissions : ~Stage(h, "idle") => admission[h].on # d
  /\ alloc' = [alloc EXCEPT ![d] = NoAddress]
  /\ UNCHANGED <<net, admission, gate, netEdits>>

\* edit_network, whatever the reservations are
EditNetwork ==
  /\ net.mode # "deleted" /\ netEdits < MaxNetEdits
  /\ netEdits' = netEdits + 1
  /\ \/ \E p \in Pool : Admissible(p) /\ net' = [mode |-> "static", pool |-> p]
     \/ net' = [net EXCEPT !.mode = "dhcp"]
  /\ UNCHANGED <<alloc, admission, gate>>

\* delete_network: refused while a deployment uses it
DeleteNetwork ==
  /\ net.mode # "deleted"
  /\ \A d \in Holders : alloc[d] = NoAddress
  /\ net' = [net EXCEPT !.mode = "deleted"]
  /\ UNCHANGED <<alloc, admission, gate, netEdits>>

PoolNext ==
  \/ \E h \in Admissions : (\E d \in Holders : AdmitStatic(h, d)) \/ Choose(h) \/ Reserve(h) \/ GiveUp(h)
  \/ \E d \in Holders : Release(d)
  \/ EditNetwork \/ DeleteNetwork

PoolSpec == PoolInit /\ [][PoolNext]_pools

--------------------------------------------------------------------------------
PoolTypeOK ==
  /\ net \in [mode : {"static", "dhcp", "deleted"}, pool : Pool]
  /\ alloc \in [Holders -> Addresses \cup {NoAddress}]
  /\ admission \in [Admissions -> {NoAdmission} \cup
       [pc : {"choose", "write", "exhausted"}, on : Holders, pool : Pool,
        address : Addresses \cup {NoAddress}]]
  /\ gate \in Admissions \cup {NobodyAdmits}
  /\ netEdits \in 0..MaxNetEdits

\* Whatever the network was edited to, an admission gets an address that its pool can use,
\* and the one it already had whenever that is such an address (api.py 312-325); "the next
\* waiter cannot read past this uncommitted reservation" (api.py 348-351): it is nobody
\* else's, so the unique index stays a backstop.
ReservationServes ==
  \A h \in Admissions : Stage(h, "write") =>
    LET d == admission[h].on
        p == admission[h].pool
        a == admission[h].address IN
    /\ p.start <= a /\ a <= p.end
    /\ a # 0 /\ a # p.gateway /\ (p.family = 4 => a # Last)
    /\ alloc[d] \in {NoAddress, a} \/ alloc[d] \notin UsableAddresses(p)
    /\ a \notin Taken(d)

\* "static IP pool exhausted" (api.py 356) is answered only when as many addresses of the
\* range are reserved as the UI counts in it "in O(1)" (network_pool.py 42), the first and
\* the last one included, and also where gateway, network and broadcast coincide.
NeverRefusedEarly ==
  [][\A h \in Admissions : Stage(h, "choose") /\ admission'[h].pc = "exhausted" =>
       LET p == admission[h].pool IN
         Cardinality((Taken(admission[h].on) \cap (p.start .. p.end)) \ Infrastructure(p))
           = UsableTotal(p)]_pools
================================================================================
