------------------------------ MODULE ViewProofs -------------------------------
(* What readers of the two views are shown: the inventory of Proxmox that the *)
(* server caches, and the copy of the server's state in a browser.            *)
EXTENDS Inventory, LiveState, TLAPS

--------------------------------------------------------------------------------
(* For every number of connections, edits, slots and rechecks: readers of the *)
(* inventory never see data of settings that an answered edit has replaced.   *)
(*                                                                            *)
(* The property alone is not inductive, since it says nothing of what is on   *)
(* its way to a snapshot.  The invariant adds that a probe which the cache    *)
(* would still believe, that is of today's generation, and which has passed a *)
(* check is a probe of today's row.  Until its first check a probe may be one *)
(* of an older row: the scheduler's copy is older than the generation read    *)
(* for it.  That is why a check must come before the result counts, and why   *)
(* the generation must be compared after the last one.                        *)

Typed ==
  /\ row \in [Connections -> Row \cup {NotYet, Deleted}]
  /\ invalidating \in [Connections -> Nat]
  /\ generations \in [Connections -> Nat]
  /\ snapshots \in [Connections -> Snapshot \cup {Nothing}]
  /\ inflight \in [Connections -> Probe \cup {Nothing}]
  /\ \A p \in pass : p.id \in Connections /\ p.conn \in Row

\* No edit of c is half done.
Settled(c) == row[c] \in Row /\ invalidating[c] = 0

\* A connection that never was is unknown to the scheduler and to the cache.
UnusedUnknown ==
  \A c \in Connections :
    row[c] = NotYet =>
      snapshots[c] = Nothing /\ inflight[c] = Nothing /\ \A p \in pass : p.id # c

GenerationsGrow ==
  \A c \in Connections : inflight[c] # Nothing => inflight[c].generation <= generations[c]

BelievedIsCurrent ==
  \A c \in Connections :
    /\ Settled(c)
    /\ inflight[c] # Nothing /\ inflight[c].passed > 0
    /\ inflight[c].generation = generations[c]
    => inflight[c].conn = row[c]

CacheInv == Typed /\ UnusedUnknown /\ GenerationsGrow /\ BelievedIsCurrent /\ NoReplacedData

LEMMA InitCache == Init => CacheInv
<1> SUFFICES ASSUME Init PROVE CacheInv
  OBVIOUS
<1> USE DEF Init
<1>1. Typed
  BY DEF Typed, Row
<1>2. UnusedUnknown /\ GenerationsGrow /\ BelievedIsCurrent /\ NoReplacedData
  BY DEF UnusedUnknown, GenerationsGrow, BelievedIsCurrent, NoReplacedData
<1> QED
  BY <1>1, <1>2 DEF CacheInv

\* An id that is used for the first time has neither snapshot nor probe.
LEMMA AddKeeps == ASSUME CacheInv, NEW c \in Connections, Add(c) PROVE CacheInv'
<1> USE DEF CacheInv, Add
<1>1. Typed'
  BY DEF Typed, Row
<1>2. snapshots[c] = Nothing /\ inflight[c] = Nothing
  BY DEF UnusedUnknown
<1>3. \A d \in Connections \ {c} : row'[d] = row[d]
  BY DEF Typed
<1>4. row'[c] \in Row
  BY DEF Typed, Row
<1>5. UnusedUnknown'
  BY <1>3, <1>4, NothingsAreNoRows DEF UnusedUnknown
<1>6. GenerationsGrow' /\ BelievedIsCurrent' /\ NoReplacedData'
  BY <1>2, <1>3 DEF GenerationsGrow, BelievedIsCurrent, NoReplacedData, Settled
<1> QED
  BY <1>1, <1>5, <1>6

\* From its commit to its invalidation an edit excuses whatever is seen.
LEMMA EditKeeps == ASSUME CacheInv, NEW c \in Connections, Edit(c) PROVE CacheInv'
<1> USE DEF CacheInv, Edit
<1>1. Typed'
  BY DEF Typed
<1>2. invalidating'[c] # 0 /\ row'[c] \in Row
  BY DEF Typed
<1>3. \A d \in Connections \ {c} : row'[d] = row[d] /\ invalidating'[d] = invalidating[d]
  BY DEF Typed
<1>4. UnusedUnknown'
  BY <1>2, <1>3, NothingsAreNoRows DEF UnusedUnknown
<1>5. GenerationsGrow' /\ BelievedIsCurrent' /\ NoReplacedData'
  BY <1>2, <1>3 DEF GenerationsGrow, BelievedIsCurrent, NoReplacedData, Settled
<1> QED
  BY <1>1, <1>4, <1>5

\* Every probe in flight is of an older generation from now on.
LEMMA InvalidateKeeps == ASSUME CacheInv, NEW c \in Connections, Invalidate(c) PROVE CacheInv'
<1> USE DEF CacheInv, Invalidate
<1>1. Typed'
  BY DEF Typed
<1>2. /\ snapshots'[c] = Nothing /\ generations'[c] = generations[c] + 1
      /\ inflight[c] # Nothing => inflight[c].generation < generations'[c]
  BY DEF Typed, GenerationsGrow, Probe
<1>3. \A d \in Connections \ {c} :
        /\ snapshots'[d] = snapshots[d] /\ generations'[d] = generations[d]
        /\ invalidating'[d] = invalidating[d]
  BY DEF Typed
<1>4. UnusedUnknown'
  BY <1>2, <1>3 DEF UnusedUnknown
<1>5. GenerationsGrow'
  <2> SUFFICES ASSUME NEW d \in Connections, inflight[d] # Nothing
               PROVE  inflight[d].generation <= generations'[d]
    BY DEF GenerationsGrow
  <2>1. CASE d = c
    BY <2>1, <1>2 DEF Typed, Probe
  <2>2. CASE d # c
    BY <2>2, <1>3 DEF GenerationsGrow
  <2> QED
    BY <2>1, <2>2
<1>6. BelievedIsCurrent' /\ NoReplacedData'
  BY <1>2, <1>3 DEF Typed, Probe, BelievedIsCurrent, NoReplacedData, Settled
<1> QED
  BY <1>1, <1>4, <1>5, <1>6

LEMMA DeleteKeeps == ASSUME CacheInv, NEW c \in Connections, Delete(c) PROVE CacheInv'
<1> USE DEF CacheInv, Delete
<1>1. Typed'
  BY DEF Typed
<1>2. row'[c] = Deleted /\ Deleted \notin Row
  BY NothingsAreNoRows DEF Typed
<1>3. \A d \in Connections \ {c} : row'[d] = row[d]
  BY DEF Typed
<1>4. UnusedUnknown'
  BY <1>2, <1>3, NothingsAreNoRows DEF UnusedUnknown
<1>5. GenerationsGrow' /\ BelievedIsCurrent' /\ NoReplacedData'
  BY <1>2, <1>3 DEF GenerationsGrow, BelievedIsCurrent, NoReplacedData, Settled
<1> QED
  BY <1>1, <1>4, <1>5

LEMMA ListKeeps == ASSUME CacheInv, List PROVE CacheInv'
<1> USE DEF CacheInv, List
<1>1. \A p \in pass' : p.id \in Connections /\ p.conn \in Row /\ p.conn = row[p.id]
  BY DEF Enabled
<1>2. Typed' /\ UnusedUnknown'
  BY <1>1, NothingsAreNoRows DEF Typed, UnusedUnknown
<1> QED
  BY <1>2 DEF GenerationsGrow, BelievedIsCurrent, NoReplacedData, Settled

LEMMA NewProbe ==
  ASSUME NEW r \in Row, NEW n \in Nat
  PROVE  [conn |-> r, generation |-> n, passed |-> 0, failed |-> FALSE] \in Probe
BY InventoryConstants DEF Probe

\* A new probe has passed no check.
LEMMA RefreshKeeps == ASSUME CacheInv, Refresh PROVE CacheInv'
<1> USE DEF CacheInv
<1>1. PICK p \in pass :
        /\ pass' = pass \ {p}
        /\ inflight' =
             IF Refused(p.id) THEN inflight
             ELSE [inflight EXCEPT ![p.id] = [conn |-> p.conn, generation |-> generations[p.id],
                                              passed |-> 0, failed |-> FALSE]]
  BY DEF Refresh
<1>2. UNCHANGED <<row, invalidating, generations, snapshots>>
  BY DEF Refresh
<1>3. CASE Refused(p.id)
  BY <1>1, <1>2, <1>3
     DEF Typed, UnusedUnknown, GenerationsGrow, BelievedIsCurrent, NoReplacedData, Settled
<1>4. CASE ~Refused(p.id)
  <2> DEFINE new == [conn |-> p.conn, generation |-> generations[p.id],
                     passed |-> 0, failed |-> FALSE]
  <2>1. p.id \in Connections /\ p.conn \in Row /\ row[p.id] # NotYet
    BY DEF Typed, UnusedUnknown
  <2>2. /\ inflight'[p.id] = new
        /\ \A d \in Connections \ {p.id} : inflight'[d] = inflight[d]
    BY <1>1, <1>4, <2>1 DEF Typed
  <2>3. new \in Probe /\ new.generation = generations[p.id] /\ new.passed = 0
    <3>1. generations[p.id] \in Nat
      BY <2>1 DEF Typed
    <3> QED
      BY <2>1, <3>1, NewProbe
  <2> HIDE DEF new
  <2>4. Typed'
    BY <1>1, <1>2, <1>4, <2>1, <2>2, <2>3 DEF Typed, new
  <2>5. UnusedUnknown'
    BY <1>1, <1>2, <2>1, <2>2 DEF UnusedUnknown
  <2>6. GenerationsGrow'
    BY <1>2, <2>1, <2>2, <2>3 DEF GenerationsGrow, Typed
  <2>7. BelievedIsCurrent' /\ NoReplacedData'
    BY <1>2, <2>1, <2>2, <2>3 DEF BelievedIsCurrent, NoReplacedData, Settled
  <2> QED
    BY <2>4, <2>5, <2>6, <2>7
<1> QED
  BY <1>3, <1>4

LEMMA CheckKeeps == ASSUME CacheInv, NEW c \in Connections, Check(c) PROVE CacheInv'
<1> USE DEF CacheInv, Check
<1>1. inflight[c] \in Probe /\ inflight[c].passed < Checks
  BY DEF Typed, Probing
<1>2. /\ inflight'[c] \in Probe /\ inflight'[c].conn = row[c]
      /\ inflight'[c].generation = inflight[c].generation
      /\ \A d \in Connections \ {c} : inflight'[d] = inflight[d]
  BY <1>1, InventoryConstants DEF Typed, Probe
<1>3. inflight[c] # Nothing
  BY DEF Probing
<1>4. Typed'
  BY <1>1, InventoryConstants DEF Typed, Probe
<1>5. UnusedUnknown' /\ GenerationsGrow'
  BY <1>2, <1>3 DEF UnusedUnknown, GenerationsGrow
<1>6. BelievedIsCurrent' /\ NoReplacedData'
  BY <1>2 DEF BelievedIsCurrent, NoReplacedData, Settled
<1> QED
  BY <1>4, <1>5, <1>6

LEMMA FailKeeps == ASSUME CacheInv, NEW c \in Connections, Fail(c) PROVE CacheInv'
<1> USE DEF CacheInv, Fail
<1>1. inflight[c] \in Probe /\ inflight[c] # Nothing
  BY DEF Typed, Probing
<1>2. /\ inflight'[c] \in Probe /\ inflight'[c].conn = inflight[c].conn
      /\ inflight'[c].generation = inflight[c].generation
      /\ inflight'[c].passed = inflight[c].passed
      /\ \A d \in Connections \ {c} : inflight'[d] = inflight[d]
  BY <1>1 DEF Typed, Probe
<1>3. Typed'
  BY <1>1 DEF Typed, Probe
<1>4. UnusedUnknown' /\ GenerationsGrow'
  BY <1>1, <1>2 DEF UnusedUnknown, GenerationsGrow
<1>5. BelievedIsCurrent' /\ NoReplacedData'
  BY <1>1, <1>2 DEF BelievedIsCurrent, NoReplacedData, Settled
<1> QED
  BY <1>3, <1>4, <1>5

\* What is stored without an error has passed every check.
LEMMA StoreKeeps == ASSUME CacheInv, NEW c \in Connections, Store(c) PROVE CacheInv'
<1> USE DEF CacheInv, Store
<1> DEFINE new == [of |-> IF inflight[c].failed THEN OldData(c) ELSE inflight[c].conn,
                   error |-> inflight[c].failed, fresh |-> TRUE]
<1>1. inflight[c] \in Probe /\ inflight[c] # Nothing
  BY DEF Typed
<1>2. inflight'[c] = Nothing /\ \A d \in Connections \ {c} : inflight'[d] = inflight[d]
  BY DEF Typed
<1>3. GenerationsGrow' /\ BelievedIsCurrent'
  BY <1>2 DEF GenerationsGrow, BelievedIsCurrent, Settled
<1>4. row[c] # NotYet
  BY <1>1 DEF UnusedUnknown
<1>5. CASE inflight[c].generation # generations[c]
  <2>1. UNCHANGED snapshots
    BY <1>5
  <2>2. Typed' /\ UnusedUnknown' /\ NoReplacedData'
    BY <1>2, <2>1 DEF Typed, UnusedUnknown, NoReplacedData
  <2> QED
    BY <1>3, <2>2
<1>6. CASE inflight[c].generation = generations[c]
  <2>1. new \in Snapshot
    BY <1>1 DEF Snapshot, Probe, OldData, Typed
  <2>2. snapshots' = [snapshots EXCEPT ![c] = new]
    BY <1>6
  <2>3. snapshots'[c] = new /\ \A d \in Connections \ {c} : snapshots'[d] = snapshots[d]
    BY <2>2 DEF Typed
  <2>4. Settled(c) /\ new.of # NoData => new.of = row[c]
    <3>1. CASE inflight[c].failed
      BY <3>1 DEF OldData, NoReplacedData, Settled
    <3>2. CASE ~inflight[c].failed
      <4>1. inflight[c].passed = Checks /\ inflight[c].passed > 0
        BY <1>1, <3>2, InventoryConstants DEF Probing, Probe
      <4> QED
        BY <1>1, <1>6, <3>2, <4>1 DEF BelievedIsCurrent
    <3> QED
      BY <3>1, <3>2
  <2> HIDE DEF new
  <2>5. NoReplacedData'
    <3> SUFFICES ASSUME NEW d \in Connections, row[d] \in Row, invalidating[d] = 0,
                        snapshots'[d] # Nothing, snapshots'[d].of # NoData
                 PROVE  snapshots'[d].of = row[d]
      BY DEF NoReplacedData
    <3>1. CASE d = c
      BY <3>1, <2>3, <2>4 DEF Settled
    <3>2. CASE d # c
      BY <3>2, <2>3 DEF NoReplacedData
    <3> QED
      BY <3>1, <3>2
  <2>6. Typed'
    BY <1>2, <2>1, <2>2 DEF Typed
  <2>7. UnusedUnknown'
    BY <1>2, <1>4, <2>3 DEF UnusedUnknown
  <2> QED
    BY <1>3, <2>5, <2>6, <2>7
<1> QED
  BY <1>5, <1>6

LEMMA ExpireKeeps == ASSUME CacheInv, NEW c \in Connections, Expire(c) PROVE CacheInv'
<1> USE DEF CacheInv, Expire
<1>1. snapshots[c] \in Snapshot /\ snapshots[c] # Nothing
  BY DEF Typed
<1>2. /\ snapshots'[c].of = snapshots[c].of
      /\ \A d \in Connections \ {c} : snapshots'[d] = snapshots[d]
  BY <1>1 DEF Typed, Snapshot
<1>3. Typed'
  BY <1>1 DEF Typed, Snapshot
<1>4. UnusedUnknown' /\ NoReplacedData'
  BY <1>1, <1>2 DEF UnusedUnknown, NoReplacedData
<1> QED
  BY <1>3, <1>4 DEF GenerationsGrow, BelievedIsCurrent, Settled

LEMMA NextCache == CacheInv /\ [Next]_vars => CacheInv'
<1> SUFFICES ASSUME CacheInv, [Next]_vars PROVE CacheInv'
  OBVIOUS
<1>1. CASE UNCHANGED vars
  BY <1>1 DEF vars, CacheInv, Typed, UnusedUnknown, GenerationsGrow, BelievedIsCurrent,
              NoReplacedData, Settled
<1>2. ASSUME NEW c \in Connections,
             Add(c) \/ Edit(c) \/ Invalidate(c) \/ Delete(c) \/ ProbeStep(c) \/ Expire(c)
      PROVE  CacheInv'
  BY <1>2, AddKeeps, EditKeeps, InvalidateKeeps, DeleteKeeps, CheckKeeps, FailKeeps, StoreKeeps,
     ExpireKeeps DEF ProbeStep
<1> QED
  BY <1>1, <1>2, ListKeeps, RefreshKeeps DEF Next

\* The inductive invariant of the cache.
THEOREM CacheInvariant == Spec => []CacheInv
BY InitCache, NextCache, PTL DEF Spec

\* Readers never see data of settings that an answered edit has replaced.
THEOREM NothingReplacedIsRead == Spec => []NoReplacedData
<1>1. CacheInv => NoReplacedData
  BY DEF CacheInv
<1> QED
  BY <1>1, CacheInvariant, PTL

--------------------------------------------------------------------------------
(* For any number of rows, commits and events: the fetch that a removal ends  *)
(* with reflects the removal, and, if a response arrives while a tombstone    *)
(* set during its fetch stands, a removed row is not shown again.             *)
(*                                                                            *)
(* Both rest on what the server has: a row is never older than the removal    *)
(* its id has seen (RowsNewer).  A response is, if it was read before the     *)
(* removal; then the removal has not joined its fetch (JoinedNewer), and the  *)
(* fetch was in flight when the tombstone was set (StaleIsLate).              *)

\* The version a removal has deleted is behind what the table holds ...
RowsNewer ==
  \A i \in Ids :
    /\ rows[i] = 0 \/ rows[i] > removed[i]
    /\ rows[i] <= commits /\ removed[i] <= commits

\* ... and behind what a fetch it has joined is answered.
JoinedNewer ==
  \A i \in Ids :
    removal[i] = "joined" /\ fetch = "answered" => content[i] = 0 \/ content[i] > removed[i]

LiveInv == LiveTypeOK /\ RowsNewer /\ JoinedNewer

\* An answer that still holds a removed row meets a tombstone that stands until the
\* fetch is over.
StaleIsLate ==
  \A i \in Ids :
    /\ removal[i] # "committed" /\ fetch = "answered"
    /\ content[i] # 0 /\ content[i] <= removed[i]
    => i \in late /\ tomb[i] = "stands"

GhostInv == LiveInv /\ StaleIsLate /\ NoGhost

Asking == Ping \/ Poll \/ \E q \in BOOLEAN : Navigate(q)

--------------------------------------------------------------------------------
LEMMA InitLive == LiveInit => LiveInv
<1> SUFFICES ASSUME LiveInit PROVE LiveInv
  OBVIOUS
<1> USE LiveConstants DEF LiveInit
<1>1. rows \in [Ids -> Versions] /\ \A i \in Ids : rows[i] = 0
  BY DEF Versions
<1>2. /\ commits \in Versions /\ unbumped \in 0..commits /\ events \in 0..MaxEvents
      /\ removed \in [Ids -> Versions]
  BY DEF Versions
<1>3. content \in [Ids -> Versions] /\ view \in [Ids -> Versions]
  BY <1>1
<1>4. removal \in [Ids -> RemovalPlaces] /\ \A i \in Ids : removal[i] = "none"
  BY DEF RemovalPlaces
<1>5. LiveTypeOK
  BY <1>1, <1>2, <1>3, <1>4 DEF LiveTypeOK
<1> QED
  BY <1>1, <1>5 DEF LiveInv, RowsNewer, JoinedNewer

\* A commit moves the counter past every version there is.
LEMMA CommitTyped ==
  ASSUME LiveTypeOK, NEW i \in Ids, NEW v \in {0, commits + 1}, Commit(i, v)
  PROVE  /\ rows' \in [Ids -> Versions] /\ rows'[i] = v
         /\ \A j \in Ids \ {i} : rows'[j] = rows[j]
         /\ commits' \in Versions /\ unbumped' \in 0..commits' /\ commits' = commits + 1
<1> USE LiveConstants DEF LiveTypeOK, Commit, Versions
<1>1. commits' \in Versions /\ v \in Versions
  OBVIOUS
<1>2. unbumped' \in 0..commits'
  OBVIOUS
<1>3. rows' = [rows EXCEPT ![i] = v]
  OBVIOUS
<1> QED
  BY <1>1, <1>2, <1>3

LEMMA ChangeKeeps == ASSUME LiveInv, NEW i \in Ids, Change(i) PROVE LiveInv'
<1> USE DEF LiveInv
<1>1. PICK v \in {0, commits + 1} : Commit(i, v)
  BY DEF Change
<1>2. UNCHANGED <<stream, fetching, store, events>>
  BY DEF Change
<1>3. LiveTypeOK'
  BY <1>1, <1>2, CommitTyped DEF LiveTypeOK, stream, fetching, store
<1>4. RowsNewer'
  <2> SUFFICES ASSUME NEW j \in Ids
               PROVE  /\ rows'[j] = 0 \/ rows'[j] > removed[j]
                      /\ rows'[j] <= commits' /\ removed[j] <= commits'
    BY <1>2 DEF RowsNewer, store
  <2>0. commits \in Nat /\ commits' = commits + 1 /\ removed[j] \in Nat /\ rows[j] \in Nat
    BY <1>1, CommitTyped, LiveConstants DEF LiveTypeOK, Versions
  <2>1. CASE j # i
    BY <1>1, <2>0, <2>1, CommitTyped DEF RowsNewer
  <2>2. CASE j = i
    <3>1. rows'[i] \in {0, commits + 1}
      BY <1>1, CommitTyped
    <3>2. removed[i] <= commits
      BY DEF RowsNewer
    <3> QED
      BY <2>0, <2>2, <3>1, <3>2
  <2> QED
    BY <2>1, <2>2
<1>5. JoinedNewer'
  BY <1>2 DEF JoinedNewer, fetching, store
<1> QED
  BY <1>3, <1>4, <1>5

\* Steps of the server and the stream that leave rows, responses and removals alone.
LEMMA StreamKeeps ==
  ASSUME LiveInv, Bump \/ StreamTurn \/ Drop \/ Reconnect
  PROVE  LiveInv'
<1> USE DEF LiveInv
<1>1. UNCHANGED <<rows, commits, fetching, store>>
  BY DEF Bump, StreamTurn, Drop, Reconnect, server, stream, fetching, store
<1>2. unbumped' \in 0..commits' /\ events' \in 0..MaxEvents
  BY LiveConstants DEF Bump, StreamTurn, Drop, Reconnect, server, LiveTypeOK, Versions
<1>3. unseen' \in BOOLEAN /\ connected' \in BOOLEAN /\ ping' \in BOOLEAN /\ quiet' \in BOOLEAN
  BY DEF Bump, StreamTurn, Drop, Reconnect, LiveTypeOK
<1>4. LiveTypeOK'
  BY <1>1, <1>2, <1>3 DEF LiveTypeOK, fetching, store
<1> QED
  BY <1>1, <1>4 DEF RowsNewer, JoinedNewer, fetching, store

\* Asking never turns a fetch into an answered one.
LEMMA AskingKeeps == ASSUME LiveInv, Asking PROVE LiveInv'
<1> USE DEF LiveInv
<1>1. UNCHANGED <<server, content, store>>
  BY DEF Asking, Ping, Poll, Navigate, server, store, stream
<1>2. fetch' = fetch \/ (fetch = "none" /\ fetch' = "sent")
  BY DEF Asking, Ping, Poll, Navigate, Collapsed
<1>3. /\ unseen' \in BOOLEAN /\ connected' \in BOOLEAN /\ ping' \in BOOLEAN /\ quiet' \in BOOLEAN
      /\ events' \in 0..MaxEvents
  <2>1. CASE Ping
    BY <2>1 DEF Ping, LiveTypeOK
  <2>2. CASE Poll
    BY <2>2 DEF Poll, LiveTypeOK, stream
  <2>3. ASSUME NEW q \in BOOLEAN, Navigate(q) PROVE /\ unseen' \in BOOLEAN /\ connected' \in BOOLEAN /\ ping' \in BOOLEAN
                                                      /\ quiet' \in BOOLEAN /\ events' \in 0..MaxEvents
    <3>1. unseen' = TRUE /\ connected' = TRUE /\ ping' = FALSE /\ quiet' = q
      BY <2>3 DEF Navigate
    <3>2. events' = events + 1 /\ events < MaxEvents
      BY <2>3 DEF Navigate
    <3>3. events' \in 0..MaxEvents
      BY <3>2, LiveConstants DEF LiveTypeOK
    <3> QED
      BY <3>1, <3>3
  <2> QED
    BY <2>1, <2>2, <2>3 DEF Asking
<1>4. LiveTypeOK'
  BY <1>1, <1>2, <1>3 DEF LiveTypeOK, server, store
<1>5. RowsNewer' /\ JoinedNewer'
  BY <1>1, <1>2 DEF RowsNewer, JoinedNewer, server, store
<1> QED
  BY <1>4, <1>5

LEMMA RemoveKeeps == ASSUME LiveInv, NEW i \in Ids, Remove(i) PROVE LiveInv'
<1> USE DEF LiveInv
<1>1. Commit(i, 0) /\ UNCHANGED <<stream, fetching, view, tomb, late, events>>
  BY DEF Remove
<1>2. /\ removal' = [removal EXCEPT ![i] = "committed"]
      /\ removed' = [removed EXCEPT ![i] = rows[i]]
  BY DEF Remove
<1>3. LiveTypeOK'
  BY <1>1, <1>2, CommitTyped DEF LiveTypeOK, stream, fetching, RemovalPlaces
<1>4. RowsNewer'
  <2> SUFFICES ASSUME NEW j \in Ids
               PROVE  /\ rows'[j] = 0 \/ rows'[j] > removed'[j]
                      /\ rows'[j] <= commits' /\ removed'[j] <= commits'
    BY DEF RowsNewer
  <2>1. commits \in Nat /\ commits' = commits + 1 /\ removed[j] \in Nat /\ rows[j] \in Nat
    BY <1>1, CommitTyped, LiveConstants DEF LiveTypeOK, Versions
  <2>2. CASE j # i
    BY <1>1, <1>2, <2>1, <2>2, CommitTyped DEF RowsNewer, LiveTypeOK
  <2>3. CASE j = i
    BY <1>1, <1>2, <2>1, <2>3, CommitTyped DEF RowsNewer, LiveTypeOK
  <2> QED
    BY <2>2, <2>3
<1>5. JoinedNewer'
  BY <1>1, <1>2 DEF JoinedNewer, fetching, LiveTypeOK
<1> QED
  BY <1>3, <1>4, <1>5

\* A removal joins a fetch only by starting it.
LEMMA RemovedKeeps == ASSUME LiveInv, NEW i \in Ids, Removed(i) PROVE LiveInv'
<1> USE DEF LiveInv
<1>1. UNCHANGED <<server, stream, content, removed, events>>
  BY DEF Removed
<1>2. /\ tomb' = [tomb EXCEPT ![i] = "stands"]
      /\ late' \subseteq Ids
      /\ view' = [view EXCEPT ![i] = 0]
      /\ removal' = [removal EXCEPT ![i] = IF fetch = "none" THEN "joined" ELSE "waiting"]
      /\ IF fetch = "none" THEN fetch' = "sent" ELSE UNCHANGED fetch
  BY DEF Removed, Collapsed, LiveTypeOK
<1>3. LiveTypeOK'
  BY <1>1, <1>2, LiveConstants DEF LiveTypeOK, server, stream, RemovalPlaces, Versions
<1>4. RowsNewer' /\ JoinedNewer'
  BY <1>1, <1>2 DEF RowsNewer, JoinedNewer, server, LiveTypeOK
<1> QED
  BY <1>3, <1>4

LEMMA AgeKeeps == ASSUME LiveInv, NEW i \in Ids, Age(i) PROVE LiveInv'
BY DEF LiveInv, Age, LiveTypeOK, RowsNewer, JoinedNewer, server, stream, fetching

LEMMA AnswerKeeps == ASSUME LiveInv, Answer PROVE LiveInv'
BY DEF LiveInv, Answer, LiveTypeOK, RowsNewer, JoinedNewer, server, stream, store

\* When a fetch is over nobody has joined an answered one.
LEMMA FetchOverKeeps ==
  ASSUME LiveInv, FetchOver
  PROVE  /\ fetch' \in {"none", "sent"} /\ late' \subseteq Ids
         /\ removal' \in [Ids -> RemovalPlaces]
         /\ \A i \in Ids : removal'[i] \in {"waiting", "joined"} => fetch' # "none"
         /\ \A i \in Ids : removal'[i] = "committed" <=> removal[i] = "committed"
BY DEF LiveInv, FetchOver, LiveTypeOK, RemovalPlaces

LEMMA DeliverKeeps == ASSUME LiveInv, Deliver \/ FetchFails PROVE LiveInv'
<1> USE DEF LiveInv
<1>1. FetchOver /\ UNCHANGED <<server, stream, content, removed>>
  BY DEF Deliver, FetchFails
<1>2. view' \in [Ids -> Versions]
  BY LiveConstants DEF Deliver, FetchFails, Shown, LiveTypeOK, Versions
<1>3. tomb' \in [Ids -> {"none", "stands", "old"}]
  BY DEF Deliver, FetchFails, LiveTypeOK
<1>4. events' \in 0..MaxEvents
  BY LiveConstants DEF Deliver, FetchFails, LiveTypeOK
<1>5. LiveTypeOK'
  BY <1>1, <1>2, <1>3, <1>4, FetchOverKeeps DEF LiveTypeOK, server, stream
<1> QED
  BY <1>1, <1>5, FetchOverKeeps DEF RowsNewer, JoinedNewer, server

LEMMA NextLive == LiveInv /\ [LiveNext]_livestate => LiveInv'
<1> SUFFICES ASSUME LiveInv, [LiveNext]_livestate PROVE LiveInv'
  OBVIOUS
<1>1. CASE UNCHANGED livestate
  BY <1>1 DEF livestate, LiveInv, LiveTypeOK, RowsNewer, JoinedNewer
<1>2. ASSUME NEW i \in Ids, Change(i) \/ Remove(i) \/ Removed(i) \/ Age(i) PROVE LiveInv'
  BY <1>2, ChangeKeeps, RemoveKeeps, RemovedKeeps, AgeKeeps
<1> QED
  BY <1>1, <1>2, StreamKeeps, AskingKeeps, AnswerKeeps, DeliverKeeps DEF LiveNext, Asking

\* The inductive invariant behind fresh refreshes.
THEOREM LiveInvariant == LiveSpec => []LiveInv
BY InitLive, NextLive, PTL DEF LiveSpec

\* Types, and that a removal which waits for a fetch has one to wait for.
THEOREM LiveTyped == LiveSpec => []LiveTypeOK
<1>1. LiveInv => LiveTypeOK
  BY DEF LiveInv
<1> QED
  BY <1>1, LiveInvariant, PTL

\* refresh({fresh: true}) ends with a response that reflects the change before it.
THEOREM FreshRefreshReflects == LiveSpec => FreshReflects
<1>1. LiveInv =>
        [\A i \in Ids : removal[i] = "joined" /\ fetch = "answered"
                          => content[i] = 0 \/ content[i] > removed[i]]_livestate
  BY DEF LiveInv, JoinedNewer
<1> QED
  BY <1>1, LiveInvariant, PTL DEF FreshReflects

--------------------------------------------------------------------------------
LEMMA InitGhost == LiveInit => GhostInv
<1> SUFFICES ASSUME LiveInit PROVE GhostInv
  OBVIOUS
<1>1. StaleIsLate /\ NoGhost
  BY DEF LiveInit, StaleIsLate, NoGhost
<1> QED
  BY <1>1, InitLive DEF GhostInv

\* The steps that change neither what a response holds nor what is removed.
LEMMA QuietGhost ==
  ASSUME GhostInv, UNCHANGED <<content, store>>, fetch' = "answered" => fetch = "answered"
  PROVE  (StaleIsLate /\ NoGhost)'
BY DEF GhostInv, StaleIsLate, NoGhost, store

LEMMA RemoveGhost == ASSUME GhostInv, NEW i \in Ids, Remove(i) PROVE (StaleIsLate /\ NoGhost)'
<1>1. UNCHANGED <<fetching, view, tomb, late>>
  BY DEF Remove
<1>2. /\ removal'[i] = "committed"
      /\ \A j \in Ids \ {i} : removal'[j] = removal[j] /\ removed'[j] = removed[j]
  BY DEF Remove, GhostInv, LiveInv, LiveTypeOK
<1> QED
  BY <1>1, <1>2 DEF GhostInv, StaleIsLate, NoGhost, fetching

LEMMA RemovedGhost == ASSUME GhostInv, NEW i \in Ids, Removed(i) PROVE (StaleIsLate /\ NoGhost)'
<1>1. /\ UNCHANGED <<content, removed>>
      /\ tomb'[i] = "stands" /\ view'[i] = 0
      /\ fetch = "none" => fetch' = "sent"
      /\ fetch # "none" => fetch' = fetch /\ i \in late'
  BY DEF Removed, Collapsed, GhostInv, LiveInv, LiveTypeOK
<1>2. /\ late \subseteq late'
      /\ \A j \in Ids \ {i} :
           removal'[j] = removal[j] /\ tomb'[j] = tomb[j] /\ view'[j] = view[j]
  BY DEF Removed, GhostInv, LiveInv, LiveTypeOK
<1> QED
  BY <1>1, <1>2 DEF GhostInv, StaleIsLate, NoGhost

\* A tombstone set while the fetch was in flight does not age before it is over.
LEMMA AgeGhost ==
  ASSUME GhostInv, "slow" \notin Env, NEW i \in Ids, Age(i)
  PROVE  (StaleIsLate /\ NoGhost)'
<1>1. UNCHANGED <<fetching, view, late, removal, removed>> /\ i \notin late
  BY DEF Age
<1>2. \A j \in Ids \ {i} : tomb'[j] = tomb[j]
  BY DEF Age, GhostInv, LiveInv, LiveTypeOK
<1> QED
  BY <1>1, <1>2 DEF GhostInv, StaleIsLate, NoGhost, fetching

LEMMA AnswerGhost == ASSUME GhostInv, Answer PROVE (StaleIsLate /\ NoGhost)'
<1>1. content' = rows /\ UNCHANGED store
  BY DEF Answer
<1>2. \A i \in Ids : content'[i] = 0 \/ ~(content'[i] <= removed[i])
  BY <1>1, LiveConstants DEF GhostInv, LiveInv, RowsNewer, LiveTypeOK, Versions
<1> QED
  BY <1>1, <1>2 DEF GhostInv, StaleIsLate, NoGhost, store

LEMMA DeliverGhost == ASSUME GhostInv, Deliver PROVE (StaleIsLate /\ NoGhost)'
<1> USE DEF GhostInv
<1>1. FetchOver /\ UNCHANGED <<content, removed>> /\ fetch = "answered"
  BY DEF Deliver
<1>2. StaleIsLate'
  BY <1>1, FetchOverKeeps DEF StaleIsLate
<1>3. NoGhost'
  <2> SUFFICES ASSUME NEW i \in Ids, removal'[i] # "committed", view'[i] # 0
               PROVE  view'[i] > removed'[i]
    BY DEF NoGhost
  <2>1. removal[i] # "committed"
    BY <1>1, FetchOverKeeps
  <2>2. view'[i] = content[i] /\ tomb[i] # "stands"
    BY DEF Deliver, Shown
  <2>3. ~(content[i] <= removed[i])
    BY <1>1, <2>1, <2>2 DEF StaleIsLate
  <2> QED
    BY <1>1, <2>2, <2>3, LiveConstants DEF LiveInv, LiveTypeOK, Versions
<1> QED
  BY <1>2, <1>3

LEMMA FetchFailsGhost == ASSUME GhostInv, FetchFails PROVE (StaleIsLate /\ NoGhost)'
<1> USE DEF GhostInv
<1>1. FetchOver /\ UNCHANGED <<view, removed>>
  BY DEF FetchFails
<1> QED
  BY <1>1, FetchOverKeeps DEF StaleIsLate, NoGhost

LEMMA NextGhost == ASSUME "slow" \notin Env PROVE GhostInv /\ [LiveNext]_livestate => GhostInv'
<1> SUFFICES ASSUME GhostInv, [LiveNext]_livestate PROVE (StaleIsLate /\ NoGhost)'
  BY NextLive DEF GhostInv
<1>1. CASE UNCHANGED livestate
  BY <1>1, QuietGhost DEF livestate, store
<1>2. ASSUME NEW i \in Ids, Change(i) PROVE (StaleIsLate /\ NoGhost)'
  BY <1>2, QuietGhost DEF Change, fetching
<1>3. CASE Bump \/ StreamTurn \/ Drop \/ Reconnect
  BY <1>3, QuietGhost DEF Bump, StreamTurn, Drop, Reconnect, fetching
<1>4. CASE Asking
  BY <1>4, QuietGhost DEF Asking, Ping, Poll, Navigate, Collapsed
<1> QED
  BY <1>1, <1>2, <1>3, <1>4, RemoveGhost, RemovedGhost, AgeGhost, AnswerGhost, DeliverGhost,
     FetchFailsGhost DEF LiveNext, Asking

\* A removed row does not come back, if no response is slower than a tombstone.
THEOREM RemovedStaysGone == ASSUME "slow" \notin Env PROVE LiveSpec => []NoGhost
<1>1. GhostInv /\ [LiveNext]_livestate => GhostInv'
  BY NextGhost
<1>2. GhostInv => NoGhost
  BY DEF GhostInv
<1> QED
  BY <1>1, <1>2, InitGhost, PTL DEF LiveSpec
================================================================================
