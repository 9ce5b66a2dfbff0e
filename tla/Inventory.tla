------------------------------- MODULE Inventory -------------------------------
(* The live inventory of app/inventory.py: one scheduler thread that lists    *)
(* the enabled connections twice a second and asks InventoryCache to refresh  *)
(* them, a pool of max_workers probe threads, and the administrators' edits   *)
(* of connections (app/api.py), which commit a row first and invalidate its   *)
(* snapshot afterwards.  An action is one critical section of the cache's     *)
(* lock, one query, or one `_enabled` check with the remote call after it:    *)
(* the call uses the probe's own copy of the row, so nothing that happens     *)
(* between the two changes what it returns.                                   *)
EXTENDS Naturals, Sequences, FiniteSets

CONSTANTS
  Connections, \* connection ids, in the order select() lists them
  Settings,    \* what an edit can change: host, token, node, ...
  MaxWorkers,  \* InventoryCache.max_workers
  Checks,      \* how often _probe_connection rechecks the row and fails if it changed
  MaxChanges,  \* bound: what administrators ever add, edit or delete
  NotYet, Deleted, \* a row that is not there: its id is not used yet, or not any more
  Nothing, NoData

ASSUME InventoryConstants ==
  /\ Connections \subseteq Nat /\ MaxWorkers \in Nat \ {0}
  /\ Checks \in Nat \ {0} /\ MaxChanges \in Nat

Row == [settings : Settings, disabled : BOOLEAN]
ASSUME NothingsAreNoRows == {NotYet, Deleted, NoData} \cap Row = {} /\ NotYet # Deleted

VARIABLES
  row,          \* table connections: id -> row, NotYet or Deleted
  invalidating, \* id -> edit handlers between session.commit() and invalidate()
  generations,  \* _generations
  snapshots,    \* _snapshots: id -> what readers copy, or Nothing
  done,         \* the ids that have a snapshot, oldest completedAt first
  inflight,     \* _inflight and the probe threads: id -> the probe, or Nothing
  pass,         \* the copies the scheduler has sorted and not yet offered to refresh()
  changes

vars == <<row, invalidating, generations, snapshots, done, inflight, pass, changes>>

\* `of` is the row whose cluster the data describes; an error keeps older data.
Snapshot == [of : Row \cup {NoData}, error : BOOLEAN, fresh : BOOLEAN]
Probe == [conn : Row, generation : Nat, passed : 0..Checks, failed : BOOLEAN]
Copy == [id : Connections, conn : Row, rank : Nat]

Enabled(c) == row[c] \in Row /\ ~row[c].disabled
Busy == {c \in Connections : inflight[c] # Nothing}

Init ==
  /\ row \in [Connections -> {NotYet} \cup [settings : Settings, disabled : {FALSE}]]
  /\ invalidating = [c \in Connections |-> 0]
  /\ generations = [c \in Connections |-> 0]
  /\ snapshots = [c \in Connections |-> Nothing]
  /\ done = <<>>
  /\ inflight = [c \in Connections |-> Nothing]
  /\ pass = {}
  /\ changes = 0

--------------------------------------------------------------------------------
(* Administrators                                                             *)

\* add_connection; the id is one that was never used
Add(c) ==
  /\ row[c] = NotYet /\ changes < MaxChanges
  /\ \E s \in Settings : row' = [row EXCEPT ![c] = [settings |-> s, disabled |-> FALSE]]
  /\ changes' = changes + 1
  /\ UNCHANGED <<invalidating, generations, snapshots, done, inflight, pass>>

\* edit_connection, up to its commit
Edit(c) ==
  /\ row[c] \in Row /\ changes < MaxChanges
  /\ \E r \in Row : row' = [row EXCEPT ![c] = r]
  /\ invalidating' = [invalidating EXCEPT ![c] = @ + 1]
  /\ changes' = changes + 1
  /\ UNCHANGED <<generations, snapshots, done, inflight, pass>>

\* edit_connection, after its commit: InventoryCache.invalidate
Invalidate(c) ==
  /\ invalidating[c] > 0
  /\ invalidating' = [invalidating EXCEPT ![c] = @ - 1]
  /\ snapshots' = [snapshots EXCEPT ![c] = Nothing]
  /\ done' = SelectSeq(done, LAMBDA d : d # c)
  /\ generations' = [generations EXCEPT ![c] = @ + 1]
  /\ UNCHANGED <<row, inflight, pass, changes>>

\* delete_connection leaves the cache alone
Delete(c) ==
  /\ row[c] \in Row /\ changes < MaxChanges
  /\ row' = [row EXCEPT ![c] = Deleted]
  /\ changes' = changes + 1
  /\ UNCHANGED <<invalidating, generations, snapshots, done, inflight, pass>>

--------------------------------------------------------------------------------
(* The scheduler thread, _run                                                 *)

\* Mutant of Rank: no sort, the order of the table.
RankAsListed(c) == 0

\* completedAt as a sort key: a connection without a snapshot comes first.
Rank(c) == IF \E i \in DOMAIN done : done[i] = c THEN CHOOSE i \in DOMAIN done : done[i] = c ELSE 0

List ==
  /\ pass = {}
  /\ pass' = {[id |-> c, conn |-> row[c], rank |-> Rank(c)] : c \in {d \in Connections : Enabled(d)}}
  /\ UNCHANGED <<row, invalidating, generations, snapshots, done, inflight, changes>>

\* The sort is stable.
Turn(p) ==
  /\ p \in pass
  /\ \A q \in pass : p.rank < q.rank \/ (p.rank = q.rank /\ p.id <= q.id)

\* Already being probed, completed less than a TTL ago, or no slot is free.
Refused(c) ==
  \/ inflight[c] # Nothing
  \/ snapshots[c] # Nothing /\ snapshots[c].fresh
  \/ Cardinality(Busy) >= MaxWorkers

\* InventoryCache.refresh: the copy is the pass's, the generation is today's
Refresh ==
  /\ \E p \in pass :
       /\ Turn(p)
       /\ pass' = pass \ {p}
       /\ inflight' =
            IF Refused(p.id) THEN inflight
            ELSE [inflight EXCEPT ![p.id] = [conn |-> p.conn, generation |-> generations[p.id],
                                             passed |-> 0, failed |-> FALSE]]
  /\ UNCHANGED <<row, invalidating, generations, snapshots, done, changes>>

--------------------------------------------------------------------------------
(* A probe thread, _refresh                                                   *)

Probing(c) == inflight[c] # Nothing /\ ~inflight[c].failed /\ inflight[c].passed < Checks

\* _enabled holds: the row is still, or again, the one that was copied
Check(c) ==
  /\ Probing(c)
  /\ row[c] = inflight[c].conn
  /\ inflight' = [inflight EXCEPT ![c].passed = @ + 1]
  /\ UNCHANGED <<row, invalidating, generations, snapshots, done, pass, changes>>

\* _enabled does not hold ("connection changed"), or a remote call fails
Fail(c) ==
  /\ Probing(c)
  /\ inflight' = [inflight EXCEPT ![c].failed = TRUE]
  /\ UNCHANGED <<row, invalidating, generations, snapshots, done, pass, changes>>

\* What a probe that failed keeps.
OldData(c) == IF snapshots[c] = Nothing THEN NoData ELSE snapshots[c].of

\* Mutant of Store: the generation is not compared.
StoreAlways(c) ==
  /\ inflight[c] # Nothing /\ ~Probing(c)
  /\ inflight' = [inflight EXCEPT ![c] = Nothing]
  /\ snapshots' = [snapshots EXCEPT ![c] =
       [of |-> IF inflight[c].failed THEN OldData(c) ELSE inflight[c].conn,
        error |-> inflight[c].failed, fresh |-> TRUE]]
  /\ done' = Append(SelectSeq(done, LAMBDA d : d # c), c)
  /\ UNCHANGED <<row, invalidating, generations, pass, changes>>

\* The slot is free again, and the result is kept unless an edit has invalidated it.
Store(c) ==
  /\ inflight[c] # Nothing /\ ~Probing(c)
  /\ inflight' = [inflight EXCEPT ![c] = Nothing]
  /\ IF inflight[c].generation = generations[c]
       THEN /\ snapshots' = [snapshots EXCEPT ![c] =
                 [of |-> IF inflight[c].failed THEN OldData(c) ELSE inflight[c].conn,
                  error |-> inflight[c].failed, fresh |-> TRUE]]
            /\ done' = Append(SelectSeq(done, LAMBDA d : d # c), c)
       ELSE UNCHANGED <<snapshots, done>>
  /\ UNCHANGED <<row, invalidating, generations, pass, changes>>

\* The TTL of five seconds is over.  A pass is a loop without a remote call, so none
\* ends within one.
Expire(c) ==
  /\ pass = {}
  /\ snapshots[c] # Nothing /\ snapshots[c].fresh
  /\ snapshots' = [snapshots EXCEPT ![c].fresh = FALSE]
  /\ UNCHANGED <<row, invalidating, generations, done, inflight, pass, changes>>

ProbeStep(c) == Check(c) \/ Fail(c) \/ Store(c)

Next ==
  \/ List \/ Refresh
  \/ \E c \in Connections :
       Add(c) \/ Edit(c) \/ Invalidate(c) \/ Delete(c) \/ ProbeStep(c) \/ Expire(c)

Spec == Init /\ [][Next]_vars
\* The scheduler runs, and a probe ends: every remote call has a timeout.
FairSpec ==
  /\ Spec
  /\ WF_vars(List) /\ WF_vars(Refresh)
  /\ \A c \in Connections : WF_vars(ProbeStep(c))

--------------------------------------------------------------------------------
\* Types; besides, no more probes than slots, and a pass offers a connection once.
TypeOK ==
  /\ row \in [Connections -> Row \cup {NotYet, Deleted}]
  /\ invalidating \in [Connections -> 0..MaxChanges]
  /\ generations \in [Connections -> 0..MaxChanges]
  /\ snapshots \in [Connections -> Snapshot \cup {Nothing}]
  /\ done \in Seq(Connections)
  /\ inflight \in [Connections -> Probe \cup {Nothing}]
  /\ Cardinality(Busy) <= MaxWorkers
  /\ pass \subseteq Copy
  /\ \A p, q \in pass : p.id = q.id => p = q
  /\ changes \in 0..MaxChanges

\* Once an edit has been answered, readers see no data of the settings it replaced: not
\* from the snapshot it found, not from a probe that was in flight, and not from one
\* the scheduler starts later with a copy it took earlier ("an edit invalidated the
\* configuration used by this probe", inventory.py:113).
NoReplacedData ==
  \A c \in Connections :
    /\ row[c] \in Row /\ invalidating[c] = 0
    /\ snapshots[c] # Nothing /\ snapshots[c].of # NoData
    => snapshots[c].of = row[c]

\* From some point on no probe ends between two refresh() calls of one pass.
ProbesEndBetweenPasses ==
  <>[][(\E c \in Connections : inflight[c] # Nothing /\ inflight'[c] = Nothing) => pass = {}]_vars

\* "Oldest completed first prevents a large fleet starving behind 4 slots"
\* (inventory.py:167): a connection that stays enabled is refreshed again and again,
\* whatever the others do and however often its probes were overtaken by edits.
KeepsRefreshing ==
  ProbesEndBetweenPasses =>
    \A c \in Connections :
      <>[]Enabled(c) => []<>(snapshots[c] # Nothing /\ snapshots[c].fresh)
================================================================================
