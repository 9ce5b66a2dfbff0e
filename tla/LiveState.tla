------------------------------- MODULE LiveState -------------------------------
(* How one browser follows the state of the server: handlers and the worker   *)
(* commit and then bump a counter (app/statebus.py), the state stream         *)
(* (app/api.py) turns a new counter value into a ping, and the browser        *)
(* (web/app.js, web/store.js) refetches /api/state on a ping, every 30        *)
(* seconds, when the user moves to another screen and after a removal.  One   *)
(* fetch is in flight at a time; rows the user has removed are kept out of    *)
(* the view for ten seconds (tombstones).  An action is one transaction, one  *)
(* turn of the stream's loop or one turn of the browser's event loop.         *)
EXTENDS Naturals

CONSTANTS
  Ids,        \* ids of rows a user may remove: deployments, connections, networks
  MaxCommits, \* bound: commits that change a row
  MaxEvents,  \* bound: screens entered, streams dropped and fetches failed
  Env         \* what the environment may do

AllEnv == {"poll",      \* the 30 s poll happens
           "silent",    \* a commit that is not followed by a bump
           "slow",      \* a response may take longer than a tombstone stands
           "remove", "drop", "fail", "navigate"}
ASSUME LiveConstants == MaxCommits \in Nat /\ MaxEvents \in Nat /\ Env \subseteq AllEnv

Versions == 0..MaxCommits \* of a row: the commit that wrote it; 0 if there is none

VARIABLES
  rows,      \* server: id -> version
  commits,   \* commits so far
  unbumped,  \* commits not yet followed by their bump
  unseen,    \* statebus.version() is not the stream's `last`; also while it reconnects
  connected, \* the stream is open
  ping,      \* a state event is on its way to the browser
  quiet,     \* the screen manages its own data (route is newtemplate or job)
  fetch,     \* inflight: "none", "sent", or "answered" by the server
  content,   \* what the server has answered
  view,      \* window.GD: id -> version
  tomb,      \* removedRows: id -> "none", "stands" or "old" (past TOMBSTONE_MS)
  late,      \* ids removed while the present fetch was in flight
  removal,   \* id -> where its removal is
  removed,   \* id -> the version the user's last removal has deleted
  events

livestate == <<rows, commits, unbumped, unseen, connected, ping, quiet, fetch, content, view,
          tomb, late, removal, removed, events>>
server == <<rows, commits, unbumped>>
stream == <<unseen, connected, ping, quiet>>
fetching == <<fetch, content>>
store == <<view, tomb, late, removal, removed>>

RemovalPlaces == {"none", "committed", "waiting", "joined"}

LiveInit ==
  /\ rows \in [Ids -> 0..0] /\ commits = 0 /\ unbumped = 0
  /\ unseen = TRUE /\ connected = TRUE /\ ping = FALSE /\ quiet = FALSE
  /\ fetch = "none" /\ content = rows
  /\ view = rows
  /\ tomb = [i \in Ids |-> "none"] /\ late = {}
  /\ removal = [i \in Ids |-> "none"] /\ removed = [i \in Ids |-> 0]
  /\ events = 0

--------------------------------------------------------------------------------
(* The server                                                                 *)

Commit(i, version) ==
  /\ commits < MaxCommits
  /\ commits' = commits + 1
  /\ rows' = [rows EXCEPT ![i] = version]
  /\ \/ unbumped' = unbumped + 1
     \/ "silent" \in Env /\ UNCHANGED unbumped

\* Somebody creates, changes or deletes a row; SQLite may give a free id out again.
Change(i) ==
  /\ Commit(i, commits + 1) \/ (rows[i] # 0 /\ Commit(i, 0))
  /\ UNCHANGED <<stream, fetching, store, events>>

\* statebus.bump()
Bump ==
  /\ unbumped > 0
  /\ unbumped' = unbumped - 1
  /\ unseen' = TRUE
  /\ UNCHANGED <<rows, commits, connected, ping, quiet, fetching, store, events>>

\* The loop of state_stream: a version that is not the last one makes a ping.
StreamTurn ==
  /\ connected /\ unseen
  /\ unseen' = FALSE /\ ping' = TRUE
  /\ UNCHANGED <<server, connected, quiet, fetching, store, events>>

\* The connection breaks, or lives too long; EventSource reconnects by itself and the
\* new stream begins with last = -1.
Drop ==
  /\ "drop" \in Env /\ connected /\ events < MaxEvents
  /\ events' = events + 1
  /\ connected' = FALSE /\ ping' = FALSE
  /\ UNCHANGED <<server, unseen, quiet, fetching, store>>

Reconnect ==
  /\ ~connected
  /\ connected' = TRUE /\ unseen' = TRUE
  /\ UNCHANGED <<server, ping, quiet, fetching, store, events>>

--------------------------------------------------------------------------------
(* The browser asks                                                           *)

\* refresh() without {fresh: true}: a fetch in flight is as good as a new one
Collapsed == IF fetch = "none" THEN fetch' = "sent" ELSE UNCHANGED fetch

\* The `state` event; a quiet screen ignores it.
Ping ==
  /\ ping
  /\ ping' = FALSE
  /\ IF quiet THEN UNCHANGED fetch ELSE Collapsed
  /\ UNCHANGED <<server, unseen, connected, quiet, content, store, events>>

\* Mutant of Poll: only a backstop for dropped streams.
PollWhenDropped ==
  /\ "poll" \in Env
  /\ ~connected /\ ~quiet /\ fetch = "none"
  /\ fetch' = "sent"
  /\ UNCHANGED <<server, stream, content, store, events>>

\* The interval timer.
Poll ==
  /\ "poll" \in Env
  /\ ~quiet /\ fetch = "none"
  /\ fetch' = "sent"
  /\ UNCHANGED <<server, stream, content, store, events>>

\* go(): the effect closes the stream and opens another one; a screen that does not
\* manage its own data refreshes.
Navigate(q) ==
  /\ "navigate" \in Env /\ events < MaxEvents
  /\ events' = events + 1
  /\ quiet' = q
  /\ connected' = TRUE /\ unseen' = TRUE /\ ping' = FALSE
  /\ IF q THEN UNCHANGED fetch ELSE Collapsed
  /\ UNCHANGED <<server, content, store>>

--------------------------------------------------------------------------------
(* A removal: the user deletes a row of the view                              *)

\* The request's handler deletes the row and commits.
Remove(i) ==
  /\ "remove" \in Env
  /\ view[i] # 0 /\ rows[i] # 0 /\ removal[i] = "none"
  /\ Commit(i, 0)
  /\ removal' = [removal EXCEPT ![i] = "committed"]
  /\ removed' = [removed EXCEPT ![i] = rows[i]]
  /\ UNCHANGED <<stream, fetching, view, tomb, late, events>>

\* Mutant of Removed: refresh() as everywhere else.
RemovedCollapses(i) ==
  /\ removal[i] = "committed"
  /\ tomb' = [tomb EXCEPT ![i] = "stands"]
  /\ late' = IF fetch = "none" THEN late ELSE late \cup {i}
  /\ view' = [view EXCEPT ![i] = 0]
  /\ removal' = [removal EXCEPT ![i] = "joined"]
  /\ Collapsed
  /\ UNCHANGED <<server, stream, content, removed, events>>

\* Its success arrives: removeVm and then refresh({fresh: true}), which waits for a fetch
\* that is in flight, or starts one.
Removed(i) ==
  /\ removal[i] = "committed"
  /\ tomb' = [tomb EXCEPT ![i] = "stands"]
  /\ late' = IF fetch = "none" THEN late ELSE late \cup {i}
  /\ view' = [view EXCEPT ![i] = 0]
  /\ removal' = [removal EXCEPT ![i] = IF fetch = "none" THEN "joined" ELSE "waiting"]
  /\ Collapsed
  /\ UNCHANGED <<server, stream, content, removed, events>>

\* TOMBSTONE_MS have passed.
Age(i) ==
  /\ tomb[i] = "stands"
  /\ "slow" \in Env \/ i \notin late
  /\ tomb' = [tomb EXCEPT ![i] = "old"]
  /\ UNCHANGED <<server, stream, fetching, view, late, removal, removed, events>>

--------------------------------------------------------------------------------
(* A fetch of /api/state                                                      *)

Answer ==
  /\ fetch = "sent"
  /\ fetch' = "answered" /\ content' = rows
  /\ UNCHANGED <<server, stream, store, events>>

\* The fetch is over: removals that joined it are done, those that waited it out call
\* refresh() at once, the first of them starting the next fetch.
FetchOver ==
  /\ fetch' = IF \E i \in Ids : removal[i] = "waiting" THEN "sent" ELSE "none"
  /\ removal' = [i \in Ids |-> CASE removal[i] = "waiting" -> "joined"
                                 [] removal[i] = "joined" -> "none"
                                 [] OTHER -> removal[i]]
  /\ late' = {}

\* Mutant of Shown: the response is shown as it is.
ShownUnfiltered(i) == content[i]

\* What of the response is shown, now that old tombstones have been dropped.
Shown(i) == IF tomb[i] = "stands" THEN 0 ELSE content[i]

Deliver ==
  /\ fetch = "answered"
  /\ view' = [i \in Ids |-> Shown(i)]
  /\ tomb' = [i \in Ids |-> IF tomb[i] = "old" THEN "none" ELSE tomb[i]]
  /\ FetchOver
  /\ UNCHANGED <<server, stream, content, removed, events>>

\* The request fails on its way, or its response does.
FetchFails ==
  /\ "fail" \in Env /\ fetch # "none" /\ events < MaxEvents
  /\ events' = events + 1
  /\ FetchOver
  /\ UNCHANGED <<server, stream, content, view, tomb, removed>>

LiveNext ==
  \/ Bump \/ StreamTurn \/ Drop \/ Reconnect \/ Ping \/ Poll \/ Answer \/ Deliver \/ FetchFails
  \/ \E q \in BOOLEAN : Navigate(q)
  \/ \E i \in Ids : Change(i) \/ Remove(i) \/ Removed(i) \/ Age(i)

LiveSpec == LiveInit /\ [][LiveNext]_livestate
\* Handlers, the stream's loop, the browser's events and timers go on.
LiveFairSpec ==
  /\ LiveSpec
  /\ WF_livestate(Bump) /\ WF_livestate(StreamTurn) /\ WF_livestate(Reconnect) /\ WF_livestate(Ping)
  /\ WF_livestate(Poll) /\ WF_livestate(Answer) /\ WF_livestate(Deliver)
  /\ \A i \in Ids : WF_livestate(Removed(i)) /\ WF_livestate(Age(i))

--------------------------------------------------------------------------------
LiveTypeOK ==
  /\ rows \in [Ids -> Versions] /\ commits \in Versions /\ unbumped \in 0..commits
  /\ unseen \in BOOLEAN /\ connected \in BOOLEAN /\ ping \in BOOLEAN /\ quiet \in BOOLEAN
  /\ fetch \in {"none", "sent", "answered"} /\ content \in [Ids -> Versions]
  /\ view \in [Ids -> Versions]
  /\ tomb \in [Ids -> {"none", "stands", "old"}] /\ late \subseteq Ids
  /\ removal \in [Ids -> RemovalPlaces]
  /\ removed \in [Ids -> Versions]
  /\ events \in 0..MaxEvents
  /\ \A i \in Ids : removal[i] \in {"waiting", "joined"} => fetch # "none"

\* "The tombstone stops an in-flight stale response from resurrecting it" (store.js):
\* once it has gone from the view, a row the user removed is not shown again, unless
\* the id is given out again.
NoGhost ==
  \A i \in Ids : removal[i] # "committed" => view[i] = 0 \/ view[i] > removed[i]

\* "... the result is guaranteed to reflect the change" (store.js): the fetch that
\* refresh({fresh: true}) ends with was answered after the row had been deleted.
FreshReflects ==
  [][\A i \in Ids :
       removal[i] = "joined" /\ fetch = "answered" => content[i] = 0 \/ content[i] > removed[i]]_livestate

\* When changes stop on a screen that is kept up to date, the view becomes what the
\* server has: no ping that met an older fetch, no dropped stream, no commit without a
\* bump and no tombstone keeps them apart for good.
Converges == <>[]~quiet => <>[](view = rows)
================================================================================
