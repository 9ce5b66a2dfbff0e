-------------------------------- MODULE Consoles --------------------------------
(* Live views of one user: the serial and graphical consoles of a VM and the    *)
(* event stream of a job (app/api.py 1805-2160, 3117-3190).  Each is granted    *)
(* once, at its handshake, and outlives that request; what the grant rests on   *)
(* is edited meanwhile by other requests.                                       *)
EXTENDS Integers, FiniteSets

CONSTANTS
  Targets,     \* deployments; for a stream, jobs
  Owned,       \* those that belong to the user
  Sockets,     \* WebSockets and event streams
  Tokens,      \* one-time tokens of the graphical console
  MaxChanges   \* bound: edits of the rows a grant rests on

ASSUME OwnedTargets == Owned \subseteq Targets
ASSUME MaxChangesNat == MaxChanges \in Nat

VARIABLES
  viewer,     \* the user's row
  upstream,   \* the connection's row; identity stands for what binds a bridge to it
  exists,     \* the rows of the targets that are there
  token,      \* _VNC_SESS
  socket,     \* place and grant of each socket
  edits

consoles == <<viewer, upstream, exists, token, socket, edits>>

Kinds == {"serial", "vnc", "stream"}
Closed == [pc |-> "closed"]
\* _ConsoleGrant; a stream keeps the user's epoch only.
Grant(kind, pc, m) ==
  [pc |-> pc, kind |-> kind, on |-> m,
   epoch |-> viewer.epoch, identity |-> upstream.identity]

ConsolesInit ==
  /\ viewer \in [enabled : {TRUE}, admin : BOOLEAN, epoch : {0}]
  /\ upstream = [enabled |-> TRUE, identity |-> 0]
  /\ exists = Targets
  /\ token = [t \in Tokens |-> "none"]
  /\ socket = [s \in Sockets |-> Closed]
  /\ edits = 0

Edit ==
  /\ edits < MaxChanges
  /\ edits' = edits + 1
  /\ UNCHANGED <<token, socket>>
\* disable, enable, change of role; a revocation of the sessions
EditViewer ==
  /\ Edit
  /\ viewer' \in {[viewer EXCEPT !.enabled = ~@], [viewer EXCEPT !.admin = ~@],
                  [viewer EXCEPT !.epoch = @ + 1]}
  /\ UNCHANGED <<upstream, exists>>
\* edit_connection: disable, enable, other host, port, token or certificate policy
EditUpstream ==
  /\ Edit
  /\ upstream' \in {[upstream EXCEPT !.enabled = ~@], [upstream EXCEPT !.identity = @ + 1]}
  /\ UNCHANGED <<viewer, exists>>
\* The deployment is destroyed, the job purged.
Vanish(m) ==
  /\ Edit
  /\ m \in exists
  /\ exists' = exists \ {m}
  /\ UNCHANGED <<viewer, upstream>>

\* owner-or-admin
Allowed(m) == m \in exists /\ (m \in Owned \/ viewer.admin)
\* current_user, and the same test in _ws_authorized_dep
SignedIn(epoch) == viewer.enabled /\ viewer.epoch = epoch
Authorized(m, epoch) == SignedIn(epoch) /\ Allowed(m) /\ upstream.enabled

\* Mutant of GrantValid: only the user's session is read again.
GrantOfSession(g) == SignedIn(g.epoch)

\* _console_grant_still_valid
GrantValid(g) == Authorized(g.on, g.epoch) /\ g.identity = upstream.identity
\* the two checks at every turn of stream_job's loop
StreamValid(g) == SignedIn(g.epoch) /\ Allowed(g.on)
StillValid(g) == IF g.kind = "stream" THEN StreamValid(g) ELSE GrantValid(g)

Put(s, record) == socket' = [socket EXCEPT ![s] = record]
Stays == UNCHANGED <<viewer, upstream, exists, edits>>

\* _sweep_vnc_sessions
Swept == [t \in Tokens |-> IF token[t] = "expired" THEN "none" ELSE token[t]]

\* vm_vncproxy
VncProxy(t) ==
  /\ token[t] = "none"
  /\ \E m \in Targets :
       /\ Authorized(m, viewer.epoch)
       /\ token' = [Swept EXCEPT ![t] = m]
  /\ UNCHANGED socket /\ Stays

Expire(t) ==
  /\ token[t] \in Targets
  /\ token' = [token EXCEPT ![t] = "expired"]
  /\ UNCHANGED socket /\ Stays

\* vm_vnc takes the token out of the table before it looks at anything else.
TakenOut(t) == [Swept EXCEPT ![t] = "none"]

\* vm_vnc up to the accepted upgrade
ConnectVnc(s, t, m, epoch) ==
  /\ socket[s] = Closed
  /\ token' = TakenOut(t)
  /\ IF Authorized(m, epoch) /\ token[t] = m
       THEN Put(s, Grant("vnc", "connecting", m))
       ELSE UNCHANGED socket
  /\ Stays

\* vm_console up to the accepted upgrade
ConnectSerial(s, m, epoch) ==
  /\ socket[s] = Closed
  /\ Authorized(m, epoch)
  /\ Put(s, Grant("serial", "accepted", m))
  /\ UNCHANGED token /\ Stays

\* _prepare_serial_console, which may wait for the deployment's lock: the user's
\* right is read again; the connection may have been replaced.
PrepareSerial(s) ==
  /\ socket[s].pc = "accepted"
  /\ \/ Authorized(socket[s].on, socket[s].epoch) /\ Put(s, [socket[s] EXCEPT !.pc = "connecting"])
     \/ Put(s, Closed)
  /\ UNCHANGED token /\ Stays

\* The connection to Proxmox opens and _pump_ws starts, or it fails.
Open(s) ==
  /\ socket[s].pc = "connecting"
  /\ \/ Put(s, [socket[s] EXCEPT !.pc = "open"])
     \/ Put(s, Closed)
  /\ UNCHANGED token /\ Stays

\* stream_job: handshake
ConnectStream(s, m, epoch) ==
  /\ socket[s] = Closed
  /\ SignedIn(epoch) /\ Allowed(m)
  /\ Put(s, Grant("stream", "open", m))
  /\ UNCHANGED token /\ Stays

\* monitor_authorization after its interval; a turn of the stream's loop
Monitor(s) ==
  /\ socket[s].pc = "open" /\ ~StillValid(socket[s])
  /\ Put(s, Closed)
  /\ UNCHANGED token /\ Stays

\* Either side ends, or an hour of a stream is over.
Hangup(s) ==
  /\ socket[s].pc # "closed"
  /\ Put(s, Closed)
  /\ UNCHANGED token /\ Stays

\* The table of tokens and the sockets are memory of the process.
Restart ==
  /\ socket # [s \in Sockets |-> Closed] \/ Swept # [t \in Tokens |-> "none"]
  /\ socket' = [s \in Sockets |-> Closed]
  /\ token' = [t \in Tokens |-> "none"]
  /\ Stays

ConsolesNext ==
  \/ EditViewer \/ EditUpstream \/ Restart
  \/ \E m \in Targets : Vanish(m)
  \/ \E t \in Tokens : VncProxy(t) \/ Expire(t)
  \/ \E s \in Sockets : PrepareSerial(s) \/ Open(s) \/ Monitor(s) \/ Hangup(s)
  \/ \E s \in Sockets, m \in Targets, epoch \in 0..viewer.epoch :
       \/ \E t \in Tokens : ConnectVnc(s, t, m, epoch)
       \/ ConnectSerial(s, m, epoch) \/ ConnectStream(s, m, epoch)

\* Bounded waits: the lock is released, a connect takes 15 s, the monitor turns every 3 s.
ConsolesFairness ==
  \A s \in Sockets : WF_consoles(PrepareSerial(s)) /\ WF_consoles(Open(s)) /\ WF_consoles(Monitor(s))

ConsolesSpec == ConsolesInit /\ [][ConsolesNext]_consoles /\ ConsolesFairness

--------------------------------------------------------------------------------
ConsolesTypeOK ==
  /\ viewer \in [enabled : BOOLEAN, admin : BOOLEAN, epoch : Nat]
  /\ upstream \in [enabled : BOOLEAN, identity : Nat]
  /\ exists \subseteq Targets
  /\ token \in [Tokens -> Targets \cup {"none", "expired"}]
  /\ socket \in [Sockets -> {Closed} \cup
       [pc : {"accepted", "connecting", "open"}, kind : Kinds, on : Targets,
        epoch : Nat, identity : Nat]]
  /\ edits \in 0..MaxChanges

\* The right to look, written from the rows alone.
Entitled(g) ==
  /\ viewer.enabled /\ viewer.epoch = g.epoch
  /\ g.on \in exists /\ (g.on \in Owned \/ viewer.admin)
  /\ g.kind # "stream" => upstream = [enabled |-> TRUE, identity |-> g.identity]

\* A live view closes after its user, deployment or connection was revoked, replaced or
\* removed (api.py 1823-1845, 3147-3158), also if that happened between the handshake
\* and the first check: none goes on for ever without the right to it.
RevokedViewCloses ==
  \A s \in Sockets : []<>(socket[s] = Closed \/ Entitled(socket[s]))
================================================================================
