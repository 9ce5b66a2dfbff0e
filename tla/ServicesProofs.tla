----------------------------- MODULE ServicesProofs ----------------------------
(* The accounts and the consoles, and all the components of Services together:  *)
(* whatever is proved of one of them holds in the composition that is checked.  *)
EXTENDS Services, OperationsProofs, FiniteSetTheorems, TLAPS

--------------------------------------------------------------------------------
(* For every set of users and handlers: the table of Accounts is well typed, an *)
(* administrator remains, wrong passwords are counted, first-run setup happens  *)
(* once, and a revocation revokes every cookie signed before it, unless one of  *)
(* the same user was overtaken by another handler's commit.                     *)

\* Each lock names the handler that is between its check and its commit.
LocksNamed ==
  \A h \in Handlers :
    /\ adminLock = h <=> handler[h].op \in AdminOps /\ handler[h].pc = "commit"
    /\ setupLock = h <=> Doing(h, "setup", "commit")

\* A handler that was let in by a session or by an account rests on a row that is there.
RowsThere(h) ==
  /\ handler[h].op \notin {"none", "setup", "login", "wrong"} => user[handler[h].by].status # "absent"
  /\ \/ handler[h].op \in {"login", "wrong", "logout", "password"}
     \/ handler[h].op \in AdminOps \cup {"reset"} /\ handler[h].pc = "commit"
     => user[handler[h].on].status # "absent"
Present ==
  \A h \in Handlers : RowsThere(h) /\ (handler[h].by = Nobody => handler[h].op \in {"none", "setup", "login", "wrong"})

\* Rows that are not there are blank, and cookies are signed for rows that are.
Blanks ==
  /\ \A u \in Users : user[u].status = "absent" => user[u].failures = 0 /\ user[u].epoch = 0
  /\ \A c \in issued : user[c[1]].status # "absent"

\* What _last_admin_guard found is still so when the handler commits.
Guarded ==
  \A h \in Handlers :
    handler[h].op \in {"demote", "disable", "delete"} /\ handler[h].pc = "commit"
    => \E v \in ActiveAdmins : v # handler[h].on

\* The guesses at an account are among the failures that its row counts.
GuessesCounted == \A u \in Users : guesses[u] <= user[u].failures

AccountsInv ==
  /\ AccountsTypeOK /\ LocksNamed /\ Present /\ Blanks /\ Guarded /\ GuessesCounted
  /\ AdministratorRemains /\ SetupOnce

--------------------------------------------------------------------------------
\* What the counter of failures may be
Failures == 0..(LockThreshold - 1)

LEMMA FailuresTyped ==
  /\ 0 \in Failures
  /\ \A f \in Failures : f \in Nat /\ (~(f + 1 >= LockThreshold) => f + 1 \in Failures)
BY ThresholdPositive DEF Failures

LEMMA RowShape ==
  Row = [status : {"absent", "live", "disabled", "deleted"}, role : {"admin", "user"},
         epoch : Nat, overtaken : BOOLEAN, failures : Failures, lock : {"none", "on", "past"}]
BY DEF Row, Failures

LEMMA NewRows ==
  /\ NoAccount \in Row /\ Administrator \in Row
  /\ NoAccount.status = "absent" /\ NoAccount.failures = 0 /\ NoAccount.epoch = 0
  /\ Administrator.status = "live" /\ Administrator.role = "admin"
  /\ Administrator.failures = 0 /\ Administrator.epoch = 0
  /\ \A role \in {"admin", "user"} : [Administrator EXCEPT !.role = role] \in Row
BY FailuresTyped, RowShape DEF NoAccount, Administrator

\* A row stays a row whatever a commit does to it.
LEMMA RowsTyped ==
  ASSUME NEW row \in Row, NEW seen \in Row
  PROVE  /\ Reset(row, seen) \in Row
         /\ Failed(row, seen) \in Row
         /\ Raised(row, seen) \in Row
         /\ \A op \in AdminOps : Edited(op, row, seen) \in Row
<1>1. Reset(row, seen) \in Row
  BY FailuresTyped, RowShape DEF Reset
<1>2. Failed(row, seen) \in Row
  BY FailuresTyped, RowShape DEF Failed
<1>3. seen.epoch + 1 \in Nat
  BY DEF Row
<1>4. \A r \in Row : Raised(r, seen) \in Row
  BY <1>3, RowShape DEF Raised
<1>5. Edited("delete", row, seen) \in Row
  BY <1>1, <1>4, RowShape DEF Edited
<1>6. \A op \in {"demote", "promote", "disable", "enable"} : Edited(op, row, seen) \in Row
  BY RowShape DEF Edited
<1> QED
  BY <1>1, <1>2, <1>4, <1>5, <1>6 DEF AdminOps

\* ... and only edits and deletions change who may do what.
LEMMA RowsKept ==
  ASSUME NEW row \in Row, NEW seen \in Row
  PROVE  /\ Reset(row, seen).status = row.status /\ Reset(row, seen).role = row.role
         /\ Reset(row, seen).epoch = row.epoch /\ Reset(row, seen).overtaken = row.overtaken
         /\ Failed(row, seen).status = row.status /\ Failed(row, seen).role = row.role
         /\ Failed(row, seen).epoch = row.epoch /\ Failed(row, seen).overtaken = row.overtaken
         /\ Raised(row, seen).status = row.status /\ Raised(row, seen).role = row.role
         /\ Raised(row, seen).epoch = seen.epoch + 1
         /\ Raised(row, seen).failures = row.failures
         /\ Raised(row, seen).overtaken = (row.overtaken \/ row.epoch # seen.epoch)
BY DEF Row, Reset, Failed, Raised

LEMMA ResetRaised ==
  ASSUME NEW row \in Row, NEW seen \in Row
  PROVE  LET raised == Raised(Reset(row, seen), seen) IN
           /\ raised \in Row /\ raised.epoch = seen.epoch + 1
           /\ raised.overtaken = (row.overtaken \/ row.epoch # seen.epoch)
<1> DEFINE reset == Reset(row, seen)
<1>1. reset \in Row
  BY RowsTyped, Zenon
<1>2. reset.epoch = row.epoch /\ reset.overtaken = row.overtaken
  BY RowsKept, Zenon
<1> HIDE DEF reset
<1>3. Raised(reset, seen) \in Row
  BY <1>1, RowsTyped, Zenon
<1>4. /\ Raised(reset, seen).epoch = seen.epoch + 1
      /\ Raised(reset, seen).overtaken = (reset.overtaken \/ reset.epoch # seen.epoch)
  BY <1>1, RowsKept, Zenon
<1> QED
  BY <1>2, <1>3, <1>4, Zenon DEF reset

LEMMA InitAccountsInv == AccountsInit => AccountsInv
<1> SUFFICES ASSUME AccountsInit PROVE AccountsInv
  OBVIOUS
<1>1. \A u \in Users : user[u] \in {NoAccount, Administrator}
  BY DEF AccountsInit
<1>2. AccountsTypeOK
  BY NewRows, MaxRequestsNat DEF AccountsInit, AccountsTypeOK
<1>3. LocksNamed /\ Present /\ Guarded /\ SetupOnce
  <2>1. \A h \in Handlers : handler[h].op = "none" /\ handler[h].pc = "idle"
    BY DEF AccountsInit, Idle
  <2>2. \A h \in Handlers : adminLock # h /\ setupLock # h
    BY HandlersNotNobody DEF AccountsInit
  <2> QED
    BY <2>1, <2>2 DEF LocksNamed, Present, RowsThere, Guarded, SetupOnce, Doing, AdminOps
<1>4. Blanks
  BY <1>1, NewRows DEF AccountsInit, Blanks
<1>5. GuessesCounted
  BY <1>1, NewRows DEF AccountsInit, GuessesCounted
<1>6. AdministratorRemains
  BY <1>1, NewRows DEF AccountsInit, AdministratorRemains, ActiveAdmins, Live
<1> QED
  BY <1>2, <1>3, <1>4, <1>5, <1>6 DEF AccountsInv

\* What the place of a handler says of its type.
LEMMA HandlersTyped ==
  ASSUME AccountsTypeOK, NEW h \in Handlers, handler[h].op # "none"
  PROVE  /\ handler[h] \in Local /\ handler[h] # Idle
         /\ handler[h].op \in Ops /\ handler[h].on \in Users
         /\ handler[h].by \in Users \cup {Nobody} /\ handler[h].seen \in Row
BY DEF AccountsTypeOK, Local, Idle

LEMMA EndedHandler ==
  ASSUME AccountsTypeOK, NEW h \in Handlers, Ends(h)
  PROVE  /\ handler' \in [Handlers -> Local \cup {Idle}]
         /\ handler'[h].op = "none" /\ handler'[h].pc = "idle"
         /\ \A k \in Handlers \ {h} : handler'[k] = handler[k]
BY DEF AccountsTypeOK, Ends, Idle

LEMMA WrittenRow ==
  ASSUME AccountsTypeOK, NEW u \in Users, NEW row \in Row, WriteUser(u, row)
  PROVE  /\ user' \in [Users -> Row] /\ user'[u] = row
         /\ \A v \in Users \ {u} : user'[v] = user[v]
BY DEF AccountsTypeOK, WriteUser

\* A row that keeps its status and its role keeps what rests on them.
LEMMA SameRights ==
  ASSUME \A u \in Users : user'[u].status = user[u].status /\ user'[u].role = user[u].role
  PROVE  ActiveAdmins' = ActiveAdmins /\ NobodyYet' = NobodyYet
BY DEF ActiveAdmins, Live, NobodyYet

\* A commit of a handler that holds no lock and changes nobody's rights.
LEMMA SessionCommit ==
  ASSUME AccountsInv, NEW h \in Handlers,
         handler[h].op \in {"login", "wrong", "logout", "password", "reset"},
         handler[h].pc = "commit",
         NEW row \in Row, WriteUser(handler[h].on, row), Ends(h),
         row.status = user[handler[h].on].status, row.role = user[handler[h].on].role,
         UNCHANGED <<adminLock, setupLock, requests>>
  PROVE  /\ user' \in [Users -> Row] /\ handler' \in [Handlers -> Local \cup {Idle}]
         /\ LocksNamed' /\ Present' /\ Guarded' /\ AdministratorRemains' /\ SetupOnce'
         /\ \A u \in Users : user'[u].status = user[u].status
         /\ user[handler[h].on].status # "absent"
<1>1. handler[h].on \in Users
  BY HandlersTyped DEF AccountsInv
<1>2. /\ user' \in [Users -> Row] /\ user'[handler[h].on] = row
      /\ \A v \in Users \ {handler[h].on} : user'[v] = user[v]
  BY <1>1, WrittenRow DEF AccountsInv
<1>3. /\ handler' \in [Handlers -> Local \cup {Idle}]
      /\ handler'[h].op = "none" /\ handler'[h].pc = "idle"
      /\ \A k \in Handlers \ {h} : handler'[k] = handler[k]
  BY EndedHandler DEF AccountsInv
<1>4. \A u \in Users : user'[u].status = user[u].status /\ user'[u].role = user[u].role
  BY <1>2
<1>5. ActiveAdmins' = ActiveAdmins /\ NobodyYet' = NobodyYet
  BY <1>4, SameRights
<1>6. LocksNamed'
  BY <1>3 DEF AccountsInv, LocksNamed, Doing, AdminOps
<1>7. Present'
  <2> SUFFICES ASSUME NEW k \in Handlers PROVE RowsThere(k)' /\ (handler'[k].by = Nobody => handler'[k].op \in {"none", "setup", "login", "wrong"})
    BY DEF Present
  <2>1. CASE k = h
    BY <2>1, <1>3 DEF RowsThere, AdminOps
  <2>2. CASE k # h
    <3>1. handler'[k] = handler[k]
      BY <2>2, <1>3
    <3>2. CASE handler[k].op = "none"
      BY <3>1, <3>2 DEF RowsThere, AdminOps
    <3>3. CASE handler[k].op # "none"
      BY <3>1, <3>3, <1>4, HandlersTyped DEF AccountsInv, Present, RowsThere
    <3> QED
      BY <3>2, <3>3
  <2> QED
    BY <2>1, <2>2
<1>8. Guarded'
  BY <1>3, <1>5 DEF AccountsInv, Guarded
<1>9. AdministratorRemains'
  BY <1>4, <1>5 DEF AccountsInv, AdministratorRemains
<1>10. SetupOnce'
  BY <1>3, <1>5 DEF AccountsInv, SetupOnce, Doing
<1>11. user[handler[h].on].status # "absent"
  BY DEF AccountsInv, Present, RowsThere
<1> QED
  BY <1>2, <1>3, <1>4, <1>6, <1>7, <1>8, <1>9, <1>10, <1>11

\* Every commit of a session: what is left to show is its cookie and its guesses.
LEMMA SessionTyped ==
  ASSUME AccountsInv, user' \in [Users -> Row], handler' \in [Handlers -> Local \cup {Idle}],
         UNCHANGED <<adminLock, setupLock, requests>>,
         LocksNamed', Present', Guarded', AdministratorRemains', SetupOnce',
         \A u \in Users : user'[u].status = user[u].status,
         issued' \subseteq Users \X Nat, guesses' \in [Users -> Nat], GuessesCounted',
         \A c \in issued' : c \in issued \/ user[c[1]].status # "absent",
         \A u \in Users : user[u].status = "absent" => user'[u] = user[u]
  PROVE  AccountsInv'
<1>1. AccountsTypeOK'
  BY DEF AccountsInv, AccountsTypeOK
<1>2. Blanks'
  <2>1. \A u \in Users : user'[u].status = "absent" => user'[u].failures = 0 /\ user'[u].epoch = 0
    BY DEF AccountsInv, Blanks
  <2>2. \A c \in issued' : user'[c[1]].status # "absent"
    <3>1. \A c \in issued' : c[1] \in Users
      OBVIOUS
    <3>2. QED
      BY <3>1 DEF AccountsInv, Blanks
  <2> QED
    BY <2>1, <2>2 DEF Blanks
<1> QED
  BY <1>1, <1>2 DEF AccountsInv

LEMMA LoginSucceedKeeps == ASSUME AccountsInv, NEW h \in Handlers, LoginSucceed(h) PROVE AccountsInv'
<1> DEFINE u == handler[h].on
           row == Reset(user[u], handler[h].seen)
<1>1. u \in Users /\ user[u] \in Row /\ handler[h].seen \in Row
  BY HandlersTyped DEF LoginSucceed, Doing, AccountsInv, AccountsTypeOK
<1>2. row \in Row /\ row.status = user[u].status /\ row.role = user[u].role /\ row.epoch = user[u].epoch
  BY <1>1, RowsTyped, RowsKept
<1>3. WriteUser(u, row) /\ Ends(h) /\ guesses' = [guesses EXCEPT ![u] = 0] /\ Sign(u)
      /\ handler[h].op = "login" /\ handler[h].pc = "commit"
      /\ UNCHANGED <<adminLock, setupLock, requests>>
  BY DEF LoginSucceed, Doing
<1> HIDE DEF u, row
<1>4. /\ user' \in [Users -> Row] /\ user'[u] = row
      /\ \A v \in Users \ {u} : user'[v] = user[v]
  BY <1>1, <1>2, <1>3, WrittenRow DEF AccountsInv
<1>5. /\ user' \in [Users -> Row] /\ handler' \in [Handlers -> Local \cup {Idle}]
      /\ LocksNamed' /\ Present' /\ Guarded' /\ AdministratorRemains' /\ SetupOnce'
      /\ \A v \in Users : user'[v].status = user[v].status
      /\ user[u].status # "absent"
  BY <1>1, <1>2, <1>3, SessionCommit DEF u
<1>6. issued' \subseteq Users \X Nat /\ \A c \in issued' : c \in issued \/ user[c[1]].status # "absent"
  BY <1>1, <1>3, <1>4, <1>5, <1>2 DEF Sign, AccountsInv, AccountsTypeOK, Row
<1>7. guesses' \in [Users -> Nat] /\ GuessesCounted'
  <2>1. guesses' \in [Users -> Nat] /\ guesses'[u] = 0 /\ \A v \in Users \ {u} : guesses'[v] = guesses[v]
    BY <1>1, <1>3 DEF AccountsInv, AccountsTypeOK
  <2>2. user'[u].failures >= 0
    BY <1>2, <1>4 DEF Row
  <2> QED
    BY <2>1, <2>2, <1>4 DEF AccountsInv, GuessesCounted
<1> QED
  BY <1>3, <1>4, <1>5, <1>6, <1>7, SessionTyped

LEMMA LoginFailKeeps == ASSUME AccountsInv, NEW h \in Handlers, LoginFail(h) PROVE AccountsInv'
<1> DEFINE u == handler[h].on
           row == Failed(user[u], handler[h].seen)
<1>1. u \in Users /\ user[u] \in Row /\ handler[h].seen \in Row
  BY HandlersTyped DEF LoginFail, Doing, AccountsInv, AccountsTypeOK
<1>2. row \in Row /\ row.status = user[u].status /\ row.role = user[u].role
      /\ row.failures \in {0, user[u].failures + 1}
  BY <1>1, RowsTyped, RowsKept DEF Failed, Row
<1>3. WriteUser(u, row) /\ Ends(h)
      /\ guesses' = [guesses EXCEPT ![u] = IF row.failures = 0 THEN 0 ELSE @ + 1]
      /\ handler[h].op = "wrong" /\ handler[h].pc = "commit"
      /\ UNCHANGED <<issued, adminLock, setupLock, requests>>
  BY DEF LoginFail, Doing
<1> HIDE DEF u, row
<1>4. /\ user' \in [Users -> Row] /\ user'[u] = row
      /\ \A v \in Users \ {u} : user'[v] = user[v]
  BY <1>1, <1>2, <1>3, WrittenRow DEF AccountsInv
<1>5. /\ user' \in [Users -> Row] /\ handler' \in [Handlers -> Local \cup {Idle}]
      /\ LocksNamed' /\ Present' /\ Guarded' /\ AdministratorRemains' /\ SetupOnce'
      /\ \A v \in Users : user'[v].status = user[v].status
      /\ user[u].status # "absent"
  BY <1>1, <1>2, <1>3, SessionCommit DEF u
<1>6. issued' \subseteq Users \X Nat
  BY <1>3 DEF AccountsInv, AccountsTypeOK
<1>7. guesses' \in [Users -> Nat] /\ GuessesCounted'
  <2>1. /\ guesses' \in [Users -> Nat] /\ guesses[u] \in Nat
        /\ guesses'[u] = IF row.failures = 0 THEN 0 ELSE guesses[u] + 1
        /\ \A v \in Users \ {u} : guesses'[v] = guesses[v]
    BY <1>1, <1>3 DEF AccountsInv, AccountsTypeOK
  <2>2. guesses[u] <= user[u].failures /\ user[u].failures \in Nat
    BY <1>1, ThresholdPositive DEF AccountsInv, GuessesCounted, Row
  <2>3. guesses'[u] <= user'[u].failures
    BY <2>1, <2>2, <1>2, <1>4
  <2> QED
    BY <2>1, <2>3, <1>4 DEF AccountsInv, GuessesCounted
<1> QED
  BY <1>3, <1>4, <1>5, <1>6, <1>7, SessionTyped

\* A handler that raises the epoch of its row and, perhaps, signs a cookie for it.
LEMMA RaisingCommit ==
  ASSUME AccountsInv, NEW h \in Handlers, handler[h].pc = "commit",
         handler[h].op \in {"logout", "password"},
         WriteUser(handler[h].on, Raised(user[handler[h].on], handler[h].seen)), Ends(h),
         issued' = issued \/ Sign(handler[h].on),
         UNCHANGED <<adminLock, setupLock, requests, guesses>>
  PROVE  AccountsInv'
<1> DEFINE u == handler[h].on
           row == Raised(user[u], handler[h].seen)
<1>1. u \in Users /\ user[u] \in Row /\ handler[h].seen \in Row
  BY HandlersTyped DEF AccountsInv, AccountsTypeOK
<1>2. row \in Row /\ row.status = user[u].status /\ row.role = user[u].role
      /\ row.failures = user[u].failures
  BY <1>1, RowsTyped, RowsKept
<1>3. WriteUser(u, row) /\ Ends(h)
  OBVIOUS
<1> HIDE DEF u, row
<1>4. /\ user' \in [Users -> Row] /\ user'[u] = row
      /\ \A v \in Users \ {u} : user'[v] = user[v]
  BY <1>1, <1>2, <1>3, WrittenRow DEF AccountsInv
<1>5. /\ user' \in [Users -> Row] /\ handler' \in [Handlers -> Local \cup {Idle}]
      /\ LocksNamed' /\ Present' /\ Guarded' /\ AdministratorRemains' /\ SetupOnce'
      /\ \A v \in Users : user'[v].status = user[v].status
      /\ user[u].status # "absent"
  BY <1>1, <1>2, <1>3, SessionCommit DEF u
<1>6. issued' \subseteq Users \X Nat /\ \A c \in issued' : c \in issued \/ user[c[1]].status # "absent"
  BY <1>1, <1>4, <1>5, <1>2 DEF Sign, AccountsInv, AccountsTypeOK, Row, u
<1>7. guesses' \in [Users -> Nat] /\ GuessesCounted'
  BY <1>4, <1>2 DEF AccountsInv, GuessesCounted, AccountsTypeOK
<1> QED
  BY <1>3, <1>4, <1>5, <1>6, <1>7, SessionTyped

LEMMA LogoutCommitKeeps == ASSUME AccountsInv, NEW h \in Handlers, LogoutCommit(h) PROVE AccountsInv'
BY RaisingCommit DEF LogoutCommit, Doing

LEMMA PasswordCommitKeeps == ASSUME AccountsInv, NEW h \in Handlers, PasswordCommit(h) PROVE AccountsInv'
BY RaisingCommit DEF PasswordCommit, Doing

LEMMA ResetCommitKeeps == ASSUME AccountsInv, NEW h \in Handlers, ResetCommit(h) PROVE AccountsInv'
<1> DEFINE u == handler[h].on
           reset == Reset(user[u], handler[h].seen)
           row == Raised(reset, handler[h].seen)
<1>1. u \in Users /\ user[u] \in Row /\ handler[h].seen \in Row
  BY HandlersTyped DEF ResetCommit, Doing, AccountsInv, AccountsTypeOK
<1>2. reset \in Row /\ reset.status = user[u].status /\ reset.role = user[u].role
  BY <1>1, RowsTyped, RowsKept
<1>3. WriteUser(u, row) /\ Ends(h) /\ guesses' = [guesses EXCEPT ![u] = 0]
      /\ (Sign(u) \/ issued' = issued)
      /\ handler[h].op = "reset" /\ handler[h].pc = "commit"
      /\ UNCHANGED <<adminLock, setupLock, requests>>
  BY DEF ResetCommit, Doing
<1> HIDE DEF u, reset
<1>4. row \in Row /\ row.status = user[u].status /\ row.role = user[u].role
  BY <1>1, <1>2, RowsTyped, RowsKept
<1> HIDE DEF row
<1>5. /\ user' \in [Users -> Row] /\ user'[u] = row
      /\ \A v \in Users \ {u} : user'[v] = user[v]
  BY <1>1, <1>3, <1>4, WrittenRow DEF AccountsInv
<1>6. /\ user' \in [Users -> Row] /\ handler' \in [Handlers -> Local \cup {Idle}]
      /\ LocksNamed' /\ Present' /\ Guarded' /\ AdministratorRemains' /\ SetupOnce'
      /\ \A v \in Users : user'[v].status = user[v].status
      /\ user[u].status # "absent"
  BY <1>1, <1>3, <1>4, SessionCommit DEF u
<1>7. issued' \subseteq Users \X Nat /\ \A c \in issued' : c \in issued \/ user[c[1]].status # "absent"
  BY <1>1, <1>3, <1>4, <1>5, <1>6 DEF Sign, AccountsInv, AccountsTypeOK, Row
<1>8. guesses' \in [Users -> Nat] /\ GuessesCounted'
  <2>1. guesses' \in [Users -> Nat] /\ guesses'[u] = 0 /\ \A v \in Users \ {u} : guesses'[v] = guesses[v]
    BY <1>1, <1>3 DEF AccountsInv, AccountsTypeOK
  <2>2. user'[u].failures >= 0
    BY <1>4, <1>5 DEF Row
  <2> QED
    BY <2>1, <2>2, <1>5 DEF AccountsInv, GuessesCounted
<1> QED
  BY <1>3, <1>5, <1>6, <1>7, <1>8, SessionTyped

LEMMA LockExpiresKeeps == ASSUME AccountsInv, NEW u \in Users, LockExpires(u) PROVE AccountsInv'
<1> DEFINE row == [user[u] EXCEPT !.lock = "past"]
<1>1. user[u] \in Row
  BY DEF AccountsInv, AccountsTypeOK
<1>2. /\ row \in Row /\ row.status = user[u].status /\ row.role = user[u].role
      /\ row.failures = user[u].failures /\ row.epoch = user[u].epoch
  BY <1>1, RowShape
<1>3. WriteUser(u, row) /\ UNCHANGED <<issued, handler, adminLock, setupLock, requests, guesses>>
  BY DEF LockExpires
<1> HIDE DEF row
<1>4. /\ user' \in [Users -> Row] /\ user'[u] = row
      /\ \A v \in Users \ {u} : user'[v] = user[v]
  BY <1>2, <1>3, WrittenRow DEF AccountsInv
<1>5. \A v \in Users : /\ user'[v].status = user[v].status /\ user'[v].role = user[v].role
                       /\ user'[v].failures = user[v].failures /\ user'[v].epoch = user[v].epoch
  BY <1>2, <1>4
<1>6. ActiveAdmins' = ActiveAdmins /\ NobodyYet' = NobodyYet
  BY <1>5, SameRights
<1>7. AccountsTypeOK'
  BY <1>3, <1>4 DEF AccountsInv, AccountsTypeOK
<1>8. LocksNamed' /\ Guarded' /\ SetupOnce' /\ AdministratorRemains'
  BY <1>3, <1>5, <1>6 DEF AccountsInv, LocksNamed, Guarded, SetupOnce, AdministratorRemains, Doing
<1>9. Present'
  <2>1. \A k \in Handlers : RowsThere(k)'
    <3> SUFFICES ASSUME NEW k \in Handlers PROVE RowsThere(k)'
      OBVIOUS
    <3>1. handler'[k] = handler[k] /\ RowsThere(k)
      BY <1>3 DEF AccountsInv, Present
    <3>2. CASE handler[k].op = "none"
      BY <3>1, <3>2 DEF RowsThere, AdminOps
    <3>3. CASE handler[k].op # "none"
      BY <3>1, <3>3, <1>5, HandlersTyped DEF AccountsInv, Present, RowsThere
    <3> QED
      BY <3>2, <3>3
  <2> QED
    BY <2>1, <1>3 DEF AccountsInv, Present
<1>10. Blanks' /\ GuessesCounted'
  BY <1>3, <1>5 DEF AccountsInv, AccountsTypeOK, Blanks, GuessesCounted
<1> QED
  BY <1>7, <1>8, <1>9, <1>10 DEF AccountsInv

\* While somebody got in otherwise than by auth_setup, there is an account.
LEMMA AccountsThere ==
  ASSUME AccountsInv, NEW h \in Handlers, handler[h].op \notin {"none", "setup"}, NobodyYet
  PROVE  FALSE
<1>1. /\ handler[h].on \in Users /\ handler[h].by \in Users \cup {Nobody}
      /\ RowsThere(h)
      /\ handler[h].by = Nobody => handler[h].op \in {"login", "wrong"}
  BY HandlersTyped DEF AccountsInv, Present
<1>2. \E u \in Users : user[u].status # "absent"
  BY <1>1 DEF RowsThere
<1>3. ActiveAdmins # {}
  BY <1>2 DEF AccountsInv, AdministratorRemains
<1> QED
  BY <1>3 DEF ActiveAdmins, Live, NobodyYet

LEMMA BeginKeeps ==
  ASSUME AccountsInv, NEW h \in Handlers, NEW op \in Ops, NEW place \in {"read", "commit"},
         NEW by \in Users \cup {Nobody}, NEW on \in Users, NEW seen \in Row,
         Begin(h, op, place, by, on, seen),
         place = "commit" => op \notin AdminOps \cup {"setup", "reset"},
         op \notin {"setup", "login", "wrong"} => by # Nobody /\ user[by].status # "absent",
         op \in {"login", "wrong", "logout", "password"} => user[on].status # "absent"
  PROVE  AccountsInv'
<1> DEFINE new == [op |-> op, pc |-> place, by |-> by, on |-> on, seen |-> seen]
<1>1. /\ handler[h] = Idle /\ requests < MaxRequests
      /\ handler' = [handler EXCEPT ![h] = new] /\ requests' = requests + 1
      /\ UNCHANGED <<user, issued, adminLock, setupLock, guesses>>
  BY DEF Begin
<1>2. new \in Local
  BY DEF Local
<1>3. new.op = op /\ new.pc = place /\ new.by = by /\ new.on = on
  OBVIOUS
<1> HIDE DEF new
<1>4. /\ handler' \in [Handlers -> Local \cup {Idle}] /\ handler'[h] = new
      /\ \A k \in Handlers \ {h} : handler'[k] = handler[k]
  BY <1>1, <1>2 DEF AccountsInv, AccountsTypeOK
<1>5. AccountsTypeOK'
  BY <1>1, <1>4, MaxRequestsNat DEF AccountsInv, AccountsTypeOK
<1>6. handler[h].op = "none"
  BY <1>1 DEF Idle
<1>7. LocksNamed'
  <2>1. adminLock # h /\ setupLock # h
    BY <1>6 DEF AccountsInv, LocksNamed, Doing, AdminOps
  <2> QED
    BY <2>1, <1>1, <1>3, <1>4 DEF AccountsInv, LocksNamed, Doing
<1>8. Present'
  <2> SUFFICES ASSUME NEW k \in Handlers
               PROVE RowsThere(k)' /\ (handler'[k].by = Nobody => handler'[k].op \in {"none", "setup", "login", "wrong"})
    BY DEF Present
  <2>1. CASE k = h
    BY <2>1, <1>1, <1>3, <1>4, HandlersNotNobody DEF RowsThere, AdminOps
  <2>2. CASE k # h
    BY <2>2, <1>1, <1>4 DEF AccountsInv, Present, RowsThere
  <2> QED
    BY <2>1, <2>2
<1>9. Guarded' /\ SetupOnce'
  BY <1>1, <1>3, <1>4 DEF AccountsInv, Guarded, SetupOnce, Doing, AdminOps, ActiveAdmins, Live, NobodyYet
<1>10. Blanks' /\ GuessesCounted' /\ AdministratorRemains'
  BY <1>1 DEF AccountsInv, Blanks, GuessesCounted, AdministratorRemains, ActiveAdmins, Live
<1> QED
  BY <1>5, <1>7, <1>8, <1>9, <1>10 DEF AccountsInv

LEMMA LoginReadKeeps ==
  ASSUME AccountsInv, NEW h \in Handlers, NEW u \in Users, LoginRead(h, u) PROVE AccountsInv'
<1>1. user[u].status # "absent" /\ user[u] \in Row
  BY DEF LoginRead, Live, AccountsInv, AccountsTypeOK
<1>2. PICK op \in {"login", "wrong"} : Begin(h, op, "commit", Nobody, u, user[u])
  BY DEF LoginRead
<1> QED
  BY <1>1, <1>2, BeginKeeps DEF Ops, AdminOps

LEMMA LogoutReadKeeps ==
  ASSUME AccountsInv, NEW h \in Handlers, NEW u \in Users, LogoutRead(h, u) PROVE AccountsInv'
<1>1. user[u].status # "absent" /\ user[u] \in Row /\ u # Nobody
  BY HandlersNotNobody DEF LogoutRead, AccountsInv, AccountsTypeOK, Blanks
<1>2. Begin(h, "logout", "commit", u, u, user[u])
  BY DEF LogoutRead
<1> QED
  BY <1>1, <1>2, BeginKeeps DEF Ops, AdminOps

LEMMA SetupBeginKeeps ==
  ASSUME AccountsInv, NEW h \in Handlers, NEW u \in Users, SetupBegin(h, u) PROVE AccountsInv'
BY BeginKeeps, NewRows DEF SetupBegin, Ops

LEMMA AuthenticateKeeps ==
  ASSUME AccountsInv, NEW h \in Handlers, NEW u \in Users, NEW v \in Users, NEW op \in Ops,
         Authenticate(h, u, op, v)
  PROVE  AccountsInv'
<1>1. user[u].status # "absent" /\ user[u] \in Row /\ u # Nobody
  BY HandlersNotNobody DEF Authenticate, Valid, Live, AccountsInv, AccountsTypeOK
<1>2. Begin(h, op, IF op \in {"password", "add"} THEN "commit" ELSE "read", u, v, user[u])
  BY DEF Authenticate
<1>3. op \in AdminOps \cup {"password", "reset", "add"} /\ (op = "password" => v = u)
  BY DEF Authenticate, AdminOps
<1>4. CASE op \in {"password", "add"}
  BY <1>1, <1>2, <1>3, <1>4, BeginKeeps DEF AdminOps
<1>5. CASE op \notin {"password", "add"}
  BY <1>1, <1>2, <1>3, <1>5, BeginKeeps DEF AdminOps
<1> QED
  BY <1>4, <1>5

\* A handler that goes on with the row it has read.
LEMMA ContinuedHandler ==
  ASSUME AccountsTypeOK, NEW h \in Handlers, handler[h].op # "none", NEW row \in Row, Continue(h, row)
  PROVE  /\ handler' \in [Handlers -> Local \cup {Idle}]
         /\ handler'[h].op = handler[h].op /\ handler'[h].pc = "commit"
         /\ handler'[h].on = handler[h].on /\ handler'[h].by = handler[h].by
         /\ handler'[h].seen = row
         /\ \A k \in Handlers \ {h} : handler'[k] = handler[k]
<1>1. handler[h] \in Local
  BY HandlersTyped
<1>2. [handler[h] EXCEPT !.pc = "commit", !.seen = row] \in Local
  BY <1>1 DEF Local
<1>3. handler' = [handler EXCEPT ![h] = [handler[h] EXCEPT !.pc = "commit", !.seen = row]]
  BY DEF Continue, AccountsTypeOK
<1> QED
  BY <1>1, <1>2, <1>3 DEF AccountsTypeOK, Local

\* The row a handler works on is in the table: its own user's, or the one it reads.
LEMMA TargetThere ==
  ASSUME AccountsInv, NEW h \in Handlers, handler[h].op \in AdminOps \cup {"reset"}, Exists(Target(h))
  PROVE  /\ Target(h) \in Row
         /\ user[handler[h].on].status # "absent"
<1>1. /\ handler[h].on \in Users /\ handler[h].seen \in Row
      /\ handler[h].by # Nobody
      /\ user[handler[h].by].status # "absent"
  BY HandlersTyped DEF AccountsInv, Present, RowsThere, AdminOps
<1> QED
  BY <1>1 DEF Target, Exists, AccountsInv, AccountsTypeOK

LEMMA ResetReadKeeps == ASSUME AccountsInv, NEW h \in Handlers, ResetRead(h) PROVE AccountsInv'
<1>1. /\ handler[h].op = "reset" /\ handler[h].pc = "read" /\ Continue(h, Target(h))
      /\ UNCHANGED <<user, issued, adminLock, setupLock, requests, guesses>>
  BY DEF ResetRead, Doing
<1>2. Target(h) \in Row /\ user[handler[h].on].status # "absent"
  BY <1>1, TargetThere DEF ResetRead
<1>3. /\ handler' \in [Handlers -> Local \cup {Idle}]
      /\ handler'[h].op = "reset" /\ handler'[h].pc = "commit"
      /\ handler'[h].on = handler[h].on /\ handler'[h].by = handler[h].by
      /\ \A k \in Handlers \ {h} : handler'[k] = handler[k]
  BY <1>1, <1>2, ContinuedHandler DEF AccountsInv
<1>4. AccountsTypeOK'
  BY <1>1, <1>3 DEF AccountsInv, AccountsTypeOK
<1>5. LocksNamed'
  BY <1>1, <1>3 DEF AccountsInv, LocksNamed, Doing, AdminOps
<1>6. Present'
  <2>1. RowsThere(h)'
    BY <1>1, <1>2, <1>3 DEF AccountsInv, Present, RowsThere
  <2>2. \A k \in Handlers \ {h} : RowsThere(k)'
    BY <1>1, <1>3 DEF AccountsInv, Present, RowsThere
  <2> QED
    BY <2>1, <2>2, <1>1, <1>3 DEF AccountsInv, Present
<1>7. Guarded' /\ SetupOnce'
  BY <1>1, <1>3 DEF AccountsInv, Guarded, SetupOnce, Doing, ActiveAdmins, Live, NobodyYet
<1>8. Blanks' /\ GuessesCounted' /\ AdministratorRemains'
  BY <1>1 DEF AccountsInv, Blanks, GuessesCounted, AdministratorRemains, ActiveAdmins, Live
<1> QED
  BY <1>4, <1>5, <1>6, <1>7, <1>8 DEF AccountsInv

\* A set of more than one has another one beside any.
LEMMA AnotherOne ==
  ASSUME NEW S, IsFiniteSet(S), Cardinality(S) > 1, NEW x
  PROVE  \E v \in S : v # x
<1> SUFFICES ASSUME S \subseteq {x} PROVE FALSE
  OBVIOUS
<1>1. IsFiniteSet({x}) /\ Cardinality({x}) = 1
  BY FS_Singleton
<1>2. Cardinality(S) \in Nat /\ Cardinality(S) <= 1
  BY <1>1, FS_Subset, FS_CardinalityType
<1> QED
  BY <1>2

LEMMA AdminsFinite == IsFiniteSet(ActiveAdmins)
BY UsersFinite, FS_Subset DEF ActiveAdmins

LEMMA AdminEnterKeeps == ASSUME AccountsInv, NEW h \in Handlers, AdminEnter(h) PROVE AccountsInv'
<1>1. /\ handler[h].op \in AdminOps /\ handler[h].pc = "read" /\ adminLock = Nobody
      /\ Permitted(handler[h].op, Target(h), handler[h].on = handler[h].by)
      /\ adminLock' = h /\ Continue(h, Target(h))
      /\ UNCHANGED <<user, issued, setupLock, requests, guesses>>
  BY DEF AdminEnter, AdminLockFree
<1>2. Target(h) \in Row /\ user[handler[h].on].status # "absent" /\ handler[h].on \in Users
  BY <1>1, TargetThere, HandlersTyped DEF Permitted, AccountsInv, AdminOps
<1>3. /\ handler' \in [Handlers -> Local \cup {Idle}]
      /\ handler'[h].op = handler[h].op /\ handler'[h].pc = "commit"
      /\ handler'[h].on = handler[h].on /\ handler'[h].by = handler[h].by
      /\ \A k \in Handlers \ {h} : handler'[k] = handler[k]
  BY <1>1, <1>2, ContinuedHandler DEF AccountsInv, AdminOps
<1>4. AccountsTypeOK'
  BY <1>1, <1>3 DEF AccountsInv, AccountsTypeOK
<1>5. LocksNamed'
  BY <1>1, <1>3, HandlersNotNobody DEF AccountsInv, LocksNamed, Doing, AdminOps
<1>6. Present'
  <2>1. RowsThere(h)'
    BY <1>1, <1>2, <1>3 DEF AccountsInv, Present, RowsThere, AdminOps
  <2>2. \A k \in Handlers \ {h} : RowsThere(k)'
    BY <1>1, <1>3 DEF AccountsInv, Present, RowsThere
  <2> QED
    BY <2>1, <2>2, <1>1, <1>3 DEF AccountsInv, Present
<1>7. Guarded'
  <2>1. ASSUME handler[h].op \in {"demote", "disable", "delete"}
        PROVE  \E v \in ActiveAdmins : v # handler[h].on
    <3>1. CASE Cardinality(ActiveAdmins) > 1
      BY <3>1, AdminsFinite, AnotherOne
    <3>2. CASE ~(Cardinality(ActiveAdmins) > 1)
      <4>1. Target(h).role # "admin" /\ Target(h) = user[handler[h].on]
        BY <1>1, <2>1, <3>2 DEF Permitted, OtherAdminRemains, Target
      <4>2. handler[h].on \notin ActiveAdmins
        BY <4>1 DEF ActiveAdmins
      <4>3. ActiveAdmins # {}
        BY <1>2 DEF AccountsInv, AdministratorRemains
      <4> QED
        BY <4>2, <4>3
    <3> QED
      BY <3>1, <3>2
  <2>2. ActiveAdmins' = ActiveAdmins
    BY <1>1 DEF ActiveAdmins, Live
  <2> QED
    BY <2>1, <2>2, <1>3 DEF AccountsInv, Guarded
<1>8. SetupOnce'
  BY <1>1, <1>3 DEF AccountsInv, SetupOnce, Doing, NobodyYet, AdminOps
<1>9. Blanks' /\ GuessesCounted' /\ AdministratorRemains'
  BY <1>1 DEF AccountsInv, Blanks, GuessesCounted, AdministratorRemains, ActiveAdmins, Live
<1> QED
  BY <1>4, <1>5, <1>6, <1>7, <1>8, <1>9 DEF AccountsInv

\* Present after a commit that takes no row away.
LEMMA PresentKept ==
  ASSUME AccountsInv, NEW h \in Handlers, handler'[h].op = "none",
         \A k \in Handlers \ {h} : handler'[k] = handler[k],
         \A u \in Users : user[u].status # "absent" => user'[u].status # "absent"
  PROVE  Present'
<1> SUFFICES ASSUME NEW k \in Handlers
             PROVE RowsThere(k)' /\ (handler'[k].by = Nobody => handler'[k].op \in {"none", "setup", "login", "wrong"})
  BY DEF Present
<1>1. CASE handler'[k].op = "none"
  BY <1>1 DEF RowsThere, AdminOps
<1>2. CASE handler'[k].op # "none"
  <2>1. handler'[k] = handler[k] /\ handler[k].op # "none"
    BY <1>2
  <2> QED
    BY <2>1, HandlersTyped DEF AccountsInv, Present, RowsThere
<1> QED
  BY <1>1, <1>2

\* What an edit or a deletion makes of a row.
LEMMA EditedRow ==
  ASSUME NEW row \in Row, NEW seen \in Row, NEW op \in AdminOps, row.status # "absent"
  PROVE  /\ Edited(op, row, seen).status # "absent"
         /\ op # "delete" => Edited(op, row, seen).failures = row.failures
         /\ op \in {"promote", "enable"} /\ row.status = "live" /\ row.role = "admin"
            => Edited(op, row, seen).status = "live" /\ Edited(op, row, seen).role = "admin"
<1>1. CASE op \in {"demote", "promote", "disable", "enable"}
  BY <1>1, RowShape DEF Edited
<1>2. CASE op = "delete"
  <2>1. Raised(Reset(row, seen), seen) \in Row
    BY RowsTyped
  <2> QED
    BY <1>2, <2>1, RowShape DEF Edited
<1> QED
  BY <1>1, <1>2 DEF AdminOps

LEMMA AdminCommitKeeps == ASSUME AccountsInv, NEW h \in Handlers, AdminCommit(h) PROVE AccountsInv'
<1> DEFINE u == handler[h].on
           op == handler[h].op
           row == Edited(op, user[u], handler[h].seen)
<1>1. /\ op \in AdminOps /\ handler[h].pc = "commit" /\ WriteUser(u, row) /\ Ends(h)
      /\ guesses' = IF op = "delete" THEN [guesses EXCEPT ![u] = 0] ELSE guesses
      /\ adminLock' = Nobody
      /\ UNCHANGED <<issued, setupLock, requests>>
  BY DEF AdminCommit
<1>2. u \in Users /\ user[u] \in Row /\ handler[h].seen \in Row /\ user[u].status # "absent"
  BY <1>1, HandlersTyped DEF AccountsInv, AccountsTypeOK, Present, RowsThere, AdminOps
<1>3. row \in Row
  BY <1>1, <1>2, RowsTyped
<1>4. /\ row.status # "absent"
      /\ op # "delete" => row.failures = user[u].failures
      /\ op \in {"promote", "enable"} /\ user[u].status = "live" /\ user[u].role = "admin"
         => row.status = "live" /\ row.role = "admin"
  BY <1>1, <1>2, EditedRow
<1>5. op \in {"demote", "disable", "delete"} => \E v \in ActiveAdmins : v # u
  BY <1>1 DEF AccountsInv, Guarded
<1>6. op \notin {"none", "setup"}
  BY <1>1 DEF AdminOps
<1>7. adminLock = h
  BY <1>1 DEF AccountsInv, LocksNamed
<1>8. ~NobodyYet
  BY <1>6, AccountsThere
<1>9. /\ user' \in [Users -> Row] /\ user'[u] = row
      /\ \A v \in Users \ {u} : user'[v] = user[v]
  BY <1>1, <1>2, <1>3, WrittenRow DEF AccountsInv
<1>10. /\ handler' \in [Handlers -> Local \cup {Idle}]
       /\ handler'[h].op = "none" /\ handler'[h].pc = "idle"
       /\ \A k \in Handlers \ {h} : handler'[k] = handler[k]
  BY <1>1, EndedHandler DEF AccountsInv
<1>11. op \in AdminOps
  BY <1>1
<1> HIDE DEF row, u, op
<1>12. guesses' \in [Users -> Nat] /\ GuessesCounted'
  <2>1. CASE op = "delete"
    <3>1. guesses' \in [Users -> Nat] /\ guesses'[u] = 0 /\ \A v \in Users \ {u} : guesses'[v] = guesses[v]
      BY <2>1, <1>1, <1>2 DEF AccountsInv, AccountsTypeOK
    <3>2. row.failures >= 0
      BY <1>3 DEF Row
    <3> QED
      BY <3>1, <3>2, <1>9 DEF AccountsInv, GuessesCounted
  <2>2. CASE op # "delete"
    BY <2>2, <1>1, <1>2, <1>4, <1>9 DEF AccountsInv, AccountsTypeOK, GuessesCounted
  <2> QED
    BY <2>1, <2>2
<1>13. AccountsTypeOK'
  BY <1>1, <1>9, <1>10, <1>12 DEF AccountsInv, AccountsTypeOK
<1>14. LocksNamed'
  BY <1>1, <1>7, <1>10, <1>11, <1>6, HandlersNotNobody DEF AccountsInv, LocksNamed, Doing, AdminOps, op
<1>15. Present'
  BY <1>4, <1>9, <1>10, PresentKept
<1>16. Guarded'
  <2>1. \A k \in Handlers \ {h} : ~(handler[k].op \in AdminOps /\ handler[k].pc = "commit")
    BY <1>7 DEF AccountsInv, LocksNamed
  <2> QED
    BY <2>1, <1>10 DEF Guarded, AdminOps
<1>17. SetupOnce'
  BY <1>8, <1>10 DEF AccountsInv, SetupOnce, Doing
<1>18. Blanks'
  BY <1>1, <1>4, <1>9 DEF AccountsInv, Blanks, AccountsTypeOK
<1>19. AdministratorRemains'
  <2>1. CASE op \in {"demote", "disable", "delete"}
    BY <2>1, <1>5, <1>9 DEF AdministratorRemains, ActiveAdmins, Live
  <2>2. CASE op \in {"promote", "enable"}
    <3>1. PICK v \in Users : user[v].status = "live" /\ user[v].role = "admin"
      BY <1>2 DEF AccountsInv, AdministratorRemains, ActiveAdmins, Live
    <3>2. user'[v].status = "live" /\ user'[v].role = "admin"
      BY <3>1, <2>2, <1>4, <1>9
    <3> QED
      BY <3>2 DEF AdministratorRemains, ActiveAdmins, Live
  <2> QED
    BY <2>1, <2>2, <1>11 DEF AdminOps
<1> QED
  BY <1>12, <1>13, <1>14, <1>15, <1>16, <1>17, <1>18, <1>19 DEF AccountsInv

\* A row that appears takes nothing from the others.
LEMMA AppearedRow ==
  ASSUME AccountsInv, NEW u \in Users, NEW row \in Row, user[u].status = "absent",
         row.status # "absent", row.failures = 0, row.epoch = 0, WriteUser(u, row)
  PROVE  /\ user' \in [Users -> Row] /\ user'[u] = row
         /\ \A v \in Users \ {u} : user'[v] = user[v]
         /\ \A v \in Users : user[v].status # "absent" => user'[v].status # "absent"
         /\ ActiveAdmins \subseteq ActiveAdmins'
         /\ \A v \in Users : guesses[v] <= user'[v].failures
         /\ \A v \in Users : user'[v].status = "absent" => user'[v].failures = 0 /\ user'[v].epoch = 0
<1>1. /\ user' \in [Users -> Row] /\ user'[u] = row
      /\ \A v \in Users \ {u} : user'[v] = user[v]
  BY WrittenRow DEF AccountsInv
<1>2. ActiveAdmins \subseteq ActiveAdmins'
  BY <1>1 DEF ActiveAdmins, Live
<1>3. \A v \in Users : guesses[v] <= user'[v].failures
  BY <1>1 DEF AccountsInv, Blanks, GuessesCounted
<1> QED
  BY <1>1, <1>2, <1>3 DEF AccountsInv, Blanks

LEMMA AddCommitKeeps == ASSUME AccountsInv, NEW h \in Handlers, AddCommit(h) PROVE AccountsInv'
<1> DEFINE u == handler[h].on
<1>1. PICK role \in {"admin", "user"} : WriteUser(u, [Administrator EXCEPT !.role = role])
  BY DEF AddCommit
<1> DEFINE row == [Administrator EXCEPT !.role = role]
<1>2. /\ handler[h].op = "add" /\ handler[h].pc = "commit" /\ user[u].status = "absent" /\ Ends(h)
      /\ UNCHANGED <<issued, adminLock, setupLock, requests, guesses>>
  BY DEF AddCommit, Doing
<1>3. u \in Users
  BY <1>2, HandlersTyped DEF AccountsInv
<1>4. row \in Row /\ row.status # "absent" /\ row.failures = 0 /\ row.epoch = 0
  BY NewRows, RowShape
<1>5. WriteUser(u, row)
  BY <1>1
<1> HIDE DEF row, u
<1>6. /\ user' \in [Users -> Row]
      /\ \A v \in Users : user[v].status # "absent" => user'[v].status # "absent"
      /\ ActiveAdmins \subseteq ActiveAdmins'
      /\ \A v \in Users : guesses[v] <= user'[v].failures
      /\ \A v \in Users : user'[v].status = "absent" => user'[v].failures = 0 /\ user'[v].epoch = 0
  BY <1>2, <1>3, <1>4, <1>5, AppearedRow
<1>7. /\ handler' \in [Handlers -> Local \cup {Idle}]
      /\ handler'[h].op = "none" /\ handler'[h].pc = "idle"
      /\ \A k \in Handlers \ {h} : handler'[k] = handler[k]
  BY <1>2, EndedHandler DEF AccountsInv
<1>8. ~NobodyYet
  BY <1>2, AccountsThere
<1>9. AccountsTypeOK'
  BY <1>2, <1>6, <1>7 DEF AccountsInv, AccountsTypeOK
<1>10. LocksNamed'
  BY <1>2, <1>7 DEF AccountsInv, LocksNamed, Doing, AdminOps
<1>11. Present'
  BY <1>6, <1>7, PresentKept
<1>12. Guarded' /\ SetupOnce'
  BY <1>6, <1>7, <1>8 DEF AccountsInv, Guarded, SetupOnce, Doing
<1>13. Blanks' /\ GuessesCounted'
  BY <1>2, <1>6 DEF AccountsInv, AccountsTypeOK, Blanks, GuessesCounted
<1>14. AdministratorRemains'
  <2>1. ActiveAdmins # {}
    <3>1. \E v \in Users : user[v].status # "absent"
      BY <1>8 DEF NobodyYet
    <3> QED
      BY <3>1 DEF AccountsInv, AdministratorRemains
  <2> QED
    BY <2>1, <1>6 DEF AdministratorRemains
<1> QED
  BY <1>9, <1>10, <1>11, <1>12, <1>13, <1>14 DEF AccountsInv

LEMMA SetupEnterKeeps == ASSUME AccountsInv, NEW h \in Handlers, SetupEnter(h) PROVE AccountsInv'
<1>1. /\ handler[h].op = "setup" /\ handler[h].pc = "read" /\ setupLock = Nobody /\ NobodyYet
      /\ setupLock' = h /\ Continue(h, NoAccount)
      /\ UNCHANGED <<user, issued, adminLock, requests, guesses>>
  BY DEF SetupEnter, SetupLockFree, Doing
<1>2. /\ handler' \in [Handlers -> Local \cup {Idle}]
      /\ handler'[h].op = "setup" /\ handler'[h].pc = "commit"
      /\ handler'[h].by = handler[h].by
      /\ \A k \in Handlers \ {h} : handler'[k] = handler[k]
  BY <1>1, NewRows, ContinuedHandler DEF AccountsInv
<1>3. AccountsTypeOK'
  BY <1>1, <1>2 DEF AccountsInv, AccountsTypeOK
<1>4. LocksNamed'
  BY <1>1, <1>2, HandlersNotNobody DEF AccountsInv, LocksNamed, Doing, AdminOps
<1>5. Present'
  BY <1>1, <1>2 DEF AccountsInv, Present, RowsThere, AdminOps
<1>6. Guarded' /\ SetupOnce'
  BY <1>1, <1>2 DEF AccountsInv, Guarded, SetupOnce, Doing, ActiveAdmins, Live, NobodyYet
<1>7. Blanks' /\ GuessesCounted' /\ AdministratorRemains'
  BY <1>1 DEF AccountsInv, Blanks, GuessesCounted, AdministratorRemains, ActiveAdmins, Live
<1> QED
  BY <1>3, <1>4, <1>5, <1>6, <1>7 DEF AccountsInv

LEMMA SetupCommitKeeps == ASSUME AccountsInv, NEW h \in Handlers, SetupCommit(h) PROVE AccountsInv'
<1> DEFINE u == handler[h].on
<1>1. /\ handler[h].op = "setup" /\ handler[h].pc = "commit" /\ user[u].status = "absent"
      /\ WriteUser(u, Administrator) /\ Sign(u) /\ setupLock' = Nobody /\ Ends(h)
      /\ UNCHANGED <<adminLock, requests, guesses>>
  BY DEF SetupCommit, Doing
<1>2. u \in Users
  BY <1>1, HandlersTyped DEF AccountsInv
<1>3. setupLock = h
  BY <1>1 DEF AccountsInv, LocksNamed, Doing
<1> HIDE DEF u
<1>4. /\ user' \in [Users -> Row] /\ user'[u] = Administrator
      /\ \A v \in Users : user[v].status # "absent" => user'[v].status # "absent"
      /\ ActiveAdmins \subseteq ActiveAdmins'
      /\ \A v \in Users : guesses[v] <= user'[v].failures
      /\ \A v \in Users : user'[v].status = "absent" => user'[v].failures = 0 /\ user'[v].epoch = 0
  BY <1>1, <1>2, NewRows, AppearedRow
<1>5. /\ handler' \in [Handlers -> Local \cup {Idle}]
      /\ handler'[h].op = "none" /\ handler'[h].pc = "idle"
      /\ \A k \in Handlers \ {h} : handler'[k] = handler[k]
  BY <1>1, EndedHandler DEF AccountsInv
<1>6. issued' = issued \cup {<<u, 0>>}
  BY <1>1, <1>4, NewRows DEF Sign
<1>7. AccountsTypeOK'
  BY <1>1, <1>2, <1>4, <1>5, <1>6 DEF AccountsInv, AccountsTypeOK
<1>8. LocksNamed'
  BY <1>1, <1>3, <1>5, HandlersNotNobody DEF AccountsInv, LocksNamed, Doing, AdminOps
<1>9. Present'
  BY <1>4, <1>5, PresentKept
<1>10. Guarded' /\ SetupOnce'
  <2>1. \A k \in Handlers : ~Doing(k, "setup", "commit")'
    BY <1>1, <1>3, <1>5 DEF AccountsInv, LocksNamed, Doing
  <2> QED
    BY <2>1, <1>4, <1>5 DEF AccountsInv, Guarded, SetupOnce
<1>11. Blanks' /\ GuessesCounted'
  <2>1. user'[u].status # "absent"
    BY <1>4, NewRows
  <2>2. \A c \in issued : c[1] \in Users
    BY DEF AccountsInv, AccountsTypeOK
  <2> QED
    BY <2>1, <2>2, <1>1, <1>4, <1>6 DEF AccountsInv, Blanks, GuessesCounted
<1>12. AdministratorRemains'
  BY <1>2, <1>4, NewRows DEF AdministratorRemains, ActiveAdmins, Live
<1> QED
  BY <1>7, <1>8, <1>9, <1>10, <1>11, <1>12 DEF AccountsInv

LEMMA RefusalKeeps == ASSUME AccountsInv, NEW h \in Handlers, Abandon(h) PROVE AccountsInv'
<1>1. /\ Ends(h)
      /\ adminLock' = IF adminLock = h THEN Nobody ELSE adminLock
      /\ setupLock' = IF setupLock = h THEN Nobody ELSE setupLock
      /\ UNCHANGED <<user, issued, requests, guesses>>
  BY DEF Abandon
<1>2. /\ handler' \in [Handlers -> Local \cup {Idle}]
      /\ handler'[h].op = "none" /\ handler'[h].pc = "idle"
      /\ \A k \in Handlers \ {h} : handler'[k] = handler[k]
  BY <1>1, EndedHandler DEF AccountsInv
<1>3. AccountsTypeOK'
  BY <1>1, <1>2 DEF AccountsInv, AccountsTypeOK
<1>4. LocksNamed'
  BY <1>1, <1>2, HandlersNotNobody DEF AccountsInv, LocksNamed, Doing, AdminOps
<1>5. Present'
  BY <1>1, <1>2, PresentKept
<1>6. Guarded' /\ SetupOnce'
  BY <1>1, <1>2 DEF AccountsInv, Guarded, SetupOnce, Doing, ActiveAdmins, Live, NobodyYet
<1>7. Blanks' /\ GuessesCounted' /\ AdministratorRemains'
  BY <1>1 DEF AccountsInv, Blanks, GuessesCounted, AdministratorRemains, ActiveAdmins, Live
<1> QED
  BY <1>3, <1>4, <1>5, <1>6, <1>7 DEF AccountsInv

LEMMA NextAccountsKeeps == AccountsInv /\ [AccountsNext]_accounts => AccountsInv'
<1> SUFFICES ASSUME AccountsInv, [AccountsNext]_accounts PROVE AccountsInv'
  OBVIOUS
<1>1. CASE UNCHANGED accounts
  BY <1>1 DEF accounts, AccountsInv, AccountsTypeOK, LocksNamed, Present, RowsThere, Blanks, Guarded,
    GuessesCounted, AdministratorRemains, SetupOnce, Doing, ActiveAdmins, Live, NobodyYet
<1>2. CASE AccountsNext
  <2>1. ASSUME NEW h \in Handlers, NEW u \in Users, LoginRead(h, u) \/ LogoutRead(h, u) \/ SetupBegin(h, u)
        PROVE  AccountsInv'
    BY <2>1, LoginReadKeeps, LogoutReadKeeps, SetupBeginKeeps
  <2>2. ASSUME NEW h \in Handlers, NEW u \in Users, NEW v \in Users, NEW op \in Ops, Authenticate(h, u, op, v)
        PROVE  AccountsInv'
    BY <2>2, AuthenticateKeeps
  <2>3. ASSUME NEW h \in Handlers, LoginSucceed(h) \/ LoginFail(h) \/ LogoutCommit(h) \/ PasswordCommit(h)
        PROVE  AccountsInv'
    BY <2>3, LoginSucceedKeeps, LoginFailKeeps, LogoutCommitKeeps, PasswordCommitKeeps
  <2>4. ASSUME NEW h \in Handlers, ResetRead(h) \/ ResetCommit(h) \/ AdminEnter(h) \/ AdminCommit(h)
        PROVE  AccountsInv'
    BY <2>4, ResetReadKeeps, ResetCommitKeeps, AdminEnterKeeps, AdminCommitKeeps
  <2>5. ASSUME NEW h \in Handlers, AddCommit(h) \/ SetupEnter(h) \/ SetupCommit(h) \/ Abandon(h)
        PROVE  AccountsInv'
    BY <2>5, AddCommitKeeps, SetupEnterKeeps, SetupCommitKeeps, RefusalKeeps
  <2>6. ASSUME NEW u \in Users, LockExpires(u) PROVE AccountsInv'
    BY <2>6, LockExpiresKeeps
  <2> QED
    BY <1>2, <2>1, <2>2, <2>3, <2>4, <2>5, <2>6 DEF AccountsNext
<1> QED
  BY <1>1, <1>2

\* The inductive invariant of accounts and sessions (api.py 461-706, 3510-3625).
THEOREM AccountsInvariant == AccountsSpec => []AccountsInv
<1>1. AccountsInit => AccountsInv
  BY InitAccountsInv
<1>2. AccountsInv /\ [AccountsNext]_accounts => AccountsInv'
  BY NextAccountsKeeps
<1> QED
  BY <1>1, <1>2, PTL DEF AccountsSpec

\* _last_admin_guard and its lock keep an enabled administrator, for any number of
\* users, handlers and requests.
THEOREM AnAdministratorRemains == AccountsSpec => []AdministratorRemains
<1>1. AccountsInv => AdministratorRemains
  BY DEF AccountsInv
<1> QED
  BY <1>1, AccountsInvariant, PTL

\* However logins of an account overlap, it is locked at LockThreshold wrong passwords.
THEOREM GuessesAreBounded == AccountsSpec => []GuessesBounded
<1>1. AccountsInv => GuessesBounded
  <2> SUFFICES ASSUME AccountsInv, NEW u \in Users PROVE guesses[u] < LockThreshold
    BY DEF GuessesBounded
  <2>1. guesses[u] <= user[u].failures /\ user[u] \in Row /\ guesses[u] \in Nat
    BY DEF AccountsInv, AccountsTypeOK, GuessesCounted
  <2>2. user[u].failures \in 0..(LockThreshold - 1)
    BY <2>1 DEF Row
  <2> QED
    BY <2>1, <2>2, ThresholdPositive
<1> QED
  BY <1>1, AccountsInvariant, PTL

\* A commit of auth_setup finds no account, however many first-run requests race.
THEOREM SetupHappensOnce == AccountsSpec => []SetupOnce
<1>1. AccountsInv => SetupOnce
  BY DEF AccountsInv
<1> QED
  BY <1>1, AccountsInvariant, PTL

--------------------------------------------------------------------------------
(* Revocation.  lost_revocation shows what becomes of it when one handler that *)
(* raises a user's epoch commits between another one's read and commit.        *)

\* No cookie is newer than its row.
IssuedBefore == \A c \in issued : ~user[c[1]].overtaken => c[2] <= user[c[1]].epoch

RevocationInv == AccountsInv /\ IssuedBefore

\* A step that leaves every epoch.
LEMMA EpochsLeft ==
  ASSUME RevocationInv, AccountsInv',
         \A u \in Users :
           /\ user'[u].epoch = user[u].epoch
           /\ user'[u].overtaken = user[u].overtaken \/ ~ \E c \in issued : c[1] = u,
         \A c \in issued' : c \in issued \/ c[2] = user[c[1]].epoch
  PROVE  RevocationInv'
<1>1. \A u \in Users : user'[u].epoch \in Nat
  BY DEF AccountsInv, AccountsTypeOK, Row
<1>2. \A c \in issued' : c[1] \in Users
  BY DEF AccountsInv, AccountsTypeOK
<1> QED
  BY <1>1, <1>2 DEF RevocationInv, IssuedBefore

\* A step of a handler that raises the epoch of its row.
LEMMA EpochRaised ==
  ASSUME RevocationInv, AccountsInv', NEW h \in Handlers, Revokes(handler[h].op),
         NEW row \in Row, WriteUser(handler[h].on, row),
         row.epoch = handler[h].seen.epoch + 1,
         row.overtaken =
           (user[handler[h].on].overtaken \/ user[handler[h].on].epoch # handler[h].seen.epoch),
         issued' = issued \/ Sign(handler[h].on)
  PROVE  /\ RevocationInv'
         /\ \A u \in Users :
              Committing(h, u) /\ ~user'[u].overtaken => <<u, user'[u].epoch>> \notin issued
<1> DEFINE u == handler[h].on
<1>1. u \in Users /\ user[u] \in Row
  BY HandlersTyped DEF RevocationInv, AccountsInv, AccountsTypeOK, Revokes
<1>2. /\ user'[u] = row /\ \A v \in Users \ {u} : user'[v] = user[v]
  BY <1>1, WrittenRow DEF RevocationInv, AccountsInv
<1>3. /\ user[u].epoch \in Nat
      /\ ~row.overtaken => ~user[u].overtaken /\ row.epoch = user[u].epoch + 1
  BY <1>1 DEF Row
<1>4. \A c \in issued : c[1] \in Users /\ c[2] \in Nat /\ (~user[c[1]].overtaken => c[2] <= user[c[1]].epoch)
  BY DEF RevocationInv, AccountsInv, AccountsTypeOK, IssuedBefore
<1>5. IssuedBefore'
  <2> SUFFICES ASSUME NEW c \in issued', ~user'[c[1]].overtaken PROVE c[2] <= user'[c[1]].epoch
    BY DEF IssuedBefore
  <2>1. CASE c \in issued
    BY <2>1, <1>2, <1>3, <1>4
  <2>2. CASE c \notin issued
    <3>1. c = <<u, row.epoch>>
      BY <2>2, <1>2 DEF Sign
    <3>2. row.epoch \in Nat
      BY DEF Row
    <3> QED
      BY <3>1, <3>2, <1>2
  <2> QED
    BY <2>1, <2>2
<1>6. ASSUME NEW v \in Users, Committing(h, v), ~user'[v].overtaken
      PROVE  <<v, user'[v].epoch>> \notin issued
  <2>1. v = u
    BY <1>6 DEF Committing
  <2> QED
    BY <2>1, <1>2, <1>3, <1>4, <1>6
<1> QED
  BY <1>5, <1>6 DEF RevocationInv

\* Every step keeps the invariant of revocation, and revokes if it is to.
LEMMA RevocationStep ==
  ASSUME RevocationInv, AccountsNext
  PROVE  /\ RevocationInv'
         /\ \A h \in Handlers, u \in Users :
              handler[h] # handler'[h] /\ Committing(h, u) /\ ~user'[u].overtaken
              => <<u, user'[u].epoch>> \notin issued
<1>1. AccountsInv /\ AccountsInv'
  BY NextAccountsKeeps DEF RevocationInv
<1> DEFINE Revoked == \A h \in Handlers, u \in Users :
              handler[h] # handler'[h] /\ Committing(h, u) /\ ~user'[u].overtaken
              => <<u, user'[u].epoch>> \notin issued
<1>2. ASSUME UNCHANGED user PROVE Revoked
  BY <1>2 DEF Committing
<1>3. ASSUME NEW h \in Handlers, ~Revokes(handler[h].op) \/ handler[h].pc # "commit",
             \A k \in Handlers \ {h} : handler'[k] = handler[k]
      PROVE  Revoked
  BY <1>3 DEF Committing
<1>4. ASSUME NEW h \in Handlers, NEW u \in Users,
             \/ LoginRead(h, u) \/ LogoutRead(h, u) \/ SetupBegin(h, u)
             \/ \E v \in Users, op \in Ops : Authenticate(h, u, op, v)
      PROVE  RevocationInv' /\ Revoked
  <2>1. UNCHANGED <<user, issued>>
    BY <1>4 DEF LoginRead, LogoutRead, SetupBegin, Authenticate, Begin
  <2> QED
    BY <1>1, <2>1, <1>2, EpochsLeft
<1>5. ASSUME NEW h \in Handlers, LoginSucceed(h) \/ LoginFail(h)
      PROVE  RevocationInv' /\ Revoked
  <2> DEFINE u == handler[h].on
  <2>1. handler[h].op \in {"login", "wrong"} /\ Ends(h)
    BY <1>5 DEF LoginSucceed, LoginFail, Doing
  <2>2. u \in Users /\ user[u] \in Row /\ handler[h].seen \in Row
    BY <1>1, <2>1, HandlersTyped DEF AccountsInv, AccountsTypeOK
  <2>3. PICK row \in Row : WriteUser(u, row) /\ row.epoch = user[u].epoch /\ row.overtaken = user[u].overtaken
    <3>1. CASE LoginSucceed(h)
      <4>1. WriteUser(u, Reset(user[u], handler[h].seen))
        BY <3>1 DEF LoginSucceed
      <4>2. /\ Reset(user[u], handler[h].seen) \in Row /\ Reset(user[u], handler[h].seen).epoch = user[u].epoch
            /\ Reset(user[u], handler[h].seen).overtaken = user[u].overtaken
        BY <2>2, RowsTyped, RowsKept
      <4> QED
        BY <4>1, <4>2
    <3>2. CASE LoginFail(h)
      <4>1. WriteUser(u, Failed(user[u], handler[h].seen))
        BY <3>2 DEF LoginFail
      <4>2. /\ Failed(user[u], handler[h].seen) \in Row /\ Failed(user[u], handler[h].seen).epoch = user[u].epoch
            /\ Failed(user[u], handler[h].seen).overtaken = user[u].overtaken
        BY <2>2, RowsTyped, RowsKept
      <4> QED
        BY <4>1, <4>2
    <3> QED
      BY <1>5, <3>1, <3>2
  <2>4. user'[u] = row /\ \A v \in Users \ {u} : user'[v] = user[v]
    BY <1>1, <2>2, <2>3, WrittenRow DEF AccountsInv
  <2>5. \A c \in issued' : c \in issued \/ c[2] = user[c[1]].epoch
    BY <1>5, <2>3, <2>4 DEF LoginSucceed, LoginFail, Sign
  <2>6. handler'[h].op = "none" /\ \A k \in Handlers \ {h} : handler'[k] = handler[k]
    BY <1>1, <2>1, EndedHandler DEF AccountsInv
  <2>7. RevocationInv'
    BY <1>1, <2>3, <2>4, <2>5, EpochsLeft
  <2> QED
    BY <2>1, <2>6, <2>7, <1>3 DEF Revokes
<1>6. ASSUME NEW h \in Handlers, LogoutCommit(h) \/ PasswordCommit(h) \/ ResetCommit(h) \/ AdminCommit(h)
      PROVE  RevocationInv' /\ Revoked
  <2> DEFINE u == handler[h].on
             op == handler[h].op
  <2>1. op \in {"logout", "password", "reset"} \cup AdminOps /\ Ends(h) /\ handler[h].pc = "commit"
    BY <1>6 DEF LogoutCommit, PasswordCommit, ResetCommit, AdminCommit, Doing
  <2>2. u \in Users /\ user[u] \in Row /\ handler[h].seen \in Row
    BY <1>1, <2>1, HandlersTyped DEF AccountsInv, AccountsTypeOK, AdminOps
  <2>3. handler'[h].op = "none" /\ \A k \in Handlers \ {h} : handler'[k] = handler[k]
    BY <1>1, <2>1, EndedHandler DEF AccountsInv
  <2>4. issued' = issued \/ Sign(u)
    BY <1>6 DEF LogoutCommit, PasswordCommit, ResetCommit, AdminCommit
  <2>5. CASE Revokes(op)
    <3>1. PICK row \in Row :
            /\ WriteUser(u, row) /\ row.epoch = handler[h].seen.epoch + 1
            /\ row.overtaken = (user[u].overtaken \/ user[u].epoch # handler[h].seen.epoch)
      <4>1. CASE LogoutCommit(h) \/ PasswordCommit(h)
        <5>1. WriteUser(u, Raised(user[u], handler[h].seen))
          BY <4>1 DEF LogoutCommit, PasswordCommit
        <5>2. /\ Raised(user[u], handler[h].seen).epoch = handler[h].seen.epoch + 1
              /\ Raised(user[u], handler[h].seen).overtaken =
                   (user[u].overtaken \/ user[u].epoch # handler[h].seen.epoch)
          BY <2>2, RowsKept, Zenon
        <5>3. Raised(user[u], handler[h].seen) \in Row
          BY <2>2, RowsTyped, Zenon
        <5> QED
          BY <5>1, <5>2, <5>3, Zenon
      <4>2. CASE ResetCommit(h)
        <5>2. WriteUser(u, Raised(Reset(user[u], handler[h].seen), handler[h].seen))
          BY <4>2 DEF ResetCommit
        <5>3. LET raised == Raised(Reset(user[u], handler[h].seen), handler[h].seen) IN
                /\ raised \in Row /\ raised.epoch = handler[h].seen.epoch + 1
                /\ raised.overtaken = (user[u].overtaken \/ user[u].epoch # handler[h].seen.epoch)
          BY <2>2, ResetRaised, Zenon
        <5> QED
          BY <5>2, <5>3
      <4>3. CASE AdminCommit(h)
        <5>1. op = "delete" /\ WriteUser(u, Edited("delete", user[u], handler[h].seen))
          BY <4>3, <2>5 DEF AdminCommit, Revokes, AdminOps
        <5>3. LET raised == Raised(Reset(user[u], handler[h].seen), handler[h].seen) IN
                /\ raised \in Row /\ raised.epoch = handler[h].seen.epoch + 1
                /\ raised.overtaken = (user[u].overtaken \/ user[u].epoch # handler[h].seen.epoch)
          BY <2>2, ResetRaised, Zenon
        <5>4. /\ Edited("delete", user[u], handler[h].seen).epoch = handler[h].seen.epoch + 1
              /\ Edited("delete", user[u], handler[h].seen).overtaken =
                   (user[u].overtaken \/ user[u].epoch # handler[h].seen.epoch)
          BY <5>3, RowShape DEF Edited
        <5>5. Edited("delete", user[u], handler[h].seen) \in Row
          BY <2>2, RowsTyped DEF AdminOps
        <5> QED
          BY <5>1, <5>4, <5>5
      <4> QED
        BY <1>6, <4>1, <4>2, <4>3
    <3>2. /\ RevocationInv'
          /\ \A v \in Users :
               Committing(h, v) /\ ~user'[v].overtaken => <<v, user'[v].epoch>> \notin issued
      BY <1>1, <2>1, <2>4, <2>5, <3>1, EpochRaised
    <3> QED
      BY <3>2, <2>3
  <2>6. CASE ~Revokes(op)
    <3>1. op \in AdminOps \ {"delete"} /\ WriteUser(u, Edited(op, user[u], handler[h].seen)) /\ issued' = issued
      BY <1>6, <2>6 DEF LogoutCommit, PasswordCommit, ResetCommit, AdminCommit, Doing, Revokes
    <3>2. /\ Edited(op, user[u], handler[h].seen).epoch = user[u].epoch
          /\ Edited(op, user[u], handler[h].seen).overtaken = user[u].overtaken
      BY <3>1, <2>2, RowShape DEF Edited, AdminOps
    <3>3. \A v \in Users : user'[v].epoch = user[v].epoch /\ user'[v].overtaken = user[v].overtaken
      BY <3>1, <3>2, <2>2, <1>1, RowsTyped, WrittenRow DEF AccountsInv
    <3>4. RevocationInv'
      BY <1>1, <3>1, <3>3, EpochsLeft
    <3> QED
      BY <3>4, <2>3, <2>6, <1>3
  <2> QED
    BY <2>5, <2>6
<1>7. ASSUME NEW h \in Handlers, ResetRead(h) \/ AdminEnter(h)
      PROVE  RevocationInv' /\ Revoked
  <2>1. UNCHANGED <<user, issued>>
    BY <1>7 DEF ResetRead, AdminEnter
  <2>2. RevocationInv'
    BY <1>1, <2>1, EpochsLeft
  <2> QED
    BY <2>1, <2>2, <1>2
<1>8. ASSUME NEW h \in Handlers, AddCommit(h) \/ SetupCommit(h)
      PROVE  RevocationInv' /\ Revoked
  <2> DEFINE u == handler[h].on
  <2>1. handler[h].op \in {"add", "setup"} /\ Ends(h) /\ user[u].status = "absent"
    BY <1>8 DEF AddCommit, SetupCommit, Doing
  <2>2. u \in Users /\ user[u].epoch = 0 /\ ~ \E c \in issued : c[1] = u
    BY <1>1, <2>1, HandlersTyped DEF AccountsInv, Blanks
  <2>3. PICK row \in Row : WriteUser(u, row) /\ row.epoch = 0
    <3>1. CASE AddCommit(h)
      <4>1. PICK role \in {"admin", "user"} : WriteUser(u, [Administrator EXCEPT !.role = role])
        BY <3>1 DEF AddCommit
      <4> QED
        BY <4>1, NewRows, RowShape
    <3>2. CASE SetupCommit(h)
      BY <3>2, NewRows DEF SetupCommit
    <3> QED
      BY <1>8, <3>1, <3>2
  <2>4. user'[u] = row /\ \A v \in Users \ {u} : user'[v] = user[v]
    BY <1>1, <2>2, <2>3, WrittenRow DEF AccountsInv
  <2>5. \A c \in issued' : c \in issued \/ c[2] = user[c[1]].epoch
    BY <1>8, <2>2, <2>3, <2>4 DEF AddCommit, SetupCommit, Sign
  <2>6. handler'[h].op = "none" /\ \A k \in Handlers \ {h} : handler'[k] = handler[k]
    BY <1>1, <2>1, EndedHandler DEF AccountsInv
  <2>7. RevocationInv'
    BY <1>1, <2>2, <2>3, <2>4, <2>5, EpochsLeft
  <2> QED
    BY <2>1, <2>6, <2>7, <1>3 DEF Revokes
<1>9. ASSUME NEW h \in Handlers, SetupEnter(h)
       PROVE  RevocationInv' /\ Revoked
  <2>1. UNCHANGED <<user, issued>>
    BY <1>9 DEF SetupEnter
  <2>2. RevocationInv'
    BY <1>1, <2>1, EpochsLeft
  <2> QED
    BY <2>1, <2>2, <1>2
<1>10. ASSUME NEW h \in Handlers, Abandon(h)
       PROVE  RevocationInv' /\ Revoked
  <2>1. UNCHANGED <<user, issued>>
    BY <1>10 DEF Abandon
  <2>2. RevocationInv'
    BY <1>1, <2>1, EpochsLeft
  <2> QED
    BY <2>1, <2>2, <1>2
<1>11. ASSUME NEW u \in Users, LockExpires(u)
       PROVE  RevocationInv' /\ Revoked
  <2>1. UNCHANGED <<issued, handler>> /\ user' = [user EXCEPT ![u] = [user[u] EXCEPT !.lock = "past"]]
    BY <1>11 DEF LockExpires, WriteUser
  <2>2. user[u] \in Row
    BY <1>1 DEF AccountsInv, AccountsTypeOK
  <2>3. \A v \in Users : user'[v].epoch = user[v].epoch /\ user'[v].overtaken = user[v].overtaken
    BY <2>1, <2>2, <1>1 DEF AccountsInv, AccountsTypeOK, Row
  <2>4. RevocationInv'
    BY <1>1, <2>1, <2>3, EpochsLeft
  <2> QED
    BY <2>1, <2>4
<1> HIDE DEF Revoked
<1>12. RevocationInv' /\ Revoked
  BY <1>4, <1>5, <1>6, <1>7, <1>8, <1>9, <1>10, <1>11 DEF AccountsNext
<1> QED
  BY <1>12 DEF Revoked

\* A cookie signed before a logout, password change, reset or deletion is void after
\* it, if no commit of another handler has come between the read and the commit of one
\* that raises this user's epoch; which handlers overlap is not restricted.
THEOREM RevocationIsComplete == AccountsSpec => RevokesUnlessOvertaken
<1>1. AccountsInit => RevocationInv
  <2> SUFFICES ASSUME AccountsInit PROVE RevocationInv
    OBVIOUS
  <2>1. AccountsInv
    BY InitAccountsInv
  <2>2. IssuedBefore
    <3>1. \A u \in Users : user[u].epoch \in Nat
      BY <2>1 DEF AccountsInv, AccountsTypeOK, Row
    <3>2. \A c \in issued : c[1] \in Users /\ c[2] = 0
      BY DEF AccountsInit
    <3> QED
      BY <3>1, <3>2 DEF IssuedBefore
  <2> QED
    BY <2>1, <2>2 DEF RevocationInv
<1> DEFINE Revoking == \A h \in Handlers, u \in Users :
             handler[h] # handler'[h] /\ Committing(h, u) /\ ~user'[u].overtaken
              => <<u, user'[u].epoch>> \notin issued
<1>2. RevocationInv /\ [AccountsNext]_accounts => RevocationInv' /\ [Revoking]_accounts
  <2> SUFFICES ASSUME RevocationInv, [AccountsNext]_accounts
               PROVE  RevocationInv' /\ (Revoking \/ UNCHANGED accounts)
    OBVIOUS
  <2>1. CASE AccountsNext
    BY <2>1, RevocationStep
  <2>2. CASE UNCHANGED accounts
    <3>1. AccountsInv'
      BY <2>2, NextAccountsKeeps DEF RevocationInv
    <3>2. IssuedBefore'
      BY <2>2 DEF accounts, RevocationInv, IssuedBefore
    <3> QED
      BY <2>2, <3>1, <3>2 DEF RevocationInv
  <2> QED
    BY <2>1, <2>2
<1> QED
  BY <1>1, <1>2, PTL DEF AccountsSpec, RevokesUnlessOvertaken

--------------------------------------------------------------------------------
(* Consoles *)

\* What a socket is, and how the rows that a grant rests on are edited
OpenSocket ==
  [pc : {"accepted", "connecting", "open"}, kind : Kinds, on : Targets, epoch : Nat, identity : Nat]
Granted(s) == \E kind \in Kinds, pc \in {"accepted", "connecting", "open"}, m \in Targets :
                socket' = [socket EXCEPT ![s] = Grant(kind, pc, m)]
Advanced(s) == \E pc \in {"connecting", "open"} : socket' = [socket EXCEPT ![s].pc = pc]

\* A step leaves a socket alone, or closes it, or grants it anew, or lets it go on.
LEMMA SocketsChange ==
  ASSUME ConsolesTypeOK, ConsolesNext
  PROVE  \/ UNCHANGED socket
         \/ socket' = [s \in Sockets |-> Closed]
         \/ \E s \in Sockets : socket' = [socket EXCEPT ![s] = Closed]
         \/ \E s \in Sockets : socket[s] = Closed /\ Granted(s) /\ UNCHANGED <<viewer, upstream>>
         \/ \E s \in Sockets : socket[s] # Closed /\ Advanced(s) /\ UNCHANGED <<viewer, upstream>>
<1>1. CASE EditViewer \/ EditUpstream \/ Restart \/ \E m \in Targets : Vanish(m)
  BY <1>1 DEF EditViewer, EditUpstream, Restart, Vanish, Edit
<1>2. CASE \E t \in Tokens : VncProxy(t) \/ Expire(t)
  BY <1>2 DEF VncProxy, Expire
<1>3. ASSUME NEW s \in Sockets, PrepareSerial(s) \/ Open(s)
      PROVE  \/ socket' = [socket EXCEPT ![s] = Closed]
             \/ socket[s] # Closed /\ Advanced(s) /\ UNCHANGED <<viewer, upstream>>
  <2>1. socket[s].pc \in {"accepted", "connecting"}
    BY <1>3 DEF PrepareSerial, Open
  <2>2. socket[s] # Closed
    BY <2>1 DEF Closed
  <2>3. \/ socket' = [socket EXCEPT ![s] = Closed]
        \/ \E pc \in {"connecting", "open"} : socket' = [socket EXCEPT ![s] = [socket[s] EXCEPT !.pc = pc]]
    BY <1>3 DEF PrepareSerial, Open, Put
  <2>4. UNCHANGED <<viewer, upstream>>
    BY <1>3 DEF PrepareSerial, Open, Stays
  <2> QED
    BY <2>2, <2>3, <2>4 DEF Advanced
<1>4. ASSUME NEW s \in Sockets, Monitor(s) \/ Hangup(s) PROVE socket' = [socket EXCEPT ![s] = Closed]
  BY <1>4 DEF Monitor, Hangup, Put
<1>5. ASSUME NEW s \in Sockets, NEW m \in Targets, NEW epoch,
             \/ \E t \in Tokens : ConnectVnc(s, t, m, epoch)
             \/ ConnectSerial(s, m, epoch) \/ ConnectStream(s, m, epoch)
      PROVE  \/ UNCHANGED socket
             \/ socket[s] = Closed /\ Granted(s) /\ UNCHANGED <<viewer, upstream>>
  <2>1. /\ socket[s] = Closed /\ UNCHANGED <<viewer, upstream>>
        /\ \/ UNCHANGED socket
           \/ \E kind \in {"serial", "vnc", "stream"}, pc \in {"accepted", "connecting", "open"} :
                socket' = [socket EXCEPT ![s] = Grant(kind, pc, m)]
    BY <1>5 DEF ConnectVnc, ConnectSerial, ConnectStream, Put, Stays
  <2> QED
    BY <2>1 DEF Granted, Kinds
<1> QED
  BY <1>1, <1>2, <1>3, <1>4, <1>5 DEF ConsolesNext

LEMMA SocketsTyped ==
  ASSUME ConsolesTypeOK, ConsolesNext
  PROVE  socket' \in [Sockets -> {Closed} \cup OpenSocket]
<1>1. socket \in [Sockets -> {Closed} \cup OpenSocket]
  BY DEF ConsolesTypeOK, OpenSocket
<1>2. ASSUME NEW s \in Sockets, Granted(s) PROVE socket' \in [Sockets -> {Closed} \cup OpenSocket]
  <2>1. PICK kind \in Kinds, pc \in {"accepted", "connecting", "open"}, m \in Targets :
          socket' = [socket EXCEPT ![s] = Grant(kind, pc, m)]
    BY <1>2 DEF Granted
  <2>2. Grant(kind, pc, m) \in OpenSocket
    BY DEF Grant, OpenSocket, ConsolesTypeOK
  <2> QED
    BY <1>1, <2>1, <2>2
<1>3. ASSUME NEW s \in Sockets, socket[s] # Closed, Advanced(s)
      PROVE  socket' \in [Sockets -> {Closed} \cup OpenSocket]
  <2>1. PICK pc \in {"connecting", "open"} : socket' = [socket EXCEPT ![s].pc = pc]
    BY <1>3 DEF Advanced
  <2>2. socket[s] \in OpenSocket
    BY <1>1, <1>3
  <2>3. [socket[s] EXCEPT !.pc = pc] \in OpenSocket
    BY <2>2 DEF OpenSocket
  <2>4. socket' = [socket EXCEPT ![s] = [socket[s] EXCEPT !.pc = pc]]
    BY <1>1, <2>1
  <2> QED
    BY <1>1, <2>3, <2>4
<1> QED
  BY <1>1, <1>2, <1>3, SocketsChange

LEMMA ConsolesStep == ConsolesTypeOK /\ [ConsolesNext]_consoles => ConsolesTypeOK'
<1> SUFFICES ASSUME ConsolesTypeOK, [ConsolesNext]_consoles PROVE ConsolesTypeOK'
  OBVIOUS
<1>1. CASE UNCHANGED consoles
  BY <1>1 DEF consoles, ConsolesTypeOK
<1>2. CASE ConsolesNext
  <2>1. socket' \in [Sockets -> {Closed} \cup OpenSocket]
    BY <1>2, SocketsTyped
  <2>2. viewer' \in [enabled : BOOLEAN, admin : BOOLEAN, epoch : Nat]
    <3>1. CASE EditViewer
      <4>1. viewer \in [enabled : BOOLEAN, admin : BOOLEAN, epoch : Nat]
        BY DEF ConsolesTypeOK
      <4>2. /\ [viewer EXCEPT !.enabled = ~@] \in [enabled : BOOLEAN, admin : BOOLEAN, epoch : Nat]
            /\ [viewer EXCEPT !.admin = ~@] \in [enabled : BOOLEAN, admin : BOOLEAN, epoch : Nat]
        BY <4>1, Zenon
      <4>3. [viewer EXCEPT !.epoch = @ + 1] \in [enabled : BOOLEAN, admin : BOOLEAN, epoch : Nat]
        BY <4>1
      <4> QED
        BY <3>1, <4>2, <4>3 DEF EditViewer
    <3>2. CASE UNCHANGED viewer
      BY <3>2 DEF ConsolesTypeOK
    <3> QED
      BY <1>2, <3>1, <3>2 DEF ConsolesNext, EditUpstream, Restart, Vanish, VncProxy, Expire, PrepareSerial, Open,
         Monitor, Hangup, ConnectVnc, ConnectSerial, ConnectStream, Stays
  <2>3. upstream' \in [enabled : BOOLEAN, identity : Nat]
    <3>1. CASE EditUpstream
      <4>1. upstream \in [enabled : BOOLEAN, identity : Nat]
        BY DEF ConsolesTypeOK
      <4>2. [upstream EXCEPT !.enabled = ~@] \in [enabled : BOOLEAN, identity : Nat]
        BY <4>1, Zenon
      <4>3. [upstream EXCEPT !.identity = @ + 1] \in [enabled : BOOLEAN, identity : Nat]
        BY <4>1
      <4> QED
        BY <3>1, <4>2, <4>3 DEF EditUpstream
    <3>2. CASE UNCHANGED upstream
      BY <3>2 DEF ConsolesTypeOK
    <3> QED
      BY <1>2, <3>1, <3>2 DEF ConsolesNext, EditViewer, Restart, Vanish, VncProxy, Expire, PrepareSerial, Open,
         Monitor, Hangup, ConnectVnc, ConnectSerial, ConnectStream, Stays
  <2>4. exists' \subseteq Targets
    BY <1>2 DEF ConsolesTypeOK, ConsolesNext, EditViewer, EditUpstream, Restart, Vanish, VncProxy, Expire,
       PrepareSerial, Open, Monitor, Hangup, ConnectVnc, ConnectSerial, ConnectStream, Stays
  <2>5. edits' \in 0..MaxChanges
    <3>1. edits' = edits \/ (edits < MaxChanges /\ edits' = edits + 1)
      BY <1>2 DEF ConsolesNext, EditViewer, EditUpstream, Edit, Restart, Vanish, VncProxy, Expire,
         PrepareSerial, Open, Monitor, Hangup, ConnectVnc, ConnectSerial, ConnectStream, Stays
    <3> QED
      BY <3>1, MaxChangesNat DEF ConsolesTypeOK
  <2>6. token' \in [Tokens -> Targets \cup {"none", "expired"}]
    <3>1. Swept \in [Tokens -> Targets \cup {"none", "expired"}]
      BY DEF Swept, ConsolesTypeOK
    <3>2. ASSUME NEW t \in Tokens PROVE TakenOut(t) \in [Tokens -> Targets \cup {"none", "expired"}]
      BY <3>1 DEF TakenOut
    <3>3. CASE \E t \in Tokens : VncProxy(t)
      BY <3>1, <3>3 DEF VncProxy
    <3>4. CASE \E t \in Tokens : Expire(t)
      BY <3>4 DEF Expire, ConsolesTypeOK
    <3>5. CASE Restart
      BY <3>5 DEF Restart
    <3>6. CASE UNCHANGED token
      BY <3>6 DEF ConsolesTypeOK
    <3>7. CASE \E t \in Tokens : token' = TakenOut(t)
      BY <3>2, <3>7
    <3>8. \/ \E t \in Tokens : VncProxy(t) \/ Expire(t) \/ token' = TakenOut(t)
          \/ Restart \/ UNCHANGED token
      BY <1>2 DEF ConsolesNext, EditViewer, EditUpstream, Edit, Vanish,
         PrepareSerial, Open, Monitor, Hangup, ConnectVnc, ConnectSerial, ConnectStream
    <3> QED
      BY <3>3, <3>4, <3>5, <3>6, <3>7, <3>8
  <2> QED
    BY <2>1, <2>2, <2>3, <2>4, <2>5, <2>6 DEF ConsolesTypeOK, OpenSocket
<1> QED
  BY <1>1, <1>2

LEMMA InitConsoles == ConsolesInit => ConsolesTypeOK
<1> SUFFICES ASSUME ConsolesInit PROVE ConsolesTypeOK
  OBVIOUS
<1>1. viewer \in [enabled : BOOLEAN, admin : BOOLEAN, epoch : Nat]
  <2>1. PICK e \in {TRUE}, a \in BOOLEAN, n \in {0} : viewer = [enabled |-> e, admin |-> a, epoch |-> n]
    BY DEF ConsolesInit
  <2>2. e \in BOOLEAN /\ n \in Nat
    OBVIOUS
  <2> QED
    BY <2>1, <2>2, Zenon
<1>2. upstream \in [enabled : BOOLEAN, identity : Nat]
  BY DEF ConsolesInit
<1>3. /\ exists \subseteq Targets
      /\ token \in [Tokens -> Targets \cup {"none", "expired"}]
      /\ socket \in [Sockets -> {Closed} \cup OpenSocket]
  BY DEF ConsolesInit
<1>4. edits \in 0..MaxChanges
  BY MaxChangesNat DEF ConsolesInit
<1> QED
  BY <1>1, <1>2, <1>3, <1>4 DEF ConsolesTypeOK, OpenSocket

\* The rows that the grants rest on, the tokens and the sockets keep their types.
THEOREM ConsolesTyped == ConsolesSpec => []ConsolesTypeOK
  BY InitConsoles, ConsolesStep, PTL DEF ConsolesSpec

\* Epochs and identities of grants were those of the rows at some time before.
GrantsPast ==
  \A s \in Sockets : socket[s] # Closed => /\ socket[s].epoch <= viewer.epoch
                                           /\ socket[s].identity <= upstream.identity

LEMMA RowsAdvance ==
  ASSUME ConsolesTypeOK, ConsolesNext
  PROVE  viewer.epoch <= viewer'.epoch /\ upstream.identity <= upstream'.identity
<1>1. viewer.epoch \in Nat /\ upstream.identity \in Nat
  BY DEF ConsolesTypeOK
<1>2. viewer'.epoch = viewer.epoch \/ viewer'.epoch = viewer.epoch + 1
  BY DEF ConsolesTypeOK, ConsolesNext, EditViewer, EditUpstream, Restart, Vanish, VncProxy, Expire,
     PrepareSerial, Open, Monitor, Hangup, ConnectVnc, ConnectSerial, ConnectStream, Stays
<1>3. upstream'.identity = upstream.identity \/ upstream'.identity = upstream.identity + 1
  BY DEF ConsolesTypeOK, ConsolesNext, EditViewer, EditUpstream, Restart, Vanish, VncProxy, Expire,
     PrepareSerial, Open, Monitor, Hangup, ConnectVnc, ConnectSerial, ConnectStream, Stays
<1> QED
  BY <1>1, <1>2, <1>3

\* What a step makes of one socket
LEMMA SocketChanges ==
  ASSUME ConsolesTypeOK, ConsolesNext, NEW s \in Sockets, socket'[s] # Closed
  PROVE  \/ /\ socket[s] # Closed
            /\ socket'[s].epoch = socket[s].epoch /\ socket'[s].identity = socket[s].identity
            /\ socket'[s].kind = socket[s].kind
         \/ /\ socket[s] = Closed /\ UNCHANGED <<viewer, upstream>>
            /\ socket'[s].epoch = viewer.epoch /\ socket'[s].identity = upstream.identity
<1>1. socket \in [Sockets -> {Closed} \cup OpenSocket]
  BY DEF ConsolesTypeOK, OpenSocket
<1>2. CASE UNCHANGED socket \/ socket' = [r \in Sockets |-> Closed]
           \/ \E r \in Sockets : socket' = [socket EXCEPT ![r] = Closed]
  BY <1>1, <1>2
<1>3. ASSUME NEW r \in Sockets, socket[r] = Closed, Granted(r), UNCHANGED <<viewer, upstream>>
      PROVE  \/ /\ socket[s] # Closed
                /\ socket'[s].epoch = socket[s].epoch /\ socket'[s].identity = socket[s].identity
                /\ socket'[s].kind = socket[s].kind
             \/ /\ socket[s] = Closed /\ UNCHANGED <<viewer, upstream>>
                /\ socket'[s].epoch = viewer.epoch /\ socket'[s].identity = upstream.identity
  BY <1>1, <1>3 DEF Granted, Grant
<1>4. ASSUME NEW r \in Sockets, socket[r] # Closed, Advanced(r)
      PROVE  /\ socket[s] # Closed
             /\ socket'[s].epoch = socket[s].epoch /\ socket'[s].identity = socket[s].identity
             /\ socket'[s].kind = socket[s].kind
  <2>1. CASE r = s
    <3>1. PICK pc \in {"connecting", "open"} : socket' = [socket EXCEPT ![s].pc = pc]
      BY <1>4, <2>1 DEF Advanced
    <3>2. socket[s] \in OpenSocket /\ socket'[s] = [socket[s] EXCEPT !.pc = pc]
      BY <1>1, <1>4, <2>1, <3>1
    <3> QED
      BY <1>4, <2>1, <3>2 DEF OpenSocket
  <2>2. CASE r # s
    BY <1>1, <1>4, <2>2 DEF Advanced
  <2> QED
    BY <2>1, <2>2
<1> QED
  BY <1>2, <1>3, <1>4, SocketsChange

LEMMA GrantsPastStep ==
  ASSUME ConsolesTypeOK, GrantsPast, [ConsolesNext]_consoles
  PROVE  GrantsPast'
<1>1. CASE UNCHANGED consoles
  BY <1>1 DEF consoles, GrantsPast
<1>2. CASE ConsolesNext
  <2> SUFFICES ASSUME NEW s \in Sockets, socket'[s] # Closed
               PROVE  socket'[s].epoch <= viewer'.epoch /\ socket'[s].identity <= upstream'.identity
    BY DEF GrantsPast
  <2>1. viewer.epoch \in Nat /\ upstream.identity \in Nat /\ viewer'.epoch \in Nat /\ upstream'.identity \in Nat
    BY ConsolesStep DEF ConsolesTypeOK
  <2>2. CASE socket[s] = Closed
    BY <1>2, <2>1, <2>2, SocketChanges
  <2>3. CASE socket[s] # Closed
    <3>1. socket[s].epoch \in Nat /\ socket[s].identity \in Nat
      BY <2>3 DEF ConsolesTypeOK
    <3>2. socket[s].epoch <= viewer.epoch /\ socket[s].identity <= upstream.identity
      BY <2>3 DEF GrantsPast
    <3>3. viewer.epoch <= viewer'.epoch /\ upstream.identity <= upstream'.identity
      BY <1>2, RowsAdvance
    <3>4. socket'[s].epoch = socket[s].epoch /\ socket'[s].identity = socket[s].identity
      BY <1>2, <2>3, SocketChanges
    <3> QED
      BY <2>1, <3>1, <3>2, <3>3, <3>4
  <2> QED
    BY <2>2, <2>3
<1> QED
  BY <1>1, <1>2

\* A grant that the user's sessions or the connection have left behind
Lost(g) == g.epoch # viewer.epoch \/ (g.kind # "stream" /\ g.identity # upstream.identity)
StaysLost ==
  \A s \in Sockets :
    socket[s] # Closed /\ socket'[s] # Closed /\ Lost(socket[s]) => ~Entitled(socket[s])'

\* A revocation is for good: a live view whose user's sessions were revoked, or whose
\* connection was replaced, is never again one with a right, however the rows are edited
\* while its monitor has not looked (api.py 1823-1845); it can only be opened anew.
THEOREM RevokedForGood == ConsolesSpec => [][StaysLost]_consoles
<1>1. ConsolesTypeOK /\ GrantsPast /\ [ConsolesNext]_consoles => [StaysLost]_consoles
  <2> SUFFICES ASSUME ConsolesTypeOK, GrantsPast, ConsolesNext, NEW s \in Sockets,
                      socket[s] # Closed, socket'[s] # Closed, Lost(socket[s])
               PROVE  ~Entitled(socket[s])'
    BY DEF StaysLost
  <2>1. /\ viewer.epoch \in Nat /\ upstream.identity \in Nat /\ viewer'.epoch \in Nat /\ upstream'.identity \in Nat
        /\ socket[s].epoch \in Nat /\ socket[s].identity \in Nat
    BY ConsolesStep DEF ConsolesTypeOK
  <2>2. socket[s].epoch <= viewer.epoch /\ socket[s].identity <= upstream.identity
    BY DEF GrantsPast
  <2>3. viewer.epoch <= viewer'.epoch /\ upstream.identity <= upstream'.identity
    BY RowsAdvance
  <2>4. socket'[s].epoch = socket[s].epoch /\ socket'[s].identity = socket[s].identity
    BY SocketChanges
  <2>5. CASE socket[s].epoch # viewer.epoch
    BY <2>1, <2>2, <2>3, <2>4, <2>5 DEF Entitled
  <2>6. CASE socket[s].kind # "stream" /\ socket[s].identity # upstream.identity
    <3>1. socket'[s].kind = socket[s].kind
      BY SocketChanges
    <3> QED
      BY <2>1, <2>2, <2>3, <2>4, <2>6, <3>1 DEF Entitled
  <2> QED
    BY <2>5, <2>6 DEF Lost
<1>2. ConsolesInit => GrantsPast
  BY DEF ConsolesInit, GrantsPast
<1> QED
  BY <1>1, <1>2, InitConsoles, ConsolesStep, GrantsPastStep, PTL DEF ConsolesSpec

--------------------------------------------------------------------------------
(* The composition: every behaviour of Services is one of each component *)

LEMMA InitsOfComponents ==
  ServicesInit => /\ AccountsInit /\ ConsolesInit /\ OperationsInit /\ ImagesInit /\ BackupsInit
                  /\ PoolInit /\ UpgradeInit /\ HistoryInit /\ SeedsInit
  BY DEF ServicesInit

LEMMA StepsOfComponents ==
  [ServicesNext]_services => /\ [AccountsNext]_accounts /\ [ConsolesNext]_consoles
                             /\ [OperationsNext]_operations /\ [ImagesNext]_images
                             /\ [BackupsNext]_backups /\ [PoolNext]_pools /\ [UpgradeNext]_schema
                             /\ [HistoryNext]_history /\ [SeedsNext]_seeds
  BY DEF ServicesNext, services

\* Whatever is proved of a component holds of it in the composition too, since a step of
\* one leaves the others alone.  Of the upgrade's specification the composition has no
\* fairness while another component is looked at, so only its safety part.
THEOREM ServicesAreTheirParts ==
  ServicesSpec => /\ AccountsSpec /\ ConsolesSpec /\ OperationsSpec /\ ImagesSpec /\ BackupsSpec
                  /\ PoolSpec /\ HistorySpec /\ SeedsSpec
                  /\ UpgradeInit /\ [][UpgradeNext]_schema
  BY InitsOfComponents, StepsOfComponents, PTL
  DEF ServicesSpec, AccountsSpec, ConsolesSpec, OperationsSpec, ImagesSpec, BackupsSpec, PoolSpec,
      HistorySpec, SeedsSpec

\* TypeOK of Services: all the variables of all nine components keep their types, for
\* every value of the constants, if no id of a job is given twice.
THEOREM ServicesTyped == ASSUME ~IdsReused PROVE ServicesSpec => []TypeOK
<1> USE ~IdsReused
<1>1. AccountsInv => AccountsTypeOK
  BY DEF AccountsInv
<1>2. PoolInv => PoolTypeOK
  BY DEF PoolInv
<1>3. UpgradeInv => UpgradeTypeOK
  BY DEF UpgradeInv
<1>4. UpgradeInit /\ [][UpgradeNext]_schema => []UpgradeInv
  BY InitUpgradeInv, UpgradeStep, PTL
<1>5. /\ AccountsTypeOK /\ ConsolesTypeOK /\ OperationsTypeOK /\ ImagesTypeOK /\ BackupsTypeOK
      /\ PoolTypeOK /\ UpgradeTypeOK /\ HistoryTypeOK /\ SeedsTypeOK
      => TypeOK
  BY DEF TypeOK
<1> QED
  BY <1>1, <1>2, <1>3, <1>4, <1>5, ServicesAreTheirParts, AccountsInvariant, ConsolesTyped, OperationsTyped,
     ImagesTyped, BackupsTyped, PoolInvariant, HistoryIsTyped, SeedsTyped, PTL

\* What holds of the composition whatever its switches, faults and clock are: an
\* administrator remains, guesses are bounded, operations act on their own VM and commit what
\* it is, reservations serve and are refused only when nothing is free, the catalog is sound
\* and a repeated start changes nothing of it, credentials resolve, the history of an upgrade
\* is kept, a revocation that nobody overtook revokes and active jobs are left untouched.
THEOREM ServicesSafe ==
  ServicesSpec => /\ [](/\ AdministratorRemains /\ GuessesBounded /\ OperatesOnOwnVm
                        /\ ReservationServes /\ ServedCatalogSound /\ CredentialsResolve /\ HistoryKept)
                  /\ RevokesUnlessOvertaken /\ CommitAgrees /\ NeverRefusedEarly
                  /\ RestartChangesNothing /\ ActiveJobsStay
<1>1. UpgradeInv => HistoryKept
  BY DEF UpgradeInv, UpgradeTypeOK, OneTable, Origins, Reached, Made, Sealed, HistoryKept
<1>2. UpgradeInit /\ [][UpgradeNext]_schema => []UpgradeInv
  BY InitUpgradeInv, UpgradeStep, PTL
<1>3. ServicesSpec => [](/\ AdministratorRemains /\ GuessesBounded /\ OperatesOnOwnVm
                         /\ ReservationServes /\ ServedCatalogSound /\ CredentialsResolve /\ HistoryKept)
  BY <1>1, <1>2, ServicesAreTheirParts, AnAdministratorRemains, GuessesAreBounded, OwnVmOnly, ReservationsServe,
     CatalogsAreSound, CredentialsMoved, PTL
<1>4. ServicesSpec => AccountsSpec /\ OperationsSpec /\ PoolSpec /\ HistorySpec /\ SeedsSpec
  BY ServicesAreTheirParts
<1> QED
  BY <1>3, <1>4, RevocationIsComplete, CommitsAgree, RefusedOnlyWhenFull, SeedsAreIdempotent, ActiveLeftUntouched
================================================================================
