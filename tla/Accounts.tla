-------------------------------- MODULE Accounts --------------------------------
(* Accounts and sessions: app/api.py 461-706, 2914-2934, 3226-3273, 3510-3625  *)
(* and app/deps.py.  A handler runs in a thread of its own.  What it read      *)
(* stays in its ORM session: the row of the signed-in user is the one that     *)
(* current_user loaded, and a commit writes back only the columns whose value  *)
(* differs from the one read.                                                  *)
EXTENDS Integers, FiniteSets

CONSTANTS
  Users,          \* rows of the table; an e-mail address names one
  Handlers,       \* threads of the server
  Nobody,
  LockThreshold,  \* _LOCK_THRESHOLD
  MaxRequests     \* bound: requests that are begun

ASSUME HandlersNotNobody == Nobody \notin Users \cup Handlers
ASSUME UsersFinite == IsFiniteSet(Users)
ASSUME ThresholdPositive == LockThreshold \in Nat \ {0}
ASSUME MaxRequestsNat == MaxRequests \in Nat

VARIABLES
  user,        \* the table
  issued,      \* <<u, epoch>> of every cookie that was ever signed
  handler,     \* place and local variables of each thread
  adminLock,   \* _active_admin_mutation_lock
  setupLock,   \* _setup_lock
  requests,    \* how many were begun
  guesses      \* wrong passwords since the account was last locked or reset

accounts == <<user, issued, handler, adminLock, setupLock, requests, guesses>>

AdminOps == {"demote", "promote", "disable", "enable", "delete"}
Ops == AdminOps \cup {"login", "wrong", "logout", "password", "reset", "add", "setup"}
\* The handlers that raise the epoch of the row they write.
Revokes(op) == op \in {"logout", "password", "reset", "delete"}

\* `overtaken` is history: whether the epoch was ever raised from a value that was no
\* longer the row's, because the commit of another handler came in between.
Row == [status : {"absent", "live", "disabled", "deleted"}, role : {"admin", "user"},
        epoch : Nat, overtaken : BOOLEAN,
        failures : 0..(LockThreshold - 1), lock : {"none", "on", "past"}]
NoAccount == [status |-> "absent", role |-> "user", epoch |-> 0, overtaken |-> FALSE,
              failures |-> 0, lock |-> "none"]
Administrator == [NoAccount EXCEPT !.status = "live", !.role = "admin"]
Idle == [op |-> "none", pc |-> "idle", by |-> Nobody, on |-> Nobody, seen |-> NoAccount]

Live(u) == user[u].status = "live"
ActiveAdmins == {u \in Users : Live(u) /\ user[u].role = "admin"}
\* current_user: the cookie names a live account and its present epoch.
Valid(u, epoch) == Live(u) /\ epoch = user[u].epoch

\* A restored database or a fresh one.
AccountsInit ==
  /\ user \in {[u \in Users |-> NoAccount], [u \in Users |-> Administrator]}
  /\ issued = {<<u, 0>> : u \in {v \in Users : user[v].status = "live"}}
  /\ handler = [h \in Handlers |-> Idle]
  /\ adminLock = Nobody /\ setupLock = Nobody
  /\ requests = 0
  /\ guesses = [u \in Users |-> 0]

\* A thread takes up a request.
Begin(h, op, pc, by, on, seen) ==
  /\ handler[h] = Idle /\ requests < MaxRequests
  /\ handler' = [handler EXCEPT ![h] = [op |-> op, pc |-> pc, by |-> by, on |-> on, seen |-> seen]]
  /\ requests' = requests + 1
  /\ UNCHANGED <<user, issued, adminLock, setupLock, guesses>>

\* login up to the end of the Argon2 verification
LoginRead(h, u) ==
  /\ Live(u) /\ user[u].lock # "on"
  /\ \E op \in {"login", "wrong"} : Begin(h, op, "commit", Nobody, u, user[u])

\* logout takes any cookie that was signed, revoked or not.
LogoutRead(h, u) ==
  /\ \E c \in issued : c[1] = u
  /\ Begin(h, "logout", "commit", u, u, user[u])

\* The dependencies current_user and require_admin, then the handler's own check.
Authenticate(h, u, op, v) ==
  /\ \E c \in issued : c[1] = u /\ Valid(u, c[2])
  /\ \/ op = "password" /\ v = u
     \/ op \in AdminOps \cup {"reset", "add"} /\ user[u].role = "admin"
  /\ op = "add" => user[v].status = "absent"
  /\ Begin(h, op, IF op \in {"password", "add"} THEN "commit" ELSE "read", u, v, user[u])

\* auth_setup is reached without a session.
SetupBegin(h, u) == Begin(h, "setup", "read", Nobody, u, NoAccount)

WriteUser(u, row) == user' = [user EXCEPT ![u] = row]
Ends(h) == handler' = [handler EXCEPT ![h] = Idle]
Sign(u) == issued' = issued \cup {<<u, user'[u].epoch>>}
Doing(h, op, pc) == handler[h].op = op /\ handler[h].pc = pc

\* The row the handler works on: its own user's is the object it already has.
Target(h) == IF handler[h].on = handler[h].by THEN handler[h].seen ELSE user[handler[h].on]

\* A column that is set to the value it was read with is not written.
Reset(row, seen) ==
  [row EXCEPT !.failures = IF seen.failures = 0 THEN @ ELSE 0,
              !.lock = IF seen.lock = "none" THEN @ ELSE "none"]

\* The right password: counters are cleared and a cookie of the stored epoch is signed.
LoginSucceed(h) ==
  /\ Doing(h, "login", "commit")
  /\ LET u == handler[h].on IN
       /\ WriteUser(u, Reset(user[u], handler[h].seen))
       /\ guesses' = [guesses EXCEPT ![u] = 0]
       /\ Sign(u)
  /\ Ends(h)
  /\ UNCHANGED <<adminLock, setupLock, requests>>

\* Mutants of Failed: the account is locked one failure late; the counter is written
\* back from the row the handler read.
FailedLate(row, seen) ==
  IF row.failures + 1 > LockThreshold
    THEN [row EXCEPT !.failures = 0, !.lock = "on"]
    ELSE [row EXCEPT !.failures = @ + 1]
FailedFromRead(row, seen) ==
  IF seen.failures + 1 >= LockThreshold
    THEN [row EXCEPT !.failures = 0, !.lock = "on"]
    ELSE [row EXCEPT !.failures = seen.failures + 1]

\* _record_account_login_failure: one UPDATE that counts in the database
Failed(row, seen) ==
  IF row.failures + 1 >= LockThreshold
    THEN [row EXCEPT !.failures = 0, !.lock = "on"]
    ELSE [row EXCEPT !.failures = @ + 1]

LoginFail(h) ==
  /\ Doing(h, "wrong", "commit")
  /\ LET u == handler[h].on
         row == Failed(user[u], handler[h].seen) IN
       /\ WriteUser(u, row)
       /\ guesses' = [guesses EXCEPT ![u] = IF row.failures = 0 THEN 0 ELSE @ + 1]
  /\ Ends(h)
  /\ UNCHANGED <<issued, adminLock, setupLock, requests>>

\* locked_until passes.
LockExpires(u) ==
  /\ user[u].lock = "on"
  /\ WriteUser(u, [user[u] EXCEPT !.lock = "past"])
  /\ UNCHANGED <<issued, handler, adminLock, setupLock, requests, guesses>>

\* Mutant of Raised: the other sessions are left alone.
NotRaised(row, seen) == row

\* The epoch is incremented in Python from the value read.
Raised(row, seen) ==
  [row EXCEPT !.epoch = seen.epoch + 1, !.overtaken = @ \/ row.epoch # seen.epoch]

LogoutCommit(h) ==
  /\ Doing(h, "logout", "commit")
  /\ WriteUser(handler[h].on, Raised(user[handler[h].on], handler[h].seen))
  /\ Ends(h)
  /\ UNCHANGED <<issued, adminLock, setupLock, requests, guesses>>

\* change_password stamps its own session with the new epoch.
PasswordCommit(h) ==
  /\ Doing(h, "password", "commit")
  /\ WriteUser(handler[h].on, Raised(user[handler[h].on], handler[h].seen))
  /\ Sign(handler[h].on)
  /\ Ends(h)
  /\ UNCHANGED <<adminLock, setupLock, requests, guesses>>

Continue(h, row) == handler' = [handler EXCEPT ![h].pc = "commit", ![h].seen = row]
Exists(row) == row.status \notin {"absent", "deleted"}

\* reset_user_password reads the target, without a lock.
ResetRead(h) ==
  /\ Doing(h, "reset", "read")
  /\ Exists(Target(h))
  /\ Continue(h, Target(h))
  /\ UNCHANGED <<user, issued, adminLock, setupLock, requests, guesses>>

ResetCommit(h) ==
  /\ Doing(h, "reset", "commit")
  /\ LET u == handler[h].on
         seen == handler[h].seen IN
       /\ WriteUser(u, Raised(Reset(user[u], seen), seen))
       /\ guesses' = [guesses EXCEPT ![u] = 0]
       /\ IF u = handler[h].by THEN Sign(u) ELSE UNCHANGED issued
  /\ Ends(h)
  /\ UNCHANGED <<adminLock, setupLock, requests>>

\* Mutant of OtherAdminRemains: an administrator may always go.
NoGuard(row) == TRUE

\* _last_admin_guard: the query counts what is committed.
OtherAdminRemains(row) == row.role = "admin" => Cardinality(ActiveAdmins) > 1

\* _edit_user_transaction and _delete_user_transaction up to their commit
Permitted(op, row, self) ==
  /\ Exists(row)
  /\ CASE op = "demote" -> row.role = "admin" /\ OtherAdminRemains(row)
       [] op = "promote" -> row.role = "user"
       [] op = "disable" -> row.status = "live" /\ ~self /\ OtherAdminRemains(row)
       [] op = "enable" -> row.status = "disabled"
       [] op = "delete" -> ~self /\ OtherAdminRemains(row)

AdminLockFree == adminLock = Nobody

\* edit_user and delete_user wait for the lock, read the row and check it.
AdminEnter(h) ==
  /\ handler[h].op \in AdminOps /\ handler[h].pc = "read"
  /\ AdminLockFree
  /\ Permitted(handler[h].op, Target(h), handler[h].on = handler[h].by)
  /\ adminLock' = h
  /\ Continue(h, Target(h))
  /\ UNCHANGED <<user, issued, setupLock, requests, guesses>>

Edited(op, row, seen) ==
  CASE op = "demote" -> [row EXCEPT !.role = "user"]
    [] op = "promote" -> [row EXCEPT !.role = "admin"]
    [] op = "disable" -> [row EXCEPT !.status = "disabled"]
    [] op = "enable" -> [row EXCEPT !.status = "live"]
    [] op = "delete" -> [Raised(Reset(row, seen), seen) EXCEPT
                           !.status = "deleted",
                           !.role = IF seen.role = "user" THEN @ ELSE "user"]

AdminCommit(h) ==
  /\ handler[h].op \in AdminOps /\ handler[h].pc = "commit"
  /\ WriteUser(handler[h].on, Edited(handler[h].op, user[handler[h].on], handler[h].seen))
  /\ guesses' = IF handler[h].op = "delete" THEN [guesses EXCEPT ![handler[h].on] = 0] ELSE guesses
  /\ adminLock' = Nobody
  /\ Ends(h)
  /\ UNCHANGED <<issued, setupLock, requests>>

\* add_user: of two that saw the address free, the unique index admits one.
AddCommit(h) ==
  /\ Doing(h, "add", "commit")
  /\ user[handler[h].on].status = "absent"
  /\ \E role \in {"admin", "user"} :
       WriteUser(handler[h].on, [Administrator EXCEPT !.role = role])
  /\ Ends(h)
  /\ UNCHANGED <<issued, adminLock, setupLock, requests, guesses>>

NobodyYet == \A u \in Users : user[u].status \in {"absent", "deleted"}
SetupLockFree == setupLock = Nobody

\* auth_setup: checks under its lock that there is no account, then creates the first.
SetupEnter(h) ==
  /\ Doing(h, "setup", "read")
  /\ SetupLockFree /\ NobodyYet
  /\ setupLock' = h
  /\ Continue(h, NoAccount)
  /\ UNCHANGED <<user, issued, adminLock, requests, guesses>>

SetupCommit(h) ==
  /\ Doing(h, "setup", "commit")
  /\ user[handler[h].on].status = "absent"
  /\ WriteUser(handler[h].on, Administrator)
  /\ Sign(handler[h].on)
  /\ setupLock' = Nobody
  /\ Ends(h)
  /\ UNCHANGED <<adminLock, requests, guesses>>

\* A refusal, an exception or a restart: nothing is committed, a lock is released.
Abandon(h) ==
  /\ handler[h] # Idle
  /\ Ends(h)
  /\ adminLock' = IF adminLock = h THEN Nobody ELSE adminLock
  /\ setupLock' = IF setupLock = h THEN Nobody ELSE setupLock
  /\ UNCHANGED <<user, issued, requests, guesses>>

AccountsNext ==
  \/ \E h \in Handlers :
       \/ \E u \in Users : LoginRead(h, u) \/ LogoutRead(h, u) \/ SetupBegin(h, u)
       \/ \E u, v \in Users, op \in Ops : Authenticate(h, u, op, v)
       \/ LoginSucceed(h) \/ LoginFail(h) \/ LogoutCommit(h) \/ PasswordCommit(h)
       \/ ResetRead(h) \/ ResetCommit(h) \/ AdminEnter(h) \/ AdminCommit(h)
       \/ AddCommit(h) \/ SetupEnter(h) \/ SetupCommit(h) \/ Abandon(h)
  \/ \E u \in Users : LockExpires(u)

AccountsSpec == AccountsInit /\ [][AccountsNext]_accounts

--------------------------------------------------------------------------------
Local == [op : Ops, pc : {"read", "commit"}, by : Users \cup {Nobody}, on : Users, seen : Row]

AccountsTypeOK ==
  /\ user \in [Users -> Row]
  /\ issued \subseteq Users \X Nat
  /\ handler \in [Handlers -> Local \cup {Idle}]
  /\ adminLock \in Handlers \cup {Nobody}
  /\ setupLock \in Handlers \cup {Nobody}
  /\ requests \in 0..MaxRequests
  /\ guesses \in [Users -> Nat]

\* _last_admin_guard and its lock (api.py 3519-3555): once there are accounts, an
\* enabled administrator remains, whoever demotes, disables or deletes whom at one
\* time, with rights that were checked before the lock was taken.
AdministratorRemains ==
  (\E u \in Users : user[u].status # "absent") => ActiveAdmins # {}

\* Every wrong password counts (api.py 605-630): however many logins of an account
\* overlap, LockThreshold of them in a row cannot be tried without locking it.
GuessesBounded == \A u \in Users : guesses[u] < LockThreshold

\* Two first-run requests create one administrator (api.py 497-499): a commit of
\* auth_setup finds nobody.
SetupOnce ==
  \A h \in Handlers : Doing(h, "setup", "commit") => NobodyYet

\* "a password change or admin reset revokes all other existing sessions" and a logout
\* "EVERY cookie signed for this user" (README.md 291, api.py 683): a cookie that was
\* signed before such a commit is not valid after it.
Committing(h, u) ==
  Revokes(handler[h].op) /\ handler[h].pc = "commit" /\ handler[h].on = u /\ user'[u] # user[u]
RevocationRevokes ==
  [][\A h \in Handlers, u \in Users :
       handler[h] # handler'[h] /\ Committing(h, u)
       => <<u, user'[u].epoch>> \notin issued]_accounts

\* The increment is made in Python and no lock is held (api.py 692, 3268, 3576, 3614), so that
\* holds as long as no commit of another handler has overtaken one that raises the epoch
\* of this user; and whatever else overlaps, logins and edits among it, it does.
RevokesUnlessOvertaken ==
  [][\A h \in Handlers, u \in Users :
       handler[h] # handler'[h] /\ Committing(h, u) /\ ~user'[u].overtaken
       => <<u, user'[u].epoch>> \notin issued]_accounts
================================================================================
