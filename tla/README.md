# GoblinDock in TLA+

GoblinDock is a self-hosted portal that deploys virtual machines on Proxmox. A FastAPI
process (`app/api.py`, `app/operations.py`) keeps its state in SQLite (`app/models.py`), one
worker thread and one waiting thread (`app/worker.py`) execute jobs against a cluster
(`app/proxmox.py`), background threads keep an inventory, a backup schedule and a change
counter, and a browser application (`web/`) shows it all. What is hard in it is what no unit
test reaches: handlers, threads, Proxmox tasks and restarts that interleave between two
commits or two remote calls, and answers that never come. This directory specifies those parts,
checks them with TLC and proves the central invariants with TLAPS.

## 1. Inventory of the system

| Component | State it keeps | Operations | Interacts through | Hard behaviour | What makes it correct |
|---|---|---|---|---|---|
| Operation locks (`api.py` 1074-1107) | registry deployment → (lock, users), its guard, the admission lock | enter, leave | every lifecycle handler; the worker's cleanup retry | entries made and removed on the fly; nested locks | one operation per deployment, no leaked entry, no deadlock, unrelated deployments do not wait |
| Lifecycle admission (`api.py` 846-1455, `operations.py`, `template_ops.py`) | rows `deployments`, `jobs`, `ip_allocations` | deploy, rebuild (saved or current settings), destroy, retry cleanup, retry configuration, cancel, local cleanup, reconcile | commits that the worker polls | row read before the guard is evaluated | one active lifecycle job per deployment; nothing destructive on an unconfirmed identity |
| Worker (`worker.py` 1060-1180, 560-1000) | claimed job, local copies of the row | claim, deploy, rebuild, destroy, configure | tables; Proxmox calls and tasks | cancel, lost answers, tasks that outlive the wait | no VM without an owner, jobs end |
| Waiting thread (`worker.py` 1560-1745) | the job it resumes | poll, resume, time out, cancel | tables; Proxmox | ends jobs beside the worker | jobs end once, rows settle |
| Reconciliation and recovery (`worker.py` 1183-1556, 1748-1800) | list of orphans in memory | settle a canceled, failed or orphaned job; tear down; retry pending cleanups | tables; Proxmox | tasks still running, unknown presence, second restart | a row is dropped only when the VM is gone |
| Proxmox client (`proxmox.py`) | none; the cluster's VMs and tasks are external | create, destroy, stop, start, resize, probe, wait | HTTP | 4xx, lost answers, timeouts, partial inventories | absence is never concluded from an error |
| Static addresses (`api.py` `allocate_ip`, `network_pool.py`) | `ip_allocations` with a unique (network, ip) | allocate, reuse, release, edit a pool | admission, reconciliation, edits of the network | release by a failed deploy, saved contexts, edits between read and commit | an address in use is reserved; a full pool is full |
| Schema upgrade (`db.py` 47-319) | SQLite's schema and version | rename, create, add columns, encrypt answers, recover original plans | every start | statements that commit by themselves; death between two of them | nothing is stranded or left in plain text |
| Seeds (`seed.py` 1557-1931) | blocks, images, starter template, default networks, secrets | eight steps, each a transaction, at every start | connections, templates, secrets | stops between two steps, an older release on the same data | what a user wrote keeps its meaning; a second start changes nothing |
| Power, resize, snapshots (`api.py` 1207-1251, 1449-1800) | none of their own | short Proxmox calls under the operation lock | operation lock, the worker's jobs, Proxmox tasks | race with lifecycle jobs; tasks that outlive the wait | an operation has the VM to itself; what is committed is what the VM is; the lock comes free |
| Consoles and job streams (`api.py` 1802-2180, 3117-3190) | one-time tokens, grants of open sockets | grant, connect, prepare, revalidate, close | accounts, connections, deployments, operation lock | revoked session, replaced connection, removed deployment while the socket is open | no live view goes on without the right to it |
| Base images (`worker.py` 443-551, `image_cache.py`) | marker and active-name settings per image, volumes on storage | look, distrust, download, verify, record, discard, import | sync jobs, deploy, download tasks of the node | crash between two commits or during a download; a download that ends late | only whole, verified files are imported, and those stay |
| Live inventory (`inventory.py`) | snapshots, in-flight probes, generations | schedule, probe, store, invalidate | connection rows, `/api/state` | probe overtaken by an edit, slots exhausted | no data of a replaced configuration is served; no connection starves |
| State stream and live view (`statebus.py`, `api.py` 3201-3224, `web/store.js`, `web/app.js`) | version counter, each stream's last version, the browser's view and tombstones | bump, ping, refetch, remove | SSE, HTTP | coalesced pings, stale responses in flight, dropped streams | the view converges; a refetch after a change shows it; a removed row does not come back |
| Accounts and sessions (`api.py` 461-706, 2914-2934, 3226-3273, 3510-3625, `deps.py`) | users, epochs, lockout counters, cookies | log in and out, change and reset a password, add, promote, demote, disable, delete, first-run setup | every request | handlers of several threads, each with rows read earlier in its ORM session | an enabled administrator remains; guesses are bounded; a revoked session stays revoked |
| Job history (`api.py` 2941-3190, `scheduler.py`, `web/job.js`) | jobs and log lines, hidden flags; a stream's last id, a page's log | dismiss, purge, prune; stream, first request, reconnect | worker and waiting thread write the same rows | purges that act on what they read; lines written between a stream's reads; dropped streams | active jobs stay; the log that is shown has no gap |
| Backups (`backup.py`, `scheduler.py`) | files in the backup directory, the publication lock | copy, verify, flush, publish, rotate | scheduler, administrators | crash or loss of power at any step, overlapping callers | what survives is whole, newest, and enough; an answered backup is durable |
| Connections and networks (`api.py` 2700-2730, 3336-3510) | rows | add, edit, disable, delete | admission, inventory, address pools, seeds | edited while jobs run and addresses are reserved | what is referred to stays; a pool serves usable addresses |
| Templates, blocks, recipes (`recipes.py`, `template_ops.py`) | rows | edit, merge inputs, compile | admission | pure | merged inputs are the documented ones |
| Execution plans (`execution_plan.py`) | sealed plan of a job | seal, open, validate | worker | pure | immutable |

The rest (cryptography, request limits, serialisation, presentation) is listed in
`PROJECT.json` with the reason it is left out.

## 2. Modules and plan

| Module | Models | Status |
|---|---|---|
| `DeploymentLocks` | abstract: one lock per deployment and the admission lock | done |
| `OperationLock`, `MCOperationLock` | the lock registry and the admission lock, thread by thread; implements `DeploymentLocks` | done, refinement and absence of deadlocks proved |
| `LifecycleState` | tables, cluster, places of the two threads, what the cluster does by itself | done |
| `Admission` EXTENDS `LifecycleState` | the API handlers | done |
| `JobExecution` EXTENDS `LifecycleState` | the worker and the waiting thread | done |
| `Reconciliation` EXTENDS `JobExecution` | what follows every job that does not succeed, and every restart | done |
| `Lifecycle` EXTENDS `Admission`, `Reconciliation` | the composition, its properties | done |
| `LifecycleProofs`, `MCLifecycle` | types and the guard of the lifecycle, proved; TLC instance | done |
| `OwnershipProofs` EXTENDS `LifecycleProofs` | no VM is forgotten, proved | done |
| `DeploymentProofs` EXTENDS `OwnershipProofs` | addresses, rows at work and destroys in doubt, proved | done |
| `Inventory`, `MCInventory` | the scheduler, the probe threads, the snapshot cache, edits of connections | done, safety proved |
| `LiveState`, `MCLiveState` | one browser: change counter, state stream, fetches, tombstones | done, safety proved |
| `Accounts` | accounts and sessions, handler by handler | done, safety proved |
| `VmOperations` | power, resize, disk growth, snapshots and rollback under the operation lock, beside lifecycle jobs | done, safety proved |
| `Consoles` | serial and graphical consoles, job streams: grants and revalidation | done, safety proved |
| `AddressPool` | allocation from a pool beside edits of its network; the pool's arithmetic | done, safety proved |
| `ImageCache` | the cached base image: marker, download, two commits, crashes, late downloads | done, safety proved |
| `BackupStore` | abstract: what a loss of power leaves of the backups | done |
| `Backups` | backups step by step; implements `BackupStore` | done, refinement proved |
| `SchemaUpgrade` | `init_db` on every earlier layout | done, safety proved |
| `CatalogSeeds` | `run_all_seeds` at every start | done, safety proved |
| `JobHistory` | rows and log lines of jobs, what removes them, the page that follows one | done, safety proved |
| `LockProofs` | the proofs about `OperationLock` | done |
| `ViewProofs` | the proofs about `Inventory` and `LiveState` | done |
| `StorageProofs` | the proofs about `AddressPool`, `CatalogSeeds`, `Backups`, `ImageCache` and `SchemaUpgrade` | done |
| `OperationsProofs` | the proofs about `VmOperations` and `JobHistory` | done |
| `Services` EXTENDS the nine components above, `MCServices` | their sum; TLC instance | done, safety proved |
| `ServicesProofs` EXTENDS `OperationsProofs`, which extends `StorageProofs` | the proofs about `Accounts`, `Consoles` and the composition | done |

The order followed the weight of the behaviour: first what can lose or destroy a VM, then what
shows stale data, then what corrupts files and rows, then accounts. What the plan has left:
quotas in `Admission`, the deletion of a user beside a deploy of theirs, and the compilation of
templates.

## 3. How the modules correspond to the code

**`OperationLock`.** A request is one execution of a handler. `pc` follows
`_deployment_operation_lock`: take the guard (`EnterGuard`), look the entry up or create it
(`LookupFound`, `LookupCreate`), count it and release the guard (`Reference`), acquire the
entry's lock (`Acquire`), take the admission lock if the handler does (`Admit`), run the body
(`Leave` ends it), release (`Unlock`), take the guard again (`ReenterGuard`), give the
reference up and remove the entry if it was the last (`Release`). An entry is a member of a
finite set; one that no variable refers to may be made again, as the garbage collector allows.
`DeploymentLocks` has no entries, no counts and no guard: every deployment has a lock that is always
there. Its `owner` of a deployment is the holder of the entry that is registered for it, or nobody,
and its `stage` of a request says whether the request is outside, has the deployment's lock, is in the
body, has finished it or is after it; the steps on the registry are stutters.

**`LifecycleState`.** `dep`, `alloc` and `job` are the tables; a row keeps only what decides
something: status, VM id, identity state, cleanup origin, the saved address, whether the plan
holds Ansible blocks; a job its status, cancel flag, create state, recorded remote task and the
address in its context. `live` stands for `running` and `stopped`, which only power operations
tell apart. `vm` and `running` are the cluster: which job's create made the VM that an id
names, and which accepted tasks have not stopped. `at` holds, for the worker and the waiting
thread, the place in the code and the local variables read earlier. An action is one database
transaction or one Proxmox call together with the code up to the next one: that is where
other threads, users, the cluster and a crash can come in between.

**`Admission`.** A handler reads the row and evaluates its guard (`BeginRequest`), and later
looks for an active job, allocates and commits (`FinishRequest`) or refuses (`RefuseRequest`).
The two are apart because SQLite reads are not in one transaction with the commit, and what was
read is what `request` remembers. Handlers that insert a job or drop a row hold the admission
lock, so one is between its two steps at a time. `Deploy` is one commit. A local cleanup looks for
an active job and probes (`BeginCleanup`), and drops the row without asking either again
(`FinishCleanup`). `Reconcile` is one action: it holds the deployment's lock and nothing it reads
between its probe and its commit is written by somebody else, except through the disabled flag.
A handler reads the row and, some lines later, asks for an active job; the model's guard of
`BeginRequest` joins the two unless `eager` is among the faults (only `guard` has it).

**`JobExecution`.** One place per call: `Load`, `Stop`, `Destroy`, `RecordDestroy`, `Erase`,
`Confirm`, then (deploy, or the second half of a rebuild) `Pick`, `Prepare`, `Create`, `Accept` (the
commit that says so), `Record` (the one that names the task), `Import`, `Setup`, `Boot`, `Ansible`,
`Finish`, `Succeed`. A stop or destroy that Proxmox refuses (`reject`) leaves no task to record.
Stop, configuration, resize and start tasks change nothing a property distinguishes; each is
submitted, recorded and awaited in one step that may fail, be canceled or leave a task running.
Every exit that is not a success goes to `retain`, where `Reconciliation` continues exactly as
`_execute` does.

**`Reconciliation`.** `Retain` keeps the identity of a task that still runs, `Read` takes the
snapshot and decides on a teardown, `TearDown`/`TearDownWait` are the best-effort stop and
destroy, `Probe` asks for presence, `Apply` writes what canceled, failed and cleanup outcomes
write, `Close` ends the job. `Recover` and `RecoverNext` are `_recover_orphans` in its two
parts, one commit and then one reconciliation after the other; `RetryCleanup` is the idle
worker's pass over pending cleanups.

`Faults` names what may go wrong in a run: `local` (an error or failed preflight in the
process), `reject` (4xx), `lost` (answer lost, the call accepted or not), `taskfail`, `stuck`
(a task outlives the wait), `unreachable` (a probe without an answer), `crash`, `foreign`
(somebody else's VM takes an id), `eager` (a handler's guard is evaluated while another job is
still active). `Ops` names the operations users call.
**`Inventory`.** `snapshots`, `generations` and `inflight` are the fields of `InventoryCache`;
`done` orders the snapshots by `completedAt`, which is all the scheduler uses of it. `List` and
`Refresh` are `_run`: one query whose rows are sorted and copied, then one `refresh()` per copy,
least recently completed first. `Check`, `Fail` and `Store` are a probe thread. The probe calls
Proxmox with its own copy of the row, so the only thing that happens between a check and the next
one is that the row may change; the check and the call after it are one action. `Checks` is 4 in
the code (`inventory.py` 29, 33, 37, 50; the one at 43 costs a probe its volumes only). `Edit`
commits and `Invalidate` follows as a step of its own, as in `edit_connection`. The value of a
snapshot is the row whose cluster it describes. Two simplifications: `List` reads the sort keys
together with the rows (the code reads them one after the other, and a wrong order for one pass is
what the next pass repairs), and `Expire` does not happen within a pass, a loop without a remote
call that is over long before the five seconds of a TTL. Ids are not used twice:
`delete_connection` does not invalidate, so if SQLite gave the highest id out again, a reader
could see the snapshot of the deleted connection under the new one until the next probe.
What the model also shows and no property forbids: after an edit, a copy the scheduler took
earlier is probed under the new generation, fails its first check and stores an error, so that
the connection appears offline until the next TTL.

**`LiveState`.** A commit (`Change` by anybody, `Remove` by this user) is followed by
`statebus.bump()` (`Bump`), or by nothing (`silent`: `delete_connection` and `delete_network` do
not bump). `StreamTurn` is one turn of `state_stream`; `unseen` stands for `version() != last`.
`Ping`, `Poll` and `Navigate` are the callers of `refresh()` in `web/app.js`; a quiet screen
(`newtemplate`, `job`) ignores pings and polls. `fetch` is `inflight`: sent, answered by the
server (`Answer` reads the rows), delivered (`Deliver`) or failed. `Removed` is what
`dashboard.js`, `vmdetail.js` and `manage.js` do when a deletion has succeeded: `_removeRow` and
`refresh({fresh: true})`, which waits for a fetch in flight and then starts or joins another
(`waiting`, `joined`). A tombstone stands, becomes `old` after ten seconds (`Age`) and goes at the
next delivery. `Env` names what the environment may do; `late` remembers which removals
happened during the present fetch, so that without `slow` a response to it arrives while the
tombstone stands, and serves nothing else.

**`Services`** puts nine components side by side that share no variable in the program. `focus`
says which one of them moves; the others keep one initial state, so the state space is the sum
of theirs and every property is checked on each. Their composition adds no behaviour, it keeps
small components from needing a configuration each.

**`Accounts`.** `handler` holds for each thread its place, who is signed in, whom it is about and
the row it read (`seen`). SQLAlchemy keeps a row that a session has loaded and writes back only
the columns whose value changed: therefore `Target` is the row that `current_user` read when a
handler is about its own user, and `Reset` leaves a column alone that was read as zero. Failed
logins are one `UPDATE` that counts in the database (`Failed`); the epoch is incremented in
Python (`Raised`). `issued` remembers every cookie signed; a cookie is valid if the account is
live and the epoch is the row's (`Valid`). Any two handlers overlap. `guesses` is a history variable,
and so is a row's `overtaken`: the epoch was once raised from a value that another handler had
changed since it was read. For such a user a revocation may fail, which section 6 shows;
`RevokesUnlessOvertaken` promises it for all others.

**`VmOperations`.** A request asks (`Ask`: the reads before the lock), locks, reads again
(`Check`), looks at the VM's power or its disk (`Inspect`), calls Proxmox (`Submit`), waits, perhaps
starts the VM again (`BootAgain`), commits. A VM's `size` is the one it is configured with, and
`pending` says that it takes effect at the next start only.
`tasks` are the node's tasks of one VM, run in turn, as Proxmox's lock of a VM makes them; `by` is the
request that waits, `Free` after a timeout that could not stop the task. `Admit` to `Cleanup` are
the lifecycle as far as a short operation can notice it: a job is admitted under the lock and
works without it. That Proxmox refuses to configure a VM which another task works on
(`Configurable`) is an assumption about it. `grow` is the first disk only; after a rollback the
VM has the sizes of the snapshot and the row keeps its own, which no property forbids.

**`Consoles`.** The rows a grant rests on (`viewer`, `upstream`, `exists`) are edited by other
requests; `ConnectVnc`, `ConnectSerial` and `ConnectStream` are handshakes with any cookie ever
signed; `PrepareSerial` may have waited for the operation lock; `Monitor` is the periodic check.
`TakenOut` shows that a token is gone after one attempt, right or wrong.

**`ImageCache`.** One source on one node's storage. The worker looks for the active name's file,
distrusts it unless a marker says verified, downloads under a fresh name, commits the
marker, then the active name. `orphans` are downloads that go on after the worker stopped
waiting; `checksummed` says whether the task verifies. A random name is one not `taken`.

**`Backups`, `BackupStore`.** `dir` is what the directory shows and `disk` what the last flush made
sure of; a loss of power keeps any subset of the other changes. `_flush_directory` is best effort: it
swallows every `OSError`, so a `Flush` may leave `disk` as it is and the call goes on to rotate and
to answer. A caller's `flushed` remembers whether its own flush took effect. A name is the time.
`BackupStore` has the directory (`seen`), what is sure of it (`firm`) and whether some backup was
never flushed (`doubt`, in the code: a flush failed, or the process died before it). Its promise: a
new snapshot is newer than all, and one vanishes only when enough newer ones stay; so does a loss of
power, where there is no doubt. With doubt a loss may take more, but of what was sure only those that
enough newer ones had replaced: that much is left of a rotation that follows a failed flush.

**`AddressPool`.** An address is its offset in the subnet, so family, range and gateway are
numbers; `Infrastructure`, `UsableAddresses` and `UsableTotal` are `is_reserved`, `iter_usable` and
`usable_total`. `AdmitStatic` takes the admission lock and reads the network, `Choose` allocates,
`Reserve` commits. `EditNetwork`, `DeleteNetwork` and `Release` happen in between without that lock.
Old rows may have infrastructure in their range, edits may not (`Admissible`).

**`SchemaUpgrade`.** One stage per commit of `init_db`; a death (`StopProcess`) between any two
starts it over. `answers` says in which columns a row's answers are, `library` in which table the
user's templates are; columns that are only added with a default are the stage `add`.

**`CatalogSeeds`.** One action per step of `run_all_seeds`, each a transaction; `Halt` between any
two. `credential` is a history variable: what the author of a field typed. `RunFormer` is an older
release started on the same data. The names it gives to secrets are a sequence of
the template's own (`FreeName`). `MoveStarter` is an edit of the starter template's place; a starter
that has a network and no connection is left as it is by the seed (`seed.py` 1774-1782), so that
`ServedCatalogSound` exempts it when that network's connection has lost it (`Stranded`).

**`JobHistory`.** `line[i]` is whose log line the id `i` is. Threads write lines and statuses in the
order of the code, including the lines that follow the final status (`LateLine`). A turn of
`stream_job` is `LookAtJob`, `SendFrame`, `EndTurn`: the row, then the lines, then the decision
whether to say done. `page` is `JobProgress`. Cleaners read (`Pick`) and later remove, by id.
`again` is a history variable: ids that a new job got while a cleaner held an earlier job of
that id.
`RestartAll` is stop, start and the first commit of `_recover_orphans` in one step.

## 4. Runs

| Run | Instance | Question | Result |
|---|---|---|---|
| `locks` | 3 requests of any kind, 2 deployments, 2 entries | entries that come and go behave as one lock per deployment, leak nothing, serve everybody | holds, 119 000 states |
| `ownership` | 1 deployment, 3 jobs, 1 VM id, 1 address, all faults but crash and eager | no VM without an owner or without the reservation of its address; nothing destroyed while uncertain | holds, 1.7 million |
| `guard` | 1 deployment, 2 jobs, Ansible, one crash, disabled connection, eager handlers | one active lifecycle job; ended jobs stay ended | holds, 1.6 million |
| `ends` | 1 deployment, 3 jobs, with and without Ansible, fair | every job ends; no deployment is left working | holds, 160 000 |
| `inventory` | 3 connections, 1 slot, 2 rechecks, 1 addition, edit or deletion, fair | no data of replaced settings is read; no enabled connection starves | holds, 1.1 million |
| `live_state` | 2 rows, 4 commits, 2 events, everything but slow responses, fair | the view converges, a fresh refresh is fresh, a removed row stays away | holds, 680 000 |
| `services` | all nine: 2 users and handlers, 2 sockets, 2 requests and VM ids, 4 image jobs, 2 backup callers, subnet of 4 addresses, 2 admissions, 3 log lines, 2 placements | the safety of each | holds, 915 000 |
| `service_waits` | consoles, operations, schema and history with 2 cleaners and ids given again, fair | they get done what they must; history and active jobs survive | holds, 212 000 |
| `saved_address` | 2 deployments, 3 jobs, rebuild on saved settings | two VMs never have one address | violated, see 6 |
| `restart_orphan` | 1 deployment, one crash, destroy | no VM without an owner | violated, see 6 |
| `destroys_other` | 2 deployments, 3 jobs, 2 VM ids, create tasks that fail | a deployment destroys no VM but its own | violated, see 6 |
| `lost_revocation` | 2 handlers that revoke one user's sessions | what was signed before a revocation is not valid after it | violated, see 6 |

Bounds. A deployment's life is a chain of jobs; what one job leaves behind is a row, a task and a
reservation, so two jobs show what a job finds, and three (`ownership`, `ends`) let a job find what
a failed job left of a successful one's work. Requests on different deployments meet only in the
admission lock, in VM ids and in addresses: two deployments show it. One VM id with `foreign` VMs is
enough for collisions, two are needed where a deployment must be able to pick a free one.
`ownership` has one deployment, so what `AddressReserved` asks there is that no path gives an
address back while its VM, or an accepted create, is there; to lose it to somebody else needs that
first. Competitors are in `saved_address`, in the `AddressPool` of `services`, and in the theorem
`AddressesReserved`, which has any number of them. Three concurrent handlers are the least in which
a lock entry can be looked up, dropped by its last user and made again. `MaxCrashes` is one where a
crash may happen anywhere. Job and deployment ids are not used twice in `Lifecycle`; SQLite may give
the highest deleted one again, as it does in `JobHistory` with `IdsReused`, which `service_waits`
has.

`inventory` needs one slot less than connections for starvation, and three connections so that the
two that wait compete; of the rechecks only the first (against a stale copy) and the last (before
the store) matter. `live_state` needs two rows, because a fresh refresh may be waited for by two
removals at once, and four commits: create and remove, twice, or an id that is used again.

In `services` two of each actor are the least that race, and each hazard has room: `Accounts` has
three requests with a threshold of two, so that two wrong passwords race to the lock and a third one
meets it or what its expiry left, two administrators can act on each other, and a third handler can
commit between a revocation's read and its commit (four requests, looked at alone, pass as well);
`VmOperations` has three operations, so that a task can outlive its wait, be overtaken by a second
operation and meet a third; `ImageCache` has four jobs and two fresh names, so that a refresh fails,
its late download ends and another one replaces it; `Backups` has `Keep` = 2 and four calls, so that
rotation takes something away with a death before and after; `AddressPool` has every range and
gateway of a subnet of four addresses in both families, and two deployments that want the last one;
`CatalogSeeds` has two placements, so that the names of two secrets may collide, and every
interrupted start; `JobHistory` has three lines with a `LogLimit` of two, so that a first frame is
cut and the next one continues it. `service_waits` has two rows of jobs, two cleaners and no lines
or breaks, since what it asks is about rows and what is removed by id: a cleaner may read a job, the
other one purge it, and a new one get its id; `SchemaUpgrade` has two deaths, one in an upgrade and
one in the upgrade after it, and every old layout.

Deadlock is checked in `inventory` only, whose scheduler never stops. In the other instances all
modelled jobs and handlers may be done, a quiet screen asks for nothing, and the bounds stop users
(in `services`, also the component that `focus` names). That the lock order cannot deadlock is
`EveryRequestServed` in the run and the theorem `NobodyIsStuck` for any number of requests.

Limits of the passing runs, named because each hides a behaviour the code has:
- `ownership` leaves `eager` out. With `eager` and `lost`, `vm_destroy` may evaluate
  `_reject_cleanup_pending` (`api.py` 1316-1322) on a row that the active job makes uncertain
  before it ends; the destroy is then admitted and drops the row while the create goes on.
- `ends` leaves rebuilds out. A canceled wait that ends before it is reconciled (6)
  may drop the row a resumed job is about; `_resume_waiting_ansible` returns at `worker.py` 1630
  when the row is gone, and that job stays `running` until the next restart.
- `ownership` has rebuilds on current settings; one on saved settings may take an address that is
  not reserved any more (6). No run but `guard` and `ends` has waits for an address beside other jobs:
  what a canceled one leaves is in 6.
- `inventory` bounds changes to one; the proof has no bound.
- `live_state` leaves `slow` out of `Env`. With it a response read before a deletion may arrive
  more than ten seconds after it, when the tombstone has been dropped: the row is shown again
  until the next refetch, and `NoGhost` is violated while `Converges` holds.
- `Converges` needs `poll` also when no stream breaks and every commit bumps: a ping that arrives
  while an older fetch has been answered and not delivered collapses into it (`store.js` 50), and
  no other ping follows. `app.js` 80-81 names the poll a backstop for dropped streams and
  out-of-band changes; it is one for coalesced pings, too.
- `services` has every overlap of handlers that raise one user's epoch, and `RevokesUnlessOvertaken`
  says nothing of a user for whom one overtook another; `lost_revocation` checks it without that.
- `services` has no `Faults` of the image cache. With `{"unreadable"}` a listing that fails is taken
  for an absent file, the name in use is distrusted and discarded after a refused download:
  `UsedStays` is violated. With `{"record"}` the marker is committed, the active name is not and the
  file is discarded, best effort, while its marker still says verified; a later orphan may leave a
  part under it: `UsedIsComplete` is violated.
- `services` never sets the clock back. With `ClockBack` a backup may get a name below the newest
  one's and be rotated away at once: `StoreImplemented` is violated.
- `services` lets the answer to the page's first request arrive before the first frame. With
  `LateReply` the answer replaces what frames have added (`web/job.js` 106): `LogHasNoGap` is violated.
- `ActiveJobsStay` says nothing of a job that got its id while a cleaner held an earlier one of that
  id: the cleaner purges it by the id it read, although `api.py` 3069 says that active jobs are left
  untouched. `service_waits` reaches this; without the exemption it is violated.
- `services` does not purge the newest job. With `IdsReused` a page that follows a job which is
  purged takes the next job of its id for it: `LogHasNoGap` is violated.
- `CommitAgrees` speaks of the size from the next start on, if a task that outlived its wait starts the
  VM between `vm_resize_config`'s look at its power and its write. Proxmox then keeps the write
  as pending, and that "the gate keeps GoblinDock's view and the hypervisor's identical" (`api.py`
  1483-1485) does not hold of the running VM; with `m.pending` alone in the property TLC shows it.
- The directory's flush may fail in `services`, at any call. An answered backup is then in the directory and
  survives the death of the process, but perhaps not a loss of power; `AnsweredIsDurable` asks
  that only of calls whose flush took effect.
- `LogHasNoGap` counts the lines written before the final status is committed.
  `_resume_waiting_ansible` (`worker.py` 1644) and `_timeout_waiting_job` (1693) write their last line
  after that commit, so a stream may say done without it.
- A malformed placement of `b-ssh` keeps its dangling reference and its literal credential;
  `ServedCatalogSound` speaks of sound ones, and of blocks that are in the catalogue.
- Starter template and curated images that an operator deleted are back after the next start.

## 5. Fairness

`FairSpec` of `Lifecycle` has weak fairness of the worker and of the waiting thread: both are
loops of a process that runs (`worker.py` `_loop`, `_waiting_loop`), every Proxmox call has a
timeout and every wait a limit. Nothing is assumed of users or of the cluster: a task that
never stops is waited for only until the limit. `OperationLock` has weak fairness per request
of every step but the body; that bodies end is the hypothesis of `EveryRequestServed` and is
not assumed by `UnrelatedNotSerialized`. A Python lock is not fair, yet weak fairness
suffices: each request takes each lock once, so nobody is overtaken for ever.
`Inventory` has weak fairness of the scheduler (a loop that waits half a second) and of each
probe (every remote call has a timeout). `KeepsRefreshing` has a hypothesis,
`ProbesEndBetweenPasses`: without it TLC shows a schedule in which, pass after pass, the one slot
comes free between two `refresh()` calls, so that the connection in front is refused and a later
one gets it. A pass takes microseconds and the pause half a second, so a probe that always
ends inside a pass is no schedule of the program; the hypothesis asks only that it ends some time.

`LiveState` has weak fairness of what timers, the event loops and the network do by themselves:
a bump follows its commit, the stream's loop turns, EventSource reconnects, pings and timers fire,
requests are answered and delivered unless they fail, tombstones age. Failures, drops and
navigation are bounded, never required. `Converges` asks that the user stays on a screen that
is kept up to date.

`Services` has the fairness of three components. A console's preparation, its connection to
Proxmox and the periodic check of its right happen (bounded by the lock's release, a timeout of
15 seconds and an interval of 3; the streams' loop turns by itself). A request of `VmOperations`
goes on from every place, and a wait for a task ends by its timeout; the lock has strong fairness,
because it may be taken and released again and again while a request waits for it, and a thread
that waits on a Python lock does get it among the few requests there are. Nothing is assumed of
Proxmox: tasks may never end. `init_db` runs on until it dies, and deaths are bounded.

## 6. What the violated runs show

Each states what a comment or the README of the repository says and finds an execution of the
code that contradicts it; `PROJECT.json` quotes both.

- `saved_address`: a failed deploy releases its reservation and keeps its row; a rebuild on the
  original settings returns the saved context with that address and does not reserve it again.
- `restart_orphan`: `_recover_orphans` ends all orphans in one commit and reconciles them
  afterwards, so the lifecycle guard is free meanwhile: a destroy admitted in between drops the row.
- `destroys_other`: a create task that fails after Proxmox accepted it leaves the VM id on the row of
  its deployment. `next_free_vmid` asks the cluster only, so the next deployment gets the same id, and a
  destroy of the first one removes the VM of the second.
- `lost_revocation`: `change_password`, `logout` and `reset_user_password` increment the epoch that
  they read, without a lock. Two of them overlap, both write the same epoch, and the cookie the
  first one signed is valid after the second.

More behaviours contradict what the repository says; each is found by changing the constants
of a run (defaults: one deployment, two jobs, one VM id, no addresses, no Ansible, no faults):
- The waiting thread commits the end of a canceled wait before it reconciles it; a rebuild admitted
  in between is dropped with the row: `NoOrphanVm` with `PostBoot` {TRUE} and `Ops` {"deploy",
  "rebuild", "cancel"}.
- A second restart forgets the orphans that the first one had not come to: `NoStrandedWorking` with
  `MaxJobs` 1, `Faults` {"crash"}, `MaxCrashes` 2, `Ops` {"deploy"}.

The attempts to prove the invariants for all constants found the following, which the assumptions
of section 7 exclude:
- `_best_effort_destroy` finds the row of what it tears down by the VM id, `.first()`, and that may be
  the row of another deployment, which still names the id of a VM that it does not have: a create
  that failed or whose answer was lost leaves such a row, and the next deploy gets the same id. If
  that deploy is canceled, its destroy is recorded on the other one's job, and if the answer is lost,
  the other one's row gets the doubt: `MaxDeployments` 2, `Faults` {"lost", "taskfail"}, `Ops`
  {"deploy", "cancel"} violate `NothingDestroyedWhileUncertain`, and `NoStrandedWorking`, because the
  reconciliation gives up while the canceled one's own row says `working`.
- Without any fault, the waiting thread that has destroyed the VM of a canceled deploy leaves such
  a row until its probe, and the worker picks the id for another deploy meanwhile:
  `DestroysOwnOnly` with `MaxDeployments` 2, `PostBoot` {TRUE}, `Ops` {"deploy", "cancel"}.
- Not only failed tasks leave such a row. With `MaxDeployments` 2, `MaxJobs` 3 and
  `Ops` {"deploy", "destroy", "cancel"}, `DestroysOwnOnly` is violated by each of `Faults` {"lost"},
  {"taskfail"}, {"stuck"}, {"unreachable"}, {"foreign"}; with no fault, by a cancel whose reconciliation
  finds the connection disabled (`Ops` also "disable"), or that comes between the destroy and the
  create of a rebuild (also "rebuildCurrent"); and by a local failure there (`MaxJobs` 4).
- As that thread ends the job before it reconciles it (above), a destroy admitted in between may be
  at its stop when `_retain_unsettled_task` marks the row uncertain, and goes on: `PostBoot` {TRUE},
  `Ops` {"deploy", "destroy", "cancel"}, `Faults` {"unreachable"} violate
  `NothingDestroyedWhileUncertain`.
- A deploy that is claimed while its connection is disabled ends before it is reconciled. A rebuild
  on current settings is admitted meanwhile and finds its address still reserved, which the reconciliation then
  gives back: `AddressReserved` with one address and `Ops` {"deploy", "rebuildCurrent", "disable"}.

## 7. Proofs

`LockProofs`, operation locks: for any number of requests, deployments and entries, `LockInvariant`
proves the inductive `LockInv`: types, who holds the guard at which place, that a bound entry
is the registered one, and that `users[e]` is the number of requests counted at `e`. The count is
what makes it inductive: `Release` may remove an entry only if nobody else refers to it, and
that is a statement about cardinality (`ReferrersFinite`, `ReferrersUnmoved` and the finite-set
theorems of the library). `Typing`, `Exclusion`, `NoLeakedEntry` and `Admission` follow. The
assumptions are `RequestsFinite` and `NoneIsNothing`. `RegistryImplementsLocks` is the refinement of
`DeploymentLocks`. Who waits at an entry is bound to the registered one, so taking the entry's lock is
taking the deployment's; an entry that `LookupCreate` makes is free, so registering it gives the
deployment no owner; and whoever holds an entry is counted at it, so `Release` only removes one that
nobody holds. `NobodyIsStuck` says what weak fairness rests on: while a request is not served there is
one whose next step waits for nothing. The holder of the guard never waits, nor does the holder of the
admission lock, and the holder of a deployment's lock waits at most for the admission lock.

`LifecycleProofs`: for every number of deployments, jobs, ids and addresses, all operations and
all faults, `LifecycleInvariant` proves `LifecycleInv`, the conjunction of
- `Typed`: `TypeOK` and, per place in the code, which local variables are set (`Placed`);
- `Held`: the job the worker executes is `running`, the one the waiting thread resumes is running
  or has been ended by a restart, the two differ, and a job the waiting thread reconciles has ended;
- `OneActiveLifecycleJob`.

The last is not inductive without `Held`: the threads write statuses without the locks of the
API, so that a job which has ended is not made active again rests on where the threads are.
There is one lemma per action (`...Moves` for the type and place, `...Keeps` for steps that
change statuses but activate nothing, `...Preserves` for handlers that insert), joined in
`StepPreserves`. `OneActiveJob`, `LifecycleTyped` and, as an action property from the same
invariant, `EndedJobsStay` follow. The assumptions are `ConstantsTyped` and `NothingsDistinct`.
`ViewProofs`, inventory: for any number of connections, slots, rechecks and edits, `CacheInvariant`
proves the inductive invariant, of which the parts are `Typed`, `UnusedUnknown` (an id that was
never used is in no copy, probe or snapshot), `GenerationsGrow` (no probe is of a generation to
come) and `BelievedIsCurrent` (data of a snapshot, and of a probe that has passed a check and is
of today's generation, is of today's row, or an invalidation is under way).
`NothingReplacedIsRead` is `NoReplacedData`. The run has one change; that edits may overlap each
other and any number of probes is what the proof adds. The argument: a copy older than an edit
fails its first check, a probe older than the invalidation fails the comparison of generations,
and between the two `invalidating` is not zero.

`ViewProofs`, live view: for any number of rows, changes, events and any `Env`, `LiveInvariant` proves
types, `RowsNewer` (the server's row of an id is never older than what its last removal deleted)
and `JoinedNewer` (nor is an answer that a removal has joined), from which `LiveTyped` and the
action property `FreshRefreshReflects` follow. With the assumption that no response is slower
than a tombstone (`"slow" \notin Env`), `StaleIsLate` (an answer that still has the row is that of
a fetch the tombstone outlives) makes `NoGhost` inductive: `RemovedStaysGone`.

`ServicesProofs`, accounts: for any number of users, handlers and requests, `AccountsInvariant` proves types,
that the holder of `adminLock` or `setupLock` is the handler between its check and its commit and
conversely, and what such a handler may rely on: nobody else lowers the number of administrators
meanwhile, so that the other one it counted is still there. `AnAdministratorRemains` and
`SetupHappensOnce` follow; the latter is no run's property. `GuessesAreBounded` needs that `guesses`
is never above the stored counter, which holds because the counter is raised in the database and
a reset from a stale row only clears it. `RevocationIsComplete` is `RevokesUnlessOvertaken`, for
any overlap of handlers: while nobody has overtaken a revocation of a user, that user's epoch only
grows, and all signed cookies are at or below it.

`OwnershipProofs`, and `DeploymentProofs` from the second bullet on, prove, for every number of
deployments, jobs, ids and addresses, four properties one on the other. Each has an assumption about
`Ops`, `Faults` and `PostBoot` that leaves the failures of the cluster in (lost answers, failed,
stuck and refused tasks, unreachable nodes, foreign VMs), and for each thing it excludes section 4
or 6 has the execution that violates the property.
- `NoVmOrphaned` (`Undisturbed`: no restart, no `eager` guard, no row forgotten by hand, no rebuilds
  beside waits). `NoOrphanVm` is far from inductive: a row is dropped, or loses its VM id, because a
  thread has read some steps before that no VM is there. `OwnershipInv` has three ideas.
  `CreatesWatched`: for each create task that Proxmox has accepted, the worker is at the place that
  waits for it, or reconciles its job and the row is marked uncertain, so that all guards keep away
  from it. `Selected`: from the choice of an id to the create the deployment has no VM and no create.
  `Verdict`: what the thread that reconciles has asked of the cluster stays so until it acts on it,
  because only the worker creates and no handler is admitted to that row. Where there are waits, the two
  threads are kept apart by `WaitsApart`: a deployment's one deploy job is the only one that creates.
- `AddressesReserved` (`Reserving`: also no rebuild on saved addresses, and no rebuilds where a
  connection may be disabled). `AddressesKept`: a job with an address that may still create a VM, has
  a create accepted, or has a VM, is a `Keeper`, and the address is reserved for its deployment.
  Whoever gives addresses back is shown to be at a deployment without keepers: its row is going with
  a `Verdict` that says no VM, or its one deploy job has failed with nothing sent. `AddressesNotShared`
  follows from this and the last; it is what `saved_address` violates.
- `WorkingEnds` (`OwnTeardowns`: as `Undisturbed`, and one deployment, no cancellations, or no refused,
  lost, failed, stuck or unreachable tasks). `WorkingPromised`: a row that says `working` has a thread
  that is not past its last write, or an active job that no thread at its end holds. What makes
  it inductive is that every way out of a place that owes the write makes it (`Settled`), or leaves it
  to the reconciliation; `VmidKept`, so that the row a thread finds by the VM id is its own or gone;
  and `ResumedRuns`, that the job the waiting thread resumes still runs.
- `DestroysInNoDoubt` (`Attended`: as `Undisturbed`, no waits, and one deployment or no
  cancellations), an action property. `DoubtsInv`: a row becomes uncertain only through the worker while it runs
  that deployment's job or its pending cleanup (`Occupied`, `CleanupAlone`), and then no job of it is
  queued and no request of it admitted; so a deployment is not in doubt when its job is
  claimed (`QueuedSure`), nor at any place on the way to a destroy (`WorkSure`); and a job that ended
  when it was claimed has sent nothing (`EndedUnsent`), so that reconciling it raises no doubt.

`DestroysOwnOnly` has no theorem: the code does not keep it (6).

`StorageProofs`, backups: if the clock is not set back, for any callers, deaths, losses of power and
flushes that fail, `BackupsInvariant` bounds names by the clock and versions by the database's, and says
at which place `disk` equals `dir` or lags behind by what. Without doubt it lags only by the backup that
waits for its flush and by removals; with doubt it may lag by any number of new ones, and what is
missing in `dir` is outnumbered there. `NewestIsNewest`, `AnswersAreDurable` and the refinement
`BackupsImplementStore` follow: publication and rotation are turnovers of the store, a flush settles or
unsettles it, and so does a death before the flush; a loss of power is the store's.

`StorageProofs`, image cache: `ImagesInvariant` holds for any jobs, names, crashes and late
downloads: a part of a file is always distrusted, and an abandoned download writes a name that is
distrusted or whose file is complete already, which it cannot damage. `ImportsAreComplete` assumes
that the commits which record a verified image succeed, `ImportedFilesStay` also that listings are
readable; section 4 shows both are needed.

`StorageProofs`, schema upgrade: `UpgradeInv` says what the stages that are passed have reached
(there is one table of templates and the library is in it, answers are in columns that exist, none is
in plain text behind `move`), for every old layout; a death sets the stage back and takes nothing of
the rest away. `UpgradeKeepsHistory` and `UpgradeSealsAnswers` follow.

`OperationsProofs`, short operations, for any requests, VM ids and sizes: `OperationsInv` adds to
`OperatesOnOwnVm` that a request past its check holds the lock, and an order of Proxmox's tasks: a
task somebody waits for is the last one, so that all that outlived their requests have run before
it, and nothing is left to run between its end and the commit. `OwnVmOnly` follows from the first,
`CommitsAgree` from both; that only `Commit` answers a request at its commit is the lemma
`OnlyCommits`.

`OperationsProofs`, job history: `ActiveLeftUntouched` holds with and without `IdsReused`. Cleaners act
on what they read before, so the invariant `HistoryInv` must say that a job that has ended never
becomes active again: a thread only changes the status of a job that is active, and no two threads
have the same one; all this but for the ids in `again`. That a new job whose id is not in `again` is
in no cleaner's list holds at the step that gives the id.

`OperationsProofs`, the page that follows a job: `LogsHaveNoGap` assumes `~IdsReused` and `~LateReply`
and nothing of how many jobs, lines and breaks of the stream there are; section 4 says what happens
without either. It rests on lemmas about sets of ids in their order, which exist and are unique
(`InOrderIs`), and join when one set is before the other (`InOrderJoins`). `LogInv` says that the page
has an upper part of the lines sent, with the latest `LogLimit` of them (an upper part is the latest of
its number, `UpperIsLatest`); that the answer to the first request comes before every frame; and that
a stream which knows the final status has looked after it was committed, so that the frame it then
sends has every line of before. What the server's steps do to the log is one formula, `LogGrows`:
ids only grow and, while the job is there, its lines stay.

`StorageProofs`, catalogues: `SeedsInv` says, step by step of a start, what is reached behind it and
which of that outlasts the start; an older release starts again from the first step. `CatalogsAreSound`
follows, for any number of placements and connections. `SettledInv` says what a complete start fixes
(the catalogues and the moved secrets), and `SeedsAreIdempotent` that every later start leaves it as it
is. That the recursion over the placements then has nothing to move is shown by a placement that
would be the first to differ: it has a least one, and the one before it stands as stored.

`StorageProofs`, credentials: `CredentialsMoved`, for any number of placements and any store of the
owner. What the recursion over the placements computes is unrolled once (`StoredTurns`: a function
that does its turns exists, as far as one likes and always the same). The invariant is that a field
which refers to a secret is served what its author typed, by the first entry of the name; a new
name is free (`NameIsFree`, by counting), so an entry that is appended hides none, and what a turn
stored later turns still serve (`StoredServes`).

`StorageProofs`, address pools, assumes nothing but the types of the constants. `TotalIsExact` is
arithmetic with cardinalities: the formula of `usable_total` is the size of `iter_usable` for every
range, gateway and family. `PoolInvariant` says who holds the admission lock, that no address is
reserved twice, and that a chosen address is usable in the pool that was read and free; only
admissions take addresses and edits move none. `ReservationsServe` and `RefusedOnlyWhenFull` follow.

`ServicesProofs`, consoles, for any number of targets, sockets and tokens: `ConsolesTyped` holds without
a strengthening.
That a check every few seconds suffices is `RevokedForGood`: a right that is lost by a revocation or by
a replaced connection does not come back, however the rows are edited between two checks. It
needs `GrantsPast`, that no grant and no cookie is of an epoch or identity to come, since only then
is one that differs from today's in the past for good.

`StorageProofs` and `OperationsProofs`, types: `SeedsTyped`, `BackupsTyped` (also where the clock is set
back) and `ImagesTyped` (whatever fails) assume nothing of the switches of their modules.
`HistoryIsTyped` assumes `~IdsReused`: if a purged job's id is given again, a thread that still works on
the old one writes its status on the new one.

`ServicesProofs`, the composition: `ServicesAreTheirParts` shows that a behaviour of `ServicesSpec`, which
the runs check, is one of each component (of `SchemaUpgrade` the safety part), so that the theorems
above speak of it. `ServicesTyped` is its type invariant, with `~IdsReused`. `ServicesSafe` collects
what holds under every setting of the switches. The rest of what the runs check is proved of the
components: backups with `~ClockBack`, images with `Faults = {}`, the page of a job with `~IdsReused`
and `~LateReply`; section 4 names for each of these the property that fails without it.

What is only model-checked is what speaks of fairness, which the prover does not reach:
`EveryRequestServed`, `UnrelatedNotSerialized`, `JobsEnd`, `KeepsRefreshing`, `Converges`,
`RevokedViewCloses`, `OperationsEnd` and `UpgradeEnds`. Every other property of a passing run is proved
for all values of the constants, under the assumptions named above. The other way round, no run checks
`MutualExclusion` (it is part of `LocksImplemented`), `AdmissionSerialized`, `NobodyIsStuck`,
`SetupHappensOnce`, `RevokedForGood` and the types of `OperationLock`, `LiveState`
and `Inventory`.

## 8. Abstractions

- A VM is visible from the moment its create task succeeds. Proxmox shows it earlier, locked;
  reconciliation treats "running task" and "present" alike, so this only removes states.
- Quotas, validation of bodies, per-user rights and plan contents are the nondeterministic
  refusal of a handler. Progress, steps, logs and audit rows are left out.
- Best-effort reads that only change a message (late IP back-fill, `_reconcile_ips`) are left out.
- The browser is one tab of one user; per-user filtering of `/api/state` is left out, and a row's
  content is its version.
- Short operations and the lifecycle are two modules: `VmOperations` knows of the lifecycle what a short
  operation can notice, `Lifecycle` nothing of short operations, which are refused while a job is
  active and change no row that its properties read but `status`.
- Of `resize_disk` the first disk is modelled; a rollback restores the VM's old sizes and leaves
  the row's, which the code does not read back.

Not modelled, and why:
- Cryptography, CSRF, request limits, the throttling of logins by address (`api.py` 560-604): tables in
  memory that delay requests and change nothing else.
- Rendering of templates to YAML and shell text, serialisation for the UI, most of the UI: pure
  functions on strings.
- `maybe_seed_admin`, profile fields and API keys; quotas beyond the refusal of a handler;
  the deletion of a user beside a deploy of theirs (`Accounts` has no deployments).
- `sync_image` answers with an active job it finds before it inserts one (`api.py` 2243): two requests
  may both insert, and the worker runs both in turn.
- Moving a credential into its owner's store means that other users who deploy the template do not
  find it; `CredentialsResolve` speaks of the owner.
- `run_db_backup` reads the size of the backup after the lock is released: with `Keep` = 1 another
  caller may have rotated it away. Temporary files of a process that died stay in the directory.
- Purging the latest job of a deployment takes the record of its remote task with it, so that
  `reconcile` (`operations.py` 181-199) confirms without asking for that task.
- `login` verifies the old password and may sign a cookie of the epoch after a password change that
  commits meanwhile (`api.py` 667-677); a slow response may set an older cookie over a newer one.
- A database that has both a table `recipes` and a table `templates` is no initial state of
  `SchemaUpgrade`; restoring a backup is done by hand, outside the program.
