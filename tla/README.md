# A verification project for unidb

unidb is an embedded relational engine with a server around it: slotted pages in
a buffer pool, a segmented write-ahead log with group commit, multi-version
concurrency control, ARIES-like recovery, a lock manager, a SQL front end and
optimizer, indexes, an event queue, replication and an HTTP API with accounts and
row policies. The modules in this directory model it in TLA+, from the log up to
the request handlers. TLC checks them on small instances; TLAPS proves the safety
of the lock manager, the log, the versions, the worker pool, the accounts, the
grants and the server's transactions for every instance.

Paths below are relative to the repository; `wal.rs:1213` is `src/wal.rs`, line
1213.

Contents: [the system](#1-the-system), [the modules](#2-the-modules),
[the runs](#3-the-runs), [the proofs](#4-the-proofs),
[where the code departs from its comments](#5-where-the-code-departs-from-its-comments),
[what is not modelled](#6-what-is-not-modelled), [the plan](#7-the-plan).

## 1. The system

### Components

| component | state it keeps | operations | correct when | module |
|---|---|---|---|---|
| Lock manager, `lockmgr.rs` | holders and queue of each record, wait-for graph, one mutex and condvar | `acquire`, `try_acquire_write(_many)`, `release_all` | an exclusive lock excludes; every deadlock is found and no victim is chosen without one; no wake-up is lost | `LockManager` |
| WAL, `wal.rs` | append buffer, active segment, durable frontier, one-slot background sealer, poison flag | append, rotate, `sync_up_to`, `sync`, `log_checkpoint`, `truncate_before`, `records_from` | an acknowledged commit is on disk; the log is never cut past the checkpoint; calls return | `Wal` |
| Transactions, `txn.rs`, `mvcc.rs` | active set, snapshots, undo logs, reader registrations | `begin`, statement refresh, `commit`, `abort`, `read_snapshot`, `vacuum_horizon` | snapshot isolation; a rollback leaves nothing | `SnapshotStore`, `Mvcc` |
| Heap and vacuum, `heap.rs`, write paths of `sql/executor.rs` | versions with xmin/xmax, HOT chains, hint bits | insert, delete, update (row at a time, HOT, HOT across pages, batch), undo, mark, compact | first updater wins; one visible version per row; vacuum takes only what nobody can need | `Mvcc` |
| Recovery, buffer pool, pages, `recovery.rs`, `bufferpool.rs`, `page.rs` | frames, dirty flags, page LSNs, durable frontier | fetch, steal, flush; analysis, redo, undo in three passes | the reopened engine shows the committed transactions and nothing else, after any number of crashes | `Recovery` |
| Checkpoint and control file, `checkpoint.rs`, `control.rs` | checkpoint LSN, tail LSN, next xid | `checkpoint::run`, `maybe_auto_checkpoint` | a crash between two of its steps is harmless | `Recovery`, `Wal` |
| SSI, in `txn.rs`, and constraints, in `sql/executor.rs` | read marks, rw-edges; key locks | `ssi_note_reads`, `ssi_note_write`, the pivot test; unique and foreign-key checks | a serializable transaction that is the middle of a dangerous structure is refused; no duplicate key, no dangling reference | `Constraints` |
| B-tree, `btree_index.rs` | pages, latches | search, insert, batch, split, patch, remove, range scan | no key is lost during a split | `BTree` |
| Event queue, `queue/` and `lib.rs`, and its consumers, `unidb-dispatch`, `server/webhooks.rs`, `server/sse.rs` | `__events__` and `__consumers__` rows, seq index, sequence counter, dead letters | capture, poll, acknowledge, retry, `vacuum_events` | at-least-once delivery; an event is kept until every consumer has it; consumers catch up | `EventQueue` |
| SQL front end, optimizer, execution, `sql/` | none shared | parse, plan, evaluate | the result is what the statement means, whatever the plan | `SqlValues` to `Query` |
| Parallel scans, `sql/parallel_scan.rs` | pool state, leased workers, cursor | lease, run, draw, join | every unit read once; no thread outlives the job it borrows | `ParallelScan` |
| Accounts, `authz/mod.rs`, `server/handlers.rs` | users, sessions, one-time tokens, second factors, in memory and in `roles.json` | sign-in flows, refresh, reset, administration | a token is honoured once; a revoked family stays revoked | `Accounts` |
| Authorization, `authz/mod.rs`, `sql/logical.rs`, `lib.rs` | roles, grants, policies, filters | GRANT, REVOKE, policies, privilege check | decided as the statements say | `Authz` |
| Catalog and DDL, `catalog.rs`, `sql/executor.rs`, `lib.rs` | catalog in memory, page chains, root page | DDL, `persist`, `restore_catalog_root` | definitions change as the acknowledged requests say | `Catalog`, `Server` |
| Server, `server/` | session registry, handlers, blocking calls, cron states | requests, checkout, commit, rollback, reaper, cron runs | answers are true; a transaction ends once | `Server`, `RestWrites` |
| Replication and backup, `replication/`, `backup/`, `unidb-logical` | slots, shipped position, timelines | create, advance, drop, apply, restore | a replica replays every record once | none yet |
| Object storage, `unidb-storage` | metadata rows, outbox, object store | upload, delete, reconcile | metadata and objects agree in the end | none yet |
| Vector, full-text and graph indexes, large objects | index pages, caches | build, search, traverse | right answers, fresh caches | none |

### How they interact

A statement runs in the caller's thread. `begin` takes a snapshot under the
transaction manager's mutex and logs `WAL_TXN_BEGIN`. The executor scans with the
snapshot, takes row locks for the row-at-a-time paths (batch paths rely on the
page latch alone), and calls the heap, which changes a page inside a
mini-transaction: `BEGIN`, a full-page image if the page has none since the last
checkpoint, the change records, the page, `COMMIT`. The statement records how to
undo what it did. `commit` leaves the active set (from then on others see its
rows), logs `WAL_TXN_COMMIT`, releases its locks and waits in `sync_up_to` until
the log is durable to there; `abort` undoes one entry per latch-sized step before
it leaves. A statement on a table with events enabled also inserts rows into
`__events__`, in the same transaction; consumer loops poll them by sequence
number and acknowledge in transactions of their own. Vacuum, the checkpointer, the
background sealer, readers and replication run beside this. A page may be written
back by any thread that needs a frame, if the log is durable past the page's LSN
(the code's rule D5). `Engine::open` reads the control file, runs `recover`, and
takes its counters from the control file and from the log.

Above the engine, a request is an async handler that calls the engine on a
blocking thread (`server/engine_handle.rs`). It authenticates against the account
store, checks the plan's privileges, adds the row policies of its tables, binds
its parameters and executes; a request without a session begins, executes and
commits or rolls back by itself, a request in a session checks the session out of
a registry that the idle reaper also takes from. A DDL statement edits the
catalog, which is written as a whole to fresh pages before the root in the control
file is flipped; a request that fails puts the root it started from back. The cron
loop runs jobs as requests of its own.

### What is hard

Threads share the log's mutex, the sealer's slot, page latches and the
transaction mutex, and hold none of them across a whole operation; a snapshot,
a horizon, a captured tail LSN or a wait-for edge is used after the lock it was
computed under is gone. An fsync may fail, in the foreground or behind the back
of the call that caused it. A crash may fall between any two steps, within a
checkpoint and within recovery. A rollback is a long sequence of steps that
others see half done. B-tree readers take no latch and meet splits half done. A
handler may be dropped at any await, by the router's timeout or because the client
has gone, while the engine call it was waiting for runs on; between two calls of
the account store or of the catalog nothing is held. The optimizer chooses among
plans from statistics that may be out of date, and every choice must give the same
answer. `PROJECT.json` lists these as hazards, each at its line.

## 2. The modules

```
LockManager        <- LockManagerProofs (TLAPS); LockManager.cfg
Wal                <- WalProofs (TLAPS); Wal.cfg
SnapshotStore      <- refined by Mvcc <- MvccProofs (TLAPS), MCMvcc
Recovery           <- RecoveryProofs (TLAPS), MCRecovery
EventQueue         <- EventQueueProofs (TLAPS), MCEventQueue
BTree              <- MCBTree
Constraints        <- MCConstraints
Accounts <- Authz  <- AuthzProofs (TLAPS, about both), MCAuthz
SqlValues <- QueryPlan <- QueryExec <- SqlFrontEnd <- QueryRewrite
                             QueryRewrite <- TableAccess <- QueryMeaning
QueryRewrite <- QueryReference, instantiated by QueryMeaning
Query, which instantiates TableAccess and QueryMeaning <- MCQuery
ParallelScan       <- ParallelScanProofs (TLAPS), MCParallelScan
Catalog, RestWrites <- Server <- ServerProofs (TLAPS), MCServer
```

An `MC` module holds only constants and workloads. Most modules have a variable
`load` (`script` in `BTree`, `kind` in `ParallelScan`), chosen in `Init` and then
fixed, that says which statements clients issue, so one run covers several
workloads. Operators commented "Mutant" are the deliberately wrong variants with
which every property is tested.

### LockManager

State: `held` (holders and their mode), `queue`, `entries` (which table entries
exist), `waitsFor` (the wait-for graph), and for each transaction where its
thread is (`pc`) and what it asks for (`req`). One action is one hold of the
mutex. `Acquire` and `Recheck` are passes of `acquire`'s loop and end in `Grant`,
`Park` or `Victim`; `SpuriousWake` is what a condvar may do;
`TryAcquireWriteMany` is the batch call; `ReleaseAll` and `ReleaseNotify` are the
two halves of `release_all`, which drops the mutex before it notifies.
`HasCycle` describes the depth-first search of `has_cycle` by the sets closed
under the edges. The queue is a set because no code reads its order.

### Wal

A record is its LSN; `synced` is what is on disk, `durable` what the code
believes is. `mutex` is held across steps only while `rotate_segment` waits for
the sealer's one slot. Committers append, rotate and run `sync_up_to`
(`SyncCovered`, `SyncElect`, `SyncBehind`, `SyncWait`, `GroupCapture`,
`GroupFsync`, `GroupAdvance`); the sealer takes a segment, then fsyncs it; the
checkpointer runs `sync`, `log_checkpoint` and `truncate_before`; `Ship` is
`records_from`. Every fsync may fail, and a failed one poisons the log or leaves
an error in the sealer, as in the code.

### SnapshotStore and Mvcc

`SnapshotStore` is the promise: a store of rows that changes only at a commit,
by that transaction's writes, all at once; a write succeeds only on a row that
nobody else is writing and nobody changed since the writer's snapshot. `Mvcc` is
the implementation: versions with xmin, xmax, hint bit and slot state,
snapshots computed as `txn.rs` does (before the new transaction is active),
statements as sequences of latch-sized steps for each write path, physical undo
from the end, row locks, a registered reader, and vacuum's collect, mark and
compact. `Snapshots == INSTANCE SnapshotStore WITH ...` maps one to the other;
`seen` and `intent` are history variables for that mapping.

### Recovery

Pages are sequences of slots with xmin, xmax and state; the log is a sequence of
records with a durable prefix; a change of a page writes the records the heap
writes, in order, and keeps the page latched until its mini-transaction commits.
`Sync`, `Steal` and the four steps of a checkpoint run at any time. `Crash`
keeps the disk pages, the durable records and any prefix of the rest, and
computes `Work`, the set of everything `recover` is going to do: redo of
committed mini-transactions, undo of incomplete ones from the last record, then
for unfinished transactions their stamps (phase 1) and their inserts (phase 2).
`RecoverStep` performs the first remaining item in the order of the passes
(`Precedes`), so a steal or another crash may come in between;
`Fatal` holds the errors `recover` propagates; `OpenDone` is the end of
`Engine::open` with the counters it resumes. The history variables `ins`, `del`
and `committed` remember what the surviving commit records promise.

### EventQueue

An event row is its number, its transaction and its table. `rows` is the heap of
`__events__`, `index` the seq index, which differ after an abort (the index keeps
the entry), during `vacuum_events` (it removes the entry first) and after its
rollback (the row returns, the entry does not). `offset` holds the rows of
`__consumers__` in scan order: `ack_events` inserts when it finds none, so two
workers of one consumer may insert two, and an update puts the new version into
another slot. Writers, acknowledgements and `vacuum_events` all commit in three
steps: visible, logged, on disk (`log` holds the records that are not). A
consumer loop polls in two steps, snapshot and offset (`Poll`), then index and
visibility check (`Resolve`); delivers, with failing attempts for the dispatcher
(`DeliverFails`, ending in a dead letter), in any order for the webhook worker;
and acknowledges the largest number of the batch (`AckEvents`, `AckCommit`,
`AckLog`). The tail of `sse.rs` keeps a cursor and acknowledges nothing. `Crash`
keeps a prefix of the waiting commit records and any part of the index entries of
lost transactions, and resumes the sequence as `derive_next_event_seq` does.
`written`, `handled` and `owed` are history variables. Rollback and recovery are
single steps here, being taken apart in `Mvcc` and `Recovery`; so is the writing
of a dead letter.

### BTree

State: the nodes (`pages`), the root id in the meta page, the holder of each
latch, and per thread the call it is in (`th`). Inserters take the meta page's
latch and crab down (`LatchMeta`, `LatchRoot`, `Descend`, which releases the
ancestors of a node that is safe to insert into), change the leaf, and carry a
separator up the latched path (`InsertLeaf`, `InsertUp`, `NewRoot`). Batches
(`ManyLeaf`, `BatchLeaf`) fill a leaf's key range or fall back to single inserts;
`PatchLeaf`, `SetLeaf` and `RemoveLeaf` find their leaf without a latch and read
it again under one, `UpdateRead`/`UpdateWrite` take none. Readers (`FindLeaf`,
`ScanLeaf`, `SearchRangePartition`, `MaxEntry`) take no latch and follow right
links. A page write is one step; `present` is a history variable.

### Constraints

Two tables, a parent and a child that references it, as row versions with xmin and
xmax, and the unique index. A statement takes its key locks one at a time in the
order of the code, waits, or is refused as a deadlock victim; takes its snapshot
(READ COMMITTED after the locks, otherwise at `begin`); checks uniqueness and
references under it; writes the heap, then the index. Insert, upsert, update of
the key, of the reference or of neither, and delete are the statements; undo is
newest first. Serializable transactions keep `SsiState`; the commit's pivot test,
the departure from the active set and the entry into `ser` are separate steps, as
`txn.rs:592` has them. `prior` and `missed` are history: who was through with its
commit when a transaction made its own test, and whom it met between leaving the
active set and entering `ser`. Snapshots are those of `Mvcc` and locks those of
`LockManager`, reduced to what is needed here.

### Accounts and Authz

`Accounts` is the identity store and the handlers that use it. `store` is the
state in memory, `disk` is `roles.json`; every call that changes the store writes
it whole, and the write may fail, which leaves the change in memory only and ends
the request. A handler is a sequence of calls with nothing held in between:
password and second factor, enrolment, refresh, magic link, recovery, OAuth,
logout, bans and the administration of users. `grants` and `cut` remember which
token or code a session was given for and which families were revoked. `Authz`
extends it with roles, memberships, table and column grants (a column REVOKE has
two steps), policies and their merged filters, and the decisions taken from them:
`check_plan_privileges`, the row filter, and what a subscriber is sent.

### SqlValues to Query

The query path as operators. `SqlValues`: literals, comparison, arithmetic,
expression trees. `QueryPlan`: from a query to a plan, with predicate push-down,
join order, access path and join method; what the code decides from statistics is
`hints`, of which every outcome is taken. `QueryExec`: scans, the join algorithms
(hash, with and without spilling, merge, nested loop, index), aggregation,
windows, external sort, subqueries. `SqlFrontEnd`: from a parsed statement to a
plan. `QueryRewrite`: parameters, row policies, the columns a statement declares.
`TableAccess`: SELECT, UPDATE and DELETE on one table through a B-tree, a
full-text index or a scan. `Query` runs these stages as actions on a statement,
table contents, planner choices and a session chosen in `Init`. `QueryReference`
says what a statement means without plans: row combinations, three-valued logic,
scopes of enclosing rows; a LIMIT may cut a group of equal keys anywhere.
`QueryMeaning` applies it to a whole statement over the rows the policies leave,
and over tables whose unread columns are scrambled. The engine's modules have the
table contents, the planner choices and the session as CONSTANTS, which `Query`
gives values from the behaviour's input; it takes the executor and the meaning as
operator constants, which the configuration binds to `RunPlan`, `Answers` and
`Depends` of the same module. These modules use recursive operators and are for
TLC only.

### ParallelScan

`pool` is `PoolState`, `available` the leased-worker counter, `entry` the lock
that admits one scan to the pool; per scan and per thread a record of where it is.
A scan leases workers, installs its job under a new generation, is woken by the
last thread that finishes, and takes its result; a thread joins a generation,
draws units from the shared cursor, and counts itself finished. A scan in `Faulty`
may meet an unreadable page or its deadline, which stops the others.

### Catalog, RestWrites and Server

`Catalog` has one operator per catalog method; a DDL statement is a sequence of
edits, each of which is refused or yields a new catalog. `RestWrites` says which
SQL statements a POST, PATCH or DELETE on a collection becomes, and which are
turned down. `Server` composes them: a request is a handler (`req`) and the
blocking engine call it waits for (`job`). Handlers begin (`PostTxnBegin`), end
(`PostTxnEnd`), use a session (`SessionStatement`), or carry their own
transactions (`OneShot`, `PostBatchSql`, `RestWrite`, `CronDue`, `AdminEdit`);
`AfterBegin`, `AfterExec`, `AfterCommit` and `AfterAbort` are what they do with an
engine call's answer. The engine's side is `EngineBegin`, `EngineCommit`,
`EngineAbort`, `ExecDml`, `EngineRow`, and for DDL `ExecCatalog`, `FlipRoot`,
`RestoreCatalogRoot` and `SwapCatalog`. `Expire`, `ClaimExpired`, `ReaperForgets`
and `ReaperAbort` are the reaper, `DropRequest` the router's timeout or a client
that hangs up, `Restart` a crash. `edits`, `cut` and `stuck` are history
variables: the durable edits in order, the transactions a dropped request had part
in, and those whose rollback failed.

Where the workload says so (`faults`) the log may fail under any of these calls. A
begin that fails ends the request. A commit that wrote leaves the active set first
and is logged and synced afterwards; when that fails the transaction is in `doubt`:
it is visible, the call returns an error, and only a restart decides what it was.
A log whose fsync failed is `poisoned` and commits nothing more until then. A
rollback that fails leaves its transaction active, whether a handler, a refused
commit or the reaper asked for it. Where the workload says `auto`, a durable commit goes on to
`AutoCheckpoint` and `CheckpointFlush`, which fail when the disk does or when
another request has written between the two (`bufferpool.rs:743`); their error is
the commit's answer. An error of a commit that is under way or done is `late`, so
that the properties can tell it from one before the commit. A statement of a batch
that does not parse, or whose begin fails, ends the whole batch.

## 3. The runs

| run | workload and bounds | properties |
|---|---|---|
| `lock_manager` | 3 transactions, 3 records, all modes and batches | `MutualExclusion` `NoLostWakeup` `NoSilentDeadlock` `NoTableLeak` `WaitersReturn` |
| `wal` | 2 committers, the checkpointer, 3 LSNs, segments of 1 or 2 records, every fsync may fail | `DurableOrOutstanding` `TruncateKeepsTail` `CallsReturn` |
| `mvcc` | five workloads, up to 3 concurrent transactions, 2 rows, 4 slots, a reader, vacuum | `ReadsExact` `UndoTargetsIntact` `AbortLeavesNothing` and the refinement `SnapshotIsolation` |
| `recovery` | four workloads, 2 transactions, 2 pages, 3 slots, 14 LSNs, 2 crashes | `RecoveredIsCommitted` `RecoveryOpens` `XidsNotReissued` |
| `event_queue` | five workloads: overlapping writers with aborts and `vacuum_events`; a crash; two workers of one consumer; a tail beside a dispatcher of one table; a dispatcher and the webhook worker. 2 or 3 writers, 3 numbers, 2 attempts, polls of 1 to 3 | `NoLoss` `SeqsFresh` `CaughtUp` |
| `btree` | thirteen workloads, 3 threads on a prepared tree, nodes of 2 entries, up to 16 pages | `EntriesFindable` `ScansComplete` `CallsReturn` |
| `constraints` | nine workloads, 3 transactions, 9 row versions: READ COMMITTED writers of a parent and a child table, serializable ones in cycles of two and three that begin and commit in any order | `UniqueExact` `NoOrphans` `PivotsRefused` `AllEnd` |
| `access` | seven workloads of racing sign-in and administration requests on one account, with a failed write and a restart, two clock steps; four workloads of up to 6 GRANT, REVOKE, role and policy statements | `SessionsSound` `SuperuserRemains` `DecisionsExact` `PolicyFilter` `GranteesExist` |
| `query` | some sixty statements of every kind over three plain table contents and one with NULLs, six planner choices, row policies, a parameter | `QueryExact` `ReadsDeclared` |
| `parallel_scan` | two scans and the warm-up on three threads, one scan may fail | `ScanExact` `JobLifetime` `ScansEnd` |
| `server` | eleven workloads of up to 4 requests and 5 transactions: a client-held transaction with everything that may be done to it; batches, RPCs and resource writes beside SQL requests; two runs of a cron job; DDL scripts that may fail half way; three catalog changes at once; a failing log under a session and under batches and one-shot requests; commits that checkpoint beside a writer, with and without failures. Dropped handlers in five of them, a restart in six | `RepliesTrue` `NoPartialCommit` `OneAtATime` `SchemaExact` `TransactionsEnd` |
| `server_ddl_clash` | a request that creates a table beside one whose statement fails | violates `SchemaExact` |

Some properties have named parts, defined just above them: `ReadsExact` is
`SnapshotReads` and `ReaderVersionsKept`, `NoLoss` is `NothingSkipped` and
`UnackedRetained`, `UniqueExact` is `UniqueKeys` and `NoFalseDuplicate`,
`SessionsSound` is `GrantedOnce` and `RevokedStaysRevoked`, `OneAtATime` is
`CallsSerialized` and `RunsDontOverlap`, and `JobLifetime` also says that all
leased workers come back. `BTree.CallsReturn` and `Wal.CallsReturn` are two
properties of one name.

Why the bounds are enough to be interesting. Three transactions over three
records are the least that give a deadlock of length three, a shared holder that
joins behind a waiter, and an upgrade. Segments of one record make every append
rotate, so the sealer's slot fills; three LSNs let a record sit in the active
segment, in the one being sealed and in the one waiting. Three concurrent xids
give a writer, a rival and a transaction whose snapshot is older than both. Two
crashes put the second one inside the recovery from the first, or after a
session that ran on its result; fourteen LSNs hold two transactions with images
and a checkpoint. Two writers with two events each are the least with which a
number is taken before and committed after another that is acknowledged, and
batches of one, two and three numbers give a poll that is full, one that is
not, and one with a stale entry in it. With two entries to a node, two more
inserts split a prepared leaf, its parent and the root, under a reader that is
between its descent and its leaf; equal keys straddle two leaves. With three
serializable transactions the two neighbours of a pivot are different and may
commit before it, after it or one on each side, so that each of the three is
refused in some behaviours and commits in others. Four requests are a begin, two users of the session and one that
ends it. Two scans that each want two of three workers cannot both have them, and
the second one runs alone in its caller's thread.

Fairness. `LockManager`: a notified thread gets the mutex, `release_all` reaches
its `notify_all`, and an open, unblocked transaction is ended by its client or
by the server's idle-session reaper (`server/txn_session.rs:200`). There is none
on `Acquire`, nor on any particular grant. `Wal`: a thread inside a call keeps
running (weak fairness of each committer, the checkpointer and the sealer);
nobody has to start a call. `EventQueue`: an open transaction is ended by its
client or the reaper, a commit that has begun goes on, the log is synced, and a
consumer's loop keeps running (it wakes up at least every `poll_interval`,
`FALLBACK_INTERVAL` or `interval_ms`); nothing has to begin, no delivery has to
succeed and no vacuum has to run. `BTree`, `Constraints` and `ParallelScan`: a
thread in a call that is not waiting for a latch, a lock or the pool takes its
next step. `Server`: a handler that was answered and an engine call go on, the
clock passes a deadline that nobody renews, and the reaper, which wakes at a fixed
interval, claims and aborts; no request has to arrive. `Mvcc`, `Recovery`,
`Authz` and `Query` state safety only.

Deadlock checking is on for `LockManager` and `Server`. It is off in the others,
where the bound on LSNs, xids, numbers, crashes or calls simply ends a behaviour;
where there are liveness properties, they say what deadlock freedom would.

### What the workloads of the passing runs leave out, and why

Some combinations do not keep the properties (section 5), so the passing
workloads keep them apart; everything else about the properties is then checked in
full.

* `mvcc`: vacuum starts only when no transaction is open, transactions may begin
  while it runs; the statement paths `hotXpage` and the batch paths are in
  different workloads, row-at-a-time delete and insert too, and a batch that
  matches more than one page runs with one writer at a time.
* `recovery`: a session writes only if nothing was logged past the last
  checkpoint when it opened; HOT updates are not rolled back; transactions and
  checkpoints do not overlap; vacuum and inserts, and rollback and concurrent
  writers, are in different workloads.
* `event_queue`: `NoLoss` asks for every event only when writers do not overlap,
  and otherwise for those a poll could have seen; no workload has both
  `vacuum_events` and a crash, nor a crash after a poll between a commit's
  visibility and its record; there are fewer stale entries than a poll's limit;
  the tail has no filter; with two workers of one consumer there is no crash;
  `vacuum_events` is called once every consumer has acknowledged something,
  because one that has not is not protected by design (`lib.rs:4862`).
* `btree`: `update_rowid_inplace` runs without another writer; removals do not
  hide a later entry of the same key behind a leaf they emptied; nothing is asked
  of the answer of `max_entry` during a split.
* `constraints`: the writers whose constraints are asked about are READ COMMITTED;
  the conflicts of the serializable transactions are on rows found by key, and
  `PivotsRefused` looks at the neighbours a committing transaction could know of:
  those that were through with their commit, except whom it met in the window
  between leaving the active set and entering `ser`.
* `access`: `PolicyFilter` is asked as long as no filter was set by hand.
* `query`: no statement has one of the shapes (a) to (u) of section 5; joins,
  windows and set operations run over tables without NULLs.
* `server`: `NoPartialCommit` and `TransactionsEnd` except a transaction one of
  whose requests was dropped half way (`cut`), and `TransactionsEnd` one whose
  rollback failed (`stuck`), which the code leaves active until a restart;
  `RepliesTrue` takes a `late` error for what it is, all or nothing; DDL that may
  fail runs beside requests that only write rows, and with a log that works.

## 4. The proofs

Each theorem holds for every value of the constants that satisfies the `ASSUME`s
of its module. Each module's invariant was checked by TLC on the instance of its
run before it was proved inductive.

| module | theorem | statement |
|---|---|---|
| `LockManagerProofs` | `TypeCorrect` | `Spec => []TypeOK` |
| | `ExclusiveIsExclusive` | `Spec => []MutualExclusion` |
| | `WaitForGraphAcyclic` | `Spec => []GraphAcyclic` |
| | `NoFalseEdges` | `Spec => []EdgesAreReal` |
| | `WakeupsAreNotLost` | `Spec => []NoLostWakeup` |
| | `DeadlocksAreDetected` | `Spec => []NoSilentDeadlock` |
| | `TableDoesNotLeak` | `Spec => []NoTableLeak` |
| `WalProofs` | `TypeCorrect` | `Spec => []TypeOK` |
| | `FrontierIsCovered` | `Spec => []DurableOrOutstanding` |
| | `TailSurvivesTruncation` | `Spec => []TruncateKeepsTail` |
| | `AckedCommitsDurable` | `Spec => []AckedDurableWhenDrained` |
| | `FrontierMonotone` | `Spec => [][FrontierAdvances]_vars` |
| `MvccProofs` | `UndoIsSafe` | `Spec => [](Orderly(load) => UndoTargetsIntact)` |
| | `AbortsLeaveNothing` | `Spec => [](Orderly(load) => AbortLeavesNothing)` |
| | `ReadsAreExact` | `Spec => [](Orderly(load) => ReadsExact)` |
| | `VersionsImplementSnapshots` | `Spec /\ Orderly(load) => SnapshotIsolation` |
| `RecoveryProofs` | `XidsAreNotReissued` | `Spec => [](~load.overlap => XidsNotReissued)` |
| `EventQueueProofs` | `NumbersStayFresh` | `Spec => [](RestartSafe(load) => SeqsFresh)` |
| | `EventsAreNotLost` | `Spec => [](RestartSafe(load) /\ Separate(load) => NoLoss)` |
| `ParallelScanProofs` | `JobsOutliveTheirThreads` | `ParallelSpec => []JobLifetime` |
| | `CounterNeverWraps` | `ParallelSpec => []CounterInRange` |
| `AuthzProofs` | `AdministratorRemains` | `Spec => []SuperuserRemains` |
| | `SessionsAreSound` | `Spec => []SessionsSound` |
| | `AccountsStaySound` | `AuthzSpec => [](SuperuserRemains /\ SessionsSound)` |
| | `NothingOutlivesItsName` | `AuthzSpec => []GranteesExist` |
| | `PoliciesDecideRows` | `AuthzSpec => []PolicyFilter` |
| | `DecisionsFollowGrants` | `AuthzSpec => []DecisionsExact` |
| `ServerProofs` | `NothingOverlaps` | `Spec => []OneAtATime` |
| | `PartsAreNeverCommitted` | `Spec => []NoPartialCommit` |
| | `RepliesAreTrue` | `Spec => []RepliesTrue` |

`TypeOK`, `GraphAcyclic`, `EdgesAreReal`, `AckedDurableWhenDrained`,
`FrontierAdvances` and `CounterInRange` are proved and are in no run; every other
property of the table is also checked by a run.

### The lock manager

Assumed: `NoReq` is not a request.

`EdgesAreReal`, `NoLostWakeup` and `NoSilentDeadlock` are not inductive. The invariant `IInv` adds to the type
invariant and mutual exclusion three facts about the graph: every edge is real;
the edges of a parked transaction are complete, and there is at least one,
whenever no `notify_all` is outstanding (`ParkedEdgesExact`); and the graph has no
cycle. A grant may add blockers to a parked transaction without adding an edge;
the argument survives because the grant wakes everybody, so completeness is asked
of parked transactions only. The batch call grants without notifying, and needs
an argument of its own: it takes only records nobody else holds, and a parked
request is always blocked by some holder, so it cannot be a request on one of
those records. That parking keeps the graph acyclic is the lemma
`AcyclicExtension`, the reasoning in `has_cycle`'s comment: if the vertex whose
edges change is on no cycle, there is none. An undetected deadlock would be a set
of parked transactions blocked on one another; with complete edges it would be a
cycle.

`NoTableLeak` is inductive together with the type invariant. It has three parts:
the entries are exactly the records that are held or queued for, a queue is
exactly the outstanding requests for its record, and an ended transaction holds
nothing. The entries stay exact because whoever adds one holds or queues at once,
and every path that removes a holder or a waiter ends in `gc`.

### The log

Assumed: the checkpointer is not a committer, and a segment holds at least one
record.

`DurableOrOutstanding` (a record behind `durable_lsn` is on disk or in a segment
whose background fsync is due or has failed) is not inductive: `advance` moves the
frontier to an LSN that was captured before the fsync ran without the mutex. `IInv`
therefore says what a capture covers while its thread is between the two
(`CaptureCovers`): every record up to the captured LSN is in the captured segment
or an earlier one, those of earlier segments are safe already, and after the fsync
those of the captured segment are too. That in turn needs the order of the log
(LSNs go to segments densely and in order, `LogShape`), that every segment behind
the active one has been handed to the sealer, except by the thread in the middle
of a rotation (`HandedAreSafe`), and that this thread is the holder of the mutex
and the segment it opened is still empty (`RotationHoldsMutex`). `TruncateKeepsTail`
follows from `RemovedBeforeCkpt`: what was removed precedes the segment of the
checkpoint, whose position never moves back in the log.

A commit is acknowledged only behind the frontier (`AckedBehindFrontier`). Hence
`AckedCommitsDurable`: acknowledged commits are on disk once no background fsync is
due. The stronger `AckedIsDurable` is false (section 5).

### Rollback

Assumed: the workload chosen in `Init` is `Orderly`. Its conjuncts exclude exactly
the combinations in which the properties fail (sections 3 and 5): vacuum starting
while a transaction is open, batches of more than one page, batches beside
cross-page HOT updates, and row-at-a-time deletes beside paths that insert. Batches
and cross-page updates are each covered, and so is everything that may begin while
vacuum runs. The run also checks one writer with batches over two pages, which the
theorems leave out.

`UndoTargetsIntact` says what the log names; `AbortLeavesNothing` needs the
converse, that every mark is named. `MvccInv` has both. `MarksOf`: a live version
written by an open transaction is in a kill step, or is the unlinked version of a
cross-page update, or has been killed already; a version it stamped is in a revive
step, or is the old version of an update whose new one is still missing, or was
its own. `OrderOf`: a slot is revived once, and if the transaction wrote it too, a
kill step for it comes earlier in the log, so it is performed later; without this
the revive would leave the aborted xid in xmin alone. `TargetOK` says what a
statement may rely on between its scan and its stamp: its target is live, was
written by nobody else who is open, is not about to be reclaimed, is locked by it
on the paths that lock, and is unstamped where a cross-page update no longer
looks. Live and not about to be reclaimed come from the snapshot: it takes no open
transaction for committed, and every xid below the horizon of a running vacuum for
committed (`SnapsOK`), so what vacuum collected is not visible. Vacuum's candidates
were stamped by transactions that had ended before it began (`VacuumOK`), and so
are in no undo log.

### Snapshots

Assumed: an `Orderly` workload, as for the rollback, whose invariant `MvccInv` this
proof rests on. `SnapInv` adds to it what holds of one row at a time.

`RowOf`: of a row at most one version is unstamped, except between the insert and
the stamp of a cross-page HOT update; at most one open transaction has stamps on
the row, and the unstamped version is then its own. `ChainOf`: the undo log of a
transaction goes back along the versions of each row, so undoing the last step
never leaves two unstamped versions (the versions put in the place of a revived one
have been killed by then). Together they say that a fresh snapshot sees at most one
version of a row (`OneVersion`), although the stamps of an open transaction that
wrote the row several times are all still there.

`IntentAt` ties the finished writes of a transaction (the history variable
`intent`) to its marks, `ReadsAt` says that what it sees of a row is its snapshot
with those writes over it, also in the middle of a statement, and `BaseAt` that
nobody has committed to a row it has written since its snapshot. `BaseAt` is the
first-updater-wins rule, which no single check in the code enforces: a statement
picks a version its snapshot sees and stamps it only if nobody has, so the version
it replaces is the committed one, and from then on the stamp keeps everybody else
away. `ReaderOK` says of the registered reader that none of the versions it saw
carries a stamp it takes for committed, so none of them is below vacuum's horizon.

For the refinement every step is classified by what it does to `state`, `seen`,
`intent` and the committed rows (`StoreStep`): `Begin` opens, a READ COMMITTED
statement refreshes, the last step of a statement records one write, a failed
lock, a conflict or a rollback aborts, and `Commit` publishes. Everything else,
the steps within a statement, each step of the undo and vacuum's passes, leaves
the committed rows as they are and is a stutter of `SnapshotStore`.

### The xid counter after a crash

Assumed: the workloads have the form `LoadType` says, and, in the theorem, that no
transaction begins while a checkpoint runs (`~load.overlap`; without it section 5
applies). Sessions that write after an unclean restart (`dirtyRestart`) are covered,
although `RecoveredIsCommitted` fails for them.

`XidsNotReissued` speaks of the disk and of the durable log; neither is changed by
the step that first uses an xid. `XidInv` says how long a prefix of the log is needed
to cover every place an xid can be in, where an xid is covered (`Covered(n)`) if it
is below the control file's `next_xid` or its `WAL_TXN_BEGIN` is among the first n
records. A page on disk needs the durable prefix (`DiskOK`). A page in memory may
need the whole log, but only the durable prefix if its LSN is at or below the
frontier (`MemOK`), which is what `find_victim` and `flush_all` test before they
write it. A log record needs the prefix that ends with itself (`LogOK`), its page
image included: a crash may cut the log right after any record, and recovery then
brings its xids, and no others, to a page (`AppliedFact`), by redo, undo or either
phase, and steals pages in between. The frontier stays below the next LSN
(`CountersOK`), so a page just changed is never within it. The checkpoint's record
is durable before the control file names it and `next_xid` is still what it read
(`CkptOK`), so truncation removes only records of xids the control file covers.
The old xmax that an undo record saves is read from a slot, so the invariant also
keeps the slots named by undo entries in existence (`UndoOK`).

### Event numbers after a restart

Assumed (`LoadAssumption`): workers share a consumer name only in workloads without
crashes. In the theorem, of workloads that crash (`RestartSafe`): no `vacuum_events`,
no live tail, and no poll between a commit's leaving the active set and its record;
with any of the three TLC refutes `SeqsFresh` (section 5). Workloads without crashes
are not restricted: workers may share a name and leave two rows for it, vacuum and
its rollback run at any time.

`derive_next_event_seq` takes back the numbers of lost transactions, so no offset may
name one of those. An acknowledgement is a transaction of its own and may be lost or
survive independently of the events it acknowledges, which are seen before they are
on disk. `EventInv` has one fact for each outcome. If its record survives, so do the
transactions of its batch: their records are before it in the log (`AcksFollow`),
because a snapshot holds only rows of transactions whose record was there when the
poll took it (`SnapOK`) and a crash keeps a prefix. If it is lost, `__consumers__` is
what it was before (`before`), and every number in there belongs to an event on disk
(`Settled`): until an acknowledgement is on disk its worker's loop does not go on to
the next one, so no open acknowledgement ever replaces another open one's row. The
rest of the invariant relates the three states of a commit to the log
(`LogMatches`, where every record but that of `vacuum_events` is there once) and says
that without `vacuum_events` every row of a transaction that is not rolled back is
still in the heap, where the restart finds it.

### No event is lost

Assumed besides: every consumer name has one worker, and no live tail runs beside
`vacuum_events` (`Separate`). Without either, TLC refutes `NoLoss` (section 5). The
run's workload of two workers with one name, whose writers take turns, is therefore
covered by TLC alone. Everything else is free: overlapping writers, rollbacks,
bounded polls, failed attempts, `vacuum_events` and its rollback, vacuum of the heap,
and, in workloads without `vacuum_events`, any number of crashes.

`NoLoss` speaks of the offset in `__consumers__`; it is not inductive, because the
offset is moved to the largest number of a batch, and what lies between the old
offset and that number is in the history of the worker's polls. `LossInv` adds, for
every worker:

* `GotTo(d, n)`: up to `n` the consumer has handled what its polls saw; it holds of
  the offset and of the offset the current poll began at, which is the one a crash
  puts back (`PlaceOK`: a consumer has at most one row, and its worker alone
  stamps it);
* `PollOK`: a poll sees again whatever an earlier poll saw after the offset, since
  visible rows stay visible, and `Kept` keeps them in the heap and in the index;
* `BatchOK`: the batch is a prefix of what the poll saw, in the order of the numbers
  (`search_range_limit`, then the visibility check), so the acknowledgement passes
  nothing that is not in it; and what is no longer to do is handled.

`Kept` is inductive because `vacuum_events` takes only numbers up to the least
offset, and offsets do not go back while it is open. When writers take turns
(`TakeTurns`, `InTurn`) a poll that sees a number sees all smaller ones. The numbers
of rows that are not lost are distinct (`UniqueSeqs`), which rests on the first half
of the module: the counter is above every number in use. TLC checked `LossInv` over
nine workloads, 1.6 million states, before it was proved.

### The parallel scan

Assumed: the pool has at least one thread, `NoScan` is not a scan, and a scan's
pages are finitely many.

`JobLifetime` is the argument in the comment on `transmute_job_lifetime`: the
caller does not return before all threads of its generation have. It is not
inductive, because the caller waits for a number. `FinishedCounted` ties the number
to the threads: while a scan is in the lock, `finished` is the cardinality of the
set of threads that joined its generation and came back; and between two jobs no
thread below the degree is a generation behind, so no thread counts twice or for
the wrong job. The counter of free workers is the pool's size less the leases
(`LeasesCounted`), so it never wraps.

### Accounts

Assumed of the workloads (`UsersAssumption`, `WorkAssumption`): the database starts
with a superuser, whom the operator creates first (`authz/mod.rs:1610`; a database
without users is in open mode and is not modelled), and the enrolments it starts
with have the shape the store keeps; requests are of the kinds that have a handler; and the name
an OAuth callback generates by adding a suffix is nobody's given name. The suffix
is random in the code.

A handler is a sequence of store calls with other requests between them, and every
call that saves may fail or be followed by a restart that reloads the disk. So
`AccountsInv` states the same `StoreOK` of the store in memory and of the one on
disk: there is a superuser; a live session is the only live one of its family and
the family is not revoked; every grant in the history is used up there (its token
is dead, its code is behind the last accepted step or removed). Between consuming a
one-time token and creating the session a handler holds a dead token that no grant
and no other handler in that position names (`HoldersOK`); that is what makes
`GrantedOnce` survive the interleavings.

### Authorization

Assumed: finitely many names, which bounds the walk through the memberships; a
table has columns, none of them called `all`; statements and grants speak of those
columns.

`AuthzInv` adds to `AccountsInv`, of store and disk: nothing is held by a name that
does not exist; the scope of a grant says exactly what the single GRANTs and
REVOKEs said of each column (`GrantsOK`), which is the argument for
`materialize_all_to_columns`; the filters are those of the policies (`FiltersOK`);
and a REVOKE in its second half finds the grant spelled out (`RevokingOK`).
`DecisionsExact` and `PolicyFilter` compare a loop that collects roles for as many
rounds as there are names with the smallest set that is closed under membership.
`GranteesExact` shows the two equal: a round that adds nothing is the last
(`ClosedForGood`), a round that adds something makes the set larger (`WalkGrows`),
so after `Cardinality(Names)` rounds it is closed.

### The server

Assumed (`WorkloadsAssumption`): only SQL, row and COMMIT/ROLLBACK requests name a
session, a cron run is of a registered job, and a `get` is a raw read. For the
replies also (`ScriptsAssumption`): a request that carries statements carries at
least one (an empty text or batch is answered without any effect that the answer
could be about), a write on a collection is turned down or becomes statements, and
SQL text holds no call below SQL. TLC evaluates both on the runs' workloads.

Nothing in `CallsSerialized` says which request may call the engine on which
transaction; `OwnersOK` does. A transaction in use by a request that is still
there is used by no other; in a session its user holds the session's mutex, and
outside one the transaction is in no registry and not claimed by the reaper. A
request that was dropped may still have a call running, but then its transaction
is in `cut` (`CallOK`). `NoPartialCommit` needs the same fact: a transaction that
is open and has partial effects has a user whose call has failed or is the abort,
or its rollback has failed and nobody has it any more, in a session or out of one
(`PartsAborted`, `Abandoned`); as that user is the only one, nobody can be
committing it. The
runs of a cron job are in one-to-one correspondence with its guard (`CronOK`).

`RepliesTrue` compares a reply with transactions that have long ended, so it says
nothing of the requests still under way; `ToldInv`, proved on top of `ServerInv`,
follows them. While a request works, the statements before the one it is at have
taken effect in its own transaction (`Covered`) and none of them in any other
(`OnlyHere`), which is what makes "committed" mean all of them and "aborted" none.
After a `late` error the transaction may be committed, or in doubt until a restart
decides: then the statements are still all in one transaction (`Together`), which
gives all or nothing whatever comes of it. After an error from before the commit the
transaction is aborted, or its rollback failed and it is open with nobody left to
commit it (`Dead`).
Outside a session nobody else ends that transaction (`OwnersOK`, and `CutOK` for
calls that outlived their request), so what the engine's commit or abort returned is
still so when the handler reads it (`EndState`) and composes the reply (`Decided`).
The filled slots of a batch stay decided while later ones run (`SlotsOK`). In a
session other requests and the reaper may end the transaction meanwhile; there a
statement's acknowledgement only says that it is in the transaction (`HeldOK`), and
the acknowledged end of the session says how that one ended (`EndOK`).

### What is only model-checked

* Liveness (`WaitersReturn`, `CallsReturn`, `CaughtUp`, `AllEnd`, `ScansEnd`,
  `TransactionsEnd`): out of TLAPS's reach.
* `BTree`, `Constraints` and the query modules (`EntriesFindable`,
  `ScansComplete`, `UniqueExact`, `NoOrphans`, `PivotsRefused`, `QueryExact`,
  `ReadsDeclared`): their recursive operators rule out the SMT backend.
* `ScanExact`: the result of a scan is a fold over the parts its workers pushed, in
  the order of the units; what a fold computes for every input needs induction over
  data.
* `SchemaExact`: false as soon as two DDL requests clash (section 5), so there is
  no theorem; the run checks it where they do not.
* `RecoveredIsCommitted` and `RecoveryOpens` of `Recovery`: not proved yet
  (section 7).
* `NoLoss` of `EventQueue` where two workers share a consumer name and writers take
  turns.

## 5. Where the code departs from its comments

### With a run

`server_ddl_clash`: a request whose statement fails puts back the catalog root it
saw when it started (`restore_catalog_root`), and with it takes back the table
another request created, and was acknowledged for, in between. It is the entry
under `findings`.

### With a configuration

Six more configurations make TLC find a counterexample; each is run as
`tlc -config <file> <module>`:

| configuration, module | property | what it shows |
|---|---|---|
| `WalAck.cfg`, `Wal` | `AckedIsDurable` | `wait_until_durable` takes an empty slot for "nothing outstanding", but the sealer empties it before it fsyncs; a commit can be acknowledged whose record is not on disk (`wal.rs:343`) |
| `MCMvccHorizon.cfg`, `MCMvcc` | `UndoTargetsIntact` | a transaction that begins alone has a snapshot whose xmin is above its own xid, so vacuum may reclaim a version it has stamped (`txn.rs:423`) |
| `MCMvccReader.cfg`, `MCMvcc` | `ReaderSeesCommitted` | a reader's `self_xid` is the next xid to be issued (`txn.rs:291`) |
| `MCRecoveryRestart.cfg`, `MCRecovery` | `RecoveredIsCommitted` | after a restart, LSNs and mini-transaction ids repeat those still in the log (`lib.rs:1555`) |
| `MCEventQueueOrder.cfg`, `MCEventQueue` | `ZeroLoss` | an event's number is taken when it is written (`sql/executor.rs:1331`), so a consumer may acknowledge past an event that commits later, and never gets it |
| `MCConstraintsRR.cfg`, `MCConstraints` | `UniqueKeys` | under REPEATABLE READ uniqueness is checked under the transaction's snapshot (`sql/executor.rs:2583`), so a key committed since is inserted again, although the key lock is there to prevent it (comment at 2554) |

Three more take the configuration of a run with other workloads (`Workloads`, `Loads`) and
this property as its only one:

| configuration, workloads | property | what it shows |
|---|---|---|
| `MCConstraints.cfg`, `Report` | `Serialization` | the test at commit asks who is a pivot now (`txn.rs:655`). T1 reads row 1 and replaces row 2, T2 replaces row 1 and commits, T3 begins after that and reads T2's row 1 and the row 2 that T1 replaces: T1 has committed with one edge, T3 has one edge too, nobody is refused and there is no order. The comment at `txn.rs:651` says a pivot must not commit because "it would seal a non-serializable schedule", and `docs/history/PROGRESS_ARCHIVE_2026-07.md:1756` calls the mechanism sound |
| `MCServer.cfg`, `MCCommitError` | `CommitErrorsRollBack` | `Engine::commit` runs `maybe_auto_checkpoint()?` after the commit is durable (`lib.rs:5413`). Another request that writes between the checkpoint's sync and its flush makes `flush_all` fail (`bufferpool.rs:743`), with no I/O error at all, and the client is told that its commit failed. The comment at `server/handlers.rs:277` says the error is reported "on a fully cleaned-up transaction" |
| `MCServer.cfg`, `MCBatchError` | `BatchReportsSlots` | `post_batch_sql` applies `?` to the parse and to the begin of a slot (`server/handlers.rs:526`, 556), which ends the request with an HTTP error after earlier slots have committed. The comment at 489 says "The response is always `200 OK`" |

### Met while modelling: storage and events

* With rollbacks of HOT updates (`HotLoads` in the place of `RestartLoads` in
  `MCRecoveryRestart.cfg`) TLC violates `RecoveryOpens`: phase 1 fails on a log
  with a half rolled back HOT update (`recovery.rs:216`).
* With transactions allowed to overlap a checkpoint (`overlap = TRUE`) TLC
  violates `XidsNotReissued` in seven steps. `maybe_auto_checkpoint` tests
  `active_count` and then checkpoints with nothing held (`lib.rs:5427`), and
  `Engine::checkpoint` is documented as safe to call at any time
  (`lib.rs:6066`).
* Inserts and vacuum together: after a freed slot is reused, redo of the insert
  is skipped because the page already has that many slots (`recovery.rs:467`);
  recovery then fails in phase 2 or loses a committed row.
* A rollback beside a batch delete: the delete takes no row lock, so it may stamp
  a row the rollback has just freed; a crash before `WAL_TXN_ABORT` makes phase 1
  clear that committed stamp.
* A HOT update and a delete of the row by the same unfinished transaction also
  make `recover` return an error.
* A cross-page HOT update checks the row, inserts, then stamps without a second
  check (`heap.rs:832`); a batch writer, which takes no row lock, may come
  between.
* A batch statement that fails on its second page leaves its stamps on the first
  with no undo entry (`heap.rs:953`).
* `Heap::delete` sets the "xmin committed" hint on a row its own transaction
  inserted (`heap.rs:896`).
* An image restored by recovery is marked dirty only when a frame already holds
  the page (`bufferpool.rs:558`); an image inside a mini-transaction that did not
  commit is not replayed; the page file is a shared mapping, which the kernel may
  write back regardless of D5; the control file is overwritten
  in place without an fsync.
  Pages and control file reach disk atomically in the model, so it says nothing
  of these.
* `derive_next_event_seq` takes the largest number still visible
  (`lib.rs:6741`), not, as its comment has it, the "highest ever seen": with
  `vacuum_events` before a crash TLC violates `SeqsFresh`, the numbers start again
  below the consumers' offsets and the new events are never delivered.
* A commit is visible before it is logged (`txn.rs:664`); a consumer may deliver
  and durably acknowledge an event whose transaction is lost in a crash, and
  `SeqsFresh` is violated (`window = TRUE` with a crash). The same order lets
  the number of a delivered and lost event be issued again, although consumers
  are told to dedupe on it (`unidb-dispatch/src/lib.rs:27`).
* A live tail is sent an event whose commit record is not on disk yet, and its
  client keeps the number over a crash that loses the event; it reconnects with
  `Last-Event-ID` (`server/sse.rs:144`) and does not get the event the number is
  given to next. With a tail and a crash TLC violates `SeqsFresh` in nine states.
* As many stale entries of aborted transactions as a poll's limit keep every
  consumer behind them until vacuum (`lib.rs:4233`; the comment at
  `sql/executor.rs:1370` calls a stale entry harmless): `CaughtUp` is violated.
* A tail with a table filter moves its cursor only with the events it yields
  (`sse.rs:219`); behind `limit` events of other tables it stays for ever:
  `CaughtUp` is violated.
* Two first acknowledgements of one consumer leave two rows, the older of which
  holds back `vacuum_events`; a late acknowledgement with a smaller number moves
  the offset back, which redelivers and loses nothing (`lib.rs:4795`).
* With two workers of one name and overlapping writers, the one whose poll came
  first may acknowledge a number while a smaller one, committed since, is only in
  the other's batch (`lib.rs:4795`). From then on that event depends on one worker's
  memory; TLC violates `NoLoss` in 15 states.
* A live tail's cursor is not in `__consumers__`, so `vacuum_events` may take away
  an event the tail has not yielded: the entry leaves the seq index, and a tail that
  has taken its snapshot goes past it. TLC violates `NoLoss` in 18 states.

### Met while modelling: indexes, constraints, scans

* `update_rowid_inplace` reads and writes a leaf without a latch
  (`btree_index.rs:1201`): a split or an insert in between is overwritten.
* `insert_batch_in_txn` may take nothing and return 0 (`btree_index.rs:1864`);
  `insert_many` would then call it again for ever. With keys of fixed size, as
  in the run, TLC finds no such state.
* `remove` stops at an empty leaf although entries of the key may follow;
  `set_value` and `patch_many` look only in the leaf left of an equal separator;
  `max_entry` may return the largest entry of the left half during a split.
* Foreign keys under REPEATABLE READ (`LateParent` in `MCConstraints`), an update
  that is not HOT and repoints the index between another's check and write
  (`Repointed`), a row with a HOT chain whose key is updated to itself
  (`SameKey`) each violate a property of `constraints`.
  Composite unique and foreign keys take no key locks. SELECT through a B-tree
  and the query path never call `ssi_note_reads`.
* A panic in a job would leave `run_in_pool` waiting; `set_max_total_workers`
  loads and stores the counter in two steps; a thread that cannot be spawned
  leaves the earlier ones on a pool nobody uses.

### Met while modelling: accounts and authorization

* A filter set by `PUT /tables/{t}/rls` is erased when a policy is created or
  dropped later; `create_policy_inner` writes the catalog several times.
* The comment on `channel_pattern_specificity` (`authz/mod.rs:2372`) does not hold
  for `room` against `room*`.
* INSERT and WITH CHECK ignore a policy's TO roles; DROP USER keeps the user's
  sessions and tokens.

### Met while modelling: server and catalog

* A request dropped during its begin, or between its execute and its commit,
  leaves an open transaction nobody ends, contrary to `server/txn_session.rs:20`
  and `server/mod.rs:297`. A dropped statement of a session keeps running while
  other requests already use the transaction (`server/handlers.rs:136`). Hence
  the exception `cut` in `NoPartialCommit` and `TransactionsEnd`.
* A rollback that fails leaves the transaction active with its session already
  gone from the registry (`server/mod.rs:348`), and nothing tries again: it keeps
  its locks and holds the vacuum horizon until a restart. Hence `stuck`.
* A commit whose record cannot be made durable has already left the active set
  (`txn.rs:664`): others read its effects, and a restart may take them back.
* Raw insert, update and delete change the heap before they ask whether the
  transaction is active.
* When `persist` fails the catalog in memory stays changed; errors of
  `bind_params` return without a restore; in an RPC body the DDL of an earlier
  statement survives a later one's failure; the restore does not bump
  `schema_epoch`.
* CREATE INDEX builds from the statement's snapshot, so rows of a transaction that
  commits later are not in it, and persists twice. CREATE and DROP TYPE and
  TRIGGER are allowed in a session and not undone by its rollback.
  `remove_function` looks for triggers and then removes, without the catalog lock.
* A PATCH with an `in` list that assigns the filtered column runs one statement
  per value and may update, and count, a row twice. The base query of
  `get_collection` and those of its embedded resources are separate transactions.

### Met while modelling: queries

These shapes give another result than their meaning, or an error, and are in no
workload of `query`:

* (a) the index-only path of `exec_select` ignores the other conjuncts and the row
  policy (comment at `sql/executor.rs:3461`); an index scan for a NULL or a value
  that cannot be ordered returns all rows; DELETE with `<>` deletes nothing when
  the index looks selective (`sql/executor.rs:5228`);
* (b) `push_predicates_down` moves WHERE conjuncts below the null-extended side of
  an outer join;
* (c) the merge join drops rows with NULL keys of a FULL OUTER join;
* (d) the column order of `SELECT *` follows the join order;
* (e) a hash join matches by encoded type, so 1 and 1.0 differ;
* (f) CTE names of a subquery leak; the subquery cache is keyed by the bound text;
* (g) correlation two levels up is not substituted;
* (h) `SELECT k, k` yields NULL for the second;
* (i) MATCH and NEAR under OR are TRUE; `qualify_policy` lowers arithmetic, JSON
  and NEAR in a policy to TRUE;
* (j) COUNT(*) without WHERE returns the catalog's `row_count`;
* (k) NOT of a comparison with NULL is TRUE;
* (l) NOT IN (list) ignores NULL items;
* (m) `apply_rls_from` does not visit CTE bodies, window arguments, GROUP BY and
  ORDER BY;
* (n) GROUP BY a, a on the fast path;
* (p) RANK and DENSE_RANK with NULL keys;
* (q) COUNT(expr) OVER counts NULLs;
* (r) a scalar subquery inside arithmetic or IS NULL is an internal error;
* (s) one ORDER BY key that forces the sort before the projection affects the
  others;
* (t) the columns of USING and NATURAL are not among the declared reads;
* (u) arithmetic on NULL is an error.

## 6. What is not modelled

In the modelled parts: record and page encodings, checksums and sizes; the scan
of a torn log tail; page allocation and the free-space map; index and cross-page
HOT records in recovery; torn pages; I/O errors other than those of the log, of
a checkpoint's flush, of a rollback and of `roles.json`, so none while DDL writes
the catalog;
toast and large values; the order of the lock queue; lock waits inside `Mvcc`,
which uses the no-wait policy; key encoding, INCLUDE payloads and the bulk build
of a B-tree; composite keys and ON DELETE actions; the payload of events, a dead
letter that cannot be written, the condvar that wakes consumers early, and the
channels of `server/realtime.rs`; cryptography, mail, captcha, TLS and rate
limits; the SQL grammar, dates, EXPLAIN and `information_schema`; statistics,
which are arbitrary estimates in the model; reads of the resource API, GraphQL,
bulk loading and cursors; cron schedules and the vault's encryption.

Not modelled at all, with the reason: replication, logical shipping, backup and
object storage (protocols, in the plan); vector and full-text search structures
(numeric and probabilistic, out of a model checker's reach); graph traversal;
large objects (rows of the heap); background timers, which call operations
modelled elsewhere; OS bindings, metrics, companion binaries.

Hazards in `PROJECT.json` that no property covers: the hint bit set too early
(`heap.rs:896`), which needs a model of caches that outlive a transaction beside
recovery; and slots against truncation (`replication/mod.rs:160`), for the module
on replication.

## 7. The plan

Done, in this order: `LockManager` and its proofs, `Wal`, `SnapshotStore` and
`Mvcc`, `Recovery`, `EventQueue`, `BTree`, `Constraints`, `Accounts` and `Authz`,
the query modules, `ParallelScan`, `Catalog`, `RestWrites` and `Server`; then the
proofs about `Wal`, `ParallelScan`, `Accounts`, `Authz`, `Server`, `Mvcc` with the
refinement of `SnapshotStore`, `Recovery`'s xid counter, and `EventQueue`.

Next:

1. Proofs. `Recovery`: `RecoveredIsCommitted`, which needs what each prefix of the passes has done to a
   page. `BTree` and the query modules
   hold recursive operators; what is to be proved of them has to move to modules
   that do not.
2. `Replication`: slots, retention and truncation (composes with `Wal`'s
   truncation), apply on a replica with duplicates.
3. Object storage: the two-phase upload, its outbox and the reconciler.
4. Cursors and the rate limiter of the server.
