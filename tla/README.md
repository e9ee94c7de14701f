# A TLA+ model of BroccoliQ

BroccoliQ is a memory-first database pool and a job queue on SQLite: one Node or Bun
process buffers writes in memory, flushes them once a second in one transaction per
shard, and serves reads from the disk merged with the buffers. A job queue, a lease
manager and an auditing worker are built on it. This directory models the parts that
keep state and interleave, checks them with TLC and proves the core with TLAPS.

## 1. Inventory

JavaScript runs one callback at a time, so a step of these models is what runs between
two `await`s. Everything that is hard about this code happens *at* the awaits.

| Component | Source | State | Operations |
|---|---|---|---|
| Mutex | `db/pool/Mutex.ts` | `locked`, queue of resolvers | `acquire` (fast path, queue, 30 s timeout), `release` (hand-off) |
| Pool | `db/pool/index.ts`, `ShardState.ts` | per shard: active and in-flight buffers, indexes, size; agent shadows; two mutexes; timers | `push`, `beginWork`, `commitWork`, `cleanupShadows`, `flush`, `selectWhere`, `warmupTable`, `stop` |
| Operations | `db/pool/Operations.ts` | none (it mutates the operations it groups) | `groupOps`, `executeSingleOp`, chunked and bulk inserts |
| QueryEngine | `db/pool/QueryEngine.ts` | none | `applyOpsToResults`, `applySingleOp`, `postProcessResults` |
| Locker | `db/pool/Locker.ts` | rows of `claims` (shared by processes), `activeLocks` | `acquireLock`, `heartbeatLock`, `releaseLock`, `destroy` |
| SqliteQueue | `queue/SqliteQueue.ts` | rows of `queue_jobs`, ring buffer of pending jobs | `enqueue`, `enqueueBatch`, `dequeueBatch`, `complete`, `completeBatch`, `fail`, `performMaintenance` |
| Queue runner | `queue/SqliteQueue.ts` | loop, batches in flight, lists of outcomes, flags | `process`, `processBatch`, `stop` |
| Config | `db/Config.ts` | per process and shard: connection, initialisation promise, initialised flag; the tables of each file | `getDb`, `getRawDb`, `getActiveShards`, `closeAllShards`, `initializeSchema` |
| IntegrityWorker | `db/IntegrityWorker.ts` | interval, pending initial runs, `isProcessing` | `start`, `stop`, `runAudit`, `auditShard` |
| Signaling, XmlLite, Logger, DatabaseSchema, scripts | rest | little or none | - |

How they interact: the queue, the integrity worker and applications call the pool; the
pool calls `groupOps` and the executor inside its transaction and the query engine inside
`selectWhere`; both mutexes belong to the pool (`stateMutex` around shadows, swaps and
reads, `flushMutex` around a whole flush, always taken first). The locker bypasses the
buffers and talks to SQLite directly, because other processes must see its rows. The
queue's ring is a second copy of pending jobs next to the rows. Everybody gets a shard's
connection from `getDb`, which opens the file and repairs its tables on first use;
`pool.stop()` closes them all. The worker asks which shards are open, reads them through
the pool, pushes repairs and flushes.

What is hard, and what must hold:

* **Mutex**: release and timeout race with new acquires. Nobody overtakes, nobody waits
  for a lock nobody holds, two never hold.
* **Pool**: two buffers change roles while reads await the disk, commits push one
  operation at a time and transactions fail. What was accepted is on disk, in flight or
  active, in order and once; a read sees everything accepted before it; a commit is
  all-or-nothing per shard; stop() writes what preceded it; stalled pushes resume.
* **Operations and queries**: grouping changes the operations of a table, and reads apply
  the same operations in another way. Both must agree with the order of the pushes.
* **Queue**: ring, rows, claims and outcomes are updated in separate steps. A job is
  delivered to one handler, its attempts are counted, what is done stays done, and every
  job comes to an end.
* **Runner**: handlers, flush tasks and the loop share lists and counters. No outcome is
  lost, concurrency is bounded, stop() ends.
* **Locker**: claims of several processes, heartbeats, late results. One holder, whose
  row exists; abandoned claims expire.
* **Config**: calls, initialisations and closes of a shard overlap, and so do the repairs
  of one file by several processes. One connection per shard, which the maps know; a
  schema that is complete when an initialisation says so.
* **IntegrityWorker**: pages, repairs and flushes alternate with the writes of others, and
  any of them may fail. What has its parent keeps it; what lost it is repaired in the end.

`PROJECT.json` lists the hazards line by line with the properties that cover them.

## 2. Modules

| Module | Models |
|---|---|
| `Mutex` | `Mutex.ts` |
| `MutexProofs` | theorems about `Mutex` |
| `DurableLog` | abstract pool: per shard and table, an accepted log whose prefix is durable, and what a failed transaction may drop |
| `WriteBehind` | the pool with two instances of `Mutex`; implements `DurableLog` whatever fails |
| `MCWriteBehind` | sets of operations for its runs |
| `WriteBehindProofs` | its types, conservation, and that it implements `DurableLog`, proved |
| `WriteBehindSafety` | bounded buffers, reads that see every accepted write, what stop() persists, commits that are durable and read as a whole, proved |
| `TableOps`, `MCTableOps` | what grouping, execution and reads make of the operations on one table |
| `TableProofs` | that they agree with the order of the pushes, for buffers of any length, proved |
| `JobQueue` | `SqliteQueue` called directly, on the pool's promises |
| `QueueRunner` | `process()`, `processBatch()`, `stop()`, on top of `JobQueue` |
| `QueueProofs` | types and ring, counted attempts, exclusive delivery, final outcomes; of the runner its bound, the owners of its jobs, and what stop() leaves behind, proved |
| `Locker`, `MCLocker` | the lease manager over several processes |
| `LockerProofs` | exclusive and kept leases, proved |
| `DbConfig` | `Config.ts`: connections and schemas, over processes that share files |
| `DbConfigProofs` | one connection per shard, repaired schemas, and an audit that judges rightly, proved in the system of `IntegrityAudit` |
| `IntegrityAudit`, `MCIntegrityAudit` | `IntegrityWorker.ts` on top of `DbConfig`, and the situations to explore |
| `FoldLemmas` | induction over sequences and sets, and what it gives for a fold with any operator; `TableProofs`, `QueueProofs` and `DbConfigProofs` instantiate it |

Operators whose comment begins with "Seeded fault", or which have a suffix after an
underscore (`HandOff_Clears`), are plausible bugs of the definition before the underscore.
Nothing uses them; each is there to be substituted for that definition, and breaks one
property. `PROJECT.json` says which.

**Mutex.** A caller is `out`, `waiting` or `holding`; the queue lists waiting callers.
`AcquireFree` is the fast path, `AcquireQueued` the promise that is queued, `HandOff` and
`Free` the two branches of `release`, `Timeout` the 30 s timer of a queued caller.

**WriteBehind.** A process is one activation of an async method: workers push, begin and
commit agents' work, readers run `selectWhere`, timers and stoppers run `flush`, reapers
run `cleanupShadows`. `pc` says at which await an activation is. `FlushEnter`,
`FlushSwap`, `FlushBegin`, `FlushCommit`, `FlushClear`, `FlushFail` and `FlushEnd` are the
segments of `flush()`; `ReadCall`, `ReadDisk` and `ReadMerge` those of `selectWhere`;
`CommitCall`, `CommitTake`, `CommitPush`, `CommitEnd` those of `commitWork`. An operation
is an atom with a shard, a table and perhaps the job whose status it sets; the status
index is kept as the code keeps it, also for operations that went to a shadow. Kysely's
SQLite dialects have one connection per file, so a read waits while a transaction is open
on its shard (`ConnectionFree`, external): this is what makes read-your-writes hold, and
the seeded fault that drops it breaks the property. History variables: `log` (accepted),
`units` (what each commit took), `broken` (shards a failed flush abandoned), `owed`
(accepted before stop()).

**TableOps.** One table of rows with a status and a counter, which an update adds to or
sets (`how`). `Merge` is what `groupOps` makes of two updates with one key: increments
add up, also to an absolute value before them, and an absolute value replaces what was
there. `Coalesce` is `groupOps`, `Mutated` its side effect on the in-flight operations,
`Execute` the executor, `ApplySingle` and `ReadByStatus`/`ReadById` the query engine.
`Push`, `Swap`, `ExecuteNext`, `Commit`, `Clear` let reads happen at every point of a
flush. `truth` is the table after every operation in the order of the pushes.

**JobQueue.** `live` are the rows after every accepted operation, `stored` those on disk;
`Persist` stands for a flush, `Crash` falls back to `stored`. A row is shown by a query on
status only if it has had no other status since it was persisted (`Shows`): that is how
the query engine behaves, and `StatusReads` of `TableOps` checks it. Time is abstracted
to two sets, `waiting` (runAt ahead) and `late` (older than the threshold). `DequeueRing`
is the synchronous path; `DequeueCall`, `DequeueSelect`, `DequeueFill`, `DequeueClaim` the
segments of the other, with the prefetch of twice the limit, the surplus in the ring, and
what finds no room there claimed and dropped. Handlers end at any time, also while their
consumer awaits its next dequeue: `Complete` is one segment, and `fail()` (`FailRead`,
`FailPush`) is an activation of its own (`Failers`), whose read may time out as the reads
and commits of the other calls do (`CallTimeout`). History: `known` are the ids given out;
`delivered` counts the dequeues that handed out a job since its insert was pushed.

**QueueRunner.** Adds one loop per consumer: `loop` says where it is, `flight` the batches
in flight, `completions` and `failures` the pending lists, `tasks` the scheduled flushes,
`failing` the failures a flush has yet to push. `batchwise` chooses between the two
functions, which differ in what they count (jobs or batches) and in how a batch ends. It
leaves out delays, maintenance, flushes to disk, timeouts and crashes, which JobQueue has.
Since no flush moves a row to disk, a select finds the rows of the backlog on disk and new
ones in the buffer, each as long as it is pending.

**Locker.** A call runs `sweep`, `insert`, `renew`, `release` statements; each process has
a queue of statements that reach the database in order. `claim` is the row with the time
left, `entry` is `activeLocks`, `timer` the intervals. A result may be handled late; a
statement may fail; a process may crash and restart.

**DbConfig.** An entry is a shard in one process, `FileOf` its file. `opens` numbers the
openings; `dbs`, `initPromises` and `isInitialized` are the maps. A call finds a published
connection (`GetPublished`), shares a promise (`GetPending`) or makes one (`GetNew`).
`Programme` is `initializeSchema()` as a sequence of statements: PRAGMAs, the rename of a
column, tables, indices, and `ensureColumn` as a look and an ALTER TABLE that may come too
late. A table is the set of the columns that matter. `AfterFailure` says which `try` block
a failing statement ends. `CloseCall` to `CloseEnd` are `closeAllShards()`, which awaits
each `destroy()`.

**IntegrityAudit.** Adds rows on disk (`store`), a buffer per shard and `audit`, the
activation of `runAudit()`: `check`, `page`, `repair`, `edges`, `sources`, `drop`,
`prune`, `maintain` are its awaits for one shard, `todo` the shards to come. A page is cut
by limit and offset on disk and once more after the merge, as `selectWhere` does it
(`NodePage`). `Sync` is the flush, of all shards and of everybody's operations; a failed
flush leaves its operations in flight, where the next one loses them. `grounds` records
what was dangling when the page was judged.

## 3. Runs

All runs check deadlock unless the cfg says otherwise and why. Bounds are chosen so that
the case a property is about occurs: every property has a seeded fault that breaks it in
its own run.

| Run | Bounds | Shows |
|---|---|---|
| `mutex` | 5 callers, any number of timeouts | exclusion, no lost wake-up, nobody overtakes a waiter (from behind in the queue or by the fast path), acquires return. Five callers give queues of four, so a timeout can remove the first, a middle or the last |
| `pool_reads` | 1 shard, 3 operations, buffer limit 2, a worker with an agent, a reader, a timer, the reaper, no faults | reads see everything accepted and never half a commit; a commit returns unless one is stuck for room behind its own mutex (`CommitStuck`). A commit of two fits into an empty buffer; one of three, or of two behind another push, stalls with the mutex held, and then everything that needs it waits, so this run does not check deadlock. Failing transactions are left to `pool_faults` |
| `pool_faults` | 2 shards, 3 operations, timer and stop(), 1 failing transaction, 1 timeout, 1 crash | conservation, atomic commits per shard, stop() persists, and refinement of `DurableLog` under all of these faults. Two shards are enough for a flush that fails on the first and abandons the second |
| `pool_backpressure` | 2 workers, buffer limit 1, 4 operations (one more than the bound allows in a buffer), stop() | overshoot is one per caller; stalled pushes resume and operations become durable until stop(); stop() returns |
| `table_ops` | 2 rows, 2 statuses, id lists {1}, {2}, {1,2}, 3 operations, updates that add to the counter or set it, any initial table | flushes and reads agree with the pushes. Three operations are the least that can be moved over each other |
| `queue` | 2 jobs (1 in the backlog), ring of 1, limit 1, 2 attempts, 1 timeout or crash | types and the ring's count (`RingHoldsSize`), exclusive delivery, attempts, finality, everything ends, with completions and failures at any point of a dequeue. A ring of one job is full at once and wraps at once. One job is new, so batches have one job here; `runner` enqueues batches of two |
| `runner` | 2 jobs, concurrency 2, batch 2, stop() at any time, both loop kinds | types and bounded concurrency, no job without an owner, deliveries counted also of jobs the ring hands out before `enqueueBatch` pushed their insert, outcomes recorded, stop() ends, jobs run |
| `locker` | 2 agents in 1 or 2 processes, 2 timers, period 2, delay 1, 1 missed heartbeat | one holder; its row is there and its heartbeat runs (`LeaseKept`); abandoned claims give way |
| `audit` | ten starts (below), pages of 2 rows, a limit of 3 rows for an audit | one open connection per shard, repaired schemas, parents are only cut off where they are missing, orphans are repaired in the end |

A start of `audit` is a set of files, rows, open shards and budgets; together they would
be too large to explore at once. `Opened`: an old file that two callers open, fail to open
and close. `TooOld`: a table the repair cannot mend, so that its index fails.
`Raced(1, 0)`, `Raced(0, 1)`: two processes that repair one old file, one of which crashes
or has a statement fail. `Closed`: two shards closed while somebody opens them. `Written`:
an orphan, its child and a dangling edge, users who write, one failure. `Paged`: more
nodes than a page and than the limit. `Audits`: two shards, a failure, a crash and a
worker that is stopped and started. `Reopened`, `Reawaited`: shards closed under an audit,
which the audit or a user opens again.

Three runs show where the code does not do what the repository says of it:

| Run | Disagreement |
|---|---|
| `pool_retry` | a failed flush keeps its in-flight buffer "to retry next time" (`index.ts:220`); the next swap overwrites it |
| `pool_commit_stuck` | `commitWork` pushes with `stateMutex` held; a full buffer makes it wait for the flusher, which waits for `stateMutex`. The acquire of the flusher times out after 30 s, and the next one does again |
| `table_coalesce` | "only the latest survives" (`ADVANCED.md:84`): an update merged into an earlier one with the same key is moved over an operation in between on the same row, which then wins. In the queue, a claim of several jobs between two updates of one of them |

### Exceptions stated in the properties

* `Conserved`, `StopPersists`, `ReadYourWrites` exclude shards that a failed flush
  abandoned (`broken`): `pool_retry` shows what happens to those.
* `ReadsWholeCommits` is about scans: a read by status applies the status index, which
  contains operations of shadows.
* `FlushMatches`, `ReadByIdMatches`, `StatusReads` end once a flush
  has moved an update (`reordered`), and reads between commit and clear are not claimed.
* `BacklogExclusive` and `DoneIsFinal` are about jobs that were pending on disk: a job
  just enqueued can be delivered from the ring and from its row, because `enqueue` does
  the two in two steps. They also assume one consumer and handlers within the visibility
  timeout (`slow = 0`).
* `DeliveriesCount` leaves out the deliveries of a job that came before `enqueueBatch`
  pushed its insert (`SqliteQueue.ts:162`): they find no row to update, and the insert that
  follows sets the attempts to 0. Later deliveries of the same job are counted.
* `CommitReturns` excepts a commit that is stuck for room behind its own mutex, and the
  commits that queue behind it: `pool_commit_stuck` shows that this happens.
* `ProcessingIsOwned` is checked, and proved, for one loop and where the ring has room for
  a prefetched surplus. A second loop could deliver the surplus of the first and end it
  before the first has claimed it, and that claim sets its row back to "processing".
* The safety of the locker holds until a heartbeat is missed: the interval is half the
  time to live, so a claim whose heartbeat fails expires before the next one has
  certainly arrived.
* `OneConnectionPerShard` does not say that a connection is ready: `getDb()` puts it in
  the map before `initializeSchema()` (`Config.ts:67`), so the "Atomic Initialization
  Lock" of `Config.ts:24` covers second openings, and a second caller can still run
  statements on a half-made schema. A failed opening stays in `initPromises`: unless
  `closeAllShards()` finds a connection to forget, each later call fails the same way. An
  opening still loading when `closeAllShards()` returns publishes its connection later.
* `SchemaHealed` speaks of the file once an initialisation has ended that nothing
  disturbed, or once all have ended, disturbed by other processes at most. If the winner
  of a race dies between the two settings tables, the loser is left with an old one.
* `AuditCutsOnlyDangling` is about the moment of judgement: a parent inserted between the
  read and the repair is cut off all the same. It excepts shards with more nodes than a
  page, where a parent on another page counts as missing (`IntegrityWorker.ts:86`).
* `OrphansRepaired` is about shards whose rows fit a page, while the worker runs: since
  the offset is applied twice, the second page is empty unless operations are buffered.
  "Continuing in next cycle" (`IntegrityWorker.ts:114`) begins at offset 0 again.

### Fairness

* Pool: each started activation continues when it can (weak fairness per activation:
  promises settle, timers of the event loop fire) and the flush timer ticks until stop().
  Nothing forces a call, a fault, a timeout or a crash.
* Mutex: holders release. A timeout is possible, never required.
* Queue: consumers keep dequeuing, handlers end and the calls of `fail()` go on (weak
  fairness: nothing a consumer does stops its handlers), maintenance and flush timers fire,
  delays pass.
* Runner: the event loop runs what is ready, handlers end. No fairness for enqueues,
  for the flush timer or for stop().
* Locker: time passes, calls proceed, a statement that is retried for ever succeeds
  eventually, and somebody keeps asking for the lock.
* Audit: the interval fires, the audit, initialisations and closes go on, promises settle.
  Failures, crashes and closes are bounded by the budgets, so that in the end an audit
  runs undisturbed; nothing forces a write, a flush by the timer, a start or a stop.

### Assumptions of the composition

JobQueue and QueueRunner take the pool as the durable log it implements, in the case that
no transaction fails, and the operations of a flush as executed in order; `pool_retry` and
`table_coalesce` name the cases in which the real pool does worse. IntegrityAudit takes
the same log with failures: a failed flush drops a batch at the next swap. `WriteBehind`
takes one open connection per shard from `Config` (`ConnectionFree`), and
`OneConnectionPerShard` checks it. Job ids are fresh. The
queue lives on shard `main`: `fail()` passes the shard where `selectOne` expects an agent,
and the runner's failure updates carry no shard, so on other shards both miss their rows.
The locker assumes that a call takes at most `MaxDelay`, with twice that at most a
heartbeat period, that authors are distinct and that they release only what they hold.

## 4. Proofs

`MutexProofs` proves, for every set of callers:

* `MutexIsExclusive`, `MutexLosesNoWakeup`, `MutexIsFair`.
* The inductive invariant `IInv` adds to exclusion that the queue is exactly the waiters,
  each once, that somebody holds while somebody waits, and that `locked` is true exactly
  while somebody holds. Exclusion alone is not inductive: a hand-off could wake somebody
  who is not waiting, and a fast-path acquire could succeed while somebody holds.

`WriteBehindProofs` proves, for all shards, tables, operations, activations, limits and
fault bounds:

* `PoolIsTyped`: the type invariant, together with the two mutexes' invariants.
* `PoolConserves`: `Spec => []Conserved`, whatever fails, times out or crashes.
* Along the way each step of the pool is shown to be a step, a stutter or a reset of each
  mutex (`MutexStep`), so the invariant of `MutexProofs` is reused and not proved again.
* The inductive invariant `PoolInv` is `TypeInv`, `MutexInv`, `Conserved` and `Control`.
  `Control` says that an activation inside the flush section holds `flushMutex` and
  therefore is the only one there, that a flusher outside of the section (or still before
  its swap) has an empty round, and that a shard with operations in flight is in some
  flusher's round or was abandoned. Without it `Conserved` is not inductive: a swap could
  overwrite an in-flight buffer, and a clear could drop one that was not committed.
* `TypeOK` and `QueueIsWaiters` of `Mutex` (the queue holds the waiting callers, each once)
  are conjuncts of the inductive invariant of `MutexProofs`; no run repeats them.

In the same module, `PoolIsDurableLog` is `Spec => ImplementsDurableLog`, with every
fault. Its state function `Kept` is the log of a shard that no flush abandoned, and
what disk, in-flight and active buffer hold of one that was; by `Conserved` it is the
latter for every shard (`KeptIsContents`), so each step is judged by what it does to the
three. A push accepts, a transaction persists the in-flight batch (`CommitPersists`), a
failure fails, the swap after it drops that batch (`SwapDrops`), a crash forgets what is
not durable, and everything else stutters.

`WriteBehindSafety` proves:

* `PoolIsBounded`: `Spec => []BoundedBuffer`. The bound alone is not inductive, as any
  number of pushes could follow; `Overshoot` says that what a buffer holds beyond its
  limit is covered by workers that wait for room in it, and those do not push.
* `PoolReadsItsWrites`: `Spec => []ReadYourWrites`, from `PoolInv` and the invariant
  `Reading`: between the query of a reader and its merge no transaction is open on its
  shard, so its rows are still the disk. It needs `ConnectionFree` on both sides.
* `PoolStopPersists`: `Spec => []StopPersists`. `Owing` follows the operations stop() owes
  to a shard no flush abandoned: they are in its log when it is called, in the round it
  swaps or on disk, and at the end on disk. The swap takes all that is not on disk because
  `flushMutex` leaves nobody else a round (so the in-flight buffers hold nothing of an
  unbroken shard), and because a shard whose count is zero has an empty buffer (`Counted`).

Its last part proves `PoolCommitsAtomically`, `Spec => []CommitAtomicPerShard`, and
`PoolReadsWholeCommits`, `Spec => []ReadsWholeCommits`, from the invariant `CommitInv`:

* `HoldsState`: whoever pushes a commit, or has read the disk and has not merged yet, holds
  `stateMutex`, and so excludes swaps, other commits and other reads.
* `Apart`: what is in a shadow is nowhere else, so a commit brings new operations only.
* `Together`: the operations of a commit on a shard are durable or in flight together, and
  the buffer may hold a part of them only while its worker still has the others.
  Atomicity alone is not inductive: a swap in the middle of a commit would put a part of it
  in flight, and only the mutex rules that out.

`LockerProofs` proves `LockerIsTyped`, `LockIsExclusive` and `LeaseIsKept`, for all
processes, agents, intervals, periods and delays. The inductive invariant `LockerInv`:

* `Queues`: a client has one statement in the queues at most, and in that of its process.
* `Calling`: who runs which statement; nobody who holds the lock is in a call.
* `Lease`, as long as no heartbeat was missed: a granted insert whose result is still to be
  handled has a row as old as the call; an agent that holds has its row, and exactly one
  interval that renews it; and the time left of the row covers the time to the next beat
  and one more delay (`Renewing`, `Leased`). Exclusion alone is not inductive: an insert
  sweeps rows that have expired, so that nobody else gets in rests on the arithmetic of the
  time left, the time to the next beat and the ages of the statements under way.
* A release that was issued may be behind a renewal in the queue (`BeforeRelease`): the
  order of the statements of one process is what keeps a late renewal from reviving a row.

`DbConfigProofs` proves, for the system in which the audit uses the connections, and for
any processes, entries, files, openings and budgets:

* `ConfigInvHolds` and `ConnectionsAreOne`, by the invariant `ConfigInv`. Its part `Wiring`
  says besides the property that an opening still loading is the promise of its entry, that
  a connection in the map is one of that entry, and that `closeAllShards()` forgets the
  connection it destroyed and no other. Without the last an opening published during the
  `await` of a `destroy()` could be forgotten while open.
* `SchemasHeal`, by `SchemaInv`: how far an opening has got says what the file has
  (`Progress`), for a table that was there, one that is made and one another process
  repairs. The one difficulty is the loser of the first rename: its `try` block ends there,
  so it never looks at the second settings table. The invariant keeps that the winner of
  the race still renames there, or was disturbed itself (`Blocked`), which is the exception
  `SchemaHealed` states.
* The module of the proof is the whole of `IntegrityAudit`, because the audit is a caller
  like others, which opens shards again that were closed under it.
* `AuditIsTyped` and `AuditIsJust`, by `AuditInv`: buffers hold operations on rows, so what
  a fold over them shows is rows, and what the audit takes from one `await` to the next is a
  list of nodes or edges; the offset is a multiple of the page size, isProcessing goes with
  the activation. `AuditCutsOnlyDangling` is established by one step (`PageIsJudged`): if
  the nodes fit a page, before and after the merge, both cuts at offset 0 leave all of them,
  so a parent that is not among the ids of the page is not there. At a later offset the page
  read from disk is empty, and what the merge makes of it is the end of what it makes of all
  the nodes (`Behind`); that is shorter than a page, so the second cut leaves nothing.

`FoldLemmas` proves, for an operator given as a constant of the module, that a fold over a
sequence of any length goes one element at a time from either end, and that it stays in a
set that the operator does not leave; the same for folds over finite sets. The induction
is over sets of numbers and of sequences (`NatSetInduction`, `SequenceSetInduction`), which
the provers can instantiate where they cannot instantiate a predicate.

`TableProofs` proves, for any finite set of rows, any statuses, lists of ids and number of
operations:

* `CoalesceGroups`: `Groups(ops, Coalesce(ops))` for every buffer. Grouping never makes
  more operations, keeps their order, leaves one update per key, and has the effect of the
  buffer on any rows unless it moved an update over another operation on one of its rows
  (`Reorders`). The induction is on the buffer: two updates with one key merge into one
  with the effect of both, if what lies between them commutes with the second.
* `TableIsTyped`, `FlushesMatch`, `ReadsByIdMatch`, `StatusReadsMatch`, by `TableInv`. In
  the middle of a flush, its part `Transaction` says that there is a buffer `orig`, as it
  was before `groupOps` merged in place, of which the transaction has done a part, and that
  the in-flight operations that readers see are like it but for the values of updates
  (`Like`). What readers see then agrees with the pushes in existence and status, and not in
  counters, because a merged update is applied together with those merged into it.
  The properties alone are not inductive: they say nothing of a half-done transaction.

`QueueProofs` proves, for any set of jobs and callers, any ring, limit, number of attempts
and faults:

* `QueueIsTyped`: with `RingHoldsSize`, which says of the arithmetic modulo the number of
  slots that pushes never overwrite a job and pops never hand out an empty slot
  (`PushKeepsRing`, `PopKeepsRing`).
* `DeliveriesAreAttempts`. `Arrivals` says where a job can be before it has a row: one that
  nobody enqueued is nowhere, and one whose insert `enqueueBatch` has yet to push is in no
  other call, so its insert comes once. It sets the attempts to 0 and must not meet a
  delivery that was counted: `BatchesWait` says that a job whose insert is still to be
  pushed has no counted delivery and no row.
* `FailsOnlyAtTheEnd`, by `QueueInv`: what a maintainer has selected as done for a day is
  in no handler, ring or call (`Settled`), what `fail()` has read is at most what the row
  counts now (`ReadFits`), and a row that a query shows is as the query says (`SeenFits`).
* `BacklogIsExclusive` and `DoneStaysDone`, by `BacklogInv`, for one consumer and one
  maintainer. `Single` follows a job of the backlog: it is in one slot of the ring at most;
  while it is there nobody selects rows, and of the calls only the claim that put it there
  lists it, beyond what that claim delivers; a call that lists it agrees with the status of
  its row; a `fail()` under way has it alone (`Alone`), since it acts on what it read before
  its await; a handler that has it has it once, with its row processing and recent. A timed
  out claim leaves the job in the ring with a pending row; the ring is emptied
  before the next select, so the row is not found a second time.
  TLC shows that both conditions are needed: two consumers select the same row before
  either claims it, and of two maintainers that list the same stale row the second
  reclaims it after it was claimed again.
* `OutcomesAreRecorded`, of `QueueRunner`, by `StopInv`: from its last flush on a loop has
  no handlers and no outcomes, and that flush ends when it has pushed what it took, although
  scheduled flush tasks, which share the lists, may run in between.
* `RunnerIsTyped`, of `QueueRunner`, for any number of loops, by `RunnerInv`. A loop
  decides how many jobs to ask for, awaits them, and starts what comes; meanwhile handlers
  end. `FlightFits` says that there is room for what is in flight and, while the dequeue is
  awaited, for what was asked for; and that the handlers of a loop are those listed in its
  batches, each as often (`held` counts them). The bound itself speaks of the handlers
  (`Handlers`), which have to be counted from a bag kept per job (`HandlersAreCounted`).
* `RunnerDropsNothing`, for one loop (`OneLoop`), by `OwnedInv`: each row that says
  "processing" has a handler, a slot or an outcome behind it, and while a claim is under way
  the jobs it claims and does not deliver are in the ring (`ClaimIsQueued`). The hypothesis
  `[]SurplusFits`, that the ring has room for the surplus whenever a dequeue puts it there,
  is the case the code has no answer to.
* `DrainDropsNothing` needs no such hypothesis: when nobody enqueues, a dequeue that selects
  finds the ring empty until it fills it, and selects at most twice what it asked for
  (`Drains`), so a ring with `Limit` places is enough.

Two things the proofs brought to light about the models. `delivered` counted the copies of
a job that were handed out, and `DeliveriesCount` with it is false from a limit of 2 on:
`enqueue` awaits its push, a prefetch finds the row, puts it into the ring as surplus and
times out before it claims, then `enqueue` puts the job into the ring as well, and one
dequeue takes both copies, for one attempt on the row. The code does this; the property
now counts dequeues, and `SqliteQueue.ts:109` is listed as a hazard. And `AfterFailure` of
`DbConfig` had two arms of a CASE that applied at once, which TLC settles by their order.

Assumptions: the named ASSUMEs of the modules only. Operations have a shard and a table,
kinds of activations are disjoint, limits are naturals, workers are finitely many, the
"none" values are not members; for the locker, that twice the longest delay is at most a
heartbeat period (`LockerAssumption`); jobs are finitely many and the ring, the limit and
the attempts are positive (`QueueAssumption`), and so is the concurrency
(`RunnerAssumption`); the rows of a table are finitely many (`TableAssumption`); files
that are there at the start have settings tables with the old or the new name of the key,
since every version of the code made them with one of the two, and shards already open
are complete (`StartsAssumption`); the rows at the start are rows, and users insert nodes, delete them
and add knowledge (`RowsAssumption`).

Only model-checked:

* Liveness (TLAPS does not handle ENABLED under fairness).
* Whether the ring has room for every surplus while somebody enqueues: that depends on the
  load, so `SurplusFits` is a hypothesis about the behaviour in `RunnerDropsNothing`. In
  `runner` a dequeue takes all there is, and the ring never gets a surplus; there TLC
  checks the other half, that no outcome is lost between handlers and flushes.

Every safety property that a passing run checks is proved, `ProcessingIsOwned` under its hypotheses.

## 5. Not modelled

* `setDbPath` after the first `getDb`, and two `closeAllShards()` at once in a process:
  the second would delete entries of connections opened since.
* `warmupTable`: nothing in the repository calls it. A warmed index answers reads by
  status from the index alone, so buffered operations on other rows are missed.
* Latency metrics, LIKE and comparison conditions, sorting.
* Columns: a chunked insert takes its columns from the first operation, and columns only
  later operations have are dropped.
* A read between a flush's commit and `clearInFlight()`, which applies the operations to
  rows that have them already; `matchesOp` replacing an id list by a Set while it is read.
* Table order in a flush (tables are executed one after the other, so a child may be
  inserted before its parent), foreign keys, and the SQL inside a transaction.
* The unhandled rejection of the flush timer: the model lets the process go on or crash.
* `releaseLock()` by somebody who does not hold the lock.
* `Signaling`, `XmlLite`, `Logger`, `DatabaseSchema`, benchmark and repair scripts: users
  of the queue or the pool without state of their own, or text.

## 6. Plan

Done: `Mutex`, `WriteBehind`, `TableOps`, `JobQueue`, `QueueRunner`, `Locker`, `DbConfig`,
`IntegrityAudit`, and the proofs of section 4.

Next, in this order:

1. Warmed indices in `TableOps`; two loops after stop() and process() in `QueueRunner`; a
   queue on another shard than `main`.
2. An abstract queue (a job is pending, running or over) that `JobQueue` implements for
   backlog jobs, and an abstract lease for `Locker`.
3. Proofs: `ProcessingIsOwned` with a producer, from a bound on what it enqueues during a
   dequeue.
