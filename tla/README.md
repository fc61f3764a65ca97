# RocksDB in TLA+

TLA+ models of the concurrent and crash-prone core of RocksDB (this fork of
8.1.1), checked with TLC on small instances. For three of them safety
properties are also proved with TLAPS, for any number of threads, writers or
transactions. Paths are relative to `src/`. `PROJECT.json` holds the exact
correspondence: every definition with its source lines, every run, mutant,
finding, hazard and theorem.

| Module | Models | Runs | Proofs |
|---|---|---|---|
| `SuperVersion` | reference counting and thread-local caching of SuperVersions | `superversion` | `SuperVersionProofs` |
| `WriteThread` | group commit: queue, groups, stalls, publication | `write_thread`, `write_error` | |
| `WriterState` | the wait/wake hand-shake of one parallel group, per atomic operation | `writer_state` | `WriterStateProofs` |
| `FlushRecovery` | WAL, memtable switch, flush, MANIFEST commit, crash, recovery | `flush_recovery`, `flush_commit`, `recovery_synced` | |
| `PointLockManager`, `PessimisticTransaction` | key locks and the transactions that take them | `point_lock`, `point_lock_upgrade` | `PessimisticTransactionTypes`, `PessimisticTransactionProofs`, `NoLostUpdateProofs` |
| `LockTable` | what the two above promise: an abstract lock table | (`point_lock`) | `LockTableProofs` |
| `WritePreparedTxnDB` | commit cache, prepared heap, snapshots, visibility | `write_prepared` | |
| `ClockCache` | one shard of HyperClockCache, per atomic operation | `clock_cache`, `clock_moving` | |

`MC*.tla` and `MC*.cfg` are the instances. To repeat a run:
`tlc -config MCWriteThread.cfg MCWriteThread`; a proof:
`tlapm SuperVersionProofs.tla` (a proof module takes between one and twenty
minutes).

## The system

### Parts that are modelled

**SuperVersion cache** (`db/column_family.cc`, `util/thread_local.cc`). State:
`super_version_`, its number, the refcounts of SuperVersions and of the column
family, one slot per thread. Operations: get, return, reference for an iterator,
install with scrape, thread exit, release of column family references.
Interaction: flush and compaction install, every read gets and returns.
Hard part: readers take no lock; the scrape meets them halfway. Should hold:
exact counts, no use after cleanup, fresh reads, teardown only when nobody is
left, and teardown in the end.

**Write thread** (`db/write_thread.cc`, driven by `DBImpl::WriteImpl`). State:
a lock-free list linked in both directions (one lazily), a state word per
writer, the groups, the stall barrier. Operations: join, lead, log, insert
(alone or in parallel), publish, hand over, complete, stall, `LockWAL`,
`UnlockWAL`. Hard part: Writer objects are on the stacks of threads that return
as soon as they are completed. Should hold: one leader, no dangling pointer,
nothing published before it is inserted, sequence numbers counted alike by the
three places that count them, every call returns.

**WAL, flush and recovery** (`db/db_impl/*`, `db/memtable_list.cc`,
`db/flush_job.cc`, `db/version_set.cc`). State: WAL files with their synced
prefixes, the MANIFEST, memtables with flush flags, log numbers per column
family, the MANIFEST writers' queue. Operations: write, sync, switch, pick,
flush, commit, roll back, delete WALs, fail, resume, crash, open. Hard part:
the mutex is released in the middle of most of them and the machine may stop
anywhere. Should hold: a synced write survives, nothing is applied twice, a
batch is recovered whole or not at all, the database can be opened again.

**Point locks and pessimistic transactions** (`utilities/transactions/lock/point`,
`utilities/transactions/pessimistic_transaction.cc`). State: stripes of keys,
each with a mutex and a lock table; the wait graph; what every transaction
tracks. Operations: lock with validation, upgrade, time out, expire, be stolen
from, set and roll back to a save point, prepare, commit, roll back. Hard part:
an attempt to lock gives up the stripe's mutex while it waits, and an expired
transaction may be overtaken at any of its steps. Should hold: the locks behave
like a lock table, no update is lost, no lock outlives its transaction, the
limit on locks holds, every transaction ends.

**WritePrepared transactions** (`utilities/transactions/write_prepared_txn_db.*`).
State: the commit cache, the heap of prepared transactions, `max_evicted_seq_`,
delayed prepared transactions, the old commit map. Hard part: readers look at
five structures one after another without a lock while commits move entries
between them. Should hold: a read sees what was committed at or before its
snapshot and nothing else.

**HyperClockCache** (`cache/clock_cache.cc`). State: a slot word with two
counters and a state, displacement counts, usage and occupancy. Hard part:
references are taken before it is known what they refer to, and the counters
wrap. Should hold: nothing referenced is freed, every visible entry is found,
the accounts balance, the refcounts are right.

`WriterState` is the detail below `WriteThread`'s state words.
`FlushRecovery` takes a write as one step, `WriteThread` shows why it may.
`PessimisticTransaction` and `WritePreparedTxnDB` are layers above the write
path and use it as an atomic write.

### Parts that are not modelled

`PROJECT.json` lists all of them with the reason. In short: WriteUnprepared and
optimistic transactions, range locks, pipelined and unordered writes, atomic
flush, two-phase-commit logs and the WAL set, the error handler's automatic
recovery, compaction and the compaction iterator, table file deletion, the other
caches, the skip list, the WAL format, write controller, write buffer manager
and rate limiter are suited to modelling and not done. Table formats, filters,
compression, iterators, options, statistics, tools, backup and the environment
are byte encoding, sequential code or I/O, to which a model would add little.

RocksDB has over 300,000 lines of C++ outside its tests. The modules
stand for about 7,390 of them, 2%: the project covers the
protocols named above in depth and makes no statement about the rest.

Four runs end in a violation; they are described below as they come up. Where a
passing run met a further disagreement between the code and its comments or
assertions, its property states what does hold, exception included, and the
text below says what the exception is. All these
are statements about the models. None was reproduced against a build of RocksDB;
the traces name the steps to try.

## SuperVersion

A SuperVersion is named by its number. Each exchange, compare-and-swap, `Ref`
and `Unref` of a reader is one step (`Swap`, `CheckNumber`, `DropStale`,
`AcquireCurrent`, `ReturnSV`, ...). What runs under the DB mutex and touches
only what the mutex protects is one step; `InstallSuperVersion` is several
(`InstallPublish`, `ScrapeOne` per slot, `UnrefScraped`, `InstallFinish`),
because its scrape races the readers. `ReleaseExt` and `UnrefAndTryDelete` tear
the column family down. `seen` is auxiliary: the version number when a read
began.

- `superversion`: two threads, three SuperVersions, 164,882 states. Two threads
  suffice for a scrape between one that has been passed and one that has not.
  The liveness property (`EverythingReclaimed`) assumes weak fairness of the
  steps of a read that has begun and of an install that has begun (each is
  straight-line code). Nobody is assumed to start a read or an install.

Deadlock is not checked: the column family may be gone and all threads idle.

### What is proved

`SuperVersionProofs` proves, for every finite set of threads and every number of
installs, that the specification implies `TypeOK`, `RefsCountHolders`,
`NoUseAfterCleanup`, `SlotNeverLastRef`, `ReadIsFresh`,
`CfdOutlivesSuperVersions` and `TeardownFindsNoMark`. Assumptions:
`ThreadsFinite`, `MaxVersionPos`, `MarksDistinct`.

Counting alone is not inductive: that an `Unref` is not the last one depends on
who else holds the SuperVersion. `IInv` adds what each program point implies for
a reader's pointer (`ReaderInv`), that a slot marked `kSVInUse` belongs to a
reader of the current SuperVersion or of the one being replaced (`MarkInv`),
that a running install holds the old SuperVersion and a job's reference to the
column family (`InstallInv`), that cleaned and future SuperVersions have no
references (`ZeroInv`), and that `seen` is never ahead (`SeenInv`). There is one
lemma per action; lemmas on the set of places holding a SuperVersion say how its
cardinality changes when one place changes, so that a step is counted once.

## WriteThread

A thread makes one call. `opt` is what a call asks for (sync, no_slowdown,
disableWAL, disable_memtable, merge, callback, size; `bad`: the memtable insert
fails). A list update by the leader touches only nodes nobody else changes then
and is one step; pushes (`LinkOne`), hand-over (`PassLeadership`), completion
(`CompleteGroup`, one writer at a time), parallel inserts and publication
interleave. `StallWalk` removes no_slowdown writers one at a time. `LockWAL` is
the source of stalls. A Writer ceases to exist when its call returns.

- `write_thread`: the constant `Instances` makes one run of two questions,
  376,960 states. `Stalls`: two plain writers, one with no_slowdown and a
  `LockWAL`/`UnlockWAL`, for the list and the stalls. `Groups`: three writers
  that differ in sync, WAL, memtable, merge and callback (every combination of
  three different kinds out of six, and two plain ones with each kind) and
  insert in parallel, for sequences and the log. Checked are
  `OldestIsTheLeader`, `NoDanglingWriter`, `NewerLinksLazyButRight`,
  `NoSlowdownNeverQueuedInStall`, `UnlockWALWaitsForStall`,
  `PublishedIsInserted`, `SequencesDisjoint`, `ReplayAgreesWithMemtable`
  (numbering the logged records the way recovery does gives the sequence numbers
  in the memtable), `AcknowledgedIsLogged`, and `EveryCallReturns`, for which
  `WF(Next)` is all that is assumed (some thread that can run does); calls are
  finite in number. Two writers with no_slowdown (573,513 states) and all fifty
  triples of kinds (736,534) were checked once, without an error.
- `write_error` (violated): "Propagate memtable write error to the whole group."
  In a sequential group the error stays in the leader's own status, and followers
  whose batches were not inserted are told OK.

Three writers give a leader, a follower and somebody behind the group;
`MaxGroupBytes` is small enough for a batch to be left out of a group, and
`MaxStalls` bounds how often a stall is renewed while the stop token is held.

`UnlockWALWaitsForStall` is stated for any number of lockers: while the barrier
is up somebody holds the lock or is inside `UnlockWAL`, waiting for the end of a
stall that was counted when it released the lock. The run has one locker. All writers have the same
protection and rate limiter priority, on which a group would also be split.
Nothing of this module is proved.

## WriterState

One parallel group of three at the grain of loads, CASes, lock operations and
condition variable waits, with spurious wake-ups. `SetState`'s load and CAS are
one step: a CAS that fails found `STATE_LOCKED_WAITING` and goes on as if the
load had. Memory is sequentially consistent; the code's acquire and release
orders are not examined.

- `writer_state`: any subset of two of the members fails, 42,844 states:
  `NoTouchAfterReturn`, `ExitAfterAllInserts`, and `EveryWaitEnds`: no wake-up is
  lost. Assumed are weak fairness per thread and strong fairness of taking a
  contended mutex, which a waiter that wakes up spuriously again and again would
  otherwise keep from the setter. Deadlock is not checked, because a failed
  member that locks a mutex that was never made may stay there (`hung`).

`EveryWaitEnds` allows for that lock: `assert(made_waitable)` in `StateMutex()`
(`db/write_thread.h:250`) fails when a failed member locks the mutex of a leader
that never had to wait.

### What is proved

`WriterStateProofs` proves `ExitAfterAllInserts` and `NoTouchAfterReturn` for a
group of any size and any choice of failing members. Assumption: `Members` is a
non-empty sequence of different writers, none of which is `None`
(`GroupAssumption`). The inductive invariant adds to the types that `running`
counts the members that have not finished (`CountInv`), what a waiting thread
has published and which mutex it holds at each program point (`WaiterInv`), and
that whoever a setter has still to wake is waiting for that setter (`SetterInv`):
the last is what makes the setter's access to the other's mutex and condition
variable safe after the store that lets the other go.

## FlushRecovery

A write has an identity; WALs, memtables and table files are the writes they
hold. An action is the code between two releases of `mutex_`: `Write`,
`SyncWAL`, `SwitchMemtable` (inside `Seal` and `SwitchWAL`), `BackgroundFlush`,
`SyncClosedLogs`, `StartFlushJob` with `PickMemTable`,
`TryInstallMemtableFlushResults` and `CommitAgain`, `ProcessManifestWrites`,
`ManifestWritten` or `ManifestWriteFails`, `FindObsoleteFiles`,
`PurgeObsoleteFiles`, `Resume`, `Recover`, `Open`. `Crash` stops the process, or
the host: then every WAL keeps its synced prefix and any number of further
records, and may end in a torn one; an unfinished MANIFEST write may be there in
part. The recovery mode is the default, `kPointInTimeRecovery`.

| Run | Instance | States | Shows |
|---|---|---|---|
| `flush_recovery` | 2 column families, 1 job, 2 writes; 2 crashes, or 1 crash, 1 error and MANIFEST rolls (`Faults`) | 741,770 | synced writes survive, nothing twice, batches atomic, no table file ahead of the WALs, Open succeeds without rolls |
| `flush_commit` | 1 column family, 2 jobs, 3 writes, 1 error | 30,105 | results committed in order, log numbers only advance, every sealed memtable is flushed |

Two column families are needed for batches that can be torn, two writes for a
WAL switch between them, two crashes for WALs of two generations, two jobs and
three writes for results that arrive out of order. `OpenSucceeds` says that no
table file is ever ahead of the WALs, and that Open refuses no database as long as
the MANIFEST is not rolled. With rolls it may, although nothing is ahead:
`SwitchMemtable` advances the log number of an empty column family in memory, a
roll makes it durable, and `db/db_impl/db_impl_open.cc:1279` takes it for a sign
of data beyond the torn WAL (comment at line 1250).
The liveness property of `flush_commit` (`SealedGetsFlushed`) assumes weak
fairness of the background steps, and so that somebody eventually calls Resume
after an error; the code does that by itself only for errors the error handler
takes for retryable. That run does not check deadlock: it ends when all writes
are flushed.

- `recovery_synced` (violated): with `avoid_flush_during_recovery` the recovered
  WALs are not put in `logs_`, so a later sync write does not sync them. After a
  process crash, a reopening and a host crash, the synced write is lost.
  `SyncClosedLogs` goes by `logs_` as well, so under this option `BatchesAtomic`
  is false too. No passing run covers the option.

Nothing of this module is proved.

## Point locks and pessimistic transactions

`PointLockManager` has the stripes and the lock table, the attempt to acquire a
lock in its two halves around the wait, the wait graph with the search for a
cycle, and release with notification. `PessimisticTransaction` extends it by the
life of a transaction: locking with validation against its snapshot, upgrade of
a shared lock, save points, prepare, commit, rollback, expiry, and the stealing
of an expired transaction's locks. Time is a clock that any step may find
advanced. Keys are written at commit, at a sequence number.

- `point_lock`: 160,191 states under eleven sets of options (two or three
  transactions, up to three keys in two stripes): `Deadlocks`, `Expiring`,
  `Sharing`, `Validating`, `OneStripe`, `Hasty`, `Doomed`, and four with a limit
  of one lock: `Limited` (nobody waits), `LimitedWait` (with a time-out),
  `LimitedPatience` (without one) and `SharedLimit`. Checked are `NoLostUpdate`,
  `LocksDieWithTxn`, `LockCountIsExact`, `ImplementsLockTable` and
  `OnlyTheLimitHangs`. The race between two stripes lets two keys pass a limit of
  one, so three keys are needed to tell the limit from none. A transaction has at
  most one save point at a time. Fairness is `WF` of "some thread takes a step".
  Deadlock is not checked: the run ends when all transactions are dead.
- `point_lock_upgrade` (violated): a lock upgrade whose validation fails is
  reported as a success, and the transaction overwrites an update it has not
  seen.

`LockTable` is the abstract specification: a lock is granted when no
transaction that can still commit holds a conflicting one, a transaction
is sealed when it prepares or starts to commit, aborted when it fails or is
stolen from, and releases its locks. The mapping takes an expired transaction
that has been stolen from to an aborted one.

Where the code does less than its comments or assertions say, the properties say
how much less:

- `lock_cnt` is increased once per key and decreased once per shared holder
  (`point_lock_manager.cc:512` and `:565`). With shared locks it falls behind the
  number of locked keys, may become negative against
  `assert(lock_cnt > 0)` at line 567, and the limit lets more keys pass.
  `LockCountIsExact` therefore claims equality for exclusive locks and, for all,
  that the count is at most the number of locked keys and below the limit plus the
  number of stripes.
- An attempt that gets Busy at the limit once `cv_end_time` has passed neither
  waits nor tries again: `point_lock_manager.cc:288` to `:346` goes round for ever
  with the stripe's mutex, although it is to retry "as long as the timeout allows"
  (line 286). With a negative time-out it waits for a notification of its own
  stripe, which nobody need give. `OnlyTheLimitHangs` says that every transaction
  ends or one of them is for ever in one of these two waits; nothing else hangs.
- If some transactions of a database expire and some do not, a shared lock takes
  the later of the two expirations, so that a holder that never expires loses
  it (`include/rocksdb/utilities/transaction_db.h:291`). `ImplementsLockTable`
  does not hold then. All option sets, and the theorems, assume that all
  transactions of a database expire or none does (`UniformExpiry`).

Three smaller observations: once a transaction has been stolen from, its other
keys cannot be stolen; `assert(IsExpired())` in `TryStealingLocks` can fail for
a prepared transaction; two holders of a shared lock that both upgrade always
end in a reported deadlock.

### What is proved

For any set of transactions, keys and stripes, any expirations and any depth of
the deadlock search:

- `TypeCorrect` (`PessimisticTransactionTypes`): the types.
- `LocksDie` (`PessimisticTransactionProofs`): `LocksDieWithTxn`. `HInv` says
  that whatever the lock table holds for a transaction is tracked by it or about
  to be given back, at every point of an attempt and of a release.
- `Refinement` (`LockTableProofs`): `ImplementsLockTable`, under
  `UniformExpiry`. `IInv` adds that the stripe's mutex is held between the two halves of an attempt, so that the
  holders found in the first are still the holders in the second, and that the
  map of expirable transactions covers every live one that expires, so that who
  is stolen from has expired.
- `NoLostUpdates` (`NoLostUpdateProofs`): `NoLostUpdate`, under `UniformExpiry` and
  if no transaction upgrades a lock with validation: that upgrade is what
  `point_lock_upgrade` shows to be wrong. `UInv` relates the last sequence of a
  key to the locks: what a transaction has validated and still holds exclusively
  cannot have been written by anybody else.

`LockCountIsExact` and `OnlyTheLimitHangs` are model-checked only.

## WritePreparedTxnDB

One transaction after another or side by side: `Prepare` and `Commit` in the
parts the code divides them into, `Rollback`, writes without prepare, with one
write queue or with two, sub-batches, `AddCommitted` with the eviction from the
commit cache and its 64-bit entry format, `AdvanceMaxEvictedSeq`,
`CheckPreparedAgainstMax`, delayed prepared transactions, snapshots with the old
commit map, and `IsInSnapshot` one load at a time.

- `write_prepared`: 383,775 states under six sets of options (`Delayed`,
  `TwoQueues`, `OneRollback`, `TwoRollbacks`, `Duplicates`, `Snapshots`), a
  commit cache and a snapshot cache of one entry each (the smallest that evict):
  `ReadsAreExact`, `MinUncommittedIsSound`, `NothingLeftBehind` and
  `EveryoneFinishes` (`WF(Next)`). Deadlock is not checked: the run ends. Three
  transactions in `Snapshots` (957,536 states) and with two queues (3.5 million)
  were checked once, without an error.

The ELSE branch of `AdvanceMaxEvictedSeq` for a smaller maximum is dead, because
the calls are serial. Not modelled: the callback of `WriteRecoverableState`,
write groups of several transactions, commit-time batches, WriteUnprepared.
Nothing of this module is proved: the reader's argument spans five structures
and the arithmetic of the entry format.

## ClockCache

One shard with a table of four slots. Every atomic operation on a slot's word,
on a displacement count and on the shard's counters is a step of `Insert`,
`Lookup`, `Release`, `Ref`, `Erase`, `EraseUnRefEntries`,
`ConstApplyToEntriesRange` or of eviction. The two counters of the word have few
bits and wrap.

- `clock_cache`: two or three threads, 390,699 states, strict and not, with
  entries about to overflow: `HeldIsNotFreed`, `EveryEntryReachable`,
  `AccountsBalance`, `RefcountIsKept`. Deadlock is not checked: the run ends when
  all calls are made.
- `clock_moving` (violated): an insert that finds every slot taken, because
  entries are moved in front of it, calls `Rollback` with a null handle, whose
  loop never ends (`cache/clock_cache.cc:560`, comment at 542).

`RefcountIsKept` has an exception, which the comment before `CorrectNearOverflow`
describes: if the acquire counter has its top bit and the release counter does
not, clearing both adds half the range to the refcount, and the entry stays
pinned. The comment expects that of threads that stall for millions of calls
only. But `old_meta & kCheckBits` (`cache/clock_cache.cc:255`) is true as soon as
one of the two bits is set, so a release just before the middle of the range is
enough, while another thread holds the reference that passed it; and an acquire
counter cleared to zero can then be decremented by an undo, which borrows from
the release counter. The property says that the count is never too small and goes
wrong only in that case.

Two observations: releasing a reference that is not the last to a
standalone handle may still touch the handle after another thread deleted it
(this takes five references). `ConstApplyToEntriesRange` also matches invisible
entries. Not modelled: changes of capacity and of the strict limit, hash
bits, statistics, the eviction callback and the secondary cache.
Nothing of this module is proved: with enough threads the counters do overflow,
so its invariants are not true for every value of the constants, and the
provers do not reason about powers of two.

## What is only model-checked

Liveness and `ENABLED` are out of the prover's reach: the temporal properties
other than `ImplementsLockTable` are checked on the instances above. So are the
invariants named under each module as not proved, and whatever rests on what
folds and recursive functions compute (the writer list, the sequence numbers of
a group).

Each property of a passing run has a mutant in `PROJECT.json`, a plausible bug
in the modelled code under which the run fails; mutant definitions stand before
the definition they replace and are marked `Mutant:`.

## Plan

1. Extensions of `WriteThread` (pipelined write, second queue, unordered write)
   and `FlushRecovery` (atomic flush, WAL set, two-phase commit), and a
   composition of `WriterState` as the refinement of `WriteThread`'s states.
2. `ErrorHandler`, `WriteBufferManager`, `WriteController`, `RateLimiter`,
   obsolete table files, compaction picking.
3. Pure algorithms against reference definitions: compaction iterator, WAL
   fragmentation, range tombstone fragmentation, version builder.
4. Theorems: the writer list of `WriteThread`,
   `CommittedInOrder` of `FlushRecovery`, `LockCountIsExact`.
