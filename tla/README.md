# Ordinum: TLA+ models of the write path and of what it stands on

Ordinum is an embedded LSM storage engine under construction
(`crates/engine`, `crates/mem`). Its most delicate finished code is the write
path: batches come from a two-tier pool, are filled and encoded, admitted by a
semaphore, ordered by a lock-free ring buffer, applied concurrently to a
lock-free skip list in an arena, and handed back in order once the log is
synced. Underneath are a matrix of thread-local objects and a hazard pointer
domain. This directory models that code, checks it with TLC on small instances
and proves the central results with TLAPS for every value of the constants.

## Inventory

| Component | State | Operations | Interacts with | What makes it correct |
|---|---|---|---|---|
| Commit queue (`BatchQueue` in `db/write_pipeline.rs`) | packed `head_tail`, array of slot pointers | `enqueue` (one producer, under `q_mu`), `try_dequeue` (any committer, lock-free) | pipeline, batch runtime state | batches leave in order, once, only when applied; a slot has one owner |
| Write pipeline (`db/write_pipeline.rs`) | `q_mu`, sequence counter, permits | `reserve_space`, `prepare`, `release_queue_space`; `commit`, `commit_sync`, `publish` unfinished | `WriterEnv`, batches | no ring overflow, disjoint sequence ranges, no pointer kept after commit |
| Admission semaphore (`PipelineAdmission`) | `count`, `sem_mu`, `sem_cv` | `try_acquire`, `acquire`, `release` | pipeline | permits conserved, no lost wakeup, everyone served |
| Batch pool (`db/batch_pool.rs`) | per-thread caches, shards, round-robin counter | acquire, refill, release, spill, thread exit, drop | TLS matrix, batches | one owner per allocation, capacities, nothing leaked |
| Batch object (`db/batch.rs`) | runtime state, buffer, sync waiter | acquire, put, seal, reset, close | pool, pipeline, WAL | reset only in a reset-safe state |
| Sync waiter (`wal/mod.rs`) | state, mutex, condition variable | prime, wait, signal | batch, WAL worker | a wait sees the outcome of its own sync |
| Batch buffer (`db/batch.rs`) | bytes, count, deferred reservation | put, deferred operations with rollback, clear | batch, varints | the bytes decode to the operations written; a refusal changes nothing |
| TLS matrix (`thread_local_storage/`) | rows per thread, columns per pointer, free ids | register, get or init, drop row, drop column | pool | each cell reclaimed once |
| Hazard domain (`mem/src/hazard/`) | record list, tagged free list, retired list | acquire, protect, reset, release; retire and reclaim unfinished | users of lock-free structures | no record given twice, no protected object reclaimed |
| Skip list, memtable (`utils/skiplists`, `memtable`) | nodes in an arena | insert, search, iterate | arena, keys | sorted, nothing lost by concurrent inserts |
| Arena (`arena/`) | chunks, bump pointers, byte counts | allocate, grow, reset | skip list | allocations disjoint, cap respected |
| Keys, varints, log records | none | encode, decode, compare | memtable, WAL | round trip, order |
| WAL manager, versions, column families, facade, VFS, iterators | declarations | mostly stubs | | |

Hard behaviours, by kind: lock-free interleavings (commit queue, semaphore fast
path, hazard domain, skip list, arena), a mutex and condition variable with
barging (semaphore, sync waiter, arena growth), pointers used after another thread may have
recycled their target (commit queue), several tiers of ownership (pool), error
returns in the middle of a sequence (`prepare`), and numeric edges (sequence
subtraction, `u32` positions). `PROJECT.json` lists each hazard at its line.

## Modules

| Module | Role |
|---|---|
| `WritePipeline` | commit queue, `prepare` and the permits, one step per shared access |
| `MCWritePipeline` | instance of it for TLC (symmetric threads) |
| `WritePipelineProofs` | inductive invariant and theorems about it |
| `CountingSemaphore` | abstract semaphore: taking and returning a permit are atomic |
| `PipelineAdmission` | the code's semaphore, refining the abstract one |
| `MCPipelineAdmission` | instance of it |
| `PipelineAdmissionProofs` | conservation, no panic, refinement, no lost wakeup |
| `BatchPool` | caches, shards, handles and teardown of the batch pool |
| `MCBatchPool` | instance of it (symmetric threads and batches) |
| `BatchPoolProofs` | ownership of every batch, states, teardown, spilling |
| `VarInt` | variable-length integers, as operators |
| `Batch` | one batch allocation: buffer, runtime state, sync waiter, recycling |
| `MCBatch` | instance of it, and the varints at the boundaries of their sizes |
| `BatchProofs` | varint round trip, decodable buffer, reuse after sync, refusals |
| `InternalKey` | trailers and the order of internal keys, as operators |
| `SkipList` | the lock-free list: search, insert, insert_with |
| `Memtable` | the calls made of those steps: insert, get, iterate |
| `VersionedMap` | abstract specification the memtable implements |
| `MCMemtable` | instance of it (symmetric in the threads with the same roles) |
| `MemtableProofs` | sorted complete levels, complete towers, iteration, linearizability |
| `Arena` | bump allocation, growth under the mutex, reset |
| `MCArena` | instance of it |
| `ArenaProofs` | disjoint ranges, cap, one chunk per growth, bytes counted |
| `ThreadLocal` | rows, columns, ids and handlers of the thread-local matrix |
| `MCThreadLocal` | instance of it (symmetric threads, and columns with a handler) |
| `ThreadLocalProofs` | complete ring, ids of columns, one reclamation per object |
| `HazardDomain` | record lists, tagged free list, protection |
| `MCHazardDomain` | instance of it (symmetric in all its sets) |
| `HazardDomainProofs` | lock bit, record list, protection |

`WritePipeline` takes a permit in one step. That is what `CountingSemaphore`
says and what `PipelineAdmission` is shown, and proved, to implement. `Memtable`
extends `SkipList`, which extends `InternalKey`; `Batch` extends `VarInt`. The
components meet through their promises: `SkipList` takes a node from the arena
in one step, which may fail, as `Arena` gives out disjoint ranges or refuses;
`BatchPool` takes thread exit and column teardown as one step each, as
`ThreadLocal` reclaims every object once; `Batch` follows one allocation, where
`BatchPool` has the owners of many and `WritePipeline` their order.

### WritePipeline

A committing thread `t` carries one batch, also written `t`, through
`Reserve`, `LockQueue`, `EnqueueCheck`, `EnqueueStore`, `EnqueueAdvance`,
`SetInQueue`, `AssignSeq`, `PrepareCommit`, `Apply`; it then repeats
`LoadHeadTail`, `LoadSlot`, `IsApplied`, `CasTail` or `CasFail`, `ClearSlot`
until its batch has been handed back, and leaves with `Finish`. The labels in
`pc` are the points between two accesses to shared memory. `ht` and `ptr` are
the locals of `try_dequeue`, which is where stale values live. A later commit
of the same thread reuses the allocation, so a stale pointer can meet a reused
batch (ABA).

`head_tail` is unpacked into two naturals; they move in one step where the code
uses one atomic operation. `PrepareCommit` may fail as the environment may; the
batch then stays in the ring, as in the code. `log`, `stamped` and `claimed`
are history variables: they are written and never read by an action.

The source leaves `publish` as `todo!()` and `commit` does not call `prepare`
yet. The order reserve, prepare, apply, dequeue until handed back, release is
the one the documentation of `WriterEnv` and of `commit` describes.

### PipelineAdmission

One step per access to `count`, `sem_mu` or `sem_cv`. `caller` remembers who
called `try_acquire`: the spinning loop of `reserve_space`, the fast path of
`acquire`, or its loop under the mutex. A thread that barges in on the fast
path, a spurious wakeup (external, at most `MaxSpurious`) and a notification
with nobody asleep are all possible.

### BatchPool

A step is the `fetch_add` on `next_shard` or one critical section of a shard;
work on a thread's own cache belongs to the step next to it. `hand[t]` is the
batch in the stack frame of the pool call (or of `commit`) thread `t` is in,
`held[t]` the handles it owns. Handles may move to another thread. A thread
that exits loses its cache and may come back as a new thread with an empty
one; a pool that was dropped may be followed by a new one. A commit returns its
batch applied (`CommitDone`), or, when `prepare` fails behind `enqueue`, still
`InQueue` and with its pointer left in the ring (`CommitFails`); `queued` is the
set of batches the ring points to. Releasing or resetting a batch that is not
reset-safe ends in the assertion of `reset_batch` (`ResetPanics`), and unwinding
destroys it: the ring's pointer then dangles, which is the trouble
`no_retained_pointer` shows and no longer the pool's. Buffers are reduced
to whether they outgrew the retention limit (`big`). The statistics counters
are never read by the pool and are left out. `release` compares the length of a
buffer it has just cleared with the retention limit, so it never shrinks one;
`AfterShrink` does the same.

### Batch

The owner of one allocation calls `Put`, `PutWith` (a deferred operation, which
`PutWithPanics` rolls back) and `Seal`, and commits it. The repository has two
commit paths, and a behaviour takes one of them throughout (`env`): `Commit` is
`commit` as it stands, which signals the waiter itself and sends the WAL nothing;
`Prepare` is `prepare`, which queues the batch, stamps it and hands it to the
environment, which primes the waiter and gives a clone to the WAL worker.
`PrepareFails` is its error return, with the batch left `InQueue` in the hands of
its owner, and `PreparePanics` the slice of a buffer that `clear` left without a
header. `MarkApplied` ends the commit, `Signal` is the worker; `Start`, `Spin`,
`Sleep` and `Return` are `reset` and `close` waiting for it; `Acquire` takes the
batch from the pool again.

A buffer is its length, its header fields and the operations at their offsets
with their encoded lengths. `Reserve` keeps the order of the code: a record that
fits no batch is refused, an empty buffer gets its header, and only then comes
the check for room. `MAX_BATCH_SIZE` and the key limit are scaled down so that
each of the four refusals happens. `outcome` (what the WAL reported for the last
commit, "none" when it was sent nothing) and `deferred` (the operations
`put_with` wrote since the last `clear`) are history variables. The steps are
those of a release build: `prime` goes on where its debug assertion would stop
(`ReuseMeansDurable` says when that is).

### SkipList, Memtable, VersionedMap

`loc[t]` holds the program counter of thread `t` and the locals of its search
(`preds`, `succs`, `found`), which is where stale neighbours live. A step is one
load or compare-and-swap of a shared pointer or of `max_level`. A node's own
pointer at a level is written before the swap that publishes it there, in the
same step. `insert` searches and then allocates; `insert_direct` allocates,
writes the key into the node and then searches, so that a node may be built and
left unused. `generate_random_level` is modelled as it is: its lowering loop
tests an address that is never null, so towers end up at most three high.

`VersionedMap` is a set of versions with calls that take effect at one instant.
The mapping reads the versions off the base level; an insert takes effect when
it links its base pointer or finds its key, a read at the load that ends its
search. `answer` is a history variable that keeps the answer from that step on,
and `Pending` is each thread's call as the map sees it (`Calling`). `OnLevel` is the
set of nodes some pointer at a level leads to; `Reachable` is what a walk meets, the
least set closed under the pointers of the level from the sentinel on.

### Arena

`alloc_raw` and `alloc_raw_fallback` in the steps `LoadChunk`, `LoadBump`,
`TakeRange` or `Retry`, `CountUsed`, and through `LockChunks` and `Extend` when
the chunk is full; `Reset` needs the arena exclusively. `ranges` and `retained`
(the chunks there were when the arena was made or last reset) are history
variables. `ranges` has no owners: two threads given the very same range would be
one element of it, which `UsedMatchesRanges` catches and `NoOverlap` does not.
After a reset the first chunk is current and later growth appends new chunks: the
other retained ones are not visited again, in the model as in the code
(`NoChunkSkipped` says so).

### ThreadLocal

Each critical section of `thread_mu` is one step: creating a column, dropping
it (`RemoveColumn` walks the ring), registering a row, growing it, dropping it.
A thread uses a cell of its own row outside the mutex. That nobody uses a column
while it is dropped is the obligation the code puts on its owner
(`Quiesced`). That a column is dropped once (`Live`) is what its owner's `Drop`
does; a test that calls the private `remove_column` and lets `Drop` call it again
(`thread_local_ptr.rs:461`) is outside the model. `init` on a cell that is not
null is outside its documented contract: the model stops the thread, as the debug
assertion does. `Walked`, the rows `remove_column` meets, is the least set that has
the first row and the successor of each of its members, as `Listed` below. `made`
and `unrefs` are history variables.

### HazardDomain

`acquire_many` in one step per atomic access: load of the free list's head, the
`fetch_or` that locks it, the walk, the unlocking store, and the push of new
records. The walk starts from the head loaded before the lock, as in the code.
`ProtectPtr`, `PublishHazard` and `TryProtectPtr` are the protect loop;
`DropArray` and `DropSingle` the destructors, the latter ending in the code's
`todo!()`. `retire_ptr` only returns 0 and no reclaimer exists: `Reclaim` is an
external scan of the record list, the one the list is kept for. `Listed`, the
records that scan meets, is the least set that has the head and the successor of
each of its members: the records a walk visits, without a step count. Stores to hazard
slots are visible at once; see the limits below.

## Runs

| Run | Instance | Shows |
|---|---|---|
| `write_pipeline` | 3 threads, 2 slots, 5 enqueues, about 0.8 million states | order, readiness, no reservation failure, one place per batch |
| `producer_owns_slot` | 2 threads, 2 slots | violated: `enqueue` does not wait for the slot |
| `no_retained_pointer` | 2 threads, 2 slots | violated: `try_dequeue` uses a pointer after the owner left |
| `seq_ranges_disjoint` | 2 threads, counts 1 and 2 | violated: ranges overlap |
| `pipeline_admission` | 4 threads, 2 permits, 1 spurious wakeup | safety, liveness and refinement of the semaphore |
| `batch_pool` | 2 threads, 4 batches, 2 shards of 1, caches of 2, target 1, 390 thousand states | one owner, nothing queued is pooled, capacities, complete teardown |
| `batch` | 1 allocation, 3 commits, limits 128 and 400, about 40 thousand states | the buffer decodes, refusals change nothing, no reuse before a successful sync, waits return |
| `memtable` | 3 threads with 1 call each, 3 keys, towers of up to 2, 0.9 million states | sorted complete levels, iteration, linearizability |
| `arena` | 2 threads, 3 blocks of 3 bytes, 1 reset | disjoint ranges, cap, counts, every call ends |
| `thread_local` | 2 threads, 3 columns (2 with a handler), 2.2 million states | complete ring, ids, one reclamation per object |
| `hazard_domain` | 2 threads, 2 records, 2 objects, arrays of 1 and 2 | lock bit, record list, protection |
| `hazard_single_owner` | the same | violated: one record handed to two threads |

Properties of the passing runs:

- `ClaimsInOrder`: the sequence of claimed batches is a prefix of the sequence
  of enqueued ones. It survives the slot overwrite of `producer_owns_slot`:
  the late clear stops the queue, it does not reorder it.
- `ClaimsReady`: when the tail moves, the batch it passes is applied and
  stamped at that moment, although it was tested steps earlier.
- `NoReservationFailure`: "Queue full - reservation failed" is unreachable.
- `HandedBackOnce`: a batch is at one position of the ring, or with one
  consumer, or back with its committer.
- `PermitsConserved`, `NoLostWakeup`, `EveryoneServed`, `ImplementsSemaphore`.
- `SingleOwner`: an allocation is in exactly one cache entry, shard entry,
  handle or stack frame, or has been destroyed and is in none.
- `StateMatchesOwner`: what the pool keeps is `Idle`, what the ring points to is
  `InQueue`, and what a caller holds is reset-safe unless its `prepare` failed.
  So no batch is in the pool while the ring points to it, and the assertion of
  `reset_batch` fires for a batch whose `prepare` failed and for no other.
- `SpillRetainsTarget`: a spilling release leaves exactly the target.
- `NothingLeaks`: after teardown nothing is allocated.
- `BufferDecodes`: a reader that walks the buffer by its encoded lengths meets
  every operation and stops at the end, whatever was refused or rolled back.
- `RefusalChangesNothing`: an operation that returns an error leaves buffer and
  count alone. `BatchFull` is found out after an empty buffer has been given its
  header, so this rests on `RecordTooLarge` being tested before that.
- `NoReuseBeforeSync`: the batch is writable or pooled only when no sync of it is
  outstanding.
- `ReuseMeansDurable`: on the path through the environment it is reused only when
  the WAL reported success for its last commit, although `clear` keeps the
  terminal state of earlier commits in the waiter and although a failed `prepare`
  returns before the waiter is primed. On the other path the WAL reports nothing,
  and nothing is claimed.
- `WaitReturns`: an owner that waits is not left asleep.
- `LevelsSorted`, `TowersComplete`: no pointer leads back or to an equal key, a
  walk meets every linked node, and a returned insert is linked at every level.
- `IterSeesSnapshot`: an iterator returns growing keys and, when it ends, every
  key that was there when it was positioned.
- `ImplementsVersionedMap`: inserts and reads are linearizable.
- `NoOverlap`, `CapRespected`, `NoChunkSkipped`, `UsedMatchesRanges`: the promises
  of the arena under racing threads. `NoChunkSkipped` is about the first chunk and
  the chunks added since the arena was made or last reset.
- `CallsEnd`: every allocation ends with a range, an error or a panic.
- `RingComplete`, `CellsMatchColumns`, `ReclaimedOnce`: a dropped column finds
  every row; a reused id never sees an object of its previous column; each object
  meets the handler of its own column exactly once.
- `LockBitExcludes`, `RecordListComplete`, `ProtectionSound`: one thread walks
  the free list at a time; the list a reclaimer scans has every published
  record; a protected object is not freed. `ProtectionSound` excepts records
  that two threads came to share, which is what `hazard_single_owner` shows.

Three of these state, as part of what always holds, that the code does something
else than its documentation says; `PROJECT.json` lists them under `findings` with
the violated runs:

- `NoChunkSkipped`: "Resets the arena for reuse while retaining all allocated
  chunks" (`arena.rs:353`, and the test `reset_reuses_retained_chunks`), but the
  retained chunks other than the first stay empty and count against the cap;
- `BufferDecodes`: the header has the "operation count" (`batch.rs:695`), but
  `put_with` does not count its operation, and the difference is exactly those;
- `ReuseMeansDurable`: `prime` asserts in debug builds that the waiter is in `Init`
  (`wal/mod.rs:245`), but the waiter of a batch in reuse is in `SyncDone`.

### Bounds

`MaxPos = 5` on a ring of two wraps the ring twice and reuses every slot and
every allocation while another thread is stalled anywhere; three threads are
one producer and two competing consumers. Four threads on two permits allow two
sleepers and two releases at once, with one more thread's worth of barging; one
round each suffices because a round ends in the initial local state. In the
pool a shard of one slot makes a spill of two both fill and overflow it, four
batches let both threads refill and spill, and two shards with thread exits
make the threads share a shard or not. `AllocationBound` only keeps callers
from asking when the model has no allocation left.

In the memtable, a direct insert and two threads that insert, read or
iterate make every compare-and-swap lose to a neighbour's, at the base and
above it; the keys are two versions of one user key and a tombstone of another,
so that a read can meet a wrong version and a wrong user. The arena's block is
full after one or two of its layouts, one of which needs padding and one fits no
block, and its cap is reached after two extensions. Three columns let an id be
reused, without a handler after one with, while another column lives. Two hazard
records give arrays that are recycled, new, or one of each. The batch takes three
commits so that a waiter carries a terminal state over two recyclings; its
lengths lie on both sides of each limit and of the one-byte varint.

The deadlock check is off where threads stop at a bound (`MaxPos`, `MaxRounds`,
`MaxCalls`, the records, the columns), after a panic, or for good behind a failed
`prepare_commit`; the pool runs with it on.

### Fairness

`EveryoneServed`: weak fairness of every thread's step. A
thread that can run eventually does, an admitted committer eventually returns
its permit, and spurious wakeups get no fairness. Weak fairness is enough for
the mutex because the number of rounds is bounded; with unbounded barging the
code promises no bound on waiting, and none is claimed.

`WaitReturns`: weak fairness of the WAL worker's signal (it reports every sync it
was sent, in success or failure) and of the waiting owner. Spurious wakeups get
none.

`CallsEnd`: weak fairness of a thread's own steps, and strong fairness of taking
the mutex (the operating system does not refuse it for ever to a thread that
waits) and of a compare-and-swap that could succeed infinitely often
(`compare_exchange_weak` does not fail spuriously for ever). The losers of races
end because every winner takes a piece of a bounded arena.

## Proofs

Every theorem holds for all values of the constants that satisfy the named
`ASSUME`s of its module, which TLC evaluates in each run:

- the ring size `N` and the semaphore's `Limit` are positive, and `Null` is no
  thread; the semaphore's `Thread` is finite (its conservation law counts
  threads). `N` need not be a power of two;
- the pool's capacities are between 1 and 255 (the code keeps lengths in a `u8`),
  the target is at least one and within the capacity of a cache, and there is a
  shard; `None` is no shard and no batch;
- the arena's block size is positive, its cap a positive multiple of it, and
  alignments are positive;
- for the batch, the limits and lengths are naturals, a batch has room for its
  header, and every length that is not refused fits a varint of five bytes
  (`VarIntAssumption`; the code has `u32` lengths, which do);
- the matrix's `Null` is no thread, no id and no object, the sentinel is no
  thread, and `Column` is finite (ids are counted against the columns created;
  each is created once). Threads are any set;
- in the hazard domain `Null` is no record and no object and array sizes are
  positive. Threads, records and objects are any sets, infinite ones included:
  `used` is finite because steps are;
- for the skip list there is at least one level, trailing zeros are naturals, and
  `Null` is no node (`HeightAssumption`, `NodesAssumption`); internal keys are a user
  key and a trailer whose kind is put, delete or merge (`KeyAssumption`: the kinds
  `Memtable::get` knows; user keys are integers because only their order matters);
  reads are at user keys and sequence numbers (`ReadAssumption`), the callers are
  threads (`RolesAssumption`) and `Null` is no call and no answer
  (`NullAssumption`). Threads and keys are any sets, `MaxNodes` and `MaxCalls` any
  numbers: the theorems hold however many nodes are linked and calls are made.

**`WritePipelineProofs`** proves `TypeCorrect` (`TypeOK`: besides the types, the
window within one lap, the permits within the slots, and who holds `q_mu`), `ClaimOrder`
(`ClaimsInOrder`), `ClaimReadiness` (`ClaimsReady`), `ReservationNeverFails`
(`NoReservationFailure`) and `EveryBatchHandedBackOnce` (`HandedBackOnce`). `ClaimsInOrder` is not
inductive: it says nothing of a consumer that is about to win its CAS. The
invariant `IInv` adds

- `LockInv`: the thread inside `prepare` is the holder of `q_mu`;
- `RingInv`: `tail <= head <= tail + N`, `log` has `head` entries, and a
  producer that passed the full check still has room;
- `SlotInv`: the slot of a queued position holds that position's batch, or null
  after a late clear, never another batch;
- `SnapInv`: what a consumer remembers of `head_tail` is a window of the past,
  and as long as the tail has not moved its pointer is the batch at the tail,
  applied if the consumer has tested it;
- `WindowInv`, `ClaimInv`, `SoleClaimInv`, `PublishedInv`: a batch is at one
  position, or with the one consumer that claimed it, or published;
- `StateInv`, `StampInv`: the runtime state follows the committer's stage, and
  every queued position but the one being prepared is stamped.

The key step is `CasTail`: since positions only grow, `ht = head_tail` means
that nobody moved the tail since `ptr` was loaded; the slot then held the batch
at the tail, and this batch is still applied because its committer cannot leave
before it is claimed.

`NoReservationFailure` needs a count (`PermitInv`): every permit is left or with
one admitted thread. The queued positions belong to different admitted threads
and none of them to the one at the full check, so it finds fewer than `N` queued.
`PermitInv` is also what keeps the permits of `TypeOK` within the slots.

**`PipelineAdmissionProofs`** proves `AdmissionTypeCorrect`, `Conservation`,
`ReleaseNeverPanics`, `AdmissionImplements` and `NoWakeupLost`. The invariant is `TypeOK`,
`PermitsConserved` and `LocalInv` (a thread at its CAS has a positive copy of
the count). Each step either leaves `count` and `Holders` alone or adds or
removes one member of `Holders` while the count changes by one.

`NoLostWakeup` adds `MutexInv`, `SleepInv` (a thread about to wait has seen no
permit, and none can come back before it is on the queue) and `WakeInv`: while
somebody sleeps there are at least as many threads that will look at the count
(`Seekers`) as there are permits. A permit taken costs one of each, a permit
returned is followed by a notification, and a notification turns a sleeper into a
seeker.

**`ArenaProofs`** proves `TypeCorrect`, `NoOverlapAlways`, `CapAlwaysRespected`,
`NoChunkIsSkipped` and `UsedAlwaysMatches`. Besides the first three properties the invariant has `CallInv`
(a call is at a chunk the arena still visits, and
the mutex is held by the thread that extends), `LoopInv` (the offset a thread
will try to move leaves room for its layout) and `FullInv`: the thread that is
about to extend has seen the current chunk too full, and since offsets only grow
and only it may replace the chunk, this is still so when it extends. A reset
starts over: the invariant then speaks of the first chunk and of those added
behind the `retained` ones.
`UsedMatchesRanges` compares the counter with the number of bytes in the ranges;
on top of that invariant, a CAS adds a range apart from all the others
(`NoOverlap`) and as many bytes to what its thread has yet to count, the count
moves those into `memory_used`, and `reset` runs when no thread has bytes to count.

**`BatchProofs`** proves `VarIntRoundTrips`, `TypeCorrect`,
`BufferAlwaysDecodes`, `NoReuseBeforeSyncAlways`, `ReuseMeansDurableAlways` and
`RefusalsChangeNothing`. The round trip needs no induction because a varint has
at most five bytes: the partial sums of `decode` are shown to be the function that
leaves `128^i` times the `i`-th quotient of the value. The buffer is decodable
because it is well-formed (`BufferInv`): operations follow each other from the
header to the end, each as long as its encoded lengths say; a write appends one,
a rollback returns to the length that was there. A refusal changes nothing because
a record that passed the first check fits behind a bare header, so that the check
for room refuses only a buffer that had its header before (`FullBatchHadHeader`).
For the waiter, `CloneInv` says that while the WAL worker has a clone the waiter is
primed and the batch is with the pipeline or sealed, and `WaiterInv` that on the
path through the environment a terminal state is the outcome of the last commit,
unless its `prepare` failed and the batch is still `InQueue`. The first is what
makes a terminal state left over by `clear` harmless; in the second case it is the
assertion of `reset_batch` that keeps the batch from being reused.

**`BatchPoolProofs`** proves `TypeCorrect`, `EveryBatchHasOneOwner`,
`StatesAlwaysFit`, `TeardownLeaksNothing` and `SpillAlwaysRetainsTarget`.
`OwnInv` says of each batch that it is in at most one place (handle, call frame,
entry of a cache, entry of a shard), in one exactly while it is live, and in a
state that fits the place. A step moves one batch from a place to another, frees
some, allocates one or changes a state (`Moved`, `Freed`, `Allocated`,
`Relabelled`), and each of these preserves `OwnInv`; the proof of an action only
shows which one it is. `QueueInv` says that what the ring points to is `InQueue`
and with a caller or in a commit; a batch enters the pool only from a reset-safe
state, so the two never meet. `LifeInv` is what teardown needs: it starts when nobody is
in a call and nobody holds a handle.

**`HazardDomainProofs`** proves `TypeCorrect`, `LockAlwaysExcludes`,
`RecordsNeverLost` and `ProtectionAlwaysSound`. First each step is described in
the terms of the invariant (`Acquired`, `Loaded`, ..., collected in `StepSummary`);
the parts of `IInv` are then preserved one after the other:

- `LockInv`: the bit is set exactly while one thread walks, and the head that
  `push_available` compares with was not locked, so its exchange fails while
  somebody walks;
- `NewInv`: a record being published belongs to one thread and follows the head
  that thread has seen;
- `ListInv`: the published records are the least set closed under a walk from
  the head, and the list is simple. A write to a record that is not published
  changes no walk (`UnlistedWrite`), and an exchange that succeeds puts its record
  in front of the whole list (`FrontInsert`);
- `CountInv`: `count` and the threads that have yet to count make up the
  published records;
- `ChainInv`: only published records circulate, so a slot in use is in the list
  a reclaimer scans;
- `HazardInv`: a record in two arrays is in `shared`, what is held is in its slot
  and not freed, and a thread between publishing and re-checking has its pointer
  in the slot. Re-checking finds the source unchanged, the source is never
  retired, and from there on the slot keeps every scan from freeing the object.

**`ThreadLocalProofs`** proves `TypeCorrect`, `RingAlwaysComplete`,
`CellsAlwaysMatch` and `AlwaysReclaimedOnce`. The parts of `IInv`:

- `RingInv`: `next` and `prev` are inverse on the rows in use, and every set of
  rows that a walk does not leave contains them all. Linking a row behind the
  sentinel (`InsertFront`) and taking one out (`TakeOut`) preserve both; that no
  row is its own neighbour (`NoSelfLoop`) follows from the second;
- `IdInv`: an id belongs to one live column or is in the free list once, and the
  map has the handler of the live column only: what the last owner of an id left
  is gone when the id is taken again;
- `CallInv`: a call is on a live column, by a thread whose row is linked before it
  grows and long enough before its cell is used;
- `CellInv`: what a cell holds was made by the thread of the row for the live
  column of the id, and only rows in use hold anything;
- `ObjectInv`: an object is in its cell, and has met no handler, exactly until its
  column is dropped or its thread exits, and has then met its handler once. Both
  steps empty exactly the cells of the objects that go (`ObjectsEmptied`); for a
  column this needs the complete ring and ids that are not shared.

**`MemtableProofs`** proves `TypeCorrect`, `LevelsAlwaysSorted`,
`TowersAlwaysComplete`, `IterAlwaysSeesSnapshot` and `Implements`
(`ImplementsVersionedMap`). None of the properties is inductive: they do not say what
a thread knows that is about to link a node between two neighbours it saw long ago.
The parts of `IInv`:

- `ListTypes`, `LocTypes`: shapes of the towers and of the locals;
- `LevelInv`: the nodes of each level have different keys, the successor of a node
  (or of the sentinel) is the next larger key of the level, and every set that a walk
  does not leave contains them all; a node on a level is on all levels below;
- `OffInv`: the pointer a node was given before it is linked leads to a larger key
  too, although the swap that should have published it failed;
- `SearchOK`: a recorded predecessor is the sentinel or a node of its level below the
  key, a recorded successor is null or a node of its level not below it, and a node
  with the key was remembered. This is not that they are neighbours, which stops being
  true at any time; it survives every step of every thread because nodes are never
  unlinked (`Grows`, `SearchKept`);
- `PhaseOK`: what else the locals of a get, an iterator and an insert say: in
  particular the node of an insert can be reached by nobody before it is linked at
  the base, and is afterwards on exactly the levels below `up`;
- `AnswerOK`: a call has its answer exactly from the step at which it took effect;
- `CursorOK`: every key an iterator owes is in the table, at or after its position;
- `OwnerInv`, `HeightInv`, `TowerInv`: a node has one builder, `max_level` covers
  it unless it is still being raised, and its builder lets go of it on no less than
  all its levels.

The key step is a compare-and-swap that succeeds (`LinkList`): the predecessor still
points at the successor that was recorded, so that by `LevelInv` no node lies between
them; `SearchOK` places the new key strictly between the two (an equal successor would
have been found), and the level stays ordered (`InsertOrdered`) and walked whole
(`InsertReached`). One that fails changes no level (`MissList`).

For `Implements` each step is shown to be a step of the map or none. The search of a
get ends at the first node of the base level whose key is not below the one it seeks
(`First`, proved for the state in which the last pointer is loaded), and since
versions of a user key are ordered by falling trailer, this node is the newest version
at or below the sequence number, or there is none (`ReadIsGet`). An insert that finds
its key changes nothing (`InsertPresentAbs`); one that links its base pointer adds a
version whose key was not there, because the keys of the level differ after the step
(`InsertNewAbs`). Every other step leaves the base level and the pending calls alone.

Only model-checked:

- `EveryoneServed`, `WaitReturns` and `CallsEnd`: liveness under fairness is out of
  the prover's reach.

## What is not modelled

Weak memory: the models are sequentially consistent. Where the code relies on an
ordering (the relaxed loads of the skip list's upper levels, the `Relaxed` failure
ordering in `try_dequeue`, the light barrier of the hazard domain, which is empty
on x86_64) the models show the algorithm, not its orderings.

Also left out: the wrap of the `u32` positions; poisoning of mutexes after a
panic; debug assertions (but for the one in `ThreadLocal`'s `init`, see above, and
the one of `prime`, which is a finding); `sync_sem` and `commit_sync`, which have no behaviour
yet; range scans of the skip list (`range`, `RangeIter`); the byte buffers of
`iter_key` and `inner_key`; log records, which have no reader yet; the indexed
pool and `batch_index`, which are unfinished; the older write batch, which has no
caller. WAL manager and writer, database facade, versions, column families and
iterators are declarations and stubs. `PROJECT.json` lists the components and
hazards without a model or a property, and why.

## Plan

The models of the plan are written and proved: every safety property of
the passing runs is a theorem. What is left waits for the code: `commit`,
`publish` and the WAL writer once they have a body (the permit that `commit` keeps
today, and the composition of `Batch` with `WritePipeline`), `sync_sem` and
`commit_sync`, and the iterators of the database.
