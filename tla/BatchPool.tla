------------------------------- MODULE BatchPool -------------------------------
(***************************************************************************)
(* The two-tier batch pool of crates/engine/src/db/batch_pool.rs.  Every   *)
(* thread keeps a LIFO cache of idle batch allocations; the threads share  *)
(* a few shards, each a mutex-protected LIFO.  A batch allocation is owned *)
(* by exactly one of: a cache, a shard, a caller's handle, or the stack    *)
(* frame of a pool operation that is moving it.                            *)
(*                                                                         *)
(* A step is one access to shared state: the fetch_add on next_shard or    *)
(* one critical section of a shard.  Work on a thread's own cache needs no *)
(* step of its own.  The pool's statistics are written and never read by   *)
(* the pool, and are left out.  What a batch contains is reduced to        *)
(* whether its buffer has outgrown the size the pool means to retain.      *)
(***************************************************************************)
EXTENDS Integers, Sequences, SequencesExt, FiniteSets

CONSTANTS Thread,    \* the threads that use the pool
          Batch,     \* the allocations that may be live at once (a bound)
          None,      \* no shard assigned, no batch in hand
          SHARDS,    \* SHARDS_PER_POOL
          SHARD_CAP, \* MAX_BATCH_PER_SHARD
          TLS_CAP,   \* capacity of a thread's cache
          TARGET     \* TLS_TARGET_RETAINED

\* The debug assertions of ThreadBatchCache::new and BatchPoolShard::new.
ASSUME CapAssumption ==
  /\ SHARDS \in Nat \ {0} /\ SHARD_CAP \in 1 .. 255 /\ TLS_CAP \in 1 .. 255
  /\ TARGET \in 1 .. TLS_CAP

ASSUME NoneAssumption == None \notin Batch \cup (0 .. SHARDS - 1)

VARIABLES
  life,        \* the pool: "open", its TLS column reclaimed, or "gone"
  next_shard,  \* round-robin counter (only its value mod SHARDS is used)
  pool,        \* pool[i]: the initialised prefix of shard i
  cache,       \* cache[t]: the initialised prefix of thread t's cache
  shard_idx,   \* shard_idx[t]: the shard assigned to thread t's cache
  held,        \* held[t]: the batches thread t has handles to
  hand,        \* hand[t]: the batch a call of thread t is moving
  pc,          \* pc[t]: where thread t is inside a pool or commit call
  live,        \* the heap allocations not yet dropped
  state,       \* state[b]: runtime_commit_state
  big,         \* the batches whose buffer has outgrown the retention limit
  queued       \* the batches the commit queue holds a pointer to

vars == <<life, next_shard, pool, cache, shard_idx, held, hand, pc, live,
          state, big, queued>>

shared == <<life, next_shard, pool, live, big, queued>>

Shards == 0 .. SHARDS - 1

RuntimeState == {"Idle", "Acquired", "InQueue", "Applied"}

\* A bug: the assertion of reset_batch accepts a batch in any state.
ResetSafeAny == RuntimeState

\* is_reset_safe, what reset_batch asserts of the batch it clears.
ResetSafe == {"Acquired", "Applied"}

Init ==
  /\ life = "open"
  /\ next_shard = 0
  /\ pool = [i \in Shards |-> <<>>]
  /\ cache = [t \in Thread |-> <<>>]
  /\ shard_idx = [t \in Thread |-> None]
  /\ held = [t \in Thread |-> {}]
  /\ hand = [t \in Thread |-> None]
  /\ pc = [t \in Thread |-> "idle"]
  /\ live = {}
  /\ state = [b \in Batch |-> "Acquired"]
  /\ big = {}
  /\ queued = {}

(***************************************************************************)
(* Helpers.                                                                *)
(***************************************************************************)
\* Box::from_raw and drop: the allocations in S go back to the heap.  A
\* pointer the commit queue still has to one of them dangles from here on and
\* refers to no batch of this model.
Free(S) ==
  /\ live' = live \ S
  /\ big' = big \ S
  /\ queued' = queued \ S

\* shard_idx_for_cache: the thread's shard, the next one if it has none yet.
ShardIdxForCache(t) ==
  IF shard_idx[t] = None
  THEN /\ shard_idx' = [shard_idx EXCEPT ![t] = next_shard]
       /\ next_shard' = (next_shard + 1) % SHARDS
  ELSE UNCHANGED <<shard_idx, next_shard>>

\* The shard of a thread that has one.
MyShard(t) == pool[shard_idx[t]]

\* ThreadBatchCache::push and pop.  Pushing marks the batch Idle.
CachePush(t, b) ==
  /\ cache' = [cache EXCEPT ![t] = Append(@, b)]
  /\ state' = [state EXCEPT ![b] = "Idle"]

CachePop(t) == cache' = [cache EXCEPT ![t] = Front(@)]

\* BatchPoolShardInner::push and pop, under the shard's mutex.
ShardPush(t, b) ==
  /\ pool' = [pool EXCEPT ![shard_idx[t]] = Append(@, b)]
  /\ state' = [state EXCEPT ![b] = "Idle"]

ShardPop(t) == pool' = [pool EXCEPT ![shard_idx[t]] = Front(@)]

(***************************************************************************)
(* Acquiring a batch.                                                      *)
(***************************************************************************)
\* try_acquire_from_tls: pop the hottest cached batch.
AcquireFromTls(t) ==
  /\ life = "open" /\ pc[t] = "idle" /\ cache[t] # <<>>
  /\ LET b == Last(cache[t])
     IN /\ held' = [held EXCEPT ![t] = @ \cup {b}]
        /\ state' = [state EXCEPT ![b] = "Acquired"]
  /\ CachePop(t)
  /\ UNCHANGED <<shared, shard_idx, hand, pc>>

\* Bound: callers stop asking when the refills under way might use up Batch.
AllocationBound ==
  Cardinality(live) + Cardinality({t \in Thread : pc[t] = "refill"})
    < Cardinality(Batch)

\* The cache is empty: refill_tls_cache finds its shard.
AcquireMiss(t) ==
  /\ life = "open" /\ pc[t] = "idle" /\ cache[t] = <<>>
  /\ AllocationBound
  /\ ShardIdxForCache(t)
  /\ pc' = [pc EXCEPT ![t] = "refill"]
  /\ UNCHANGED <<life, pool, cache, held, hand, live, state, big, queued>>

\* The batch to return comes from the shard, still Idle ...
RefillPop(t) ==
  /\ pc[t] = "refill" /\ MyShard(t) # <<>>
  /\ hand' = [hand EXCEPT ![t] = Last(MyShard(t))]
  /\ ShardPop(t)
  /\ pc' = [pc EXCEPT ![t] = "hydrate"]
  /\ UNCHANGED <<life, next_shard, cache, shard_idx, held, live, state, big,
                 queued>>

\* ... or, when the shard is empty, from the factory.
RefillAllocate(t) ==
  /\ pc[t] = "refill" /\ MyShard(t) = <<>>
  /\ \E b \in Batch \ live :
       /\ hand' = [hand EXCEPT ![t] = b]
       /\ live' = live \cup {b}
       /\ state' = [state EXCEPT ![b] = "Acquired"]
  /\ pc' = [pc EXCEPT ![t] = "hydrate"]
  /\ UNCHANGED <<life, next_shard, pool, cache, shard_idx, held, big, queued>>

\* A bug: the shard is read under its mutex and popped only later, so the
\* entry another thread may take is copied into the cache as well.
HydratePeek(t) ==
  /\ pc[t] = "hydrate"
  /\ Len(cache[t]) < TLS_CAP \div 2
  /\ MyShard(t) # <<>>
  /\ CachePush(t, Last(MyShard(t)))
  /\ UNCHANGED <<life, next_shard, pool, shard_idx, held, hand, pc, live, big,
                 queued>>

\* One turn of the loop that fills the cache up to half from the shard.
Hydrate(t) ==
  /\ pc[t] = "hydrate"
  /\ Len(cache[t]) < TLS_CAP \div 2
  /\ MyShard(t) # <<>>
  /\ CachePush(t, Last(MyShard(t)))
  /\ ShardPop(t)
  /\ UNCHANGED <<life, next_shard, shard_idx, held, hand, pc, live, big, queued>>

\* The loop ends and BatchObject::acquire hands the batch to the caller.
RefillDone(t) ==
  /\ pc[t] = "hydrate"
  /\ Len(cache[t]) >= TLS_CAP \div 2 \/ MyShard(t) = <<>>
  /\ held' = [held EXCEPT ![t] = @ \cup {hand[t]}]
  /\ state' = [state EXCEPT ![hand[t]] = "Acquired"]
  /\ hand' = [hand EXCEPT ![t] = None]
  /\ pc' = [pc EXCEPT ![t] = "idle"]
  /\ UNCHANGED <<shared, cache, shard_idx>>

(***************************************************************************)
(* The owner of a handle.                                                  *)
(***************************************************************************)
\* put: the records no longer fit the retained size and the buffer grows.
Put(t, b) ==
  /\ pc[t] = "idle" /\ b \in held[t] /\ state[b] = "Acquired"
  /\ big' = big \cup {b}
  /\ UNCHANGED <<life, next_shard, pool, cache, shard_idx, held, hand, pc,
                 live, state, queued>>

\* commit: the batch is lent to the write pipeline for the call, and prepare
\* puts its pointer into the commit queue.  A batch is committed at most once
\* between two resets (BatchInner is "written exactly once").
Commit(t, b) ==
  /\ pc[t] = "idle" /\ b \in held[t] /\ state[b] = "Acquired"
  /\ held' = [held EXCEPT ![t] = @ \ {b}]
  /\ hand' = [hand EXCEPT ![t] = b]
  /\ queued' = queued \cup {b}
  /\ state' = [state EXCEPT ![b] = "InQueue"]
  /\ pc' = [pc EXCEPT ![t] = "commit"]
  /\ UNCHANGED <<life, next_shard, pool, live, big, cache, shard_idx>>

\* The commit returns to the owner of the batch.
ReturnFromCommit(t) ==
  /\ pc[t] = "commit"
  /\ held' = [held EXCEPT ![t] = @ \cup {hand[t]}]
  /\ hand' = [hand EXCEPT ![t] = None]
  /\ pc' = [pc EXCEPT ![t] = "idle"]
  /\ UNCHANGED <<life, next_shard, pool, live, big, cache, shard_idx>>

\* The batch has been applied and has left the queue: mark_applied.
CommitDone(t) ==
  /\ ReturnFromCommit(t)
  /\ state' = [state EXCEPT ![hand[t]] = "Applied"]
  /\ queued' = queued \ {hand[t]}

\* The environment refuses the batch and prepare returns its error: the owner
\* gets the batch back InQueue, and its pointer stays in the queue.
CommitFails(t) ==
  /\ ReturnFromCommit(t)
  /\ UNCHANGED <<state, queued>>

\* Batch::reset: cleared for reuse by the same owner, capacity retained.
Reset(t, b) ==
  /\ pc[t] = "idle" /\ b \in held[t] /\ state[b] \in ResetSafe
  /\ state' = [state EXCEPT ![b] = "Acquired"]
  /\ UNCHANGED <<shared, cache, shard_idx, held, hand, pc>>

\* Batch::reset or release of a batch that is not reset safe: the assertion of
\* reset_batch panics, and unwinding destroys the allocation it had been given.
ResetPanics(t, b) ==
  /\ pc[t] = "idle" /\ b \in held[t] /\ state[b] \notin ResetSafe
  /\ held' = [held EXCEPT ![t] = @ \ {b}]
  /\ Free({b})
  /\ UNCHANGED <<life, next_shard, pool, cache, shard_idx, hand, pc, state>>

\* The handle is Send: another thread may become the owner.
Give(t, u, b) ==
  /\ t # u /\ pc[t] = "idle" /\ pc[u] = "idle" /\ b \in held[t]
  /\ held' = [held EXCEPT ![t] = @ \ {b}, ![u] = @ \cup {b}]
  /\ UNCHANGED <<shared, cache, shard_idx, hand, pc, state>>

\* The handle goes out of scope, or close returns early because the WAL wait
\* failed: the allocation is destroyed without passing through the pool.
DropBatch(t, b) ==
  /\ pc[t] = "idle" /\ b \in held[t]
  /\ held' = [held EXCEPT ![t] = @ \ {b}]
  /\ Free({b})
  /\ UNCHANGED <<life, next_shard, pool, cache, shard_idx, hand, pc, state>>

(***************************************************************************)
(* Releasing a batch.  The length release looks at is read after the batch *)
(* has been cleared.                                                       *)
(***************************************************************************)
\* data.len() after BatchInner::clear, in units of DEFAULT_BATCH_INIT_SIZE.
ClearedLen == 0

\* The batches whose buffer is still too large after shrink_to.
AfterShrink(b) == IF ClearedLen >= 2 THEN big \ {b} ELSE big

\* A bug: the capacity check of ThreadBatchCache::push is off by one.
ReleaseToCacheUnchecked(t, b) ==
  /\ pc[t] = "idle" /\ b \in held[t] /\ state[b] \in ResetSafe
  /\ Len(cache[t]) # TLS_CAP + 1
  /\ big' = AfterShrink(b)
  /\ held' = [held EXCEPT ![t] = @ \ {b}]
  /\ CachePush(t, b)
  /\ UNCHANGED <<life, next_shard, pool, shard_idx, hand, pc, live, queued>>

\* The cache has room.
ReleaseToCache(t, b) ==
  /\ pc[t] = "idle" /\ b \in held[t] /\ state[b] \in ResetSafe
  /\ Len(cache[t]) # TLS_CAP
  /\ big' = AfterShrink(b)
  /\ held' = [held EXCEPT ![t] = @ \ {b}]
  /\ CachePush(t, b)
  /\ UNCHANGED <<life, next_shard, pool, shard_idx, hand, pc, live, queued>>

\* The cache is full: the batch, reset to Acquired, waits on the stack.
ReleaseFull(t, b) ==
  /\ pc[t] = "idle" /\ b \in held[t] /\ state[b] \in ResetSafe
  /\ Len(cache[t]) = TLS_CAP
  /\ big' = AfterShrink(b)
  /\ ShardIdxForCache(t)
  /\ held' = [held EXCEPT ![t] = @ \ {b}]
  /\ hand' = [hand EXCEPT ![t] = b]
  /\ state' = [state EXCEPT ![b] = "Acquired"]
  /\ pc' = [pc EXCEPT ![t] = "spill"]
  /\ UNCHANGED <<life, pool, cache, live, queued>>

\* A bug: the spill stops at the target instead of one below it.
SpillAboveTarget(t) == Len(cache[t]) > TARGET

\* The loop condition of spill_cache_to_target_retained.
SpillMore(t) == Len(cache[t]) >= TARGET

\* One turn of it: the popped batch moves to the shard ...
Spill(t) ==
  /\ pc[t] = "spill" /\ SpillMore(t)
  /\ Len(MyShard(t)) # SHARD_CAP
  /\ ShardPush(t, Last(cache[t]))
  /\ CachePop(t)
  /\ UNCHANGED <<life, next_shard, shard_idx, held, hand, pc, live, big, queued>>

\* ... or is destroyed when the shard is full.
SpillOverflow(t) ==
  /\ pc[t] = "spill" /\ SpillMore(t)
  /\ Len(MyShard(t)) = SHARD_CAP
  /\ Free({Last(cache[t])})
  /\ CachePop(t)
  /\ UNCHANGED <<life, next_shard, pool, shard_idx, held, hand, pc, state>>

\* The released batch goes on top of what the spill left.
SpillDone(t) ==
  /\ pc[t] = "spill" /\ ~SpillMore(t)
  /\ CachePush(t, hand[t])
  /\ hand' = [hand EXCEPT ![t] = None]
  /\ pc' = [pc EXCEPT ![t] = "idle"]
  /\ UNCHANGED <<shared, shard_idx, held>>

(***************************************************************************)
(* Teardown.                                                               *)
(***************************************************************************)
\* ThreadBatchCache::unref, called when the thread's TLS row is dropped.  A
\* thread started later has an empty row: it is the same member of Thread.
ThreadExit(t) ==
  /\ pc[t] = "idle" /\ held[t] = {}
  /\ shard_idx[t] # None \/ cache[t] # <<>>
  /\ Free(ToSet(cache[t]))
  /\ cache' = [cache EXCEPT ![t] = <<>>]
  /\ shard_idx' = [shard_idx EXCEPT ![t] = None]
  /\ UNCHANGED <<life, next_shard, pool, held, hand, pc, state>>

\* The last Arc is gone, so no handle is left: the TLS column is reclaimed
\* first, which drains every thread's cache ...
DropColumn ==
  /\ life = "open"
  /\ \A t \in Thread : pc[t] = "idle" /\ held[t] = {}
  /\ life' = "column reclaimed"
  /\ Free(UNION {ToSet(cache[t]) : t \in Thread})
  /\ cache' = [t \in Thread |-> <<>>]
  /\ shard_idx' = [t \in Thread |-> None]
  /\ UNCHANGED <<next_shard, pool, held, hand, pc, state>>

\* A bug: the initialised prefix of a shard is not drained (MaybeUninit does
\* not drop what it holds).
DropShardsForget ==
  /\ life = "column reclaimed"
  /\ life' = "gone"
  /\ pool' = [i \in Shards |-> <<>>]
  /\ UNCHANGED <<next_shard, cache, shard_idx, held, hand, pc, live, state, big,
                 queued>>

\* ... and then the shards are.
DropShards ==
  /\ life = "column reclaimed"
  /\ life' = "gone"
  /\ Free(UNION {ToSet(pool[i]) : i \in Shards})
  /\ pool' = [i \in Shards |-> <<>>]
  /\ UNCHANGED <<next_shard, cache, shard_idx, held, hand, pc, state>>

\* with_factory: a new pool.
NewPool ==
  /\ life = "gone"
  /\ life' = "open"
  /\ next_shard' = 0
  /\ UNCHANGED <<pool, cache, shard_idx, held, hand, pc, live, state, big, queued>>

Step(t) ==
  \/ AcquireFromTls(t)
  \/ AcquireMiss(t)
  \/ RefillPop(t)
  \/ RefillAllocate(t)
  \/ Hydrate(t)
  \/ RefillDone(t)
  \/ CommitDone(t)
  \/ CommitFails(t)
  \/ Spill(t)
  \/ SpillOverflow(t)
  \/ SpillDone(t)
  \/ ThreadExit(t)

Use(t, b) ==
  \/ Put(t, b)
  \/ Commit(t, b)
  \/ Reset(t, b)
  \/ ResetPanics(t, b)
  \/ DropBatch(t, b)
  \/ ReleaseToCache(t, b)
  \/ ReleaseFull(t, b)
  \/ \E u \in Thread : Give(t, u, b)

Next ==
  \/ \E t \in Thread : Step(t)
  \/ \E t \in Thread, b \in Batch : Use(t, b)
  \/ DropColumn
  \/ DropShards
  \/ NewPool

Spec == Init /\ [][Next]_vars

(***************************************************************************)
(* Properties.                                                             *)
(***************************************************************************)
\* Types; caches and shards within their capacities, so that the push after
\* a spill always finds room (the unreachable! in release), and a call that
\* is moving a batch has one in hand.
TypeOK ==
  /\ life \in {"open", "column reclaimed", "gone"}
  /\ next_shard \in Shards
  /\ pool \in [Shards -> Seq(Batch)]
  /\ \A i \in Shards : Len(pool[i]) <= SHARD_CAP
  /\ cache \in [Thread -> Seq(Batch)]
  /\ \A t \in Thread : Len(cache[t]) <= TLS_CAP
  /\ shard_idx \in [Thread -> Shards \cup {None}]
  /\ held \in [Thread -> SUBSET Batch]
  /\ hand \in [Thread -> Batch \cup {None}]
  /\ pc \in [Thread -> {"idle", "refill", "hydrate", "commit", "spill"}]
  /\ \A t \in Thread : hand[t] = None <=> pc[t] \in {"idle", "refill"}
  /\ live \subseteq Batch
  /\ state \in [Batch -> RuntimeState]
  /\ big \subseteq live
  /\ queued \subseteq live

\* Every place that holds an owning pointer to batch b.
Places(b) ==
  {<<"handle", t>> : t \in {u \in Thread : b \in held[u]}}
    \cup {<<"frame", t>> : t \in {u \in Thread : hand[u] = b}}
    \cup (UNION {{<<"cache", t, i>> : i \in {j \in DOMAIN cache[t] : cache[t][j] = b}} :
                   t \in Thread})
    \cup (UNION {{<<"shard", k, i>> : i \in {j \in DOMAIN pool[k] : pool[k][j] = b}} :
                   k \in Shards})

\* The ownership invariant of OwnedBatchPtr: a live allocation is in exactly
\* one phase at any time, through refills, spills, thread exits and teardown
\* that interleave on the shards, and a destroyed one is owned by nobody (so
\* it is destroyed exactly once).
SingleOwner ==
  \A b \in Batch : Cardinality(Places(b)) = IF b \in live THEN 1 ELSE 0

\* The batches kept in a cache or in a shard.
Pooled == (UNION {ToSet(cache[t]) : t \in Thread})
            \cup (UNION {ToSet(pool[i]) : i \in Shards})

\* "A batch allocation ... must not return to the pool while it is visible to
\* the WritePipeline": what the pool keeps is Idle, and a batch the commit
\* queue refers to is InQueue, wherever its owner has taken it since.  A batch
\* a caller holds is reset safe unless the queue still refers to it, so the
\* assertion of reset_batch fires only for a batch whose prepare failed.
StateMatchesOwner ==
  /\ \A b \in Pooled : state[b] = "Idle"
  /\ \A b \in queued : state[b] = "InQueue"
  /\ \A t \in Thread : \A b \in held[t] : state[b] \in ResetSafe \/ b \in queued

\* A release that spills leaves the cache exactly at its target: the hot
\* batch has the slot the spill left for it "within the target".
SpillRetainsTarget ==
  [][\A t \in Thread :
       pc[t] = "spill" /\ pc'[t] = "idle" => Len(cache'[t]) = TARGET]_vars

\* Teardown destroys everything: once the pool's shards are dropped no
\* allocation survives, whatever threads exited before.
NothingLeaks == life = "gone" => live = {}
================================================================================
