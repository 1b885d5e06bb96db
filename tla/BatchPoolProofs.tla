---------------------------- MODULE BatchPoolProofs ----------------------------
(***************************************************************************)
(* Theorems about the batch pool, for every number of threads and shards,  *)
(* every capacity and every retention target.                              *)
(***************************************************************************)
EXTENDS BatchPool, SequenceTheorems, FiniteSetTheorems, TLAPS

(***************************************************************************)
(* A cache and a shard are stacks.                                         *)
(***************************************************************************)
\* g is the family of stacks f after x was pushed on stack i, or after the
\* top of stack i was popped: every other entry keeps its place.
Pushed(f, g, I, i, x) ==
  /\ Len(g[i]) = Len(f[i]) + 1 /\ g[i][Len(f[i]) + 1] = x
  /\ \A j \in 1 .. Len(f[i]) : g[i][j] = f[i][j]
  /\ \A k \in I : k # i => g[k] = f[k]

Popped(f, g, I, i) ==
  /\ Len(g[i]) = Len(f[i]) - 1 /\ Len(f[i]) \in Nat \ {0}
  /\ \A j \in 1 .. Len(f[i]) - 1 : g[i][j] = f[i][j]
  /\ \A k \in I : k # i => g[k] = f[k]

\* What the push of a cache or a shard does.
LEMMA PushKeepsEntries ==
  ASSUME NEW I, NEW S, NEW f \in [I -> Seq(S)], NEW i \in I, NEW x \in S
  PROVE  /\ [f EXCEPT ![i] = Append(f[i], x)] \in [I -> Seq(S)]
         /\ Pushed(f, [f EXCEPT ![i] = Append(f[i], x)], I, i, x)
<1> DEFINE g == [f EXCEPT ![i] = Append(f[i], x)]
<1>1. /\ Append(f[i], x) \in Seq(S) /\ Len(Append(f[i], x)) = Len(f[i]) + 1
      /\ \A j \in 1 .. Len(f[i]) : Append(f[i], x)[j] = f[i][j]
      /\ Append(f[i], x)[Len(f[i]) + 1] = x
  OBVIOUS
<1>2. g[i] = Append(f[i], x) /\ \A k \in I : k # i => g[k] = f[k]
  OBVIOUS
<1>3. g \in [I -> Seq(S)]
  BY <1>1
<1> QED BY <1>1, <1>2, <1>3 DEF Pushed

\* What the pop of a cache or a shard does.
LEMMA PopKeepsEntries ==
  ASSUME NEW I, NEW S, NEW f \in [I -> Seq(S)], NEW i \in I, f[i] # <<>>
  PROVE  /\ [f EXCEPT ![i] = Front(f[i])] \in [I -> Seq(S)]
         /\ Popped(f, [f EXCEPT ![i] = Front(f[i])], I, i)
         /\ Last(f[i]) \in S
<1> DEFINE g == [f EXCEPT ![i] = Front(f[i])]
<1>1. /\ Len(f[i]) \in Nat \ {0} /\ \A j \in 1 .. Len(f[i]) : f[i][j] \in S
  OBVIOUS
<1>2. /\ SubSeq(f[i], 1, Len(f[i]) - 1) \in Seq(S)
      /\ Len(SubSeq(f[i], 1, Len(f[i]) - 1)) = Len(f[i]) - 1
      /\ \A j \in 1 .. Len(f[i]) - 1 : SubSeq(f[i], 1, Len(f[i]) - 1)[j] = f[i][j]
  <2>1. \A j \in 1 .. Len(f[i]) - 1 : f[i][j] \in S
    BY <1>1
  <2>2. 1 \in Int /\ Len(f[i]) - 1 \in Int
    BY <1>1
  <2> HIDE <1>1
  <2>3. /\ SubSeq(f[i], 1, Len(f[i]) - 1) \in Seq(S)
        /\ Len(SubSeq(f[i], 1, Len(f[i]) - 1))
             = IF 1 <= Len(f[i]) - 1 THEN (Len(f[i]) - 1) - 1 + 1 ELSE 0
        /\ \A j \in 1 .. (Len(f[i]) - 1) - 1 + 1 :
             SubSeq(f[i], 1, Len(f[i]) - 1)[j] = f[i][1 + j - 1]
    BY <2>1, <2>2, SubSeqProperties
  <2>4. ASSUME NEW j \in 1 .. Len(f[i]) - 1
        PROVE  SubSeq(f[i], 1, Len(f[i]) - 1)[j] = f[i][j]
    <3>1. j \in 1 .. (Len(f[i]) - 1) - 1 + 1 /\ 1 + j - 1 = j
      BY <1>1
    <3> QED BY <2>3, <3>1
  <2>5. (IF 1 <= Len(f[i]) - 1 THEN (Len(f[i]) - 1) - 1 + 1 ELSE 0) = Len(f[i]) - 1
    <3>1. \A n \in Nat \ {0} : (IF 1 <= n - 1 THEN (n - 1) - 1 + 1 ELSE 0) = n - 1
      OBVIOUS
    <3> QED BY <1>1, <3>1
  <2> QED BY <2>3, <2>4, <2>5
<1>3. g[i] = SubSeq(f[i], 1, Len(f[i]) - 1) /\ \A k \in I : k # i => g[k] = f[k]
  BY DEF Front
<1>4. g \in [I -> Seq(S)]
  BY <1>2 DEF Front
<1>5. Last(f[i]) \in S
  BY <1>1 DEF Last
<1> QED BY <1>1, <1>2, <1>3, <1>4, <1>5 DEF Popped

\* A push below the capacity and a pop keep every stack within it.
LEMMA PushBounded ==
  ASSUME NEW I, NEW S, NEW N \in Nat, NEW f \in [I -> Seq(S)], NEW g \in [I -> Seq(S)],
         NEW i \in I, NEW x, Pushed(f, g, I, i, x), Len(f[i]) # N,
         \A k \in I : Len(f[k]) <= N
  PROVE  \A k \in I : Len(g[k]) <= N
<1> SUFFICES ASSUME NEW k \in I PROVE Len(g[k]) <= N
  OBVIOUS
<1>1. Len(f[k]) \in Nat /\ Len(f[k]) <= N
  OBVIOUS
<1>2. CASE k = i
  BY <1>1, <1>2 DEF Pushed
<1>3. CASE k # i
  BY <1>1, <1>3 DEF Pushed
<1> QED BY <1>2, <1>3

LEMMA PopBounded ==
  ASSUME NEW I, NEW S, NEW N \in Nat, NEW f \in [I -> Seq(S)], NEW g \in [I -> Seq(S)],
         NEW i \in I, Popped(f, g, I, i), \A k \in I : Len(f[k]) <= N
  PROVE  \A k \in I : Len(g[k]) <= N
<1> SUFFICES ASSUME NEW k \in I PROVE Len(g[k]) <= N
  OBVIOUS
<1>1. Len(f[k]) \in Nat /\ Len(f[k]) <= N
  OBVIOUS
<1>2. CASE k = i
  BY <1>1, <1>2 DEF Popped
<1>3. CASE k # i
  BY <1>1, <1>3 DEF Popped
<1> QED BY <1>2, <1>3

\* The round robin stays within the shards.
LEMMA NextShardInRange ==
  ASSUME NEW n \in Shards
  PROVE  (n + 1) % SHARDS \in Shards
BY CapAssumption DEF Shards

(***************************************************************************)
(* Types, and what a call in progress may rely on.                         *)
(***************************************************************************)
Labels == {"idle", "refill", "hydrate", "commit", "spill"}

LEMMA LabelsAreLabels ==
  /\ "idle" \in Labels /\ "refill" \in Labels /\ "hydrate" \in Labels
  /\ "commit" \in Labels /\ "spill" \in Labels
BY DEF Labels

\* A call that works on a shard has been assigned one, and the cache of a
\* call that spills never falls more than one below the target.
CallInv ==
  \A t \in Thread :
    /\ pc[t] \in {"refill", "hydrate", "spill"} => shard_idx[t] \in Shards
    /\ pc[t] = "spill" => Len(cache[t]) >= TARGET - 1

\* Teardown starts when nobody uses the pool and leaves the caches empty; a
\* pool that is gone has empty shards as well.
LifeInv ==
  /\ life # "open" =>
       \A t \in Thread : /\ pc[t] = "idle" /\ held[t] = {}
                         /\ cache[t] = <<>> /\ shard_idx[t] = None
  /\ life = "gone" => \A i \in Shards : pool[i] = <<>>

LEMMA InitTypes == Init => TypeOK /\ CallInv /\ LifeInv
<1> SUFFICES ASSUME Init PROVE TypeOK /\ CallInv /\ LifeInv
  OBVIOUS
<1>1. TypeOK
  BY CapAssumption, NoneAssumption DEF Init, TypeOK, Shards, RuntimeState
<1>2. CallInv /\ LifeInv
  BY DEF Init, CallInv, LifeInv
<1> QED BY <1>1, <1>2

\* The four moves, on the state of a well-typed pool.
LEMMA CachePushed ==
  ASSUME TypeOK, NEW t \in Thread, NEW b \in Batch, CachePush(t, b)
  PROVE  cache' \in [Thread -> Seq(Batch)] /\ Pushed(cache, cache', Thread, t, b)
BY PushKeepsEntries DEF TypeOK, CachePush

LEMMA CachePopped ==
  ASSUME TypeOK, NEW t \in Thread, cache[t] # <<>>, CachePop(t)
  PROVE  /\ cache' \in [Thread -> Seq(Batch)] /\ Popped(cache, cache', Thread, t)
         /\ Last(cache[t]) \in Batch /\ Last(cache[t]) = cache[t][Len(cache[t])]
<1>1. cache \in [Thread -> Seq(Batch)] /\ cache' = [cache EXCEPT ![t] = Front(cache[t])]
  BY DEF TypeOK, CachePop
<1>2. Last(cache[t]) = cache[t][Len(cache[t])]
  BY DEF Last
<1> QED BY <1>1, <1>2, PopKeepsEntries

LEMMA ShardPushed ==
  ASSUME TypeOK, NEW t \in Thread, shard_idx[t] \in Shards, NEW b \in Batch,
         ShardPush(t, b)
  PROVE  pool' \in [Shards -> Seq(Batch)] /\ Pushed(pool, pool', Shards, shard_idx[t], b)
BY PushKeepsEntries DEF TypeOK, ShardPush

LEMMA ShardPopped ==
  ASSUME TypeOK, NEW t \in Thread, shard_idx[t] \in Shards, MyShard(t) # <<>>, ShardPop(t)
  PROVE  /\ pool' \in [Shards -> Seq(Batch)] /\ Popped(pool, pool', Shards, shard_idx[t])
         /\ Last(MyShard(t)) \in Batch
         /\ Last(MyShard(t)) = pool[shard_idx[t]][Len(pool[shard_idx[t]])]
<1>1. /\ pool \in [Shards -> Seq(Batch)] /\ pool[shard_idx[t]] # <<>>
      /\ pool' = [pool EXCEPT ![shard_idx[t]] = Front(pool[shard_idx[t]])]
  BY DEF TypeOK, ShardPop, MyShard
<1>2. Last(MyShard(t)) = pool[shard_idx[t]][Len(pool[shard_idx[t]])]
  BY DEF Last, MyShard
<1>3. Last(pool[shard_idx[t]]) \in Batch
  BY <1>1, PopKeepsEntries
<1> QED BY <1>1, <1>2, <1>3, PopKeepsEntries DEF MyShard


\* The type invariant in the parts that different steps disturb.
StackTypes ==
  /\ pool \in [Shards -> Seq(Batch)] /\ \A i \in Shards : Len(pool[i]) <= SHARD_CAP
  /\ cache \in [Thread -> Seq(Batch)] /\ \A t \in Thread : Len(cache[t]) <= TLS_CAP

FrameTypes ==
  /\ hand \in [Thread -> Batch \cup {None}] /\ pc \in [Thread -> Labels]
  /\ \A t \in Thread : hand[t] = None <=> pc[t] \in {"idle", "refill"}

OwnerTypes ==
  /\ held \in [Thread -> SUBSET Batch] /\ live \subseteq Batch
  /\ state \in [Batch -> RuntimeState] /\ big \subseteq live /\ queued \subseteq live

ShardTypes ==
  /\ life \in {"open", "column reclaimed", "gone"} /\ next_shard \in Shards
  /\ shard_idx \in [Thread -> Shards \cup {None}]

LEMMA TypeParts == TypeOK <=> StackTypes /\ FrameTypes /\ OwnerTypes /\ ShardTypes
BY DEF TypeOK, StackTypes, FrameTypes, OwnerTypes, ShardTypes, Labels

\* A caller's handle keeps its allocation alive.
HandlesLive == \A t \in Thread : held[t] \subseteq live

LEMMA StackStep == TypeOK /\ CallInv /\ [Next]_vars => StackTypes'
<1> SUFFICES ASSUME TypeOK, CallInv, [Next]_vars PROVE StackTypes'
  OBVIOUS
<1>0. /\ StackTypes /\ FrameTypes /\ OwnerTypes
      /\ \A t \in Thread : pc[t] \in {"refill", "hydrate", "spill"} => shard_idx[t] \in Shards
  BY TypeParts DEF CallInv
<1> USE CapAssumption
<1>c. SHARD_CAP \in Nat /\ TLS_CAP \in Nat
  OBVIOUS
<1>1. ASSUME NEW t \in Thread, cache[t] # <<>>, CachePop(t), pool' = pool PROVE StackTypes'
  BY <1>0, <1>c, <1>1, CachePopped, PopBounded DEF StackTypes
<1>2. ASSUME NEW t \in Thread, NEW b \in Batch, CachePush(t, b), pool' = pool,
             Len(cache[t]) # TLS_CAP
      PROVE  StackTypes'
  BY <1>0, <1>c, <1>2, CachePushed, PushBounded DEF StackTypes
<1>3. ASSUME NEW t \in Thread, shard_idx[t] \in Shards, MyShard(t) # <<>>, ShardPop(t),
             cache' = cache
      PROVE  StackTypes'
  BY <1>0, <1>c, <1>3, ShardPopped, PopBounded DEF StackTypes
<1>4. ASSUME NEW t \in Thread, Hydrate(t) PROVE StackTypes'
  <2>1. shard_idx[t] \in Shards
    BY <1>0, <1>4 DEF Hydrate
  <2>2. /\ pool' \in [Shards -> Seq(Batch)] /\ Popped(pool, pool', Shards, shard_idx[t])
        /\ Last(MyShard(t)) \in Batch
    BY <1>4, <2>1, ShardPopped DEF Hydrate
  <2>3. /\ cache' \in [Thread -> Seq(Batch)]
        /\ Pushed(cache, cache', Thread, t, Last(MyShard(t)))
    BY <1>4, <2>2, CachePushed DEF Hydrate
  <2>4. Len(cache[t]) # TLS_CAP
    <3>1. Len(cache[t]) < TLS_CAP \div 2 /\ Len(cache[t]) \in Nat
      BY <1>0, <1>4 DEF Hydrate, StackTypes
    <3>2. TLS_CAP \div 2 <= TLS_CAP /\ TLS_CAP \div 2 \in Int
      OBVIOUS
    <3> QED BY <3>1, <3>2
  <2> QED BY <1>0, <1>c, <2>1, <2>2, <2>3, <2>4, PushBounded, PopBounded DEF StackTypes
<1>5. ASSUME NEW t \in Thread, Spill(t) PROVE StackTypes'
  <2>1. shard_idx[t] \in Shards /\ cache[t] # <<>>
    BY <1>0, <1>5 DEF Spill, SpillMore, StackTypes
  <2>2. /\ cache' \in [Thread -> Seq(Batch)] /\ Popped(cache, cache', Thread, t)
        /\ Last(cache[t]) \in Batch
    BY <1>5, <2>1, CachePopped DEF Spill
  <2>3. /\ pool' \in [Shards -> Seq(Batch)]
        /\ Pushed(pool, pool', Shards, shard_idx[t], Last(cache[t]))
        /\ Len(pool[shard_idx[t]]) # SHARD_CAP
    BY <1>5, <2>1, <2>2, ShardPushed DEF Spill, MyShard
  <2> QED BY <1>0, <1>c, <2>1, <2>2, <2>3, PushBounded, PopBounded, ZenonT(30) DEF StackTypes
<1>6. ASSUME NEW t \in Thread, SpillOverflow(t) PROVE StackTypes'
  <2>1. cache[t] # <<>>
    BY <1>0, <1>6 DEF SpillOverflow, SpillMore, StackTypes
  <2> QED BY <1>1, <1>6, <2>1 DEF SpillOverflow
<1>7. ASSUME NEW t \in Thread, SpillDone(t) PROVE StackTypes'
  <2>1. hand[t] \in Batch /\ Len(cache[t]) # TLS_CAP /\ pool' = pool /\ CachePush(t, hand[t])
    BY <1>0, <1>7 DEF SpillDone, SpillMore, StackTypes, FrameTypes, shared
  <2> QED BY <1>2, <2>1
<1>8. ASSUME NEW t \in Thread, ThreadExit(t) PROVE StackTypes'
  BY <1>0, <1>8 DEF ThreadExit, StackTypes
<1>9. CASE DropColumn \/ DropShards
  <2>1. <<>> \in Seq(Batch) /\ Len(<<>>) = 0
    OBVIOUS
  <2>2. CASE DropColumn
    <3>1. pool' = pool /\ cache' = [t \in Thread |-> <<>>]
      BY <2>2 DEF DropColumn
    <3>2. \A t \in Thread : Len(cache'[t]) <= TLS_CAP
      BY <1>c, <2>1, <3>1
    <3> QED BY <1>0, <2>1, <3>1, <3>2 DEF StackTypes
  <2>3. CASE DropShards
    <3>1. cache' = cache /\ pool' = [i \in Shards |-> <<>>]
      BY <2>3 DEF DropShards
    <3>2. \A i \in Shards : Len(pool'[i]) <= SHARD_CAP
      BY <1>c, <2>1, <3>1
    <3> QED BY <1>0, <2>1, <3>1, <3>2 DEF StackTypes
  <2> QED BY <1>9, <2>2, <2>3
<1>10. CASE UNCHANGED <<pool, cache>>
  BY <1>0, <1>10 DEF StackTypes
<1>11. ASSUME NEW t \in Thread, Step(t) PROVE StackTypes'
  <2>1. AcquireFromTls(t) => cache[t] # <<>> /\ CachePop(t) /\ pool' = pool
    BY DEF AcquireFromTls, shared
  <2>2. RefillPop(t) => /\ shard_idx[t] \in Shards /\ MyShard(t) # <<>> /\ ShardPop(t)
                        /\ cache' = cache
    BY <1>0 DEF RefillPop
  <2>3. AcquireMiss(t) \/ RefillAllocate(t) \/ RefillDone(t) \/ ReturnFromCommit(t)
          => UNCHANGED <<pool, cache>>
    BY DEF AcquireMiss, RefillAllocate, RefillDone, ReturnFromCommit, shared
  <2> QED BY <1>1, <1>3, <1>4, <1>5, <1>6, <1>7, <1>8, <1>10, <1>11, <2>1, <2>2, <2>3
      DEF Step, CommitDone, CommitFails
<1>12. ASSUME NEW t \in Thread, NEW b \in Batch, Use(t, b) PROVE StackTypes'
  <2>1. ReleaseToCache(t, b) => CachePush(t, b) /\ pool' = pool /\ Len(cache[t]) # TLS_CAP
    BY DEF ReleaseToCache
  <2>2. ~ReleaseToCache(t, b) => UNCHANGED <<pool, cache>>
    BY <1>12 DEF Use, Put, Commit, Reset, ResetPanics, DropBatch, ReleaseFull, Give, shared
  <2> QED BY <1>2, <1>10, <2>1, <2>2
<1> QED BY <1>9, <1>10, <1>11, <1>12 DEF Next, NewPool, vars

LEMMA FrameStep == TypeOK /\ CallInv /\ [Next]_vars => FrameTypes'
<1> SUFFICES ASSUME TypeOK, CallInv, [Next]_vars PROVE FrameTypes'
  OBVIOUS
<1>0. /\ StackTypes /\ FrameTypes /\ OwnerTypes
      /\ \A t \in Thread : pc[t] \in {"refill", "hydrate", "spill"} => shard_idx[t] \in Shards
  BY TypeParts DEF CallInv
<1>n. None \notin Batch
  BY NoneAssumption
<1>1. ASSUME NEW t \in Thread, NEW b \in Batch, NEW l \in {"hydrate", "commit", "spill"},
             hand' = [hand EXCEPT ![t] = b], pc' = [pc EXCEPT ![t] = l]
      PROVE  FrameTypes'
  BY <1>0, <1>1, <1>n, LabelsAreLabels DEF FrameTypes
<1>2. ASSUME NEW t \in Thread, hand' = [hand EXCEPT ![t] = None],
             pc' = [pc EXCEPT ![t] = "idle"]
      PROVE  FrameTypes'
  BY <1>0, <1>2, LabelsAreLabels DEF FrameTypes
<1>3. CASE UNCHANGED <<hand, pc>>
  BY <1>0, <1>3 DEF FrameTypes
<1>4. ASSUME NEW t \in Thread, AcquireMiss(t) PROVE FrameTypes'
  BY <1>0, <1>4, LabelsAreLabels DEF AcquireMiss, FrameTypes
<1>5. ASSUME NEW t \in Thread, Step(t) PROVE FrameTypes'
  <2>1. CASE RefillPop(t)
    <3>1. Last(MyShard(t)) \in Batch
      BY <1>0, <2>1, ShardPopped DEF RefillPop
    <3> QED BY <1>1, <2>1, <3>1 DEF RefillPop
  <2>2. CASE RefillAllocate(t)
    BY <1>1, <2>2 DEF RefillAllocate
  <2>3. CASE RefillDone(t) \/ ReturnFromCommit(t) \/ SpillDone(t)
    BY <1>2, <2>3 DEF RefillDone, ReturnFromCommit, SpillDone
  <2>4. CASE AcquireFromTls(t) \/ Hydrate(t) \/ Spill(t) \/ SpillOverflow(t) \/ ThreadExit(t)
    BY <1>3, <2>4 DEF AcquireFromTls, Hydrate, Spill, SpillOverflow, ThreadExit
  <2> QED BY <1>4, <1>5, <2>1, <2>2, <2>3, <2>4 DEF Step, CommitDone, CommitFails
<1>6. ASSUME NEW t \in Thread, NEW b \in Batch, Use(t, b) PROVE FrameTypes'
  <2>1. CASE Commit(t, b) \/ ReleaseFull(t, b)
    BY <1>1, <2>1 DEF Commit, ReleaseFull
  <2>2. CASE ~(Commit(t, b) \/ ReleaseFull(t, b))
    BY <1>3, <1>6, <2>2 DEF Use, Put, Reset, ResetPanics, DropBatch, ReleaseToCache, Give
  <2> QED BY <2>1, <2>2
<1> QED BY <1>3, <1>5, <1>6 DEF Next, DropColumn, DropShards, NewPool, vars


LEMMA OwnerStep == TypeOK /\ CallInv /\ HandlesLive /\ [Next]_vars => OwnerTypes'
<1> SUFFICES ASSUME TypeOK, CallInv, HandlesLive, [Next]_vars PROVE OwnerTypes'
  OBVIOUS
<1>0. /\ StackTypes /\ FrameTypes /\ OwnerTypes
      /\ \A t \in Thread : pc[t] \in {"refill", "hydrate", "spill"} => shard_idx[t] \in Shards
  BY TypeParts DEF CallInv
<1>s. /\ "Idle" \in RuntimeState /\ "Acquired" \in RuntimeState
      /\ "InQueue" \in RuntimeState /\ "Applied" \in RuntimeState
  BY DEF RuntimeState
<1>1. ASSUME NEW t \in Thread, AcquireFromTls(t) PROVE OwnerTypes'
  <2>1. Last(cache[t]) \in Batch
    BY <1>1, CachePopped DEF AcquireFromTls
  <2> QED BY <1>0, <1>s, <1>1, <2>1 DEF AcquireFromTls, OwnerTypes, shared
<1>2. ASSUME NEW t \in Thread, AcquireMiss(t) \/ RefillPop(t) PROVE OwnerTypes'
  BY <1>0, <1>2 DEF AcquireMiss, RefillPop, OwnerTypes
<1>3. ASSUME NEW t \in Thread, RefillAllocate(t) PROVE OwnerTypes'
  BY <1>0, <1>s, <1>3 DEF RefillAllocate, OwnerTypes
<1>4. ASSUME NEW t \in Thread, Hydrate(t) PROVE OwnerTypes'
  <2>1. Last(MyShard(t)) \in Batch
    BY <1>0, <1>4, ShardPopped DEF Hydrate
  <2> QED BY <1>0, <1>s, <1>4, <2>1 DEF Hydrate, CachePush, OwnerTypes
<1>5. ASSUME NEW t \in Thread, RefillDone(t) \/ CommitDone(t) \/ CommitFails(t)
      PROVE  OwnerTypes'
  <2>1. hand[t] \in Batch
    BY <1>0, <1>5 DEF RefillDone, CommitDone, CommitFails, ReturnFromCommit, FrameTypes
  <2> QED BY <1>0, <1>s, <1>5, <2>1
          DEF RefillDone, CommitDone, CommitFails, ReturnFromCommit, OwnerTypes, shared
<1>6. ASSUME NEW t \in Thread, Spill(t) PROVE OwnerTypes'
  BY <1>0, <1>s, <1>6 DEF Spill, ShardPush, OwnerTypes
<1>7. ASSUME NEW t \in Thread, SpillOverflow(t) \/ ThreadExit(t) PROVE OwnerTypes'
  BY <1>0, <1>7 DEF SpillOverflow, ThreadExit, Free, OwnerTypes
<1>8. ASSUME NEW t \in Thread, SpillDone(t) PROVE OwnerTypes'
  BY <1>0, <1>s, <1>8 DEF SpillDone, CachePush, OwnerTypes, shared
<1>9. ASSUME NEW t \in Thread, NEW b \in Batch, Put(t, b) PROVE OwnerTypes'
  BY <1>0, <1>9 DEF Put, OwnerTypes, HandlesLive
<1>10. ASSUME NEW t \in Thread, NEW b \in Batch, Commit(t, b) \/ Reset(t, b) PROVE OwnerTypes'
  BY <1>0, <1>s, <1>10 DEF Commit, Reset, OwnerTypes, HandlesLive, shared
<1>11. ASSUME NEW t \in Thread, NEW b \in Batch, DropBatch(t, b) \/ ResetPanics(t, b)
       PROVE  OwnerTypes'
  BY <1>0, <1>11 DEF DropBatch, ResetPanics, Free, OwnerTypes
<1>12. ASSUME NEW t \in Thread, NEW b \in Batch, ReleaseToCache(t, b) \/ ReleaseFull(t, b)
       PROVE  OwnerTypes'
  <2>1. big' \subseteq big
    BY <1>12 DEF ReleaseToCache, ReleaseFull, AfterShrink
  <2> QED BY <1>0, <1>s, <1>12, <2>1 DEF ReleaseToCache, ReleaseFull, CachePush, OwnerTypes
<1>13. ASSUME NEW t \in Thread, NEW b \in Batch, NEW u \in Thread, Give(t, u, b)
       PROVE  OwnerTypes'
  BY <1>0, <1>13 DEF Give, OwnerTypes, shared
<1>14. CASE DropColumn \/ DropShards \/ NewPool
  BY <1>0, <1>14 DEF DropColumn, DropShards, NewPool, Free, OwnerTypes
<1>15. CASE UNCHANGED vars
  BY <1>0, <1>15 DEF vars, OwnerTypes
<1> QED BY <1>1, <1>2, <1>3, <1>4, <1>5, <1>6, <1>7, <1>8, <1>9, <1>10, <1>11, <1>12, <1>13,
           <1>14, <1>15
        DEF Next, Step, Use

LEMMA ShardStep == TypeOK /\ [Next]_vars => ShardTypes'
<1> SUFFICES ASSUME TypeOK, [Next]_vars PROVE ShardTypes'
  OBVIOUS
<1>0. ShardTypes
  BY TypeParts
<1>1. ASSUME NEW t \in Thread, ShardIdxForCache(t), life' = life PROVE ShardTypes'
  BY <1>0, <1>1, NextShardInRange DEF ShardIdxForCache, ShardTypes
<1>2. ASSUME NEW t \in Thread, ThreadExit(t) PROVE ShardTypes'
  BY <1>0, <1>2 DEF ThreadExit, ShardTypes
<1>3. CASE DropColumn \/ DropShards \/ NewPool
  <2>1. 0 \in Shards
    BY CapAssumption DEF Shards
  <2>2. CASE DropColumn
    BY <1>0, <2>2 DEF DropColumn, ShardTypes
  <2>3. CASE DropShards \/ NewPool
    BY <1>0, <2>1, <2>3 DEF DropShards, NewPool, ShardTypes
  <2> QED BY <1>3, <2>2, <2>3
<1>4. CASE UNCHANGED <<life, next_shard, shard_idx>>
  BY <1>0, <1>4 DEF ShardTypes
<1>5. ASSUME NEW t \in Thread, Step(t) PROVE ShardTypes'
  BY <1>1, <1>2, <1>4, <1>5 DEF Step, AcquireFromTls, AcquireMiss, RefillPop, RefillAllocate,
     Hydrate, RefillDone, CommitDone, CommitFails, ReturnFromCommit, Spill, SpillOverflow,
     SpillDone, shared
<1>6. ASSUME NEW t \in Thread, NEW b \in Batch, Use(t, b) PROVE ShardTypes'
  BY <1>1, <1>4, <1>6 DEF Use, Put, Commit, Reset, ResetPanics, DropBatch, ReleaseToCache,
     ReleaseFull, Give, shared
<1> QED BY <1>3, <1>4, <1>5, <1>6 DEF Next, vars

LEMMA CallStep == TypeOK /\ CallInv /\ [Next]_vars => CallInv'
<1> SUFFICES ASSUME TypeOK, CallInv, [Next]_vars PROVE CallInv'
  OBVIOUS
<1>0. StackTypes /\ FrameTypes /\ ShardTypes
  BY TypeParts
<1> USE CapAssumption
<1>1. ASSUME NEW t \in Thread, Step(t) PROVE CallInv'
  <2>1. CASE AcquireMiss(t)
    BY <1>0, <2>1, NoneAssumption DEF AcquireMiss, ShardIdxForCache, CallInv, FrameTypes, ShardTypes
  <2>2. CASE AcquireFromTls(t)
    <3>1. Popped(cache, cache', Thread, t)
      BY <2>2, CachePopped DEF AcquireFromTls
    <3> QED BY <1>0, <2>2, <3>1 DEF AcquireFromTls, CallInv, Popped
  <2>3. CASE Hydrate(t)
    <3>1. \A u \in Thread : u # t => cache'[u] = cache[u]
      BY <1>0, <2>3 DEF Hydrate, CachePush, StackTypes
    <3> QED BY <1>0, <2>3, <3>1 DEF Hydrate, CallInv
  <2>4. CASE Spill(t) \/ SpillOverflow(t)
    <3>1. cache[t] # <<>> /\ CachePop(t) /\ Len(cache[t]) >= TARGET
      BY <1>0, <2>4 DEF Spill, SpillOverflow, SpillMore, StackTypes
    <3>2. Popped(cache, cache', Thread, t)
      BY <3>1, CachePopped
    <3>3. UNCHANGED <<pc, shard_idx>>
      BY <2>4 DEF Spill, SpillOverflow
    <3> QED BY <1>0, <3>1, <3>2, <3>3 DEF CallInv, Popped
  <2>5. CASE SpillDone(t)
    <3>1. \A u \in Thread : u # t => cache'[u] = cache[u]
      BY <1>0, <2>5 DEF SpillDone, CachePush, StackTypes
    <3> QED BY <1>0, <2>5, <3>1 DEF SpillDone, CallInv, FrameTypes
  <2>6. CASE ThreadExit(t)
    BY <1>0, <2>6 DEF ThreadExit, CallInv, StackTypes, ShardTypes
  <2>7. CASE RefillPop(t) \/ RefillAllocate(t) \/ RefillDone(t) \/ ReturnFromCommit(t)
    BY <1>0, <2>7 DEF RefillPop, RefillAllocate, RefillDone, ReturnFromCommit, CallInv, FrameTypes
  <2> QED BY <1>1, <2>1, <2>2, <2>3, <2>4, <2>5, <2>6, <2>7 DEF Step, CommitDone, CommitFails
<1>2. ASSUME NEW t \in Thread, NEW b \in Batch, Use(t, b) PROVE CallInv'
  <2>1. CASE ReleaseToCache(t, b)
    <3>1. \A u \in Thread : u # t => cache'[u] = cache[u]
      BY <1>0, <2>1 DEF ReleaseToCache, CachePush, StackTypes
    <3> QED BY <1>0, <2>1, <3>1 DEF ReleaseToCache, CallInv
  <2>2. CASE ReleaseFull(t, b)
    <3>1. Len(cache[t]) >= TARGET - 1 /\ cache' = cache
      BY <2>2 DEF ReleaseFull
    <3>2. /\ shard_idx' \in [Thread -> Shards \cup {None}] /\ shard_idx'[t] \in Shards
          /\ \A u \in Thread : u # t => shard_idx'[u] = shard_idx[u]
      BY <1>0, <2>2, NoneAssumption, ZenonT(30) DEF ReleaseFull, ShardIdxForCache, ShardTypes
    <3>3. \A u \in Thread : u # t => pc'[u] = pc[u]
      BY <1>0, <2>2 DEF ReleaseFull, FrameTypes
    <3> QED BY <3>1, <3>2, <3>3 DEF CallInv
  <2>3. CASE Commit(t, b)
    BY <1>0, <2>3 DEF Commit, CallInv, FrameTypes
  <2>4. CASE \/ Put(t, b) \/ Reset(t, b) \/ ResetPanics(t, b) \/ DropBatch(t, b)
             \/ \E u \in Thread : Give(t, u, b)
    BY <2>4 DEF Put, Reset, ResetPanics, DropBatch, Give, CallInv
  <2> QED BY <1>2, <2>1, <2>2, <2>3, <2>4 DEF Use
<1>3. CASE DropColumn
  BY <1>3 DEF DropColumn, CallInv
<1>4. CASE DropShards \/ NewPool \/ UNCHANGED vars
  BY <1>4 DEF DropShards, NewPool, vars, CallInv
<1> QED BY <1>1, <1>2, <1>3, <1>4 DEF Next

LEMMA LifeStep == TypeOK /\ CallInv /\ LifeInv /\ [Next]_vars => LifeInv'
<1> SUFFICES ASSUME TypeOK, CallInv, LifeInv, [Next]_vars PROVE LifeInv'
  OBVIOUS
<1>1. ASSUME NEW t \in Thread, Step(t) PROVE LifeInv'
  <2>1. life = "open" /\ life' = life
    BY <1>1 DEF LifeInv, Step, AcquireFromTls, AcquireMiss, RefillPop, RefillAllocate, Hydrate,
       RefillDone, CommitDone, CommitFails, ReturnFromCommit, Spill, SpillOverflow, SpillDone,
       ThreadExit, shared
  <2> QED BY <2>1 DEF LifeInv
<1>2. ASSUME NEW t \in Thread, NEW b \in Batch, Use(t, b) PROVE LifeInv'
  <2>1. life = "open" /\ life' = life
    BY <1>2 DEF LifeInv, Use, Put, Commit, Reset, ResetPanics, DropBatch, ReleaseToCache,
       ReleaseFull, Give, shared
  <2> QED BY <2>1 DEF LifeInv
<1>3. CASE DropColumn
  BY <1>3 DEF DropColumn, LifeInv
<1>4. CASE DropShards
  BY <1>4 DEF DropShards, LifeInv
<1>5. CASE NewPool \/ UNCHANGED vars
  BY <1>5 DEF NewPool, vars, LifeInv
<1> QED BY <1>1, <1>2, <1>3, <1>4, <1>5 DEF Next


(***************************************************************************)
(* Every live allocation has one place.                                    *)
(***************************************************************************)
\* Entry i of stack k holds b.
Entry(f, k, i, b) == i \in 1 .. Len(f[k]) /\ f[k][i] = b

\* The entry a push on stack k fills.
Above(f, k) == Len(f[k]) + 1

LEMMA PoppedEntries ==
  ASSUME NEW I, NEW S, NEW f \in [I -> Seq(S)], NEW g \in [I -> Seq(S)], NEW i \in I,
         Popped(f, g, I, i)
  PROVE  \A k \in I : \A j, b :
           Entry(g, k, j, b) <=> Entry(f, k, j, b) /\ ~(k = i /\ j = Len(f[i]))
<1> SUFFICES ASSUME NEW k \in I, NEW j, NEW b
             PROVE  Entry(g, k, j, b) <=> Entry(f, k, j, b) /\ ~(k = i /\ j = Len(f[i]))
  OBVIOUS
<1>1. CASE k = i
  <2>1. Len(f[i]) \in Nat \ {0} /\ Len(g[i]) = Len(f[i]) - 1
    BY DEF Popped
  <2>2. j \in 1 .. Len(g[i]) <=> j \in 1 .. Len(f[i]) /\ j # Len(f[i])
    BY <2>1
  <2>3. j \in 1 .. Len(g[i]) => g[i][j] = f[i][j]
    BY <2>1 DEF Popped
  <2> QED BY <1>1, <2>2, <2>3 DEF Entry
<1>2. CASE k # i
  BY <1>2 DEF Popped, Entry
<1> QED BY <1>1, <1>2

\* The entries of g are those of f and x above the stack i.
EntryAdded(f, g, I, i, x) ==
  \A k \in I : \A j, b :
    Entry(g, k, j, b) <=> Entry(f, k, j, b) \/ (k = i /\ j = Above(f, i) /\ b = x)

LEMMA PushedEntries ==
  ASSUME NEW I, NEW S, NEW f \in [I -> Seq(S)], NEW g \in [I -> Seq(S)], NEW i \in I,
         NEW x \in S, Pushed(f, g, I, i, x)
  PROVE  EntryAdded(f, g, I, i, x)
<1> SUFFICES ASSUME NEW k \in I, NEW j, NEW b
             PROVE  Entry(g, k, j, b)
                      <=> Entry(f, k, j, b) \/ (k = i /\ j = Above(f, i) /\ b = x)
  BY DEF EntryAdded
<1>1. CASE k = i
  <2>1. Len(f[i]) \in Nat /\ Len(g[i]) = Len(f[i]) + 1 /\ g[i][Len(f[i]) + 1] = x
    BY DEF Pushed
  <2>2. j \in 1 .. Len(g[i]) <=> j \in 1 .. Len(f[i]) \/ j = Len(f[i]) + 1
    BY <2>1
  <2>3. /\ j \in 1 .. Len(f[i]) => g[i][j] = f[i][j]
        /\ ~(j \in 1 .. Len(f[i]) /\ j = Len(f[i]) + 1)
    BY <2>1 DEF Pushed
  <2> QED BY <1>1, <2>1, <2>2, <2>3 DEF Entry, Above
<1>2. CASE k # i
  BY <1>2 DEF Pushed, Entry
<1> QED BY <1>1, <1>2

Handle(t) == <<"handle", t>>
Frame(t) == <<"frame", t>>
CacheSlot(t, i) == <<"cache", t, i>>
ShardSlot(k, i) == <<"shard", k, i>>

LEMMA PlacesDiffer ==
  /\ \A t, u : Handle(t) = Handle(u) => t = u
  /\ \A t, u : Frame(t) = Frame(u) => t = u
  /\ \A t, u, i, j : CacheSlot(t, i) = CacheSlot(u, j) => t = u /\ i = j
  /\ \A k, l, i, j : ShardSlot(k, i) = ShardSlot(l, j) => k = l /\ i = j
  /\ \A t, u : Handle(t) # Frame(u)
  /\ \A t, u, i : Handle(t) # CacheSlot(u, i) /\ Frame(t) # CacheSlot(u, i)
  /\ \A t, u, i : Handle(t) # ShardSlot(u, i) /\ Frame(t) # ShardSlot(u, i)
  /\ \A t, u, i, j : CacheSlot(t, i) # ShardSlot(u, j)
BY DEF Handle, Frame, CacheSlot, ShardSlot

\* Batch b is at place p.
IsAt(b, p) ==
  \/ \E t \in Thread : p = Handle(t) /\ b \in held[t]
  \/ \E t \in Thread : p = Frame(t) /\ hand[t] = b
  \/ \E t \in Thread : \E i : p = CacheSlot(t, i) /\ Entry(cache, t, i, b)
  \/ \E k \in Shards : \E i : p = ShardSlot(k, i) /\ Entry(pool, k, i, b)

\* The runtime states that go with a place: a caller's batch is not idle, the
\* pool's batches are, and a call in progress does as it likes.
Fits(x, p) ==
  /\ \A t : p = Handle(t) => x # "Idle"
  /\ \A t, i : p = CacheSlot(t, i) \/ p = ShardSlot(t, i) => x = "Idle"

LEMMA FittingStates ==
  /\ \A t : /\ Fits("Acquired", Handle(t)) /\ Fits("Applied", Handle(t))
            /\ Fits("InQueue", Handle(t))
  /\ \A t, x : Fits(x, Frame(t))
  /\ \A t, i : Fits("Idle", CacheSlot(t, i)) /\ Fits("Idle", ShardSlot(t, i))
BY PlacesDiffer DEF Fits

\* A batch is in at most one place, in one exactly while it is live, and in a
\* state that goes with it.
OwnInv ==
  \A b \in Batch : /\ \A p, q : IsAt(b, p) /\ IsAt(b, q) => p = q
                   /\ b \in live <=> \E p : IsAt(b, p)
                   /\ \A p : IsAt(b, p) => Fits(state[b], p)

\* What the commit queue refers to is InQueue, and is with a commit in progress
\* or with an owner whose commit failed.
QueueInv ==
  /\ \A b \in queued : state[b] = "InQueue"
  /\ \A t \in Thread : \A b \in held[t] : state[b] = "InQueue" => b \in queued
  /\ \A t \in Thread : hand[t] \in queued <=> pc[t] = "commit"

\* What a step may do to the places: move one batch, free some, or allocate one.
Moved(m, from, to) ==
  /\ IsAt(m, from) /\ live' = live
  /\ \A b \in Batch : \A p :
       IsAt(b, p)' <=> (IsAt(b, p) /\ ~(b = m /\ p = from)) \/ (b = m /\ p = to)

Freed(S) ==
  /\ live' = live \ S
  /\ \A b \in Batch : \A p : IsAt(b, p)' <=> IsAt(b, p) /\ b \notin S

Allocated(m, to) ==
  /\ m \notin live /\ live' = live \cup {m}
  /\ \A b \in Batch : \A p : IsAt(b, p)' <=> IsAt(b, p) \/ (b = m /\ p = to)

\* Only the state of m changes, to one that goes with its new place.
Relabelled(m, to) ==
  /\ \A b \in Batch : b # m => state'[b] = state[b]
  /\ Fits(state'[m], to)

LEMMA MoveKeepsOwner ==
  ASSUME OwnInv, NEW m \in Batch, NEW from, NEW to, Moved(m, from, to), Relabelled(m, to)
  PROVE  OwnInv'
BY DEF OwnInv, Moved, Relabelled

LEMMA FreeKeepsOwner ==
  ASSUME OwnInv, NEW S, Freed(S), state' = state
  PROVE  OwnInv'
BY DEF OwnInv, Freed

LEMMA AllocationHasOwner ==
  ASSUME OwnInv, NEW m \in Batch, NEW to, Allocated(m, to), Relabelled(m, to)
  PROVE  OwnInv'
BY DEF OwnInv, Allocated, Relabelled

LEMMA StillAt ==
  ASSUME UNCHANGED <<held, hand, cache, pool>>
  PROVE  \A b, p : IsAt(b, p)' <=> IsAt(b, p)
BY DEF IsAt, Entry

\* The effect of the four moves on the entries of the caches and shards.
LEMMA CachePushEntries ==
  ASSUME TypeOK, NEW t \in Thread, NEW m \in Batch, CachePush(t, m)
  PROVE  \A u \in Thread : \A j, b :
           Entry(cache', u, j, b)
             <=> Entry(cache, u, j, b) \/ (u = t /\ j = Above(cache, t) /\ b = m)
<1>1. cache \in [Thread -> Seq(Batch)]
  BY DEF TypeOK
<1>2. cache' \in [Thread -> Seq(Batch)] /\ Pushed(cache, cache', Thread, t, m)
  BY CachePushed
<1>3. EntryAdded(cache, cache', Thread, t, m)
  BY <1>1, <1>2, PushedEntries
<1> QED BY <1>3 DEF EntryAdded

LEMMA CachePopEntries ==
  ASSUME TypeOK, NEW t \in Thread, cache[t] # <<>>, CachePop(t)
  PROVE  /\ \A u \in Thread : \A j, b :
              Entry(cache', u, j, b)
                <=> Entry(cache, u, j, b) /\ ~(u = t /\ j = Len(cache[t]))
         /\ \A b : Entry(cache, t, Len(cache[t]), b) <=> b = Last(cache[t])
<1>1. \A u \in Thread : \A j, b :
        Entry(cache', u, j, b) <=> Entry(cache, u, j, b) /\ ~(u = t /\ j = Len(cache[t]))
  <2>1. cache \in [Thread -> Seq(Batch)]
    BY DEF TypeOK
  <2>2. cache' \in [Thread -> Seq(Batch)] /\ Popped(cache, cache', Thread, t)
    BY CachePopped
  <2> QED BY <2>1, <2>2, PoppedEntries
<1>2. Len(cache[t]) \in 1 .. Len(cache[t]) /\ Last(cache[t]) = cache[t][Len(cache[t])]
  BY CachePopped DEF Popped
<1> QED BY <1>1, <1>2 DEF Entry

LEMMA ShardPushEntries ==
  ASSUME TypeOK, NEW t \in Thread, shard_idx[t] \in Shards, NEW m \in Batch, ShardPush(t, m)
  PROVE  \A k \in Shards : \A j, b :
           Entry(pool', k, j, b)
             <=> Entry(pool, k, j, b)
                   \/ (k = shard_idx[t] /\ j = Above(pool, shard_idx[t]) /\ b = m)
<1>1. pool \in [Shards -> Seq(Batch)]
  BY DEF TypeOK
<1>2. pool' \in [Shards -> Seq(Batch)] /\ Pushed(pool, pool', Shards, shard_idx[t], m)
  BY ShardPushed
<1>3. EntryAdded(pool, pool', Shards, shard_idx[t], m)
  BY <1>1, <1>2, PushedEntries
<1> QED BY <1>3 DEF EntryAdded

LEMMA ShardPopEntries ==
  ASSUME TypeOK, NEW t \in Thread, shard_idx[t] \in Shards, MyShard(t) # <<>>, ShardPop(t)
  PROVE  /\ \A k \in Shards : \A j, b :
              Entry(pool', k, j, b)
                <=> Entry(pool, k, j, b) /\ ~(k = shard_idx[t] /\ j = Len(MyShard(t)))
         /\ \A b : Entry(pool, shard_idx[t], Len(MyShard(t)), b) <=> b = Last(MyShard(t))
<1>1. \A k \in Shards : \A j, b :
        Entry(pool', k, j, b)
          <=> Entry(pool, k, j, b) /\ ~(k = shard_idx[t] /\ j = Len(MyShard(t)))
  <2>1. pool \in [Shards -> Seq(Batch)]
    BY DEF TypeOK
  <2>2. pool' \in [Shards -> Seq(Batch)] /\ Popped(pool, pool', Shards, shard_idx[t])
    BY ShardPopped
  <2> QED BY <2>1, <2>2, PoppedEntries DEF MyShard
<1>2. /\ Len(pool[shard_idx[t]]) \in 1 .. Len(pool[shard_idx[t]])
      /\ Last(MyShard(t)) = pool[shard_idx[t]][Len(pool[shard_idx[t]])]
  BY ShardPopped DEF Popped
<1> QED BY <1>1, <1>2 DEF Entry, MyShard

LEMMA OwnStep == TypeOK /\ CallInv /\ OwnInv /\ QueueInv /\ [Next]_vars => OwnInv'
<1> SUFFICES ASSUME TypeOK, CallInv, OwnInv, QueueInv, [Next]_vars PROVE OwnInv'
  OBVIOUS
<1>0. /\ StackTypes /\ FrameTypes /\ OwnerTypes /\ None \notin Batch
      /\ \A t \in Thread : pc[t] \in {"refill", "hydrate", "spill"} => shard_idx[t] \in Shards
  BY TypeParts, NoneAssumption DEF CallInv
<1>f. \A t \in Thread : pc[t] \in {"hydrate", "commit", "spill"} => hand[t] \in Batch
  BY <1>0 DEF FrameTypes
<1>h. \A t \in Thread, b \in Batch : pc[t] \in {"idle", "refill"} => hand[t] # b
  BY <1>0 DEF FrameTypes
<1> USE PlacesDiffer, FittingStates
<1>1. ASSUME NEW t \in Thread, AcquireFromTls(t) PROVE OwnInv'
  <2> DEFINE m == Last(cache[t])  n == Len(cache[t])
  <2>1. /\ cache[t] # <<>> /\ CachePop(t)
        /\ held' = [held EXCEPT ![t] = @ \cup {m}] /\ UNCHANGED <<pool, hand, live>>
    BY <1>1 DEF AcquireFromTls, shared
  <2>2. /\ m \in Batch
        /\ \A u \in Thread : \A j, b :
             Entry(cache', u, j, b) <=> Entry(cache, u, j, b) /\ ~(u = t /\ j = n)
        /\ \A b : Entry(cache, t, n, b) <=> b = m
    BY <2>1, CachePopped, CachePopEntries
  <2>3. \A u \in Thread, b \in Batch : b \in held'[u] <=> b \in held[u] \/ (u = t /\ b = m)
    BY <1>0, <2>1, <2>2 DEF OwnerTypes
  <2>r. Relabelled(m, Handle(t))
    BY <1>0, <1>1, <2>1, <2>2 DEF AcquireFromTls, Relabelled, OwnerTypes, shared
  <2> HIDE DEF m, n
  <2>4. Moved(m, CacheSlot(t, n), Handle(t))
    BY <2>1, <2>2, <2>3 DEF Moved, IsAt
  <2> QED BY <2>2, <2>4, <2>r, MoveKeepsOwner
<1>2. ASSUME NEW t \in Thread, RefillPop(t) PROVE OwnInv'
  <2> DEFINE m == Last(MyShard(t))  n == Len(MyShard(t))  k == shard_idx[t]
  <2>1. /\ k \in Shards /\ MyShard(t) # <<>> /\ ShardPop(t) /\ pc[t] = "refill"
        /\ hand' = [hand EXCEPT ![t] = m] /\ UNCHANGED <<held, cache, live>>
    BY <1>0, <1>2 DEF RefillPop
  <2>2. /\ m \in Batch
        /\ \A l \in Shards : \A j, b :
             Entry(pool', l, j, b) <=> Entry(pool, l, j, b) /\ ~(l = k /\ j = n)
        /\ \A b : Entry(pool, k, n, b) <=> b = m
    BY <2>1, ShardPopped, ShardPopEntries
  <2>3. \A u \in Thread, b \in Batch : hand'[u] = b <=> hand[u] = b \/ (u = t /\ b = m)
    BY <1>0, <1>h, <2>1, <2>2 DEF FrameTypes
  <2>4. k \in Shards
    BY <2>1
  <2>r. Relabelled(m, Frame(t))
    BY <1>0, <1>2, <2>1, <2>2 DEF RefillPop, Relabelled, OwnerTypes, shared
  <2> HIDE DEF m, n, k
  <2>5. Moved(m, ShardSlot(k, n), Frame(t))
    BY <2>1, <2>2, <2>3, <2>4 DEF Moved, IsAt
  <2> QED BY <2>2, <2>5, <2>r, MoveKeepsOwner
<1>3. ASSUME NEW t \in Thread, RefillAllocate(t) PROVE OwnInv'
  <2>1. PICK m \in Batch \ live : /\ hand' = [hand EXCEPT ![t] = m]
                                  /\ live' = live \cup {m}
                                  /\ state' = [state EXCEPT ![m] = "Acquired"]
    BY <1>3 DEF RefillAllocate
  <2>2. pc[t] = "refill" /\ UNCHANGED <<held, cache, pool>>
    BY <1>3 DEF RefillAllocate
  <2>3. \A u \in Thread, b \in Batch : hand'[u] = b <=> hand[u] = b \/ (u = t /\ b = m)
    BY <1>0, <1>h, <2>1, <2>2 DEF FrameTypes
  <2>4. Allocated(m, Frame(t))
    BY <2>1, <2>2, <2>3 DEF Allocated, IsAt
  <2>r. Relabelled(m, Frame(t))
    BY <1>0, <2>1 DEF Relabelled, OwnerTypes
  <2> QED BY <2>4, <2>r, AllocationHasOwner
<1>4. ASSUME NEW t \in Thread, Hydrate(t) PROVE OwnInv'
  <2> DEFINE m == Last(MyShard(t))  n == Len(MyShard(t))  k == shard_idx[t]
             l == Above(cache, t)
  <2>1. /\ k \in Shards /\ MyShard(t) # <<>> /\ ShardPop(t) /\ CachePush(t, m)
        /\ UNCHANGED <<held, hand, live>>
    BY <1>0, <1>4 DEF Hydrate
  <2>2. /\ m \in Batch
        /\ \A s \in Shards : \A j, b :
             Entry(pool', s, j, b) <=> Entry(pool, s, j, b) /\ ~(s = k /\ j = n)
        /\ \A b : Entry(pool, k, n, b) <=> b = m
    BY <2>1, ShardPopped, ShardPopEntries
  <2>3. \A u \in Thread : \A j, b :
          Entry(cache', u, j, b) <=> Entry(cache, u, j, b) \/ (u = t /\ j = l /\ b = m)
    BY <2>1, <2>2, CachePushEntries
  <2>4. k \in Shards
    BY <2>1
  <2>r. Relabelled(m, CacheSlot(t, l))
    BY <1>0, <1>4, <2>1, <2>2 DEF Hydrate, CachePush, Relabelled, OwnerTypes, shared
  <2> HIDE DEF m, n, k, l
  <2>5. Moved(m, ShardSlot(k, n), CacheSlot(t, l))
    BY <2>1, <2>2, <2>3, <2>4 DEF Moved, IsAt
  <2> QED BY <2>2, <2>5, <2>r, MoveKeepsOwner
<1>5. ASSUME NEW t \in Thread, RefillDone(t) \/ CommitDone(t) \/ CommitFails(t)
      PROVE  OwnInv'
  <2>1. /\ hand[t] \in Batch /\ held' = [held EXCEPT ![t] = @ \cup {hand[t]}]
        /\ hand' = [hand EXCEPT ![t] = None] /\ UNCHANGED <<cache, pool, live>>
    BY <1>f, <1>5 DEF RefillDone, CommitDone, CommitFails, ReturnFromCommit, shared
  <2>2. \A u \in Thread, b \in Batch :
          /\ b \in held'[u] <=> b \in held[u] \/ (u = t /\ b = hand[t])
          /\ hand'[u] = b <=> hand[u] = b /\ u # t
    BY <1>0, <2>1 DEF FrameTypes, OwnerTypes
  <2>3. Moved(hand[t], Frame(t), Handle(t))
    BY <2>1, <2>2 DEF Moved, IsAt
  <2>r. Relabelled(hand[t], Handle(t))
    <3>1. CASE RefillDone(t) \/ CommitDone(t)
      BY <1>0, <2>1, <3>1 DEF RefillDone, CommitDone, Relabelled, OwnerTypes
    <3>2. CASE CommitFails(t)
      <4>1. state' = state /\ state[hand[t]] = "InQueue"
        BY <3>2 DEF CommitFails, ReturnFromCommit, QueueInv
      <4> QED BY <4>1 DEF Relabelled
    <3> QED BY <1>5, <3>1, <3>2
  <2> QED BY <2>1, <2>3, <2>r, MoveKeepsOwner
<1>6. ASSUME NEW t \in Thread, Spill(t) PROVE OwnInv'
  <2> DEFINE m == Last(cache[t])  n == Len(cache[t])  k == shard_idx[t]
             l == Above(pool, k)
  <2>1. /\ k \in Shards /\ cache[t] # <<>> /\ CachePop(t) /\ ShardPush(t, m)
        /\ UNCHANGED <<held, hand, live>>
    BY <1>0, <1>6, CapAssumption DEF Spill, SpillMore, StackTypes
  <2>2. /\ m \in Batch
        /\ \A u \in Thread : \A j, b :
             Entry(cache', u, j, b) <=> Entry(cache, u, j, b) /\ ~(u = t /\ j = n)
        /\ \A b : Entry(cache, t, n, b) <=> b = m
    BY <2>1, CachePopped, CachePopEntries
  <2>3. \A s \in Shards : \A j, b :
          Entry(pool', s, j, b) <=> Entry(pool, s, j, b) \/ (s = k /\ j = l /\ b = m)
    BY <2>1, <2>2, ShardPushEntries
  <2>4. k \in Shards
    BY <2>1
  <2>r. Relabelled(m, ShardSlot(k, l))
    BY <1>0, <1>6, <2>1, <2>2 DEF Spill, ShardPush, Relabelled, OwnerTypes, shared
  <2> HIDE DEF m, n, k, l
  <2>5. Moved(m, CacheSlot(t, n), ShardSlot(k, l))
    BY <2>1, <2>2, <2>3, <2>4 DEF Moved, IsAt
  <2> QED BY <2>2, <2>5, <2>r, MoveKeepsOwner
<1>7. ASSUME NEW t \in Thread, SpillOverflow(t) PROVE OwnInv'
  <2> DEFINE m == Last(cache[t])  n == Len(cache[t])
  <2>1. /\ cache[t] # <<>> /\ CachePop(t) /\ live' = live \ {m}
        /\ UNCHANGED <<held, hand, pool, state>>
    BY <1>0, <1>7, CapAssumption DEF SpillOverflow, SpillMore, StackTypes, Free
  <2>2. /\ m \in Batch
        /\ \A u \in Thread : \A j, b :
             Entry(cache', u, j, b) <=> Entry(cache, u, j, b) /\ ~(u = t /\ j = n)
        /\ \A b : Entry(cache, t, n, b) <=> b = m
    BY <2>1, CachePopped, CachePopEntries
  <2> HIDE DEF m, n
  <2>3. \A b \in Batch : \A p : IsAt(b, p)' <=> IsAt(b, p) /\ ~(b = m /\ p = CacheSlot(t, n))
    BY <2>1, <2>2 DEF IsAt
  <2>4. \A p : IsAt(m, p) => p = CacheSlot(t, n)
    <3>1. IsAt(m, CacheSlot(t, n))
      BY <2>2 DEF IsAt
    <3> QED BY <2>2, <3>1 DEF OwnInv
  <2>5. Freed({m})
    BY <2>1, <2>3, <2>4 DEF Freed
  <2> QED BY <2>1, <2>5, FreeKeepsOwner
<1>8. ASSUME NEW t \in Thread, SpillDone(t) PROVE OwnInv'
  <2> DEFINE l == Above(cache, t)
  <2>1. /\ hand[t] \in Batch /\ CachePush(t, hand[t])
        /\ hand' = [hand EXCEPT ![t] = None] /\ UNCHANGED <<held, pool, live>>
    BY <1>f, <1>8 DEF SpillDone, shared
  <2>2. \A u \in Thread : \A j, b :
          Entry(cache', u, j, b) <=> Entry(cache, u, j, b) \/ (u = t /\ j = l /\ b = hand[t])
    BY <2>1, CachePushEntries
  <2>3. \A u \in Thread, b \in Batch : hand'[u] = b <=> hand[u] = b /\ u # t
    BY <1>0, <2>1 DEF FrameTypes
  <2>r. Relabelled(hand[t], CacheSlot(t, l))
    BY <1>0, <1>8, <2>1, <2>2 DEF SpillDone, CachePush, Relabelled, OwnerTypes, shared
  <2> HIDE DEF l
  <2>4. Moved(hand[t], Frame(t), CacheSlot(t, l))
    BY <2>1, <2>2, <2>3 DEF Moved, IsAt
  <2> QED BY <2>1, <2>4, <2>r, MoveKeepsOwner
<1>9. ASSUME NEW t \in Thread, ThreadExit(t) PROVE OwnInv'
  <2>1. /\ live' = live \ ToSet(cache[t]) /\ cache' = [cache EXCEPT ![t] = <<>>]
        /\ UNCHANGED <<held, hand, pool, state>>
    BY <1>9 DEF ThreadExit, Free
  <2>2. \A u \in Thread : \A j, b : Entry(cache', u, j, b) <=> Entry(cache, u, j, b) /\ u # t
    BY <1>0, <2>1 DEF Entry, StackTypes
  <2>3. \A b : b \in ToSet(cache[t]) <=> \E j : Entry(cache, t, j, b)
    BY <1>0 DEF ToSet, Entry, StackTypes
  <2>4. \A b \in Batch : \A p :
          IsAt(b, p)' <=> IsAt(b, p) /\ ~(\E j : p = CacheSlot(t, j) /\ Entry(cache, t, j, b))
    <3>1. UNCHANGED <<held, hand, pool>>
      BY <2>1
    <3> QED BY <2>2, <3>1 DEF IsAt
  <2>5. \A b \in Batch : \A p : b \in ToSet(cache[t]) /\ IsAt(b, p) =>
          \E j : p = CacheSlot(t, j) /\ Entry(cache, t, j, b)
    <3> SUFFICES ASSUME NEW b \in Batch, NEW p, b \in ToSet(cache[t]), IsAt(b, p)
                 PROVE  \E j : p = CacheSlot(t, j) /\ Entry(cache, t, j, b)
      OBVIOUS
    <3>1. PICK j : Entry(cache, t, j, b)
      BY <2>3
    <3>2. IsAt(b, CacheSlot(t, j))
      BY <3>1 DEF IsAt
    <3> QED BY <3>1, <3>2 DEF OwnInv
  <2>6. Freed(ToSet(cache[t]))
    BY <2>1, <2>3, <2>4, <2>5 DEF Freed
  <2> QED BY <2>1, <2>6, FreeKeepsOwner
<1>10. ASSUME NEW t \in Thread, NEW b \in Batch, Commit(t, b) \/ ReleaseFull(t, b) PROVE OwnInv'
  <2>1. /\ pc[t] = "idle" /\ b \in held[t] /\ held' = [held EXCEPT ![t] = @ \ {b}]
        /\ hand' = [hand EXCEPT ![t] = b] /\ UNCHANGED <<cache, pool, live>>
    BY <1>10 DEF Commit, ReleaseFull, shared
  <2>2. \A u \in Thread, c \in Batch :
          /\ c \in held'[u] <=> c \in held[u] /\ ~(u = t /\ c = b)
          /\ hand'[u] = c <=> hand[u] = c \/ (u = t /\ c = b)
    BY <1>0, <1>h, <2>1 DEF FrameTypes, OwnerTypes
  <2>3. Moved(b, Handle(t), Frame(t))
    BY <2>1, <2>2 DEF Moved, IsAt
  <2>r. Relabelled(b, Frame(t))
    BY <1>0, <1>10, <2>1, <2>2 DEF Commit, ReleaseFull, Relabelled, OwnerTypes, shared
  <2> QED BY <2>3, <2>r, MoveKeepsOwner
<1>11. ASSUME NEW t \in Thread, NEW b \in Batch, ReleaseToCache(t, b) PROVE OwnInv'
  <2> DEFINE l == Above(cache, t)
  <2>1. /\ b \in held[t] /\ held' = [held EXCEPT ![t] = @ \ {b}]
        /\ CachePush(t, b) /\ UNCHANGED <<hand, pool, live>>
    BY <1>11 DEF ReleaseToCache
  <2>2. \A u \in Thread : \A j, c :
          Entry(cache', u, j, c) <=> Entry(cache, u, j, c) \/ (u = t /\ j = l /\ c = b)
    BY <2>1, CachePushEntries
  <2>3. \A u \in Thread, c \in Batch : c \in held'[u] <=> c \in held[u] /\ ~(u = t /\ c = b)
    BY <1>0, <2>1 DEF OwnerTypes
  <2>r. Relabelled(b, CacheSlot(t, l))
    BY <1>0, <1>11, <2>1, <2>2 DEF ReleaseToCache, CachePush, Relabelled, OwnerTypes, shared
  <2> HIDE DEF l
  <2>4. Moved(b, Handle(t), CacheSlot(t, l))
    BY <2>1, <2>2, <2>3 DEF Moved, IsAt
  <2> QED BY <2>4, <2>r, MoveKeepsOwner
<1>12. ASSUME NEW t \in Thread, NEW b \in Batch, DropBatch(t, b) \/ ResetPanics(t, b)
       PROVE  OwnInv'
  <2>1. /\ b \in held[t] /\ held' = [held EXCEPT ![t] = @ \ {b}] /\ live' = live \ {b}
        /\ UNCHANGED <<hand, cache, pool, state>>
    BY <1>12 DEF DropBatch, ResetPanics, Free
  <2>2. \A u \in Thread, c \in Batch : c \in held'[u] <=> c \in held[u] /\ ~(u = t /\ c = b)
    BY <1>0, <2>1 DEF OwnerTypes
  <2>3. \A c \in Batch : \A p : IsAt(c, p)' <=> IsAt(c, p) /\ ~(c = b /\ p = Handle(t))
    BY <2>1, <2>2 DEF IsAt
  <2>4. \A p : IsAt(b, p) => p = Handle(t)
    <3>1. IsAt(b, Handle(t))
      BY <2>1 DEF IsAt
    <3> QED BY <3>1 DEF OwnInv
  <2>5. Freed({b})
    BY <2>1, <2>3, <2>4 DEF Freed
  <2> QED BY <2>1, <2>5, FreeKeepsOwner
<1>13. ASSUME NEW t \in Thread, NEW b \in Batch, NEW u \in Thread, Give(t, u, b) PROVE OwnInv'
  <2>1. /\ t # u /\ b \in held[t]
        /\ held' = [held EXCEPT ![t] = @ \ {b}, ![u] = @ \cup {b}]
        /\ UNCHANGED <<hand, cache, pool, live>>
    BY <1>13 DEF Give, shared
  <2>2. \A v \in Thread, c \in Batch :
          c \in held'[v] <=> (c \in held[v] /\ ~(v = t /\ c = b)) \/ (v = u /\ c = b)
    BY <1>0, <2>1 DEF OwnerTypes
  <2>3. Moved(b, Handle(t), Handle(u))
    BY <2>1, <2>2 DEF Moved, IsAt
  <2>r. Relabelled(b, Handle(u))
    <3>1. state' = state /\ Fits(state[b], Handle(t))
      BY <1>13, <2>1 DEF Give, OwnInv, IsAt
    <3> QED BY <3>1 DEF Relabelled, Fits
  <2> QED BY <2>3, <2>r, MoveKeepsOwner
<1>14. CASE DropColumn
  <2> DEFINE S == UNION {ToSet(cache[t]) : t \in Thread}
  <2>1. /\ live' = live \ S /\ cache' = [t \in Thread |-> <<>>]
        /\ UNCHANGED <<held, hand, pool, state>>
    BY <1>14 DEF DropColumn, Free
  <2>2. \A u \in Thread : \A j, b : ~Entry(cache', u, j, b)
    BY <2>1 DEF Entry
  <2>3. \A b : b \in S <=> \E u \in Thread : \E j : Entry(cache, u, j, b)
    BY <1>0 DEF ToSet, Entry, StackTypes
  <2> HIDE DEF S
  <2>4. \A b \in Batch : \A p :
          IsAt(b, p)' <=> /\ IsAt(b, p)
                          /\ ~\E u \in Thread : \E j : p = CacheSlot(u, j) /\ Entry(cache, u, j, b)
    BY <2>1, <2>2 DEF IsAt
  <2>5. \A b \in Batch : \A p : b \in S /\ IsAt(b, p) =>
          \E u \in Thread : \E j : p = CacheSlot(u, j) /\ Entry(cache, u, j, b)
    <3> SUFFICES ASSUME NEW b \in Batch, NEW p, b \in S, IsAt(b, p)
                 PROVE  \E u \in Thread : \E j : p = CacheSlot(u, j) /\ Entry(cache, u, j, b)
      OBVIOUS
    <3>1. PICK u \in Thread, j \in Int : Entry(cache, u, j, b)
      BY <2>3 DEF Entry
    <3>2. IsAt(b, CacheSlot(u, j))
      BY <3>1 DEF IsAt
    <3> QED BY <3>1, <3>2 DEF OwnInv
  <2>6. Freed(S)
    BY <2>1, <2>3, <2>4, <2>5 DEF Freed
  <2> QED BY <2>1, <2>6, FreeKeepsOwner
<1>15. CASE DropShards
  <2> DEFINE S == UNION {ToSet(pool[i]) : i \in Shards}
  <2>1. /\ live' = live \ S /\ pool' = [i \in Shards |-> <<>>]
        /\ UNCHANGED <<held, hand, cache, state>>
    BY <1>15 DEF DropShards, Free
  <2>2. \A k \in Shards : \A j, b : ~Entry(pool', k, j, b)
    BY <2>1 DEF Entry
  <2>3. \A b : b \in S <=> \E k \in Shards : \E j : Entry(pool, k, j, b)
    BY <1>0 DEF ToSet, Entry, StackTypes
  <2> HIDE DEF S
  <2>4. \A b \in Batch : \A p :
          IsAt(b, p)' <=> /\ IsAt(b, p)
                          /\ ~\E k \in Shards : \E j : p = ShardSlot(k, j) /\ Entry(pool, k, j, b)
    BY <2>1, <2>2 DEF IsAt
  <2>5. \A b \in Batch : \A p : b \in S /\ IsAt(b, p) =>
          \E k \in Shards : \E j : p = ShardSlot(k, j) /\ Entry(pool, k, j, b)
    <3> SUFFICES ASSUME NEW b \in Batch, NEW p, b \in S, IsAt(b, p)
                 PROVE  \E k \in Shards : \E j : p = ShardSlot(k, j) /\ Entry(pool, k, j, b)
      OBVIOUS
    <3>1. PICK k \in Shards, j \in Int : Entry(pool, k, j, b)
      BY <2>3 DEF Entry
    <3>2. IsAt(b, ShardSlot(k, j))
      BY <3>1 DEF IsAt
    <3> QED BY <3>1, <3>2 DEF OwnInv
  <2>6. Freed(S)
    BY <2>1, <2>3, <2>4, <2>5 DEF Freed
  <2> QED BY <2>1, <2>6, FreeKeepsOwner
<1>16. CASE UNCHANGED <<held, hand, cache, pool, live, state>>
  BY <1>16, StillAt DEF OwnInv
<1>17. ASSUME NEW t \in Thread, NEW b \in Batch, Reset(t, b) PROVE OwnInv'
  <2>1. /\ b \in held[t] /\ state' = [state EXCEPT ![b] = "Acquired"]
        /\ UNCHANGED <<held, hand, cache, pool, live>>
    BY <1>17 DEF Reset, shared
  <2>2. IsAt(b, Handle(t))
    BY <2>1 DEF IsAt
  <2>3. \A c \in Batch : state'[c] = IF c = b THEN "Acquired" ELSE state[c]
    BY <1>0, <2>1 DEF OwnerTypes
  <2>4. \A c, p : IsAt(c, p)' <=> IsAt(c, p)
    BY <2>1, StillAt
  <2>5. live' = live
    BY <2>1
  <2> QED BY <2>2, <2>3, <2>4, <2>5 DEF OwnInv
<1>18. ASSUME NEW t \in Thread, Step(t) PROVE OwnInv'
  <2>1. AcquireMiss(t) => UNCHANGED <<held, hand, cache, pool, live, state>>
    BY DEF AcquireMiss
  <2> QED BY <1>1, <1>2, <1>3, <1>4, <1>5, <1>6, <1>7, <1>8, <1>9, <1>16, <1>18, <2>1 DEF Step
<1>19. ASSUME NEW t \in Thread, NEW b \in Batch, Use(t, b) PROVE OwnInv'
  <2>1. Put(t, b) => UNCHANGED <<held, hand, cache, pool, live, state>>
    BY DEF Put
  <2> QED BY <1>10, <1>11, <1>12, <1>13, <1>16, <1>17, <1>19, <2>1 DEF Use
<1> QED BY <1>14, <1>15, <1>16, <1>18, <1>19 DEF Next, NewPool, vars

(***************************************************************************)
(* What the commit queue refers to.                                        *)
(***************************************************************************)
\* Handles and frames do not share a batch, and keep theirs alive.
Apart ==
  /\ \A t, u \in Thread : \A b \in held[t] :
       b \in live /\ hand[u] # b /\ (b \in held[u] => u = t)
  /\ \A t, u \in Thread : hand[t] \in Batch =>
       hand[t] \in live /\ (hand[u] = hand[t] => u = t)

LEMMA OwnersApart == OwnerTypes /\ OwnInv => Apart
<1> SUFFICES ASSUME OwnerTypes, OwnInv PROVE Apart
  OBVIOUS
<1> USE PlacesDiffer
<1>1. ASSUME NEW t \in Thread, NEW u \in Thread, NEW b \in held[t]
      PROVE  b \in live /\ hand[u] # b /\ (b \in held[u] => u = t)
  <2>1. b \in Batch /\ IsAt(b, Handle(t))
    BY DEF OwnerTypes, IsAt
  <2>2. /\ hand[u] = b => IsAt(b, Frame(u))
        /\ b \in held[u] => IsAt(b, Handle(u))
    BY DEF IsAt
  <2> QED BY <2>1, <2>2 DEF OwnInv
<1>2. ASSUME NEW t \in Thread, NEW u \in Thread, hand[t] \in Batch
      PROVE  hand[t] \in live /\ (hand[u] = hand[t] => u = t)
  <2>1. IsAt(hand[t], Frame(t)) /\ (hand[u] = hand[t] => IsAt(hand[t], Frame(u)))
    BY DEF IsAt
  <2> QED BY <1>2, <2>1 DEF OwnInv
<1> QED BY <1>1, <1>2 DEF Apart

\* A batch of the pool is idle, so the queue does not refer to it.
LEMMA PooledNotQueued ==
  ASSUME TypeOK, OwnInv, QueueInv
  PROVE  /\ \A t \in Thread : cache[t] # <<>> => Last(cache[t]) \in Batch \ queued
         /\ \A k \in Shards : pool[k] # <<>> => Last(pool[k]) \in Batch \ queued
<1>0. StackTypes
  BY TypeParts
<1>1. ASSUME NEW t \in Thread, cache[t] # <<>> PROVE Last(cache[t]) \in Batch \ queued
  <2>1. cache[t] \in Seq(Batch) /\ Last(cache[t]) = cache[t][Len(cache[t])]
    BY <1>0 DEF StackTypes, Last
  <2>2. Last(cache[t]) \in Batch /\ Entry(cache, t, Len(cache[t]), Last(cache[t]))
    BY <1>1, <2>1 DEF Entry
  <2>3. IsAt(Last(cache[t]), CacheSlot(t, Len(cache[t])))
    BY <2>2 DEF IsAt
  <2>4. state[Last(cache[t])] = "Idle"
    BY <2>2, <2>3 DEF OwnInv, Fits
  <2> QED BY <2>2, <2>4 DEF QueueInv
<1>2. ASSUME NEW k \in Shards, pool[k] # <<>> PROVE Last(pool[k]) \in Batch \ queued
  <2>1. pool[k] \in Seq(Batch) /\ Last(pool[k]) = pool[k][Len(pool[k])]
    BY <1>0 DEF StackTypes, Last
  <2>2. Last(pool[k]) \in Batch /\ Entry(pool, k, Len(pool[k]), Last(pool[k]))
    BY <1>2, <2>1 DEF Entry
  <2>3. IsAt(Last(pool[k]), ShardSlot(k, Len(pool[k])))
    BY <2>2 DEF IsAt
  <2>4. state[Last(pool[k])] = "Idle"
    BY <2>2, <2>3 DEF OwnInv, Fits
  <2> QED BY <2>2, <2>4 DEF QueueInv
<1> QED BY <1>1, <1>2

LEMMA QueueStep ==
  TypeOK /\ CallInv /\ OwnInv /\ QueueInv /\ [Next]_vars /\ OwnerTypes' /\ FrameTypes' /\ OwnInv'
    => QueueInv'
<1> SUFFICES ASSUME TypeOK, CallInv, OwnInv, QueueInv, [Next]_vars, OwnerTypes', FrameTypes', OwnInv'
             PROVE  QueueInv'
  OBVIOUS
<1>a. Apart'
  BY OwnersApart, PTL
<1>0. /\ FrameTypes /\ OwnerTypes /\ None \notin Batch /\ Apart /\ Apart
      /\ \A t \in Thread : pc[t] \in {"refill", "hydrate", "spill"} => shard_idx[t] \in Shards
  BY TypeParts, NoneAssumption, OwnersApart DEF CallInv
<1>t. /\ held \in [Thread -> SUBSET Batch] /\ state \in [Batch -> RuntimeState]
      /\ queued \subseteq Batch /\ hand \in [Thread -> Batch \cup {None}]
      /\ pc \in [Thread -> Labels] /\ None \notin queued
  BY <1>0 DEF FrameTypes, OwnerTypes
<1>1. ASSUME NEW t \in Thread, AcquireFromTls(t) PROVE QueueInv'
  <2>1. Last(cache[t]) \in Batch \ queued
    BY <1>1, PooledNotQueued DEF AcquireFromTls
  <2> QED BY <1>t, <1>1, <2>1 DEF AcquireFromTls, QueueInv, shared
<1>2. ASSUME NEW t \in Thread, AcquireMiss(t) PROVE QueueInv'
  BY <1>t, <1>2 DEF AcquireMiss, QueueInv
<1>3. ASSUME NEW t \in Thread, RefillPop(t) PROVE QueueInv'
  <2>1. Last(MyShard(t)) \in Batch \ queued
    BY <1>0, <1>3, PooledNotQueued DEF RefillPop, MyShard
  <2> QED BY <1>t, <1>3, <2>1 DEF RefillPop, QueueInv
<1>4. ASSUME NEW t \in Thread, RefillAllocate(t) PROVE QueueInv'
  <2>1. queued \subseteq live
    BY <1>0 DEF OwnerTypes
  <2> QED BY <1>t, <1>4, <2>1 DEF RefillAllocate, QueueInv
<1>5. ASSUME NEW t \in Thread, Hydrate(t) PROVE QueueInv'
  <2>1. Last(MyShard(t)) \in Batch \ queued
    BY <1>0, <1>5, PooledNotQueued DEF Hydrate, MyShard
  <2> QED BY <1>t, <1>5, <2>1 DEF Hydrate, CachePush, QueueInv
<1>6. ASSUME NEW t \in Thread, RefillDone(t) PROVE QueueInv'
  <2>1. hand[t] \in Batch \ queued
    BY <1>0, <1>t, <1>6 DEF RefillDone, FrameTypes, QueueInv
  <2> QED BY <1>t, <1>6, <2>1 DEF RefillDone, QueueInv, shared
<1>7. ASSUME NEW t \in Thread, CommitDone(t) PROVE QueueInv'
  <2>1. /\ pc[t] = "commit" /\ hand[t] \in Batch
        /\ held' = [held EXCEPT ![t] = @ \cup {hand[t]}]
        /\ hand' = [hand EXCEPT ![t] = None] /\ pc' = [pc EXCEPT ![t] = "idle"]
        /\ state' = [state EXCEPT ![hand[t]] = "Applied"] /\ queued' = queued \ {hand[t]}
    BY <1>0, <1>7 DEF CommitDone, ReturnFromCommit, FrameTypes
  <2>2. /\ \A u \in Thread : \A b \in held[u] : b # hand[t]
        /\ \A u \in Thread : u # t => hand[u] # hand[t]
    BY <1>0, <2>1 DEF Apart
  <2> QED BY <1>t, <2>1, <2>2 DEF QueueInv
<1>8. ASSUME NEW t \in Thread, CommitFails(t) PROVE QueueInv'
  BY <1>t, <1>8 DEF CommitFails, ReturnFromCommit, QueueInv
<1>9. ASSUME NEW t \in Thread, Spill(t) PROVE QueueInv'
  <2>1. cache[t] # <<>>
    <3>1. StackTypes
      BY TypeParts
    <3> QED BY <1>9, <3>1, CapAssumption DEF Spill, SpillMore, StackTypes
  <2>2. Last(cache[t]) \in Batch \ queued
    BY <2>1, PooledNotQueued
  <2> QED BY <1>t, <1>9, <2>2 DEF Spill, ShardPush, QueueInv
<1>10. ASSUME NEW t \in Thread, SpillDone(t) PROVE QueueInv'
  <2>1. hand[t] \in Batch \ queued
    BY <1>0, <1>t, <1>10 DEF SpillDone, FrameTypes, QueueInv
  <2> QED BY <1>t, <1>10, <2>1 DEF SpillDone, CachePush, QueueInv, shared
<1>11. ASSUME NEW t \in Thread, NEW b \in Batch, Put(t, b) PROVE QueueInv'
  BY <1>t, <1>11 DEF Put, QueueInv
<1>12. ASSUME NEW t \in Thread, NEW b \in Batch, Commit(t, b) PROVE QueueInv'
  <2>1. \A u \in Thread : hand[u] # b
    BY <1>0, <1>12 DEF Commit, Apart
  <2> QED BY <1>t, <1>12, <2>1 DEF Commit, QueueInv
<1>13. ASSUME NEW t \in Thread, NEW b \in Batch,
              Reset(t, b) \/ ReleaseToCache(t, b) \/ ReleaseFull(t, b)
       PROVE  QueueInv'
  <2>1. b \in held[t] /\ b \notin queued
    BY <1>13 DEF Reset, ReleaseToCache, ReleaseFull, ResetSafe, QueueInv
  <2>2. CASE Reset(t, b)
    BY <1>t, <2>1, <2>2 DEF Reset, QueueInv, shared
  <2>3. CASE ReleaseToCache(t, b)
    BY <1>t, <2>1, <2>3 DEF ReleaseToCache, CachePush, QueueInv
  <2>4. CASE ReleaseFull(t, b)
    BY <1>t, <2>1, <2>4 DEF ReleaseFull, QueueInv
  <2> QED BY <1>13, <2>2, <2>3, <2>4
<1>14. ASSUME NEW t \in Thread, NEW b \in Batch, NEW u \in Thread, Give(t, u, b) PROVE QueueInv'
  BY <1>t, <1>14 DEF Give, QueueInv, shared
<1>15. ASSUME NEW S, Free(S), UNCHANGED <<hand, pc, state>>,
              \A t \in Thread : held'[t] \subseteq held[t]
       PROVE  QueueInv'
  <2>1. /\ live' = live \ S /\ queued' = queued \ S
    BY <1>15 DEF Free
  <2>2. \A t \in Thread : \A b \in held'[t] : b \notin S
    BY <1>a, <2>1 DEF Apart
  <2>3. \A t \in Thread : hand[t] \in Batch => hand[t] \notin S
    BY <1>a, <1>15, <2>1 DEF Apart
  <2> QED BY <1>t, <1>15, <2>1, <2>2, <2>3 DEF QueueInv
<1>16. ASSUME NEW t \in Thread, SpillOverflow(t) \/ ThreadExit(t) PROVE QueueInv'
  BY <1>15, <1>16 DEF SpillOverflow, ThreadExit
<1>17. ASSUME NEW t \in Thread, NEW b \in Batch, DropBatch(t, b) \/ ResetPanics(t, b)
       PROVE  QueueInv'
  BY <1>t, <1>15, <1>17 DEF DropBatch, ResetPanics
<1>18. CASE DropColumn \/ DropShards
  BY <1>15, <1>18 DEF DropColumn, DropShards
<1>19. CASE NewPool \/ UNCHANGED vars
  BY <1>19 DEF NewPool, vars, QueueInv
<1> QED BY <1>1, <1>2, <1>3, <1>4, <1>5, <1>6, <1>7, <1>8, <1>9, <1>10, <1>11, <1>12, <1>13,
           <1>14, <1>16, <1>17, <1>18, <1>19
        DEF Next, Step, Use

(***************************************************************************)
(* The theorems.                                                           *)
(***************************************************************************)
\* The inductive invariant.
IInv == TypeOK /\ CallInv /\ LifeInv /\ OwnInv /\ QueueInv

LEMMA InitInv == Init => IInv
<1> SUFFICES ASSUME Init PROVE OwnInv /\ QueueInv
  BY InitTypes DEF IInv
<1>1. \A b \in Batch : \A p : ~IsAt(b, p)
  BY NoneAssumption DEF Init, IsAt, Entry
<1>2. QueueInv
  BY DEF Init, QueueInv
<1> QED BY <1>1, <1>2 DEF Init, OwnInv

LEMMA InvStep == IInv /\ [Next]_vars => IInv'
<1> SUFFICES ASSUME IInv, [Next]_vars PROVE IInv'
  OBVIOUS
<1>1. HandlesLive
  <2> SUFFICES ASSUME NEW t \in Thread, NEW b \in held[t] PROVE b \in live
    BY DEF HandlesLive
  <2>1. b \in Batch
    BY DEF IInv, TypeOK
  <2>2. IsAt(b, Handle(t))
    BY DEF IsAt
  <2> QED BY <2>1, <2>2 DEF IInv, OwnInv
<1>2. TypeOK'
  BY <1>1, TypeParts, StackStep, FrameStep, OwnerStep, ShardStep DEF IInv, TypeOK, StackTypes,
     FrameTypes, OwnerTypes, ShardTypes, Labels
<1>3. CallInv' /\ LifeInv' /\ OwnInv'
  BY CallStep, LifeStep, OwnStep DEF IInv
<1>4. OwnerTypes' /\ FrameTypes'
  BY <1>1, FrameStep, OwnerStep DEF IInv
<1>5. QueueInv'
  BY <1>3, <1>4, QueueStep DEF IInv
<1> QED BY <1>2, <1>3, <1>5 DEF IInv

LEMMA Invariance == Spec => []IInv
BY InitInv, InvStep, PTL DEF Spec

\* Types, the capacities of caches and shards, and that the push after a spill
\* finds room and a call that moves a batch has one in hand, for all threads,
\* shards and capacities.
THEOREM TypeCorrect == Spec => []TypeOK
<1>1. IInv => TypeOK
  BY DEF IInv
<1> QED BY <1>1, Invariance, PTL

\* What Places lists is where IsAt finds the batch.
LEMMA PlacesAre ==
  ASSUME TypeOK, NEW b \in Batch
  PROVE  \A p : p \in Places(b) <=> IsAt(b, p)
<1>1. /\ \A t \in Thread : DOMAIN cache[t] = 1 .. Len(cache[t])
      /\ \A k \in Shards : DOMAIN pool[k] = 1 .. Len(pool[k])
  <2>1. StackTypes
    BY TypeParts
  <2> QED BY <2>1 DEF StackTypes
<1>2. \A t \in Thread : \A i :
        Entry(cache, t, i, b) <=> i \in {j \in DOMAIN cache[t] : cache[t][j] = b}
  BY <1>1 DEF Entry
<1>3. \A k \in Shards : \A i :
        Entry(pool, k, i, b) <=> i \in {j \in DOMAIN pool[k] : pool[k][j] = b}
  BY <1>1 DEF Entry
<1> DEFINE H == {<<"handle", t>> : t \in {u \in Thread : b \in held[u]}}
           F == {<<"frame", t>> : t \in {u \in Thread : hand[u] = b}}
           C == UNION {{<<"cache", t, i>> : i \in {j \in DOMAIN cache[t] : cache[t][j] = b}} :
                         t \in Thread}
           S == UNION {{<<"shard", k, i>> : i \in {j \in DOMAIN pool[k] : pool[k][j] = b}} :
                         k \in Shards}
<1>4. \A p : p \in H <=> \E t \in Thread : p = Handle(t) /\ b \in held[t]
  BY DEF Handle
<1>5. \A p : p \in F <=> \E t \in Thread : p = Frame(t) /\ hand[t] = b
  BY DEF Frame
<1>6. \A p : p \in C <=> \E t \in Thread : \E i : p = CacheSlot(t, i) /\ Entry(cache, t, i, b)
  BY <1>2 DEF CacheSlot
<1>7. \A p : p \in S <=> \E k \in Shards : \E i : p = ShardSlot(k, i) /\ Entry(pool, k, i, b)
  BY <1>3 DEF ShardSlot
<1>8. Places(b) = H \cup F \cup C \cup S
  BY DEF Places
<1> HIDE DEF H, F, C, S
<1> QED BY <1>4, <1>5, <1>6, <1>7, <1>8 DEF IsAt

LEMMA OneOwner == IInv => SingleOwner
<1> SUFFICES ASSUME IInv, NEW b \in Batch
             PROVE  Cardinality(Places(b)) = IF b \in live THEN 1 ELSE 0
  BY DEF SingleOwner
<1>1. \A p : p \in Places(b) <=> IsAt(b, p)
  BY PlacesAre DEF IInv
<1>2. CASE b \in live
  <2>1. PICK p : IsAt(b, p)
    BY <1>2 DEF IInv, OwnInv
  <2>2. Places(b) = {p}
    BY <1>1, <2>1 DEF IInv, OwnInv
  <2> QED BY <1>2, <2>2, FS_Singleton
<1>3. CASE b \notin live
  <2>1. Places(b) = {}
    BY <1>1, <1>3 DEF IInv, OwnInv
  <2> QED BY <1>3, <2>1, FS_EmptySet
<1> QED BY <1>2, <1>3

\* OwnedBatchPtr's ownership claim: whatever refills, spills, releases, thread
\* exits and teardowns interleave on the shards, a live allocation is owned in
\* exactly one place and a destroyed one in none.
THEOREM EveryBatchHasOneOwner == Spec => []SingleOwner
BY OneOwner, Invariance, PTL

LEMMA StatesFit == IInv => StateMatchesOwner
<1> SUFFICES ASSUME IInv PROVE StateMatchesOwner
  OBVIOUS
<1>0. StackTypes /\ OwnerTypes /\ OwnInv /\ QueueInv
  BY TypeParts DEF IInv
<1>1. ASSUME NEW t \in Thread, NEW b \in ToSet(cache[t]) PROVE state[b] = "Idle"
  <2>1. PICK i \in 1 .. Len(cache[t]) : cache[t][i] = b
    BY <1>0 DEF ToSet, StackTypes
  <2>2. b \in Batch /\ Entry(cache, t, i, b)
    BY <1>0, <2>1 DEF StackTypes, Entry
  <2>3. IsAt(b, CacheSlot(t, i))
    BY <2>2 DEF IsAt
  <2> QED BY <1>0, <2>2, <2>3 DEF OwnInv, Fits
<1>2. ASSUME NEW k \in Shards, NEW b \in ToSet(pool[k]) PROVE state[b] = "Idle"
  <2>1. PICK i \in 1 .. Len(pool[k]) : pool[k][i] = b
    BY <1>0 DEF ToSet, StackTypes
  <2>2. b \in Batch /\ Entry(pool, k, i, b)
    BY <1>0, <2>1 DEF StackTypes, Entry
  <2>3. IsAt(b, ShardSlot(k, i))
    BY <2>2 DEF IsAt
  <2> QED BY <1>0, <2>2, <2>3 DEF OwnInv, Fits
<1>3. ASSUME NEW t \in Thread, NEW b \in held[t] PROVE state[b] \in ResetSafe \/ b \in queued
  <2>1. b \in Batch /\ IsAt(b, Handle(t))
    BY <1>0 DEF OwnerTypes, IsAt
  <2>2. state[b] # "Idle" /\ state[b] \in RuntimeState
    BY <1>0, <2>1 DEF OwnInv, Fits, OwnerTypes
  <2> QED BY <1>0, <2>2 DEF RuntimeState, ResetSafe, QueueInv
<1>4. \A b \in Pooled : \/ \E t \in Thread : b \in ToSet(cache[t])
                        \/ \E k \in Shards : b \in ToSet(pool[k])
  <2>1. \A b \in UNION {ToSet(cache[t]) : t \in Thread} : \E t \in Thread : b \in ToSet(cache[t])
    OBVIOUS
  <2>2. \A b \in UNION {ToSet(pool[i]) : i \in Shards} : \E k \in Shards : b \in ToSet(pool[k])
    OBVIOUS
  <2> QED BY <2>1, <2>2 DEF Pooled
<1> QED BY <1>0, <1>1, <1>2, <1>3, <1>4 DEF StateMatchesOwner, QueueInv

\* The doc of BatchObject: no batch is in the pool while the commit queue refers
\* to it, also after a prepare that failed; and the assertion of reset_batch,
\* which keeps such a batch out, fires for no other batch.
THEOREM StatesAlwaysFit == Spec => []StateMatchesOwner
BY StatesFit, Invariance, PTL

\* Once the column and then the shards are torn down every allocation has been
\* destroyed, whatever was cached, spilled or released before.
THEOREM TeardownLeaksNothing == Spec => []NothingLeaks
<1>1. IInv => NothingLeaks
  <2> SUFFICES ASSUME IInv, life = "gone", NEW b \in live PROVE FALSE
    BY DEF NothingLeaks
  <2>1. /\ TypeOK /\ OwnInv /\ b \in Batch
        /\ \A t \in Thread : pc[t] = "idle" /\ held[t] = {} /\ cache[t] = <<>>
        /\ \A i \in Shards : pool[i] = <<>>
    BY DEF IInv, LifeInv, TypeOK
  <2>2. \A t \in Thread : hand[t] # b
    BY <2>1, NoneAssumption DEF TypeOK
  <2>3. \A p : ~IsAt(b, p)
    BY <2>1, <2>2 DEF IsAt, Entry
  <2> QED BY <2>1, <2>3 DEF OwnInv
<1> QED BY <1>1, Invariance, PTL

\* A release that spills leaves the cache exactly at its retention target.
THEOREM SpillAlwaysRetainsTarget == Spec => SpillRetainsTarget
<1>1. IInv /\ [Next]_vars =>
        [\A t \in Thread : pc[t] = "spill" /\ pc'[t] = "idle" => Len(cache'[t]) = TARGET]_vars
  <2> SUFFICES ASSUME IInv, Next, NEW t \in Thread, pc[t] = "spill", pc'[t] = "idle"
               PROVE  Len(cache'[t]) = TARGET
    OBVIOUS
  <2>0. TypeOK /\ CallInv /\ LifeInv /\ FrameTypes /\ StackTypes
    BY TypeParts DEF IInv
  <2>1. SpillDone(t)
    <3>1. ASSUME NEW u \in Thread, Step(u) PROVE SpillDone(t)
      BY <2>0, <3>1 DEF FrameTypes, Step, AcquireFromTls, AcquireMiss, RefillPop, RefillAllocate,
         Hydrate, RefillDone, CommitDone, CommitFails, ReturnFromCommit, Spill, SpillOverflow,
         ThreadExit, SpillDone
    <3>2. ASSUME NEW u \in Thread, NEW b \in Batch, Use(u, b) PROVE FALSE
      BY <2>0, <3>2 DEF FrameTypes, Use, Put, Commit, Reset, ResetPanics, DropBatch,
         ReleaseToCache, ReleaseFull, Give
    <3>3. ~DropColumn /\ ~DropShards /\ ~NewPool
      BY DEF DropColumn, DropShards, NewPool
    <3> QED BY <3>1, <3>2, <3>3 DEF Next
  <2>2. hand[t] \in Batch /\ Len(cache[t]) \in Nat
    <3>1. hand[t] \in Batch
      BY <2>0 DEF FrameTypes
    <3>2. cache[t] \in Seq(Batch)
      BY <2>0 DEF StackTypes
    <3> QED BY <3>1, <3>2
  <2>3. Len(cache'[t]) = Len(cache[t]) + 1
    BY <2>0, <2>1, <2>2, CachePushed DEF SpillDone, Pushed
  <2>4. Len(cache[t]) = TARGET - 1
    BY <2>0, <2>1, <2>2, CapAssumption DEF SpillDone, SpillMore, CallInv
  <2> QED BY <2>3, <2>4, CapAssumption
<1> QED BY <1>1, Invariance, PTL DEF Spec, SpillRetainsTarget

================================================================================
