--------------------------------- MODULE Arena ---------------------------------
(***************************************************************************)
(* The bump allocator of crates/engine/src/arena/arena.rs.  Threads take   *)
(* ranges of the current chunk by moving its bump offset with a CAS; a     *)
(* thread that finds the chunk too full adds the next one under a mutex,   *)
(* until the cap is reached.                                               *)
(*                                                                         *)
(* One step is one atomic access or one stretch under the mutex that no    *)
(* other thread can tell apart.  Offsets are what the code aligns; the     *)
(* alignment of a chunk's base address is the system allocator's.          *)
(***************************************************************************)
EXTENDS Integers, Sequences, FiniteSets

CONSTANTS Thread,
          BlockSize,   \* ArenaPolicy.block_size
          Cap,         \* ArenaPolicy.cap
          Layouts,     \* layouts asked for: records of size and align
          NoThread,
          MaxResets    \* bound: calls of reset

ASSUME PolicyAssumption ==
  /\ BlockSize \in Nat \ {0} /\ Cap \in Nat
  /\ Cap >= BlockSize /\ Cap % BlockSize = 0

ASSUME LayoutAssumption ==
  /\ Layouts \subseteq [size : Nat, align : Nat \ {0}]
  /\ NoThread \notin Thread /\ MaxResets \in Nat

VARIABLES
  bump,             \* bump[i]: the offset of the i-th chunk of `chunks`
  current_chunk,    \* its place in `chunks`
  allocated_bytes,
  memory_used,
  mutex,            \* who holds the lock on `chunks`
  call,             \* call[t]: the allocation t is making
  ranges,           \* history: ranges handed out since the last reset
  resets,
  retained          \* history: chunks there were when the arena was last empty

shared == <<bump, current_chunk, allocated_bytes>>
vars == <<shared, memory_used, mutex, call, ranges, resets, retained>>

Idle == [pc |-> "idle", fn |-> "", layout |-> [size |-> 0, align |-> 1],
         chunk |-> 1, bump |-> 0]
Panicked == [Idle EXCEPT !.pc = "panic"]

\* Arena::new allocates the first chunk.
Init ==
  /\ bump = <<0>> /\ current_chunk = 1 /\ allocated_bytes = BlockSize
  /\ memory_used = 0 /\ mutex = NoThread
  /\ call = [t \in Thread |-> Idle]
  /\ ranges = {} /\ resets = 0 /\ retained = 1

\* alignment_check: the offset rounded up, whether the layout fits behind it.
Aligned(b, l) == ((b + l.align - 1) \div l.align) * l.align
End(b, l) == Aligned(b, l) + l.size

\* Mutant: the start of the range is compared with the chunk's length.
FitsStart(b, l) == Aligned(b, l) < BlockSize

Fits(b, l) == End(b, l) <= BlockSize

\* The thread goes to a place where what it loaded is not used any more.
Restart(t, label) ==
  call' = [call EXCEPT ![t].pc = label, ![t].chunk = 1, ![t].bump = 0]

\* ArenaFull ends the call: alloc_raw panics, alloc_raw_fallback returns it.
Refuse(t) ==
  IF call[t].fn = "alloc_raw"
  THEN call' = [call EXCEPT ![t] = Panicked]
  ELSE call' = [call EXCEPT ![t] = [Idle EXCEPT !.pc = "full", !.layout = call[t].layout]]

-----------------------------------------------------------------------------

\* alloc_raw asserts that the layout fits a block and panics when no chunk can
\* be added; alloc_raw_fallback returns both as errors.
Alloc(t) ==
  /\ call[t].pc \in {"idle", "full"}
  /\ \E l \in Layouts, fn \in {"alloc_raw", "alloc_raw_fallback"} :
       call' = [call EXCEPT ![t] =
         IF l.size <= BlockSize
         THEN [Idle EXCEPT !.fn = fn, !.layout = l, !.pc = "load"]
         ELSE IF fn = "alloc_raw" THEN Panicked ELSE Idle]
  /\ UNCHANGED <<shared, memory_used, mutex, ranges, resets, retained>>

\* get_chunk, then the relaxed load of its bump.
LoadChunk(t) ==
  /\ call[t].pc = "load"
  /\ call' = [call EXCEPT ![t].pc = "bump", ![t].chunk = current_chunk]
  /\ UNCHANGED <<shared, memory_used, mutex, ranges, resets, retained>>

LoadBump(t) ==
  LET b == bump[call[t].chunk]
  IN /\ call[t].pc = "bump"
     /\ IF Fits(b, call[t].layout)
        THEN call' = [call EXCEPT ![t].bump = b, ![t].pc = "cas"]
        ELSE Restart(t, "lock")
     /\ UNCHANGED <<shared, memory_used, mutex, ranges, resets, retained>>

Taken(t) == [chunk |-> call[t].chunk, at |-> Aligned(call[t].bump, call[t].layout),
             size |-> call[t].layout.size]

\* Mutant: a store in place of the CAS.
TakeRangeBlind(t) ==
  /\ call[t].pc = "cas"
  /\ bump' = [bump EXCEPT ![call[t].chunk] = End(call[t].bump, call[t].layout)]
  /\ ranges' = ranges \cup {Taken(t)}
  /\ Restart(t, "count")
  /\ UNCHANGED <<current_chunk, allocated_bytes, memory_used, mutex, resets, retained>>

\* compare_exchange_weak succeeds: the range is the thread's.
TakeRange(t) ==
  /\ call[t].pc = "cas"
  /\ bump[call[t].chunk] = call[t].bump
  /\ bump' = [bump EXCEPT ![call[t].chunk] = End(call[t].bump, call[t].layout)]
  /\ ranges' = ranges \cup {Taken(t)}
  /\ Restart(t, "count")
  /\ UNCHANGED <<current_chunk, allocated_bytes, memory_used, mutex, resets, retained>>

\* Mutant: a failed CAS is tried again with the offset already loaded.
RetrySame(t) ==
  /\ call[t].pc = "cas"
  /\ UNCHANGED vars

\* It fails, because the offset moved or spuriously, and the loop starts over.
Retry(t) ==
  /\ call[t].pc = "cas"
  /\ Restart(t, "load")
  /\ UNCHANGED <<shared, memory_used, mutex, ranges, resets, retained>>

CountUsed(t) ==
  /\ call[t].pc = "count"
  /\ memory_used' = memory_used + call[t].layout.size
  /\ call' = [call EXCEPT ![t] = Idle]
  /\ UNCHANGED <<shared, mutex, ranges, resets, retained>>

-----------------------------------------------------------------------------
(* try_new_chunk                                                           *)

\* Mutant: the chunk is not checked again under the lock.
LockChunksNoRecheck(t) ==
  /\ call[t].pc = "lock" /\ mutex = NoThread
  /\ mutex' = t /\ Restart(t, "extend")
  /\ UNCHANGED <<shared, memory_used, ranges, resets, retained>>

\* The lock, and the check whether the current chunk still has no room.
LockChunks(t) ==
  /\ call[t].pc = "lock" /\ mutex = NoThread
  /\ IF Fits(bump[current_chunk], call[t].layout)
     THEN Restart(t, "load") /\ UNCHANGED mutex
     ELSE Restart(t, "extend") /\ mutex' = t
  /\ UNCHANGED <<shared, memory_used, ranges, resets, retained>>

\* Mutant: the cap is compared without the block to be added.
ExtendPastCap(t) ==
  /\ call[t].pc = "extend"
  /\ mutex' = NoThread
  /\ IF allocated_bytes > Cap
     THEN Refuse(t) /\ UNCHANGED shared
     ELSE /\ allocated_bytes' = allocated_bytes + BlockSize
          /\ bump' = Append(bump, 0)
          /\ current_chunk' = Len(bump')
          /\ Restart(t, "load")
  /\ UNCHANGED <<memory_used, ranges, resets, retained>>

\* ArenaFull at the cap; else the block is counted and allocated, pushed, and
\* made the current chunk before the lock is released.
Extend(t) ==
  /\ call[t].pc = "extend"
  /\ mutex' = NoThread
  /\ IF allocated_bytes + BlockSize > Cap
     THEN Refuse(t) /\ UNCHANGED shared
     ELSE /\ allocated_bytes' = allocated_bytes + BlockSize
          /\ bump' = Append(bump, 0)
          /\ current_chunk' = Len(bump')
          /\ Restart(t, "load")
  /\ UNCHANGED <<memory_used, ranges, resets, retained>>

-----------------------------------------------------------------------------

\* Mutant: the bytes used before the reset stay counted.
ResetKeepsUsed ==
  /\ \A t \in Thread : call[t].pc \in {"idle", "full", "panic"}
  /\ resets < MaxResets /\ resets' = resets + 1 /\ retained' = Len(bump)
  /\ bump' = [i \in DOMAIN bump |-> 0]
  /\ current_chunk' = 1
  /\ ranges' = {}
  /\ call' = [t \in Thread |-> IF call[t] = Panicked THEN Panicked ELSE Idle]
  /\ UNCHANGED <<allocated_bytes, memory_used, mutex>>

\* reset takes the arena exclusively: every chunk is kept and emptied, the first
\* one is current.
Reset ==
  /\ \A t \in Thread : call[t].pc \in {"idle", "full", "panic"}
  /\ resets < MaxResets /\ resets' = resets + 1 /\ retained' = Len(bump)
  /\ bump' = [i \in DOMAIN bump |-> 0]
  /\ current_chunk' = 1
  /\ memory_used' = 0
  /\ ranges' = {}
  /\ call' = [t \in Thread |-> IF call[t] = Panicked THEN Panicked ELSE Idle]
  /\ UNCHANGED <<allocated_bytes, mutex>>

\* The steps of a call, the CAS that fails aside.
Step(t) ==
  LoadChunk(t) \/ LoadBump(t) \/ TakeRange(t) \/ CountUsed(t)
    \/ LockChunks(t) \/ Extend(t)

Next == (\E t \in Thread : Alloc(t) \/ Step(t) \/ Retry(t)) \/ Reset

\* The scheduler runs every thread, the mutex is not refused for ever to one
\* that waits for it, and a CAS that could succeed infinitely often does.
Fairness ==
  \A t \in Thread :
    /\ WF_vars(LoadChunk(t) \/ LoadBump(t) \/ Retry(t) \/ CountUsed(t) \/ Extend(t))
    /\ SF_vars(LockChunks(t)) /\ SF_vars(TakeRange(t))

Spec == Init /\ [][Next]_vars /\ Fairness

-----------------------------------------------------------------------------
(* Properties                                                              *)

\* Types, and the mutex is held exactly by the thread that extends the arena.
TypeOK ==
  /\ bump \in Seq(0 .. BlockSize) /\ current_chunk \in DOMAIN bump
  /\ allocated_bytes \in Nat /\ memory_used \in Nat
  /\ \A t \in Thread : /\ call[t].chunk \in DOMAIN bump
                       /\ call[t].layout \in Layouts \cup {Idle.layout}
                       /\ call[t].pc = "extend" <=> mutex = t

\* Two allocations never overlap, whoever made them and whichever of them lost
\* a race for the offset, and each lies below the bump of its chunk: "Published
\* allocations never overlap".
NoOverlap ==
  /\ \A r \in ranges : r.at + r.size <= bump[r.chunk]
  /\ \A r, s \in ranges : r # s /\ r.chunk = s.chunk =>
       r.at + r.size <= s.at \/ s.at + s.size <= r.at

\* The bytes allocated are those of the chunks, and never more than the cap,
\* however many threads find the chunk full together.
CapRespected ==
  /\ allocated_bytes = BlockSize * Len(bump)
  /\ allocated_bytes <= Cap

\* Since it was made or reset, the arena has filled its first chunk and those it
\* added one after the other: threads that race to replace a full chunk add one,
\* not two, and leave a chunk behind only when some layout no longer fits it.
\* The other chunks that a reset retained, "for reuse" as its doc says, stay empty
\* for good and count against the cap.
NoChunkSkipped ==
  /\ current_chunk = IF Len(bump) = retained THEN 1 ELSE Len(bump)
  /\ \A i \in {1} \cup (retained + 1 .. Len(bump)) :
       i # current_chunk => \E l \in Layouts : l.size <= BlockSize /\ ~Fits(bump[i], l)
  /\ \A i \in 2 .. retained : bump[i] = 0

\* The bytes of the ranges, and those of the threads between their CAS and their
\* count.
BytesOf(r) == {r.chunk} \X (r.at .. r.at + r.size - 1)
HandedOut == UNION {BytesOf(r) : r \in ranges}

Uncounted == UNION {{t} \X (1 .. call[t].layout.size) :
                      t \in {u \in Thread : call[u].pc = "count"}}

\* memory_used is the number of bytes handed out, but for the threads that have
\* yet to count theirs: no byte was handed out twice, and no range is counted
\* twice or, after a reset, still counted.
UsedMatchesRanges ==
  memory_used + Cardinality(Uncounted) = Cardinality(HandedOut)

\* Every call ends, with a range, an error or a panic: a thread that loses its
\* races is not kept in the loop, since each winner takes a piece of the cap.
CallsEnd == \A t \in Thread :
  call[t].pc = "load" ~> call[t].pc \in {"idle", "full", "panic"}
================================================================================
