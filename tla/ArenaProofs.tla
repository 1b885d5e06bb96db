------------------------------ MODULE ArenaProofs ------------------------------
(***************************************************************************)
(* Proofs about Arena for every set of threads, block size, cap and set of *)
(* layouts: the offsets handed out are apart, the cap holds, a chunk is    *)
(* left only when it is full, and every byte handed out is counted.        *)
(***************************************************************************)
EXTENDS Arena, FiniteSetTheorems, TLAPS

-----------------------------------------------------------------------------
(* Rounding up                                                             *)

(* What division leaves.                                                   *)
LEMMA DivBounds ==
  ASSUME NEW x \in Nat, NEW a \in Nat \ {0}
  PROVE  /\ x \div a \in Nat
         /\ (x \div a) * a <= x
         /\ x < (x \div a) * a + a
OBVIOUS

(* alignment_check never rounds down: a range starts at or behind the bump.*)
LEMMA AlignedBounds ==
  ASSUME NEW b \in Nat, NEW l \in [size : Nat, align : Nat \ {0}]
  PROVE  /\ Aligned(b, l) \in Nat
         /\ b <= Aligned(b, l)
<1>1. b + l.align - 1 \in Nat
  OBVIOUS
<1>2. (b + l.align - 1) \div l.align \in Nat
  BY <1>1, DivBounds
<1>3. b + l.align - 1 < Aligned(b, l) + l.align
  BY <1>1, DivBounds DEF Aligned
<1> QED BY <1>2, <1>3 DEF Aligned

(* Division keeps the order.                                               *)
LEMMA DivMonotone ==
  ASSUME NEW x \in Nat, NEW y \in Nat, x <= y, NEW a \in Nat \ {0}
  PROVE  x \div a <= y \div a
OBVIOUS

(* A layout that does not fit a chunk fits it no better later: the bump    *)
(* only grows.                                                             *)
LEMMA AlignedMonotone ==
  ASSUME NEW b \in Nat, NEW c \in Nat, b <= c,
         NEW l \in [size : Nat, align : Nat \ {0}]
  PROVE  Aligned(b, l) <= Aligned(c, l)
<1> DEFINE q == (b + l.align - 1) \div l.align
           r == (c + l.align - 1) \div l.align
<1>1. q \in Nat /\ r \in Nat /\ q <= r
  BY DivMonotone, DivBounds
<1>2. l.align \in Nat
  OBVIOUS
<1> HIDE DEF q, r
<1>3. q * l.align <= r * l.align
  BY <1>1, <1>2
<1> QED BY <1>3 DEF Aligned, q, r

LEMMA FitsAntitone ==
  ASSUME NEW b \in Nat, NEW c \in Nat, b <= c,
         NEW l \in [size : Nat, align : Nat \ {0}], Fits(c, l)
  PROVE  Fits(b, l)
<1>1. Aligned(b, l) \in Nat /\ Aligned(c, l) \in Nat /\ Aligned(b, l) <= Aligned(c, l)
  BY AlignedBounds, AlignedMonotone
<1> QED BY <1>1, PolicyAssumption DEF Fits, End

(* The range a layout takes lies between the bump and the end of the chunk.*)
LEMMA EndBounds ==
  ASSUME NEW b \in Nat, NEW l \in [size : Nat, align : Nat \ {0}]
  PROVE  /\ Aligned(b, l) \in Nat /\ End(b, l) \in Nat
         /\ b <= Aligned(b, l) /\ Aligned(b, l) + l.size = End(b, l)
         /\ b <= End(b, l)
BY AlignedBounds DEF End

-----------------------------------------------------------------------------
(* The inductive invariant                                                 *)

Labels == {"idle", "load", "bump", "cas", "count", "lock", "extend", "full", "panic"}
Fns == {"", "alloc_raw", "alloc_raw_fallback"}
CallLayouts == Layouts \cup {Idle.layout}
Calls == [pc : Labels, fn : Fns, layout : CallLayouts, chunk : Nat, bump : Nat]

Types ==
  /\ bump \in Seq(0 .. BlockSize) /\ current_chunk \in DOMAIN bump
  /\ allocated_bytes \in Nat /\ memory_used \in Nat
  /\ resets \in Nat /\ retained \in DOMAIN bump
  /\ mutex \in Thread \cup {NoThread}
  /\ call \in [Thread -> Calls]
  /\ ranges \subseteq [chunk : Nat, at : Nat, size : Nat]

(* The first chunk and the ones added since the last reset.                *)
Visited == DOMAIN bump \ (2 .. retained)

(* A call names a chunk that the arena still visits, and the mutex is held *)
(* exactly by the thread that extends the arena.                           *)
CallInv ==
  \A t \in Thread : /\ call[t].chunk \in Visited
                    /\ call[t].pc = "extend" <=> mutex = t

(* A thread in the loop asks for a layout that a fresh block holds, and    *)
(* the offset it will try to move leaves room for it.                      *)
Busy == {"load", "bump", "cas", "lock", "extend"}
LoopInv ==
  \A t \in Thread :
    /\ call[t].pc \in Busy => call[t].layout \in Layouts /\ call[t].layout.size <= BlockSize
    /\ call[t].pc = "cas" => Fits(call[t].bump, call[t].layout)

(* The holder of the mutex has seen the current chunk too full for its     *)
(* layout, and nobody can make room.                                       *)
FullInv == \A t \in Thread :
  call[t].pc = "extend" => ~Fits(bump[current_chunk], call[t].layout)

RangesInv == \A r \in ranges : r.chunk \in DOMAIN bump

IInv ==
  /\ Types /\ CallInv /\ LoopInv /\ FullInv /\ RangesInv
  /\ NoOverlap /\ CapRespected /\ NoChunkSkipped

(* Every layout a call may hold has a positive alignment.                  *)
LEMMA LayoutType ==
  ASSUME Types, NEW t \in Thread
  PROVE  /\ call[t] \in Calls
         /\ call[t].layout \in [size : Nat, align : Nat \ {0}]
<1>1. call[t] \in Calls
  BY DEF Types
<1>2. call[t].layout \in CallLayouts
  BY <1>1 DEF Calls
<1>3. Idle.layout \in [size : Nat, align : Nat \ {0}]
  BY DEF Idle
<1> QED BY <1>1, <1>2, <1>3, LayoutAssumption DEF CallLayouts

(* The records of a thread that makes no call.                             *)
LEMMA IdleCall ==
  /\ Idle \in Calls /\ Panicked \in Calls
  /\ Idle.pc = "idle" /\ Panicked.pc = "panic"
  /\ Idle.chunk = 1 /\ Panicked.chunk = 1
<1>1. /\ "idle" \in Labels /\ "panic" \in Labels /\ "" \in Fns
      /\ Idle.layout \in CallLayouts /\ Idle.layout = [size |-> 0, align |-> 1]
  BY DEF Labels, Fns, CallLayouts, Idle
<1>2. Idle \in Calls
  BY <1>1 DEF Calls, Idle
<1>3. Panicked \in Calls
  BY <1>1, <1>2 DEF Calls, Panicked
<1> QED BY <1>2, <1>3 DEF Idle, Panicked

LEMMA Initially == Init => IInv
<1> SUFFICES ASSUME Init PROVE IInv
  OBVIOUS
<1> USE PolicyAssumption, LayoutAssumption DEF Init
<1>1. Types
  <2>2. bump \in Seq(0 .. BlockSize) /\ current_chunk \in DOMAIN bump
    OBVIOUS
  <2> QED BY <2>2, IdleCall DEF Types
<1>2. CallInv /\ LoopInv /\ FullInv /\ RangesInv
  <2>1. \A t \in Thread : call[t].pc = "idle" /\ call[t].chunk = 1
    BY IdleCall
  <2> QED BY <2>1 DEF CallInv, Visited, LoopInv, FullInv, RangesInv, Busy
<1>3. NoOverlap /\ CapRespected /\ NoChunkSkipped
  BY DEF NoOverlap, CapRespected, NoChunkSkipped
<1> QED BY <1>1, <1>2, <1>3 DEF IInv

(* A step that moves only one thread, leaves the chunks and the ranges     *)
(* alone and does not enter or leave the mutex.                            *)
LEMMA LocalStep ==
  ASSUME IInv, NEW t \in Thread, UNCHANGED <<shared, mutex, ranges>>,
         memory_used' \in Nat, resets' = resets, retained' = retained,
         NEW c \in Calls, call' = [call EXCEPT ![t] = c],
         c.chunk \in Visited, c.pc # "extend", call[t].pc # "extend",
         c.pc \in Busy => c.layout \in Layouts /\ c.layout.size <= BlockSize,
         c.pc = "cas" => Fits(c.bump, c.layout)
  PROVE  IInv'
<1> USE DEF IInv, shared
<1>1. Types'
  BY DEF Types
<1>2. CallInv'
  BY DEF CallInv, Types, Visited
<1>3. LoopInv'
  BY DEF LoopInv, Types, Fits, End, Aligned
<1>4. FullInv'
  BY DEF FullInv, Types, Fits, End, Aligned
<1>5. RangesInv' /\ NoOverlap' /\ CapRespected' /\ NoChunkSkipped'
  BY DEF RangesInv, NoOverlap, CapRespected, NoChunkSkipped, Fits, End, Aligned
<1> QED BY <1>1, <1>2, <1>3, <1>4, <1>5

(* What Restart leaves in the thread's record.                             *)
Restarted(t, label) == [call[t] EXCEPT !.pc = label, !.chunk = 1, !.bump = 0]

LEMMA RestartIs ==
  ASSUME Types, NEW t \in Thread, NEW label \in Labels, Restart(t, label)
  PROVE  /\ call' = [call EXCEPT ![t] = Restarted(t, label)]
         /\ Restarted(t, label) \in Calls
         /\ Restarted(t, label).pc = label /\ Restarted(t, label).chunk = 1
         /\ Restarted(t, label).layout = call[t].layout
         /\ 1 \in Visited
<1>1. call[t] \in Calls /\ call \in [Thread -> Calls]
  BY DEF Types
<1>2. Restarted(t, label) \in Calls
  BY <1>1 DEF Calls, Restarted
<1>3. call' = [call EXCEPT ![t] = Restarted(t, label)]
  BY <1>1 DEF Restart, Restarted
<1>4. 1 \in Visited
  BY DEF Types, Visited
<1> QED BY <1>1, <1>2, <1>3, <1>4 DEF Calls, Restarted

-----------------------------------------------------------------------------
(* One lemma per action.                                                   *)

LEMMA AllocStep ==
  ASSUME IInv, NEW t \in Thread, Alloc(t)
  PROVE  IInv'
<1>1. PICK l \in Layouts, fn \in {"alloc_raw", "alloc_raw_fallback"} :
       call' = [call EXCEPT ![t] =
         IF l.size <= BlockSize
         THEN [Idle EXCEPT !.fn = fn, !.layout = l, !.pc = "load"]
         ELSE IF fn = "alloc_raw" THEN Panicked ELSE Idle]
  BY DEF Alloc
<1> DEFINE c == IF l.size <= BlockSize
                THEN [Idle EXCEPT !.fn = fn, !.layout = l, !.pc = "load"]
                ELSE IF fn = "alloc_raw" THEN Panicked ELSE Idle
<1>2. /\ c \in Calls /\ c.chunk = 1 /\ c.pc \in {"load", "panic", "idle"}
      /\ c.pc = "load" => c.layout \in Layouts /\ c.layout.size <= BlockSize
  <2> DEFINE d == [Idle EXCEPT !.fn = fn, !.layout = l, !.pc = "load"]
  <2>1. d \in Calls /\ d.chunk = 1 /\ d.pc = "load" /\ d.layout = l
    <3>1. "load" \in Labels /\ fn \in Fns /\ l \in CallLayouts /\ Idle \in Calls
      BY IdleCall DEF Labels, Fns, CallLayouts
    <3> QED BY <3>1, IdleCall DEF Calls
  <2> HIDE DEF d
  <2>2. c = IF l.size <= BlockSize THEN d ELSE IF fn = "alloc_raw" THEN Panicked ELSE Idle
    BY DEF d
  <2> HIDE DEF c
  <2> QED BY <2>1, <2>2, IdleCall
<1>3. 1 \in Visited
  BY DEF IInv, Types, Visited
<1> HIDE DEF c
<1> QED BY <1>1, <1>2, <1>3, LocalStep DEF Alloc, c, IInv, Types, Busy

LEMMA LoadChunkStep ==
  ASSUME IInv, NEW t \in Thread, LoadChunk(t)
  PROVE  IInv'
<1> DEFINE c == [call[t] EXCEPT !.pc = "bump", !.chunk = current_chunk]
<1>1. call[t] \in Calls /\ call \in [Thread -> Calls]
  BY DEF IInv, Types
<1>2. current_chunk \in Visited /\ current_chunk \in Nat
  BY DEF IInv, Types, Visited, NoChunkSkipped
<1>3. /\ c \in Calls /\ c.chunk = current_chunk /\ c.pc = "bump"
      /\ c.layout = call[t].layout
  <2>1. "bump" \in Labels
    BY DEF Labels
  <2> QED BY <1>1, <1>2, <2>1 DEF Calls
<1>4. call' = [call EXCEPT ![t] = c]
  BY <1>1 DEF LoadChunk
<1>5. call[t].pc = "load" /\ UNCHANGED <<shared, memory_used, mutex, ranges, resets, retained>>
  BY DEF LoadChunk
<1>6. call[t].layout \in Layouts /\ call[t].layout.size <= BlockSize
  BY <1>5 DEF IInv, LoopInv, Busy
<1> HIDE DEF c
<1> QED BY <1>2, <1>3, <1>4, <1>5, <1>6, LocalStep DEF IInv, Types

LEMMA LoadBumpStep ==
  ASSUME IInv, NEW t \in Thread, LoadBump(t)
  PROVE  IInv'
<1> DEFINE b == bump[call[t].chunk]
           c == [call[t] EXCEPT !.bump = b, !.pc = "cas"]
<1>1. call[t] \in Calls /\ call \in [Thread -> Calls] /\ Types
  BY DEF IInv, Types
<1>2. call[t].chunk \in Visited
  BY DEF IInv, CallInv
<1>3. b \in Nat
  BY <1>2, PolicyAssumption DEF IInv, Types, Visited
<1>5. call[t].pc = "bump" /\ UNCHANGED <<shared, memory_used, mutex, ranges, resets, retained>>
  BY DEF LoadBump
<1>6. call[t].layout \in Layouts /\ call[t].layout.size <= BlockSize
  BY <1>5 DEF IInv, LoopInv, Busy
<1>7. CASE Fits(b, call[t].layout)
  <2>1. call' = [call EXCEPT ![t] = c]
    BY <1>1, <1>7 DEF LoadBump
  <2>2. /\ c \in Calls /\ c.chunk = call[t].chunk /\ c.pc = "cas"
        /\ c.layout = call[t].layout /\ c.bump = b
    <3>1. "cas" \in Labels
      BY DEF Labels
    <3> QED BY <1>1, <1>3, <3>1 DEF Calls
  <2> HIDE DEF b, c
  <2> QED BY <1>2, <1>5, <1>6, <1>7, <2>1, <2>2, LocalStep DEF IInv, Types
<1>8. CASE ~Fits(b, call[t].layout)
  <2>1. Restart(t, "lock")
    BY <1>8 DEF LoadBump
  <2> HIDE DEF b, c
  <2> QED BY <1>1, <1>5, <1>6, <2>1, RestartIs, LocalStep DEF IInv, Types, Labels
<1> QED BY <1>7, <1>8

LEMMA RetryStep ==
  ASSUME IInv, NEW t \in Thread, Retry(t)
  PROVE  IInv'
<1>1. /\ Types /\ call[t].pc = "cas"
      /\ UNCHANGED <<shared, memory_used, mutex, ranges, resets, retained>>
  BY DEF Retry, IInv
<1>2. call[t].layout \in Layouts /\ call[t].layout.size <= BlockSize
  BY <1>1 DEF IInv, LoopInv, Busy
<1>3. Restart(t, "load")
  BY DEF Retry
<1> QED BY <1>1, <1>2, <1>3, RestartIs, LocalStep DEF Types, Labels

LEMMA CountUsedStep ==
  ASSUME IInv, NEW t \in Thread, CountUsed(t)
  PROVE  IInv'
<1>1. call[t].layout.size \in Nat
  BY LayoutType DEF IInv
<1>2. memory_used' \in Nat
  BY <1>1 DEF CountUsed, IInv, Types
<1>4. 1 \in Visited
  BY DEF IInv, Types, Visited
<1> QED BY <1>2, <1>4, IdleCall, LocalStep DEF CountUsed, Busy

(* The CAS: the new range begins at or behind the old bump and ends at the *)
(* new one, and every earlier range of the chunk ends below the old bump.  *)
LEMMA TakeRangeStep ==
  ASSUME IInv, NEW t \in Thread, TakeRange(t)
  PROVE  IInv'
<1> DEFINE k == call[t].chunk
           b == call[t].bump
           l == call[t].layout
           e == End(b, l)
<1>1. /\ Types /\ call[t].pc = "cas" /\ bump[k] = b
      /\ bump' = [bump EXCEPT ![k] = e]
      /\ ranges' = ranges \cup {Taken(t)}
      /\ Restart(t, "count")
      /\ UNCHANGED <<current_chunk, allocated_bytes, memory_used, mutex, resets, retained>>
  BY DEF TakeRange, IInv
<1>2. k \in DOMAIN bump /\ k \notin 2 .. retained /\ k \in Nat /\ b \in Nat
  <2>1. call[t] \in Calls
    BY <1>1, LayoutType
  <2> QED BY <2>1 DEF IInv, CallInv, Visited, Calls
<1>3. l \in Layouts /\ l.size \in Nat /\ l \in [size : Nat, align : Nat \ {0}]
  BY <1>1, LayoutType, LayoutAssumption DEF IInv, LoopInv, Busy
<1>4. /\ Aligned(b, l) \in Nat /\ e \in Nat
      /\ b <= Aligned(b, l) /\ Aligned(b, l) + l.size = e /\ b <= e
  BY <1>2, <1>3, EndBounds
<1>5. e <= BlockSize
  BY <1>1 DEF IInv, LoopInv, Fits
<1>6. Taken(t) = [chunk |-> k, at |-> Aligned(b, l), size |-> l.size]
  BY DEF Taken
<1>7. /\ call' = [call EXCEPT ![t] = Restarted(t, "count")]
      /\ Restarted(t, "count") \in Calls
      /\ Restarted(t, "count").pc = "count" /\ Restarted(t, "count").chunk = 1
      /\ 1 \in Visited
  BY <1>1, RestartIs DEF Labels
<1> HIDE DEF k, b, l, e
<1>8. /\ bump' \in Seq(0 .. BlockSize) /\ DOMAIN bump' = DOMAIN bump /\ Len(bump') = Len(bump)
      /\ \A i \in DOMAIN bump : bump[i] \in Nat /\ bump'[i] \in Nat /\ bump[i] <= bump'[i]
      /\ bump'[k] = e /\ \A i \in DOMAIN bump \ {k} : bump'[i] = bump[i]
  <2>1. /\ bump \in Seq(0 .. BlockSize) /\ bump[k] = b
        /\ bump' = [bump EXCEPT ![k] = e] /\ e \in 0 .. BlockSize
    BY <1>1, <1>4, <1>5, PolicyAssumption DEF Types
  <2> QED BY <1>2, <1>4, <2>1, PolicyAssumption
<1>9. Types'
  BY <1>1, <1>2, <1>3, <1>4, <1>6, <1>7, <1>8 DEF Types
<1>10. CallInv'
  BY <1>1, <1>7, <1>8 DEF IInv, CallInv, Visited, Types
<1>11. LoopInv'
  BY <1>1, <1>7 DEF IInv, LoopInv, Types, Busy, Fits, End, Aligned
<1>12. FullInv'
  <2> SUFFICES ASSUME NEW u \in Thread, call'[u].pc = "extend",
                      Fits(bump'[current_chunk'], call'[u].layout)
               PROVE  FALSE
    BY DEF FullInv, Fits, End, Aligned
  <2>1. u # t /\ call'[u] = call[u]
    BY <1>1, <1>7 DEF Types
  <2>2. Fits(bump[current_chunk], call[u].layout)
    BY <2>1, <1>1, <1>8, LayoutType, FitsAntitone DEF Types
  <2> QED BY <2>1, <2>2 DEF IInv, FullInv
<1>13. RangesInv'
  BY <1>1, <1>2, <1>6, <1>8 DEF IInv, RangesInv
<1>14. \A r \in ranges : /\ r.at \in Nat /\ r.size \in Nat /\ r.chunk \in DOMAIN bump
                         /\ r.at + r.size <= bump[r.chunk]
  BY <1>1 DEF IInv, Types, RangesInv, NoOverlap
<1>15. NoOverlap'
  <2>1. \A r \in ranges' : r.at + r.size <= bump'[r.chunk]
    <3> SUFFICES ASSUME NEW r \in ranges' PROVE r.at + r.size <= bump'[r.chunk]
      OBVIOUS
    <3>1. CASE r \in ranges
      BY <3>1, <1>14, <1>8
    <3>2. CASE r = Taken(t)
      BY <3>2, <1>6, <1>4, <1>8
    <3> QED BY <3>1, <3>2, <1>1
  <2>2. ASSUME NEW r \in ranges, r.chunk = k
        PROVE  r.at + r.size <= Aligned(b, l)
    BY <2>2, <1>1, <1>2, <1>4, <1>14
  <2>3. \A r, s \in ranges : r # s /\ r.chunk = s.chunk =>
          r.at + r.size <= s.at \/ s.at + s.size <= r.at
    BY DEF IInv, NoOverlap
  <2>4. Taken(t).chunk = k /\ Taken(t).at = Aligned(b, l)
    BY <1>6
  <2>5. \A r, s \in ranges' : r # s /\ r.chunk = s.chunk =>
          r.at + r.size <= s.at \/ s.at + s.size <= r.at
    BY <1>1, <2>2, <2>3, <2>4
  <2> QED BY <2>1, <2>5 DEF NoOverlap
<1>16. CapRespected'
  BY <1>1, <1>8 DEF IInv, CapRespected
<1>17. NoChunkSkipped'
  <2> SUFFICES ASSUME NEW i \in {1} \cup (retained + 1 .. Len(bump)), i # current_chunk
               PROVE  \E m \in Layouts : m.size <= BlockSize /\ ~Fits(bump'[i], m)
    <3>1. \A j \in 2 .. retained : bump'[j] = 0
      BY <1>1, <1>2, <1>8 DEF IInv, NoChunkSkipped, Types
    <3> QED BY <1>1, <1>8, <3>1 DEF IInv, NoChunkSkipped, Fits, End, Aligned
  <2>1. PICK m \in Layouts : m.size <= BlockSize /\ ~Fits(bump[i], m)
    BY DEF IInv, NoChunkSkipped
  <2>2. i \in DOMAIN bump
    BY <1>1 DEF Types
  <2>3. ~Fits(bump'[i], m)
    BY <2>1, <2>2, <1>8, FitsAntitone, LayoutAssumption
  <2> QED BY <2>1, <2>3
<1> QED BY <1>9, <1>10, <1>11, <1>12, <1>13, <1>15, <1>16, <1>17 DEF IInv

LEMMA LockChunksStep ==
  ASSUME IInv, NEW t \in Thread, LockChunks(t)
  PROVE  IInv'
<1>1. /\ Types /\ call[t].pc = "lock" /\ mutex = NoThread
      /\ UNCHANGED <<shared, memory_used, ranges, resets, retained>>
      /\ UNCHANGED <<bump, current_chunk, allocated_bytes>>
  BY DEF LockChunks, IInv, shared
<1>2. call[t].layout \in Layouts /\ call[t].layout.size <= BlockSize
  BY <1>1 DEF IInv, LoopInv, Busy
<1>3. CASE Fits(bump[current_chunk], call[t].layout)
  <2>1. Restart(t, "load") /\ UNCHANGED mutex
    BY <1>3 DEF LockChunks
  <2> QED BY <1>1, <1>2, <2>1, RestartIs, LocalStep DEF Types, Labels
<1>4. CASE ~Fits(bump[current_chunk], call[t].layout)
  <2>1. Restart(t, "extend") /\ mutex' = t
    BY <1>4 DEF LockChunks
  <2>2. /\ call' = [call EXCEPT ![t] = Restarted(t, "extend")]
        /\ Restarted(t, "extend") \in Calls
        /\ Restarted(t, "extend").pc = "extend" /\ Restarted(t, "extend").chunk = 1
        /\ Restarted(t, "extend").layout = call[t].layout
        /\ 1 \in Visited
    BY <1>1, <2>1, RestartIs DEF Labels
  <2>3. Types'
    BY <1>1, <2>1, <2>2 DEF Types
  <2>4. CallInv'
    BY <1>1, <2>1, <2>2, LayoutAssumption DEF IInv, CallInv, Visited, Types
  <2>5. LoopInv'
    BY <1>1, <1>2, <2>2 DEF IInv, LoopInv, Types, Busy, Fits, End, Aligned
  <2>6. FullInv'
    BY <1>1, <1>4, <2>2 DEF IInv, FullInv, Types, Fits, End, Aligned
  <2>7. RangesInv' /\ NoOverlap' /\ CapRespected' /\ NoChunkSkipped'
    BY <1>1 DEF IInv, RangesInv, NoOverlap, CapRespected, NoChunkSkipped, Fits, End, Aligned
  <2> QED BY <2>3, <2>4, <2>5, <2>6, <2>7 DEF IInv
<1> QED BY <1>3, <1>4

(* What a refused call leaves.                                             *)
Refused(t) ==
  IF call[t].fn = "alloc_raw" THEN Panicked
  ELSE [Idle EXCEPT !.pc = "full", !.layout = call[t].layout]

(* The chunk that is left behind is the one the holder found too full, and *)
(* no thread but the holder may be at this point.                          *)
LEMMA ExtendStep ==
  ASSUME IInv, NEW t \in Thread, Extend(t)
  PROVE  IInv'
<1>1. /\ Types /\ call[t].pc = "extend" /\ mutex' = NoThread /\ mutex = t
      /\ UNCHANGED <<memory_used, ranges, resets, retained>>
  BY DEF Extend, IInv, CallInv
<1>2. call[t].layout \in Layouts /\ call[t].layout.size <= BlockSize
  BY <1>1 DEF IInv, LoopInv, Busy
<1>3. \A u \in Thread : u # t => call[u].pc # "extend"
  BY <1>1 DEF IInv, CallInv
<1>4. CASE allocated_bytes + BlockSize > Cap
  <2>1. /\ call' = [call EXCEPT ![t] = Refused(t)]
        /\ UNCHANGED <<bump, current_chunk, allocated_bytes>>
    BY <1>4 DEF Extend, Refuse, Refused, shared
  <2>2. /\ Refused(t) \in Calls /\ Refused(t).chunk = 1
        /\ Refused(t).pc \in {"full", "panic"}
    <3>1. "full" \in Labels /\ call[t].layout \in CallLayouts
      BY <1>2 DEF Labels, CallLayouts
    <3>2. /\ [Idle EXCEPT !.pc = "full", !.layout = call[t].layout] \in Calls
          /\ [Idle EXCEPT !.pc = "full", !.layout = call[t].layout].chunk = 1
          /\ [Idle EXCEPT !.pc = "full", !.layout = call[t].layout].pc = "full"
      BY <3>1, IdleCall DEF Calls
    <3> QED BY <3>2, IdleCall DEF Refused
  <2>3. Types'
    BY <1>1, <2>1, <2>2 DEF Types
  <2>4. CallInv'
    BY <1>1, <1>3, <2>1, <2>2, LayoutAssumption DEF IInv, CallInv, Visited, Types
  <2>5. LoopInv'
    BY <2>1, <2>2 DEF IInv, LoopInv, Types, Busy, Fits, End, Aligned
  <2>6. FullInv'
    BY <1>3, <2>1, <2>2 DEF FullInv, IInv, Types
  <2>7. RangesInv' /\ NoOverlap' /\ CapRespected' /\ NoChunkSkipped'
    BY <1>1, <2>1 DEF IInv, RangesInv, NoOverlap, CapRespected, NoChunkSkipped, Fits, End, Aligned
  <2> QED BY <2>3, <2>4, <2>5, <2>6, <2>7 DEF IInv
<1>5. CASE ~(allocated_bytes + BlockSize > Cap)
  <2>1. /\ allocated_bytes' = allocated_bytes + BlockSize
        /\ bump' = Append(bump, 0) /\ current_chunk' = Len(bump')
        /\ Restart(t, "load")
    BY <1>5 DEF Extend
  <2>2. /\ call' = [call EXCEPT ![t] = Restarted(t, "load")]
        /\ Restarted(t, "load") \in Calls
        /\ Restarted(t, "load").pc = "load" /\ Restarted(t, "load").chunk = 1
        /\ Restarted(t, "load").layout = call[t].layout
        /\ 1 \in Visited
    BY <1>1, <2>1, RestartIs DEF Labels
  <2>3. /\ bump' \in Seq(0 .. BlockSize) /\ Len(bump') = Len(bump) + 1
        /\ Len(bump) \in Nat /\ DOMAIN bump = 1 .. Len(bump)
        /\ DOMAIN bump' = 1 .. Len(bump) + 1
        /\ \A i \in DOMAIN bump : bump'[i] = bump[i]
    BY <1>1, <2>1, PolicyAssumption DEF Types
  <2>4. Types'
    BY <1>1, <2>1, <2>2, <2>3, PolicyAssumption DEF Types
  <2>5. CallInv'
    BY <1>1, <1>3, <2>2, <2>3, LayoutAssumption DEF IInv, CallInv, Visited, Types
  <2>6. LoopInv'
    BY <1>2, <2>2 DEF IInv, LoopInv, Types, Busy, Fits, End, Aligned
  <2>7. FullInv'
    BY <1>3, <2>2 DEF FullInv, IInv, Types
  <2>8. RangesInv' /\ NoOverlap'
    BY <1>1, <2>3 DEF IInv, RangesInv, NoOverlap
  <2>9. CapRespected'
    <3>1. BlockSize * (Len(bump) + 1) = BlockSize * Len(bump) + BlockSize
      BY <2>3, PolicyAssumption
    <3> QED BY <1>5, <2>1, <2>3, <3>1, PolicyAssumption DEF IInv, CapRespected, Types
  <2>10. NoChunkSkipped'
    <3> SUFFICES ASSUME NEW i \in {1} \cup (retained + 1 .. Len(bump))
                 PROVE  \E m \in Layouts : m.size <= BlockSize /\ ~Fits(bump[i], m)
      <4>1. /\ retained' = retained /\ retained \in 1 .. Len(bump)
            /\ current_chunk' = Len(bump) + 1 /\ Len(bump') # retained'
        BY <1>1, <2>1, <2>3 DEF Types
      <4>2. ASSUME NEW i \in {1} \cup (retained' + 1 .. Len(bump')), i # current_chunk'
            PROVE  i \in {1} \cup (retained + 1 .. Len(bump)) /\ bump'[i] = bump[i]
        BY <2>3, <4>1, <4>2
      <4>3. \A j \in 2 .. retained' : bump'[j] = 0
        <5>1. \A j \in 2 .. retained : bump[j] = 0
          BY DEF IInv, NoChunkSkipped
        <5>2. \A j \in 2 .. retained : j \in 1 .. Len(bump)
          BY <2>3, <4>1
        <5> QED BY <2>3, <4>1, <5>1, <5>2
      <4> QED BY <2>3, <4>1, <4>2, <4>3 DEF NoChunkSkipped, Fits, End, Aligned
    <3>1. CASE i = current_chunk
      BY <1>1, <1>2, <3>1 DEF IInv, FullInv
    <3>2. CASE i # current_chunk
      BY <2>3, <3>2 DEF IInv, NoChunkSkipped
    <3> QED BY <3>1, <3>2
  <2> QED BY <2>4, <2>5, <2>6, <2>7, <2>8, <2>9, <2>10 DEF IInv
<1> QED BY <1>4, <1>5

LEMMA ResetStep ==
  ASSUME IInv, Reset
  PROVE  IInv'
<1>1. /\ Types /\ \A t \in Thread : call[t].pc \in {"idle", "full", "panic"}
      /\ resets' = resets + 1 /\ retained' = Len(bump)
      /\ bump' = [i \in DOMAIN bump |-> 0]
      /\ current_chunk' = 1 /\ memory_used' = 0 /\ ranges' = {}
      /\ call' = [t \in Thread |-> IF call[t] = Panicked THEN Panicked ELSE Idle]
      /\ UNCHANGED <<allocated_bytes, mutex>>
  BY DEF Reset, IInv
<1>2. \A t \in Thread : /\ call'[t] \in Calls /\ call'[t].chunk = 1
                        /\ call'[t].pc \in {"idle", "panic"}
  BY <1>1, IdleCall
<1>3. /\ bump' \in Seq(0 .. BlockSize) /\ DOMAIN bump' = DOMAIN bump
      /\ Len(bump') = Len(bump) /\ 1 \in DOMAIN bump
  BY <1>1, PolicyAssumption, SMTT(30) DEF Types
<1>4. Types'
  BY <1>1, <1>2, <1>3, IdleCall DEF Types
<1>5. CallInv'
  BY <1>1, <1>2, <1>3 DEF IInv, CallInv, Visited
<1>6. LoopInv' /\ FullInv'
  BY <1>2 DEF LoopInv, FullInv, Busy
<1>7. RangesInv' /\ NoOverlap'
  BY <1>1 DEF RangesInv, NoOverlap
<1>8. CapRespected'
  BY <1>1, <1>3 DEF IInv, CapRespected
<1>9. NoChunkSkipped'
  BY <1>1, <1>3 DEF NoChunkSkipped, Types
<1> QED BY <1>4, <1>5, <1>6, <1>7, <1>8, <1>9 DEF IInv

LEMMA NextStep == IInv /\ [Next]_vars => IInv'
<1> SUFFICES ASSUME IInv, [Next]_vars PROVE IInv'
  OBVIOUS
<1>1. ASSUME NEW t \in Thread, Alloc(t) \/ Step(t) \/ Retry(t)
      PROVE  IInv'
  BY <1>1, AllocStep, LoadChunkStep, LoadBumpStep, TakeRangeStep, CountUsedStep,
     LockChunksStep, ExtendStep, RetryStep DEF Step
<1>2. CASE UNCHANGED vars
  BY <1>2 DEF vars, shared, IInv, Types, CallInv, Visited, LoopInv, FullInv, RangesInv,
     NoOverlap, CapRespected, NoChunkSkipped, Fits, End, Aligned
<1> QED BY <1>1, <1>2, ResetStep DEF Next

-----------------------------------------------------------------------------
(* Theorems                                                                *)

LEMMA Invariance == Spec => []IInv
BY Initially, NextStep, PTL DEF Spec

(* The types of the arena, and the mutex on the chunks is held exactly by  *)
(* the thread that is adding one.                                          *)
THEOREM TypeCorrect == Spec => []TypeOK
<1>1. IInv => TypeOK
  <2> SUFFICES ASSUME IInv PROVE TypeOK
    OBVIOUS
  <2>1. \A t \in Thread : call[t].layout \in Layouts \cup {Idle.layout}
    BY LayoutType DEF IInv, Calls, CallLayouts
  <2> QED BY <2>1 DEF IInv, Types, CallInv, Visited, TypeOK
<1> QED BY <1>1, Invariance, PTL

(* However many threads race for the offset of a chunk, the ranges that    *)
(* alloc_raw hands out are pairwise apart and lie inside their chunk.      *)
THEOREM NoOverlapAlways == Spec => []NoOverlap
<1>1. IInv => NoOverlap
  BY DEF IInv
<1> QED BY <1>1, Invariance, PTL

(* The arena never holds more bytes than ArenaPolicy.cap, however many     *)
(* threads find the chunk full at the same time.                           *)
THEOREM CapAlwaysRespected == Spec => []CapRespected
<1>1. IInv => CapRespected
  BY DEF IInv
<1> QED BY <1>1, Invariance, PTL

(* try_new_chunk's second look under the mutex: no chunk is added while    *)
(* the current one still has room for every layout, and since the arena    *)
(* was made or reset all the chunks added are in use.  The other chunks    *)
(* that reset retained are never taken from again.                         *)
THEOREM NoChunkIsSkipped == Spec => []NoChunkSkipped
<1>1. IInv => NoChunkSkipped
  BY DEF IInv
<1> QED BY <1>1, Invariance, PTL

-----------------------------------------------------------------------------
(* The bytes in use.  A CAS adds a range apart from all the others to what *)
(* is handed out and as many bytes to what the thread has yet to count.    *)
UsedInv == IsFiniteSet(HandedOut) /\ IsFiniteSet(Uncounted) /\ UsedMatchesRanges

(* The bytes of one range, and the marks of one thread.                    *)
Strip(x, a, b) == {x} \X (a .. b)

LEMMA StripSize ==
  ASSUME NEW x, NEW a \in Int, NEW n \in Nat, NEW b, b = a + n - 1
  PROVE  IsFiniteSet(Strip(x, a, b)) /\ Cardinality(Strip(x, a, b)) = n
<1>1. IsFiniteSet({x}) /\ Cardinality({x}) = 1
  BY FS_Singleton
<1>2. b \in Int
  OBVIOUS
<1>3. IsFiniteSet(a .. b) /\ Cardinality(a .. b) = IF a > b THEN 0 ELSE b - a + 1
  BY <1>2, FS_Interval
<1>4. Cardinality(a .. b) = n
  BY <1>3
<1>5. /\ IsFiniteSet({x} \X (a .. b))
      /\ Cardinality({x} \X (a .. b)) = Cardinality({x}) * Cardinality(a .. b)
  BY <1>1, <1>3, FS_Product
<1> QED BY <1>1, <1>4, <1>5 DEF Strip

LEMMA MarksSize ==
  ASSUME NEW x, NEW n \in Nat
  PROVE  IsFiniteSet(Strip(x, 1, n)) /\ Cardinality(Strip(x, 1, n)) = n
<1>1. PICK i, b : i = 1 /\ b = i + n - 1
  OBVIOUS
<1>2. i \in Int
  BY <1>1
<1>3. IsFiniteSet(Strip(x, i, b)) /\ Cardinality(Strip(x, i, b)) = n
  BY <1>1, <1>2, StripSize, ZenonT(30)
<1> QED BY <1>1, <1>3

LEMMA DisjointSize ==
  ASSUME NEW S, IsFiniteSet(S), NEW T, IsFiniteSet(T), S \cap T = {}
  PROVE  /\ IsFiniteSet(S \cup T) /\ Cardinality(S) \in Nat /\ Cardinality(T) \in Nat
         /\ Cardinality(S \cup T) = Cardinality(S) + Cardinality(T)
<1>1. /\ IsFiniteSet(S \cup T) 
      /\ Cardinality(S \cup T) = Cardinality(S) + Cardinality(T) - Cardinality(S \cap T)
  BY FS_Union
<1>2. Cardinality(S) \in Nat /\ Cardinality(T) \in Nat /\ Cardinality(S \cap T) = 0
  BY FS_CardinalityType, FS_EmptySet
<1> QED BY <1>1, <1>2

LEMMA UncountedIs ==
  /\ \A x : x \in Uncounted <=>
       \E u \in Thread : call[u].pc = "count" /\ x \in {u} \X (1 .. call[u].layout.size)
  /\ \A x : x \in Uncounted' <=>
       \E u \in Thread : call'[u].pc = "count" /\ x \in {u} \X (1 .. call'[u].layout.size)
BY DEF Uncounted

LEMMA HandedOutIs ==
  /\ \A x : x \in HandedOut <=> \E r \in ranges : x \in BytesOf(r)
  /\ \A x : x \in HandedOut' <=> \E r \in ranges' : x \in BytesOf(r)
BY DEF HandedOut, BytesOf

(* A thread moves and is at its count neither before nor after.            *)
LEMMA UsedSame ==
  ASSUME UsedInv, NEW t \in Thread, memory_used' = memory_used, ranges' = ranges,
         \A u \in Thread : u # t => call'[u] = call[u],
         call[t].pc # "count", call'[t].pc # "count"
  PROVE  UsedInv'
<1>1. Uncounted' = Uncounted
  <2>1. \A x : x \in Uncounted' <=> x \in Uncounted
    BY UncountedIs
  <2> QED BY <2>1
<1>2. HandedOut' = HandedOut
  BY DEF HandedOut, BytesOf
<1> QED BY <1>1, <1>2 DEF UsedInv, UsedMatchesRanges

LEMMA UsedTake ==
  ASSUME IInv, UsedInv, NEW t \in Thread, TakeRange(t)
  PROVE  UsedInv'
<1>1. PICK k, b, l, n : k = call[t].chunk /\ b = call[t].bump /\ l = call[t].layout /\ n = l.size
  OBVIOUS
<1>2. /\ Types /\ call[t].pc = "cas" /\ bump[k] = b /\ ranges' = ranges \cup {Taken(t)}
      /\ Restart(t, "count") /\ memory_used' = memory_used
  BY <1>1 DEF TakeRange, IInv
<1>3. k \in DOMAIN bump /\ b \in Nat /\ l \in [size : Nat, align : Nat \ {0}] /\ n \in Nat
  <2>1. call[t] \in Calls /\ call[t].layout \in [size : Nat, align : Nat \ {0}]
    BY <1>2, LayoutType
  <2> QED BY <1>1, <2>1 DEF IInv, CallInv, Visited, Calls
<1>4. PICK a : a = Aligned(b, l)
  OBVIOUS
<1>5. a \in Nat /\ b <= a
  BY <1>3, <1>4, EndBounds
<1>6. Taken(t) = [chunk |-> k, at |-> a, size |-> n]
  BY <1>1, <1>4 DEF Taken
<1>7. PICK e : e = a + n - 1
  OBVIOUS
<1>8. BytesOf(Taken(t)) = {k} \X (a .. e)
  BY <1>6, <1>7 DEF BytesOf
<1>9. /\ call'[t].pc = "count" /\ call'[t].layout = l
      /\ \A u \in Thread : u # t => call'[u] = call[u]
  <2>1. /\ call' = [call EXCEPT ![t] = Restarted(t, "count")] /\ Restarted(t, "count").pc = "count"
        /\ Restarted(t, "count").layout = call[t].layout
    BY <1>2, RestartIs DEF Labels
  <2> QED BY <1>1, <1>2, <2>1 DEF Types
<1>10. PICK H, U : H = {k} \X (a .. e) /\ U = {t} \X (1 .. n)
  OBVIOUS
<1>11. IsFiniteSet(H) /\ Cardinality(H) = n
  <2>1. a \in Int
    BY <1>5
  <2>2. IsFiniteSet(Strip(k, a, e)) /\ Cardinality(Strip(k, a, e)) = n
    BY <1>3, <1>7, <2>1, StripSize
  <2> QED BY <1>10, <2>2 DEF Strip
<1>12. IsFiniteSet(U) /\ Cardinality(U) = n
  <2>1. IsFiniteSet(Strip(t, 1, n)) /\ Cardinality(Strip(t, 1, n)) = n
    BY <1>3, MarksSize
  <2> QED BY <1>10, <2>1 DEF Strip
<1>13. HandedOut' = HandedOut \cup H
  <2>1. \A x : x \in HandedOut' <=> x \in HandedOut \/ x \in H
    BY <1>2, <1>8, <1>10, HandedOutIs
  <2> QED BY <2>1
<1>14. HandedOut \cap H = {}
  <2> SUFFICES ASSUME NEW x \in HandedOut, x \in H PROVE FALSE
    OBVIOUS
  <2>1. PICK r \in ranges : x \in BytesOf(r)
    BY HandedOutIs
  <2>2. r.at \in Nat /\ r.size \in Nat /\ r.at + r.size <= bump[r.chunk]
    BY <1>2 DEF IInv, Types, NoOverlap
  <2>3. x[1] = r.chunk /\ x[2] \in r.at .. r.at + r.size - 1
    BY <2>1 DEF BytesOf
  <2>4. x[1] = k /\ x[2] \in a .. e
    BY <1>10
  <2> QED BY <1>2, <1>3, <1>5, <1>7, <2>2, <2>3, <2>4
<1>15. Uncounted' = Uncounted \cup U
  <2>1. \A x : x \in Uncounted' <=> x \in Uncounted \/ x \in U
    BY <1>1, <1>2, <1>9, <1>10, UncountedIs
  <2> QED BY <2>1
<1>16. Uncounted \cap U = {}
  <2> SUFFICES ASSUME NEW x \in Uncounted, x \in U PROVE FALSE
    OBVIOUS
  <2>1. PICK u \in Thread : call[u].pc = "count" /\ x \in {u} \X (1 .. call[u].layout.size)
    BY UncountedIs
  <2>2. x[1] = u /\ x[1] = t
    BY <1>10, <2>1
  <2> QED BY <1>2, <2>1, <2>2
<1>17. IsFiniteSet(HandedOut) /\ IsFiniteSet(Uncounted) /\ memory_used \in Nat
  BY <1>2 DEF UsedInv, Types
<1>18. /\ IsFiniteSet(HandedOut') /\ Cardinality(HandedOut) \in Nat
       /\ Cardinality(HandedOut') = Cardinality(HandedOut) + n
  BY <1>11, <1>13, <1>14, <1>17, DisjointSize
<1>19. /\ IsFiniteSet(Uncounted') /\ Cardinality(Uncounted) \in Nat
       /\ Cardinality(Uncounted') = Cardinality(Uncounted) + n
  BY <1>12, <1>15, <1>16, <1>17, DisjointSize
<1>20. memory_used + Cardinality(Uncounted) = Cardinality(HandedOut)
  BY DEF UsedInv, UsedMatchesRanges
<1>21. memory_used' + Cardinality(Uncounted') = Cardinality(HandedOut')
  BY <1>2, <1>3, <1>17, <1>18, <1>19, <1>20
<1> QED BY <1>18, <1>19, <1>21 DEF UsedInv, UsedMatchesRanges

LEMMA UsedCount ==
  ASSUME IInv, UsedInv, NEW t \in Thread, CountUsed(t)
  PROVE  UsedInv'
<1>1. PICK n : n = call[t].layout.size
  OBVIOUS
<1>2. n \in Nat /\ Types /\ memory_used \in Nat
  BY <1>1, LayoutType DEF IInv, Types
<1>3. /\ call[t].pc = "count" /\ memory_used' = memory_used + n /\ ranges' = ranges
      /\ call' = [call EXCEPT ![t] = Idle]
  BY <1>1 DEF CountUsed
<1>4. call'[t].pc = "idle" /\ \A u \in Thread : u # t => call'[u] = call[u]
  BY <1>2, <1>3, IdleCall DEF Types
<1>5. PICK U : U = {t} \X (1 .. n)
  OBVIOUS
<1>6. IsFiniteSet(U) /\ Cardinality(U) = n
  <2>1. IsFiniteSet(Strip(t, 1, n)) /\ Cardinality(Strip(t, 1, n)) = n
    BY <1>2, MarksSize
  <2> QED BY <1>5, <2>1 DEF Strip
<1>7. Uncounted = Uncounted' \cup U
  <2>1. \A x : x \in Uncounted <=> x \in Uncounted' \/ x \in U
    BY <1>1, <1>3, <1>4, <1>5, UncountedIs
  <2> QED BY <2>1
<1>8. Uncounted' \cap U = {}
  <2> SUFFICES ASSUME NEW x \in Uncounted', x \in U PROVE FALSE
    OBVIOUS
  <2>1. PICK u \in Thread : call'[u].pc = "count" /\ x \in {u} \X (1 .. call'[u].layout.size)
    BY UncountedIs
  <2>2. x[1] = u /\ x[1] = t
    BY <1>5, <2>1
  <2> QED BY <1>4, <2>1, <2>2
<1>9. HandedOut' = HandedOut
  BY <1>3 DEF HandedOut, BytesOf
<1>10. IsFiniteSet(Uncounted')
  BY <1>7, FS_Subset DEF UsedInv
<1>11. Cardinality(Uncounted') \in Nat /\ Cardinality(Uncounted) = Cardinality(Uncounted') + n
  BY <1>6, <1>7, <1>8, <1>10, DisjointSize
<1>12. memory_used + Cardinality(Uncounted) = Cardinality(HandedOut) /\ IsFiniteSet(HandedOut)
  BY DEF UsedInv, UsedMatchesRanges
<1>13. memory_used' + Cardinality(Uncounted') = Cardinality(HandedOut')
  BY <1>2, <1>3, <1>9, <1>11, <1>12
<1> QED BY <1>9, <1>10, <1>12, <1>13 DEF UsedInv, UsedMatchesRanges

LEMMA UsedReset ==
  ASSUME IInv, Reset
  PROVE  UsedInv'
<1>1. /\ memory_used' = 0 /\ ranges' = {}
      /\ call' = [t \in Thread |-> IF call[t] = Panicked THEN Panicked ELSE Idle]
  BY DEF Reset
<1>2. \A t \in Thread : call'[t].pc # "count"
  BY <1>1, IdleCall
<1>3. HandedOut' = {} /\ Uncounted' = {}
  BY <1>1, <1>2, HandedOutIs, UncountedIs
<1> QED BY <1>1, <1>3, FS_EmptySet DEF UsedInv, UsedMatchesRanges

LEMMA UsedOther ==
  ASSUME IInv, UsedInv, NEW t \in Thread,
         Alloc(t) \/ LoadChunk(t) \/ LoadBump(t) \/ LockChunks(t) \/ Extend(t) \/ Retry(t)
  PROVE  UsedInv'
<1>1. Types /\ call \in [Thread -> Calls] /\ call[t] \in Calls
  BY DEF IInv, Types
<1>2. memory_used' = memory_used /\ ranges' = ranges /\ call[t].pc # "count"
  BY DEF Alloc, LoadChunk, LoadBump, LockChunks, Extend, Retry
<1>3. ASSUME NEW c, c.pc # "count", call' = [call EXCEPT ![t] = c]
      PROVE  UsedInv'
  <2>1. call'[t].pc # "count" /\ \A u \in Thread : u # t => call'[u] = call[u]
    BY <1>1, <1>3
  <2> QED BY <1>2, <2>1, UsedSame
<1>4. ASSUME NEW label \in {"load", "lock", "extend"}, Restart(t, label)
      PROVE  UsedInv'
  <2>1. call' = [call EXCEPT ![t] = Restarted(t, label)] /\ Restarted(t, label).pc = label
    BY <1>1, <1>4, RestartIs DEF Labels
  <2> QED BY <1>3, <1>4, <2>1
<1>5. CASE Alloc(t)
  <2>1. PICK l \in Layouts, fn \in {"alloc_raw", "alloc_raw_fallback"} :
         call' = [call EXCEPT ![t] =
           IF l.size <= BlockSize
           THEN [Idle EXCEPT !.fn = fn, !.layout = l, !.pc = "load"]
           ELSE IF fn = "alloc_raw" THEN Panicked ELSE Idle]
    BY <1>5 DEF Alloc
  <2>2. PICK d : d = [Idle EXCEPT !.fn = fn, !.layout = l, !.pc = "load"]
    OBVIOUS
  <2>3. d.pc = "load"
    BY <2>2, IdleCall DEF Idle
  <2>4. PICK c : c = IF l.size <= BlockSize THEN d ELSE IF fn = "alloc_raw" THEN Panicked ELSE Idle
    OBVIOUS
  <2>5. c.pc # "count"
    BY <2>3, <2>4, IdleCall
  <2> QED BY <1>3, <2>1, <2>2, <2>4, <2>5
<1>6. CASE LoadChunk(t)
  <2>1. PICK c : c = [call[t] EXCEPT !.pc = "bump", !.chunk = current_chunk]
    OBVIOUS
  <2>2. c.pc = "bump"
    BY <1>1, <2>1 DEF Calls
  <2>3. call' = [call EXCEPT ![t] = c]
    BY <1>1, <1>6, <2>1 DEF LoadChunk
  <2> QED BY <1>3, <2>2, <2>3
<1>7. CASE LoadBump(t)
  <2>1. PICK b, c : b = bump[call[t].chunk] /\ c = [call[t] EXCEPT !.bump = b, !.pc = "cas"]
    OBVIOUS
  <2>2. c.pc = "cas"
    BY <1>1, <2>1 DEF Calls
  <2>3. call' = [call EXCEPT ![t] = c] \/ Restart(t, "lock")
    BY <1>1, <1>7, <2>1 DEF LoadBump
  <2> QED BY <1>3, <1>4, <2>2, <2>3
<1>8. CASE LockChunks(t) \/ Retry(t)
  BY <1>4, <1>8 DEF LockChunks, Retry
<1>9. CASE Extend(t)
  <2>1. Restart(t, "load") \/ call' = [call EXCEPT ![t] = Refused(t)]
    BY <1>9 DEF Extend, Refuse, Refused
  <2>2. Refused(t).pc # "count"
    BY IdleCall DEF Refused, Idle
  <2> QED BY <1>3, <1>4, <2>1, <2>2
<1> QED BY <1>5, <1>6, <1>7, <1>8, <1>9

(* After every step memory_used, as alloc_raw and alloc_raw_fallback leave *)
(* it, is the number of bytes they have handed out since the last reset,   *)
(* but for the threads that have moved the offset and have yet to add      *)
(* their size.                                                             *)
THEOREM UsedAlwaysMatches == Spec => []UsedMatchesRanges
<1>1. Init => UsedInv
  <2> SUFFICES ASSUME Init PROVE UsedInv
    OBVIOUS
  <2>1. memory_used = 0 /\ ranges = {} /\ \A t \in Thread : call[t].pc # "count"
    BY IdleCall DEF Init
  <2>2. HandedOut = {} /\ Uncounted = {}
    BY <2>1, HandedOutIs, UncountedIs
  <2> QED BY <2>1, <2>2, FS_EmptySet DEF UsedInv, UsedMatchesRanges
<1>2. IInv /\ UsedInv /\ [Next]_vars => UsedInv'
  <2> SUFFICES ASSUME IInv, UsedInv, [Next]_vars PROVE UsedInv'
    OBVIOUS
  <2>1. ASSUME NEW t \in Thread, Alloc(t) \/ Step(t) \/ Retry(t) PROVE UsedInv'
    BY <2>1, UsedTake, UsedCount, UsedOther DEF Step
  <2>2. CASE UNCHANGED vars
    BY <2>2 DEF vars, UsedInv, UsedMatchesRanges, HandedOut, BytesOf, Uncounted
  <2> QED BY <2>1, <2>2, UsedReset DEF Next
<1>3. UsedInv => UsedMatchesRanges
  BY DEF UsedInv
<1> QED BY <1>1, <1>2, <1>3, Invariance, PTL DEF Spec
================================================================================
