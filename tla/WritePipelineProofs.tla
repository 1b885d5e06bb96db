------------------------ MODULE WritePipelineProofs ------------------------
(***************************************************************************)
(* Proofs about WritePipeline for every number of threads, every ring size *)
(* and every bound.                                                        *)
(***************************************************************************)
EXTENDS WritePipeline, SequenceTheorems, FiniteSetTheorems, TLAPS

(* Two positions less than a lap apart never share a slot.                 *)
LEMMA SlotsDistinct ==
  ASSUME NEW p \in Nat, NEW q \in Nat, p < q, q < p + N
  PROVE  Slot(p) # Slot(q)
<1> USE NAssumption DEF Slot
<1>1. p = N * (p \div N) + (p % N)
  OBVIOUS
<1>2. q = N * (q \div N) + (q % N)
  OBVIOUS
<1>3. /\ p \div N \in Int /\ q \div N \in Int
      /\ p % N \in Int /\ q % N \in Int
  OBVIOUS
<1>4. ASSUME NEW a \in Int, NEW b \in Int, NEW r \in Int,
             p = N * a + r, q = N * b + r
      PROVE  FALSE
  <2>1. q - p = N * (b - a)
    BY <1>4
  <2>2. b - a > 0
    BY <2>1
  <2>3. b - a < 1
    BY <2>1
  <2> QED
    BY <2>2, <2>3
<1> QED
  BY <1>1, <1>2, <1>3, <1>4

(* A position's slot is an index of slots.                                 *)
LEMMA SlotInRange == ASSUME NEW p \in Nat PROVE Slot(p) \in 0 .. (N - 1)
  BY NAssumption DEF Slot

-----------------------------------------------------------------------------
(* The inductive invariant, in parts.                                      *)

(* The types of the variables.                                             *)
Types ==
  /\ head \in Nat /\ tail \in Nat
  /\ slots \in [0 .. (N - 1) -> Thread \union {Null}]
  /\ permits \in Nat
  /\ q_mu \in Thread \union {Null}
  /\ state \in [Thread -> RuntimeState]
  /\ log_seq_num \in 0 .. (SeqSpan - 1)
  /\ published \in SUBSET Thread
  /\ pc \in [Thread -> Labels]
  /\ ht \in [Thread -> [head : Nat, tail : Nat]]
  /\ ptr \in [Thread -> Thread \union {Null}]
  /\ log \in Seq(Thread)
  /\ stamped \in Seq([base : 0 .. (SeqSpan - 1), count : Counts])
  /\ claimed \in Seq(Thread)

(* q_mu is held exactly by the thread inside prepare (a panic keeps it).   *)
LockInv ==
  \A t \in Thread : pc[t] \in Preparing \union {"panic"} <=> q_mu = t

(* The window is at most a lap; the producer that passed the full check    *)
(* still has room, because only it moves head and tail only grows.         *)
RingInv ==
  /\ tail <= head /\ head <= tail + N
  /\ Len(log) = head
  /\ \A t \in Thread : pc[t] \in {"store", "advance"} => head < tail + N

(* The slot of an enqueued position never holds another position's batch;  *)
(* a stalled consumer may have cleared it.                                 *)
SlotInv ==
  /\ \A p \in Window : slots[Slot(p)] \in {log[p + 1], Null}
  /\ \A t \in Thread : pc[t] = "advance" => slots[Slot(head)] \in {t, Null}

(* What a consumer remembers of head_tail is a non-empty window of the     *)
(* past, and the pointer it loaded is the tail's batch unless the tail     *)
(* has moved on.                                                           *)
SnapInv ==
  \A c \in Thread :
    /\ pc[c] \in {"slot", "isApplied", "cas"} =>
         /\ ht[c].tail <= tail
         /\ ht[c].tail < ht[c].head
         /\ ht[c].head <= head
    /\ pc[c] \in {"isApplied", "cas"} => ptr[c] \in Thread
    /\ pc[c] \in {"isApplied", "cas"} /\ ht[c].tail = tail =>
         ptr[c] = log[tail + 1]
    /\ pc[c] = "cas" /\ ht[c].tail = tail => state[ptr[c]] = "Applied"

(* Where each batch is: a position of the window, with the consumer that   *)
(* claimed it, or published, and never two of them.                        *)
WindowInv ==
  /\ \A p, q \in Window : log[p + 1] = log[q + 1] => p = q
  /\ \A p \in Window :
       /\ log[p + 1] \in Thread
       /\ pc[log[p + 1]] \in Enqueued
       /\ log[p + 1] \notin published

ClaimInv ==
  \A c \in Thread : pc[c] = "clear" =>
    /\ ptr[c] \in Thread
    /\ ptr[c] \notin published
    /\ pc[ptr[c]] \in Dequeuing
    /\ \A p \in Window : log[p + 1] # ptr[c]

SoleClaimInv ==
  \A c, d \in Thread :
    pc[c] = "clear" /\ pc[d] = "clear" /\ ptr[c] = ptr[d] => c = d

PublishedInv == \A b \in published : pc[b] \in Dequeuing

(* The runtime state follows the committer's stage.                        *)
StateInv ==
  \A t \in Thread :
    /\ pc[t] \in {"idle", "lock", "check", "store", "advance",
                  "setInQueue", "panic"} => state[t] = "Acquired"
    /\ pc[t] \in {"assignSeq", "prepareCommit", "apply", "failed"} =>
         state[t] = "InQueue"
    /\ pc[t] \in Dequeuing => state[t] = "Applied"

(* Every enqueued position has its sequence numbers, except the last while *)
(* its producer has not reached assign_seq_num_once.                       *)
StampInv ==
  /\ Len(stamped) \in {head, head - 1}
  /\ Len(stamped) = head - 1 =>
       \E t \in Thread : pc[t] \in {"setInQueue", "assignSeq"}
  /\ \A t \in Thread : pc[t] \in {"setInQueue", "assignSeq"} =>
       Len(stamped) = head - 1 /\ log[head] = t

IInv ==
  /\ Types
  /\ LockInv
  /\ RingInv
  /\ SlotInv
  /\ SnapInv
  /\ WindowInv
  /\ ClaimInv
  /\ SoleClaimInv
  /\ PublishedInv
  /\ StateInv
  /\ StampInv
  /\ ClaimsInOrder

(* What the history of enqueues looks like after the head has moved.       *)
LEMMA LogAppended ==
  ASSUME NEW t \in Thread, IInv, EnqueueAdvance(t)
  PROVE  /\ log' \in Seq(Thread)
         /\ Len(log') = head + 1
         /\ \A i \in 1 .. head : log'[i] = log[i]
         /\ log'[head + 1] = t
<1>1. log \in Seq(Thread) /\ log' = Append(log, t) /\ Len(log) = head
  BY DEF EnqueueAdvance, IInv, Types, RingInv
<1> QED
  BY <1>1, AppendProperties

(* How the window changes when the head and when the tail moves.           *)
LEMMA WindowGrows ==
  ASSUME NEW t \in Thread, IInv, EnqueueAdvance(t)
  PROVE  /\ \A p \in Window : p + 1 \in 1 .. head
         /\ Window' \subseteq Window \union {head}
  BY DEF EnqueueAdvance, IInv, Types, Window

LEMMA WindowShrinks ==
  ASSUME NEW t \in Thread, IInv, CasTail(t)
  PROVE  tail \in Window /\ Window' = Window \ {tail}
<1>1. head \in Nat /\ tail \in Nat /\ tail < head
  BY DEF CasTail, IInv, Types, SnapInv
<1>2. head' = head /\ tail' = tail + 1
  BY DEF CasTail
<1> QED
  BY <1>1, <1>2 DEF Window

(* What a consumer that wins the tail CAS has won: the batch at the tail,  *)
(* applied, and appended to the claims.                                    *)
LEMMA ClaimAppended ==
  ASSUME NEW t \in Thread, IInv, CasTail(t)
  PROVE  /\ tail \in Nat /\ tail < head
         /\ ptr[t] \in Thread
         /\ ptr[t] = log[tail + 1]
         /\ state[ptr[t]] = "Applied"
         /\ claimed' \in Seq(Thread)
         /\ Len(claimed') = Len(claimed) + 1
         /\ \A i \in 1 .. Len(claimed) : claimed'[i] = claimed[i]
         /\ claimed'[Len(claimed) + 1] = ptr[t]
<1>1. /\ tail \in Nat /\ tail < head
      /\ ptr[t] \in Thread
      /\ ptr[t] = log[tail + 1]
      /\ state[ptr[t]] = "Applied"
  BY DEF CasTail, IInv, Types, SnapInv
<1>2. claimed \in Seq(Thread) /\ claimed' = Append(claimed, ptr[t])
  BY DEF CasTail, IInv, Types
<1> QED
  BY <1>1, <1>2, AppendProperties


LEMMA ReserveStep ==
  ASSUME NEW t \in Thread, IInv, Reserve(t)
  PROVE  IInv'
<1> USE DEF Reserve, Goto, queueVars, localVars, histVars
<1>1. Types'
  <2>1. permits' \in Nat
    BY DEF IInv, Types
  <2>2. pc' \in [Thread -> Labels]
    BY DEF IInv, Types, Labels
  <2> QED
    BY <2>1, <2>2 DEF IInv, Types
<1>2. LockInv'
  BY NullAssumption DEF IInv, Types, LockInv, Preparing
<1>3. RingInv'
  BY DEF IInv, Types, RingInv
<1>4. SlotInv'
  BY DEF IInv, Types, SlotInv, Window
<1>5. SnapInv'
  BY DEF IInv, Types, SnapInv
<1>6. WindowInv'
  BY DEF IInv, Types, WindowInv, Window, Enqueued, Dequeuing
<1>7. ClaimInv'
  BY DEF IInv, Types, ClaimInv, Window, Dequeuing
<1>8. SoleClaimInv'
  BY DEF IInv, Types, SoleClaimInv
<1>9. PublishedInv'
  BY DEF IInv, Types, PublishedInv, Dequeuing
<1>10. StateInv'
  BY DEF IInv, Types, StateInv, Dequeuing
<1>11. StampInv'
  BY DEF IInv, Types, StampInv
<1>12. ClaimsInOrder'
  BY DEF IInv, ClaimsInOrder
<1> QED
  BY <1>1, <1>2, <1>3, <1>4, <1>5, <1>6, <1>7, <1>8, <1>9,
     <1>10, <1>11, <1>12 DEF IInv

LEMMA LockQueueStep ==
  ASSUME NEW t \in Thread, IInv, LockQueue(t)
  PROVE  IInv'
<1> USE DEF LockQueue, Goto, queueVars, localVars, histVars
<1>1. Types'
  BY DEF IInv, Types, Labels, Preparing, Dequeuing, RuntimeState
<1>2. LockInv'
  BY NullAssumption DEF IInv, Types, LockInv, Preparing
<1>3. RingInv'
  BY DEF IInv, Types, RingInv
<1>4. SlotInv'
  BY DEF IInv, Types, SlotInv, Window
<1>5. SnapInv'
  BY DEF IInv, Types, SnapInv
<1>6. WindowInv'
  BY DEF IInv, Types, WindowInv, Window, Enqueued, Dequeuing
<1>7. ClaimInv'
  BY DEF IInv, Types, ClaimInv, Window, Dequeuing
<1>8. SoleClaimInv'
  BY DEF IInv, Types, SoleClaimInv
<1>9. PublishedInv'
  BY DEF IInv, Types, PublishedInv, Dequeuing
<1>10. StateInv'
  BY DEF IInv, Types, StateInv, Dequeuing
<1>11. StampInv'
  BY DEF IInv, Types, StampInv
<1>12. ClaimsInOrder'
  BY DEF IInv, ClaimsInOrder
<1> QED
  BY <1>1, <1>2, <1>3, <1>4, <1>5, <1>6, <1>7, <1>8, <1>9,
     <1>10, <1>11, <1>12 DEF IInv

LEMMA EnqueueCheckStep ==
  ASSUME NEW t \in Thread, IInv, EnqueueCheck(t)
  PROVE  IInv'
<1> USE DEF EnqueueCheck, Goto, queueVars, localVars, histVars
<1>1. Types'
  BY DEF IInv, Types, Labels, Preparing, Dequeuing, RuntimeState
<1>2. LockInv'
  BY NullAssumption DEF IInv, Types, LockInv, Preparing
<1>3. RingInv'
  BY NAssumption DEF IInv, Types, RingInv, LockInv, Preparing
<1>4. SlotInv'
  BY DEF IInv, Types, SlotInv, Window
<1>5. SnapInv'
  BY DEF IInv, Types, SnapInv
<1>6. WindowInv'
  BY DEF IInv, Types, WindowInv, Window, Enqueued, Dequeuing
<1>7. ClaimInv'
  BY DEF IInv, Types, ClaimInv, Window, Dequeuing
<1>8. SoleClaimInv'
  BY DEF IInv, Types, SoleClaimInv
<1>9. PublishedInv'
  BY DEF IInv, Types, PublishedInv, Dequeuing
<1>10. StateInv'
  BY DEF IInv, Types, StateInv, Dequeuing
<1>11. StampInv'
  BY DEF IInv, Types, StampInv
<1>12. ClaimsInOrder'
  BY DEF IInv, ClaimsInOrder
<1> QED
  BY <1>1, <1>2, <1>3, <1>4, <1>5, <1>6, <1>7, <1>8, <1>9,
     <1>10, <1>11, <1>12 DEF IInv

LEMMA EnqueueStoreStep ==
  ASSUME NEW t \in Thread, IInv, EnqueueStore(t)
  PROVE  IInv'
<1> USE DEF EnqueueStore, Goto, queueVars, localVars, histVars
<1>1. Types'
  BY SlotInRange DEF IInv, Types, Labels, Preparing
<1>2. LockInv'
  BY NullAssumption DEF IInv, Types, LockInv, Preparing
<1>3. RingInv'
  BY DEF IInv, Types, RingInv
<1>4. SlotInv'
  <2>1. ASSUME NEW p \in Window PROVE slots'[Slot(p)] = slots[Slot(p)]
    <3>1. p \in Nat /\ head \in Nat /\ p < head /\ head < p + N
      BY NAssumption DEF IInv, Types, RingInv, Window
    <3>2. Slot(p) # Slot(head)
      BY <3>1, SlotsDistinct
    <3> QED
      BY <3>1, <3>2, SlotInRange DEF IInv, Types
  <2>2. slots'[Slot(head)] = t
    BY SlotInRange DEF IInv, Types
  <2>3. \A u \in Thread : pc'[u] = "advance" => u = t
    BY DEF IInv, Types, LockInv, Preparing
  <2> QED
    BY <2>1, <2>2, <2>3 DEF IInv, SlotInv, Window
<1>5. SnapInv'
  BY DEF IInv, Types, SnapInv
<1>6. WindowInv'
  BY DEF IInv, Types, WindowInv, Window, Enqueued, Dequeuing
<1>7. ClaimInv'
  BY DEF IInv, Types, ClaimInv, Window, Dequeuing
<1>8. SoleClaimInv'
  BY DEF IInv, Types, SoleClaimInv
<1>9. PublishedInv'
  BY DEF IInv, Types, PublishedInv, Dequeuing
<1>10. StateInv'
  BY DEF IInv, Types, StateInv, Dequeuing
<1>11. StampInv'
  BY DEF IInv, Types, StampInv
<1>12. ClaimsInOrder'
  BY DEF IInv, ClaimsInOrder
<1> QED
  BY <1>1, <1>2, <1>3, <1>4, <1>5, <1>6, <1>7, <1>8, <1>9,
     <1>10, <1>11, <1>12 DEF IInv

LEMMA EnqueueAdvanceStep ==
  ASSUME NEW t \in Thread, IInv, EnqueueAdvance(t)
  PROVE  IInv'
<1> USE DEF EnqueueAdvance, Goto, queueVars, localVars, histVars
<1>1. Types'
  <2>1. log' \in Seq(Thread)
    BY LogAppended
  <2>2. pc' \in [Thread -> Labels] /\ head' \in Nat
    BY DEF IInv, Types, Labels, Preparing
  <2> QED
    BY <2>1, <2>2 DEF IInv, Types
<1>2. LockInv'
  BY NullAssumption DEF IInv, Types, LockInv, Preparing
<1>3. RingInv'
  <2>1. \A u \in Thread : pc'[u] \notin {"store", "advance"}
    BY DEF IInv, Types, LockInv, Preparing
  <2> QED
    BY <2>1, LogAppended, NAssumption DEF IInv, Types, RingInv
<1>4. SlotInv'
  <2>1. \A u \in Thread : pc'[u] # "advance"
    BY DEF IInv, Types, LockInv, Preparing
  <2>2. ASSUME NEW p \in Window' PROVE slots[Slot(p)] \in {log'[p + 1], Null}
    BY LogAppended, NAssumption, SMTT(30) DEF IInv, Types, RingInv, SlotInv, Window
  <2> QED
    BY <2>1, <2>2 DEF SlotInv
<1>5. SnapInv'
  <2>1. \A c \in Thread : pc'[c] \in {"slot", "isApplied", "cas"} =>
          c # t /\ pc[c] = pc'[c]
    BY DEF IInv, Types
  <2>2. \A c \in Thread : pc[c] \in {"slot", "isApplied", "cas"} =>
          (ht[c].tail = tail => tail + 1 \in 1 .. head)
    BY DEF IInv, Types, SnapInv
  <2>3. tail + 1 \in 1 .. head => log'[tail + 1] = log[tail + 1]
    BY LogAppended
  <2>4. head' = head + 1 /\ UNCHANGED <<tail, ht, ptr, state>>
    OBVIOUS
  <2>5. \A c \in Thread : ht[c].head <= head => ht[c].head <= head'
    BY <2>4 DEF IInv, Types
  <2>6. ASSUME NEW c \in Thread, pc'[c] \in {"slot", "isApplied", "cas"}
        PROVE  /\ ht[c].tail <= tail
               /\ ht[c].tail < ht[c].head
               /\ ht[c].head <= head'
               /\ pc'[c] # "slot" => ptr[c] \in Thread
               /\ pc'[c] # "slot" /\ ht[c].tail = tail =>
                    ptr[c] = log'[tail + 1]
               /\ pc'[c] = "cas" /\ ht[c].tail = tail =>
                    state[ptr[c]] = "Applied"
    BY <2>1, <2>2, <2>3, <2>5, <2>6 DEF IInv, SnapInv
  <2> QED
    BY <2>4, <2>6 DEF SnapInv
<1>6. WindowInv'
  <2>1. \A p \in Window : log[p + 1] # t
    BY DEF IInv, WindowInv, Enqueued, Dequeuing
  <2>2. \A p \in Window : p + 1 \in 1 .. head /\ log'[p + 1] = log[p + 1]
    BY LogAppended, WindowGrows
  <2>3. Window' \subseteq Window \union {head} /\ log'[head + 1] = t
    BY LogAppended, WindowGrows
  <2>4. t \notin published
    BY DEF IInv, PublishedInv, Dequeuing
  <2>5. pc' = [pc EXCEPT ![t] = "setInQueue"] /\ published' = published
    OBVIOUS
  <2>6. \A p, q \in Window' : log'[p + 1] = log'[q + 1] => p = q
    BY <2>1, <2>2, <2>3 DEF IInv, WindowInv
  <2>7. ASSUME NEW p \in Window'
        PROVE  /\ log'[p + 1] \in Thread
               /\ pc'[log'[p + 1]] \in Enqueued
               /\ log'[p + 1] \notin published
    BY <2>2, <2>3, <2>4, <2>5, ZenonT(30) DEF IInv, Types, WindowInv, Enqueued
  <2> QED
    BY <2>5, <2>6, <2>7 DEF WindowInv
<1>7. ClaimInv'
  <2> SUFFICES ASSUME NEW c \in Thread, pc'[c] = "clear"
               PROVE  /\ ptr[c] \in Thread
                      /\ ptr[c] \notin published
                      /\ pc'[ptr[c]] \in Dequeuing
                      /\ \A p \in Window' : log'[p + 1] # ptr[c]
    BY DEF ClaimInv
  <2>1. pc[c] = "clear" /\ ptr[c] \in Thread \ {t} /\ ptr[c] \notin published
    BY DEF IInv, Types, ClaimInv, Dequeuing
  <2>2. pc'[ptr[c]] \in Dequeuing
    BY <2>1 DEF IInv, Types, ClaimInv
  <2>3. \A p \in Window : log'[p + 1] # ptr[c]
    BY <2>1, LogAppended, WindowGrows, ZenonT(30) DEF IInv, ClaimInv
  <2> QED
    BY <2>1, <2>2, <2>3, LogAppended, WindowGrows
<1>8. SoleClaimInv'
  BY DEF IInv, Types, SoleClaimInv
<1>9. PublishedInv'
  BY DEF IInv, Types, PublishedInv, Dequeuing
<1>10. StateInv'
  BY DEF IInv, Types, StateInv, Dequeuing
<1>11. StampInv'
  <2>1. log'[head + 1] = t
    BY LogAppended
  <2>2. Len(stamped) = head
    BY DEF IInv, Types, StampInv, LockInv, Preparing
  <2>3. \A u \in Thread : pc'[u] \in {"setInQueue", "assignSeq"} => u = t
    BY DEF IInv, Types, LockInv, Preparing
  <2> QED
    BY <2>1, <2>2, <2>3 DEF IInv, Types, StampInv
<1>12. ClaimsInOrder'
  BY LogAppended DEF IInv, Types, RingInv, ClaimsInOrder
<1> QED
  BY <1>1, <1>2, <1>3, <1>4, <1>5, <1>6, <1>7, <1>8, <1>9,
     <1>10, <1>11, <1>12 DEF IInv

LEMMA SetInQueueStep ==
  ASSUME NEW t \in Thread, IInv, SetInQueue(t)
  PROVE  IInv'
<1> USE DEF SetInQueue, Goto, queueVars, localVars, histVars
<1>1. Types'
  BY DEF IInv, Types, Labels, Preparing, Dequeuing, RuntimeState
<1>2. LockInv'
  BY NullAssumption DEF IInv, Types, LockInv, Preparing
<1>3. RingInv'
  BY DEF IInv, Types, RingInv
<1>4. SlotInv'
  BY DEF IInv, Types, SlotInv, Window
<1>5. SnapInv'
  BY DEF IInv, Types, SnapInv, RingInv, WindowInv, StateInv, Window,
     Dequeuing
<1>6. WindowInv'
  BY DEF IInv, Types, WindowInv, Window, Enqueued, Dequeuing
<1>7. ClaimInv'
  BY DEF IInv, Types, ClaimInv, Window, Dequeuing
<1>8. SoleClaimInv'
  BY DEF IInv, Types, SoleClaimInv
<1>9. PublishedInv'
  BY DEF IInv, Types, PublishedInv, Dequeuing
<1>10. StateInv'
  BY DEF IInv, Types, StateInv, Dequeuing
<1>11. StampInv'
  BY DEF IInv, Types, StampInv
<1>12. ClaimsInOrder'
  BY DEF IInv, ClaimsInOrder
<1> QED
  BY <1>1, <1>2, <1>3, <1>4, <1>5, <1>6, <1>7, <1>8, <1>9,
     <1>10, <1>11, <1>12 DEF IInv

LEMMA AssignSeqStep ==
  ASSUME NEW t \in Thread, IInv, AssignSeq(t)
  PROVE  IInv'
<1> USE DEF AssignSeq, Goto, queueVars, localVars, histVars
<1>1. Types'
  <2>1. PICK count \in Counts :
          /\ stamped' = Append(stamped,
                          [base |-> SeqBase(log_seq_num, count),
                           count |-> count])
          /\ log_seq_num' = (log_seq_num + count) % SeqSpan
    OBVIOUS
  <2>2. /\ count \in Nat
        /\ SeqBase(log_seq_num, count) \in 0 .. (SeqSpan - 1)
        /\ log_seq_num' \in 0 .. (SeqSpan - 1)
    BY <2>1, SeqAssumption DEF IInv, Types, SeqBase
  <2>3. stamped' \in Seq([base : 0 .. (SeqSpan - 1), count : Counts])
    BY <2>1, <2>2, AppendProperties DEF IInv, Types
  <2>4. pc' \in [Thread -> Labels]
    BY DEF IInv, Types, Labels, Preparing
  <2> QED
    BY <2>2, <2>3, <2>4 DEF IInv, Types
<1>2. LockInv'
  BY NullAssumption DEF IInv, Types, LockInv, Preparing
<1>3. RingInv'
  BY DEF IInv, Types, RingInv
<1>4. SlotInv'
  BY DEF IInv, Types, SlotInv, Window
<1>5. SnapInv'
  BY DEF IInv, Types, SnapInv
<1>6. WindowInv'
  BY DEF IInv, Types, WindowInv, Window, Enqueued, Dequeuing
<1>7. ClaimInv'
  BY DEF IInv, Types, ClaimInv, Window, Dequeuing
<1>8. SoleClaimInv'
  BY DEF IInv, Types, SoleClaimInv
<1>9. PublishedInv'
  BY DEF IInv, Types, PublishedInv, Dequeuing
<1>10. StateInv'
  BY DEF IInv, Types, StateInv, Dequeuing
<1>11. StampInv'
  <2>1. Len(stamped') = Len(stamped) + 1
    <3>1. PICK r : stamped' = Append(stamped, r)
      OBVIOUS
    <3> QED
      BY <3>1 DEF IInv, Types
  <2>2. Len(stamped) = head - 1
    BY DEF IInv, StampInv
  <2>3. \A u \in Thread : pc'[u] \notin {"setInQueue", "assignSeq"}
    BY DEF IInv, Types, LockInv, Preparing
  <2> QED
    BY <2>1, <2>2, <2>3 DEF IInv, Types, StampInv
<1>12. ClaimsInOrder'
  BY DEF IInv, ClaimsInOrder
<1> QED
  BY <1>1, <1>2, <1>3, <1>4, <1>5, <1>6, <1>7, <1>8, <1>9,
     <1>10, <1>11, <1>12 DEF IInv

LEMMA PrepareCommitStep ==
  ASSUME NEW t \in Thread, IInv, PrepareCommit(t)
  PROVE  IInv'
<1> USE DEF PrepareCommit, Goto, queueVars, localVars, histVars
<1>1. Types'
  BY DEF IInv, Types, Labels, Preparing, Dequeuing, RuntimeState
<1>2. LockInv'
  BY NullAssumption, ZenonT(30) DEF IInv, Types, LockInv, Preparing, Labels
<1>3. RingInv'
  BY DEF IInv, Types, RingInv
<1>4. SlotInv'
  BY DEF IInv, Types, SlotInv, Window
<1>5. SnapInv'
  <2>1. \A c \in Thread : pc'[c] \in {"slot", "isApplied", "cas"} =>
          pc[c] = pc'[c]
    BY DEF IInv, Types
  <2> QED
    BY <2>1 DEF IInv, SnapInv
<1>6. WindowInv'
  BY DEF IInv, Types, WindowInv, Window, Enqueued, Dequeuing
<1>7. ClaimInv'
  BY DEF IInv, Types, ClaimInv, Window, Dequeuing
<1>8. SoleClaimInv'
  <2>1. \A c \in Thread : pc'[c] = "clear" => pc[c] = "clear"
    BY DEF IInv, Types
  <2> QED
    BY <2>1 DEF IInv, SoleClaimInv
<1>9. PublishedInv'
  BY DEF IInv, Types, PublishedInv, Dequeuing
<1>10. StateInv'
  BY DEF IInv, Types, StateInv, Dequeuing
<1>11. StampInv'
  BY DEF IInv, Types, StampInv
<1>12. ClaimsInOrder'
  BY DEF IInv, ClaimsInOrder
<1> QED
  BY <1>1, <1>2, <1>3, <1>4, <1>5, <1>6, <1>7, <1>8, <1>9,
     <1>10, <1>11, <1>12 DEF IInv

LEMMA ApplyStep ==
  ASSUME NEW t \in Thread, IInv, Apply(t)
  PROVE  IInv'
<1> USE DEF Apply, Goto, queueVars, localVars, histVars
<1>1. Types'
  BY DEF IInv, Types, Labels, Preparing, Dequeuing, RuntimeState
<1>2. LockInv'
  BY NullAssumption DEF IInv, Types, LockInv, Preparing
<1>3. RingInv'
  BY DEF IInv, Types, RingInv
<1>4. SlotInv'
  BY DEF IInv, Types, SlotInv, Window
<1>5. SnapInv'
  BY DEF IInv, Types, SnapInv, RingInv, StateInv, Dequeuing
<1>6. WindowInv'
  BY DEF IInv, Types, WindowInv, Window, Enqueued, Dequeuing
<1>7. ClaimInv'
  BY DEF IInv, Types, ClaimInv, Window, Dequeuing
<1>8. SoleClaimInv'
  BY DEF IInv, Types, SoleClaimInv
<1>9. PublishedInv'
  BY DEF IInv, Types, PublishedInv, Dequeuing
<1>10. StateInv'
  BY DEF IInv, Types, StateInv, Dequeuing
<1>11. StampInv'
  BY DEF IInv, Types, StampInv
<1>12. ClaimsInOrder'
  BY DEF IInv, ClaimsInOrder
<1> QED
  BY <1>1, <1>2, <1>3, <1>4, <1>5, <1>6, <1>7, <1>8, <1>9,
     <1>10, <1>11, <1>12 DEF IInv

LEMMA LoadHeadTailStep ==
  ASSUME NEW t \in Thread, IInv, LoadHeadTail(t)
  PROVE  IInv'
<1> USE DEF LoadHeadTail, Goto, queueVars, localVars, histVars
<1>1. Types'
  BY DEF IInv, Types, Labels, Preparing, Dequeuing, RuntimeState
<1>2. LockInv'
  BY NullAssumption DEF IInv, Types, LockInv, Preparing
<1>3. RingInv'
  BY DEF IInv, Types, RingInv
<1>4. SlotInv'
  BY DEF IInv, Types, SlotInv, Window
<1>5. SnapInv'
  BY DEF IInv, Types, SnapInv, RingInv
<1>6. WindowInv'
  BY DEF IInv, Types, WindowInv, Window, Enqueued, Dequeuing
<1>7. ClaimInv'
  BY DEF IInv, Types, ClaimInv, Window, Dequeuing
<1>8. SoleClaimInv'
  BY DEF IInv, Types, SoleClaimInv
<1>9. PublishedInv'
  BY DEF IInv, Types, PublishedInv, Dequeuing
<1>10. StateInv'
  BY DEF IInv, Types, StateInv, Dequeuing
<1>11. StampInv'
  BY DEF IInv, Types, StampInv
<1>12. ClaimsInOrder'
  BY DEF IInv, ClaimsInOrder
<1> QED
  BY <1>1, <1>2, <1>3, <1>4, <1>5, <1>6, <1>7, <1>8, <1>9,
     <1>10, <1>11, <1>12 DEF IInv

LEMMA LoadSlotStep ==
  ASSUME NEW t \in Thread, IInv, LoadSlot(t)
  PROVE  IInv'
<1> USE DEF LoadSlot, Goto, queueVars, localVars, histVars
<1>1. Types'
  BY SlotInRange DEF IInv, Types, Labels, Dequeuing
<1>2. LockInv'
  BY NullAssumption DEF IInv, Types, LockInv, Preparing
<1>3. RingInv'
  BY DEF IInv, Types, RingInv
<1>4. SlotInv'
  BY DEF IInv, Types, SlotInv, Window
<1>5. SnapInv'
  <2>1. \A c \in Thread \ {t} :
          pc'[c] = pc[c] /\ ptr'[c] = ptr[c]
    BY DEF IInv, Types
  <2>2. /\ ht[t].tail <= tail /\ ht[t].tail < ht[t].head /\ ht[t].head <= head
        /\ ht[t].tail \in Nat /\ ht[t].head \in Nat
    BY DEF IInv, Types, SnapInv
  <2>3. ptr'[t] = slots[Slot(ht[t].tail)] /\ ptr'[t] \in Thread \union {Null}
    BY <2>2, SlotInRange DEF IInv, Types
  <2>4. pc'[t] \in {"publish", "isApplied"}
        /\ (pc'[t] = "isApplied" => ptr'[t] # Null)
    BY DEF IInv, Types
  <2>5. ht[t].tail = tail => ptr'[t] \in {log[tail + 1], Null}
    BY <2>2, <2>3 DEF IInv, Types, SlotInv, Window
  <2> QED
    BY <2>1, <2>2, <2>3, <2>4, <2>5 DEF IInv, SnapInv
<1>6. WindowInv'
  BY DEF IInv, Types, WindowInv, Window, Enqueued, Dequeuing
<1>7. ClaimInv'
  BY DEF IInv, Types, ClaimInv, Window, Dequeuing
<1>8. SoleClaimInv'
  BY DEF IInv, Types, SoleClaimInv
<1>9. PublishedInv'
  BY DEF IInv, Types, PublishedInv, Dequeuing
<1>10. StateInv'
  BY DEF IInv, Types, StateInv, Dequeuing
<1>11. StampInv'
  BY DEF IInv, Types, StampInv
<1>12. ClaimsInOrder'
  BY DEF IInv, ClaimsInOrder
<1> QED
  BY <1>1, <1>2, <1>3, <1>4, <1>5, <1>6, <1>7, <1>8, <1>9,
     <1>10, <1>11, <1>12 DEF IInv

LEMMA IsAppliedStep ==
  ASSUME NEW t \in Thread, IInv, IsApplied(t)
  PROVE  IInv'
<1> USE DEF IsApplied, Goto, queueVars, localVars, histVars
<1>1. Types'
  BY DEF IInv, Types, Labels, Preparing, Dequeuing, RuntimeState
<1>2. LockInv'
  BY NullAssumption DEF IInv, Types, LockInv, Preparing
<1>3. RingInv'
  BY DEF IInv, Types, RingInv
<1>4. SlotInv'
  BY DEF IInv, Types, SlotInv, Window
<1>5. SnapInv'
  BY DEF IInv, Types, SnapInv, RingInv, Dequeuing
<1>6. WindowInv'
  BY DEF IInv, Types, WindowInv, Window, Enqueued, Dequeuing
<1>7. ClaimInv'
  BY DEF IInv, Types, ClaimInv, Window, Dequeuing
<1>8. SoleClaimInv'
  BY DEF IInv, Types, SoleClaimInv
<1>9. PublishedInv'
  BY DEF IInv, Types, PublishedInv, Dequeuing
<1>10. StateInv'
  BY DEF IInv, Types, StateInv, Dequeuing
<1>11. StampInv'
  BY DEF IInv, Types, StampInv
<1>12. ClaimsInOrder'
  BY DEF IInv, ClaimsInOrder
<1> QED
  BY <1>1, <1>2, <1>3, <1>4, <1>5, <1>6, <1>7, <1>8, <1>9,
     <1>10, <1>11, <1>12 DEF IInv

LEMMA CasTailStep ==
  ASSUME NEW t \in Thread, IInv, CasTail(t)
  PROVE  IInv'
<1> USE DEF CasTail, Goto, queueVars, localVars, histVars
<1>1. Types'
  <2>1. claimed' \in Seq(Thread)
    BY ClaimAppended
  <2>2. pc' \in [Thread -> Labels] /\ tail' \in Nat
    BY DEF IInv, Types, Labels, Dequeuing
  <2> QED
    BY <2>1, <2>2 DEF IInv, Types
<1>2. LockInv'
  BY NullAssumption DEF IInv, Types, LockInv, Preparing
<1>3. RingInv'
  <2>1. tail < head
    BY DEF IInv, SnapInv
  <2>2. \A u \in Thread : pc'[u] \in {"store", "advance"} => pc[u] = pc'[u]
    BY DEF IInv, Types
  <2> QED
    BY <2>1, <2>2, NAssumption DEF IInv, Types, RingInv
<1>4. SlotInv'
  <2>1. Window' \subseteq Window
    BY WindowShrinks
  <2>2. \A u \in Thread : pc'[u] = "advance" => pc[u] = "advance"
    BY DEF IInv, Types
  <2> QED
    BY <2>1, <2>2 DEF IInv, SlotInv
<1>5. SnapInv'
  <2>1. \A c \in Thread : pc'[c] \in {"slot", "isApplied", "cas"} =>
          pc[c] = pc'[c]
    BY DEF IInv, Types
  <2>2. \A c \in Thread : ht[c].tail \in Nat /\ ht[c].head \in Nat
    BY DEF IInv, Types
  <2>3. tail' = tail + 1 /\ tail \in Nat /\ UNCHANGED <<head, ht, ptr>>
    BY DEF IInv, Types
  <2>4. \A c \in Thread : pc[c] \in {"slot", "isApplied", "cas"} =>
          /\ ht[c].tail <= tail /\ ht[c].tail < ht[c].head
          /\ ht[c].head <= head
          /\ (pc[c] # "slot" => ptr[c] \in Thread)
    BY DEF IInv, SnapInv
  <2>5. \A c \in Thread : pc[c] \in {"slot", "isApplied", "cas"} =>
          ht'[c].tail <= tail' /\ ht'[c].tail # tail'
    BY <2>2, <2>3, <2>4
  <2> QED
    BY <2>1, <2>3, <2>4, <2>5 DEF SnapInv
<1>6. WindowInv'
  <2>1. Window' \subseteq Window
    BY WindowShrinks
  <2>2. \A b \in Thread : pc[b] \in Enqueued => pc'[b] \in Enqueued
    BY DEF IInv, Types, Enqueued, Dequeuing
  <2> QED
    BY <2>1, <2>2 DEF IInv, WindowInv
<1>7. ClaimInv'
  <2>1. Window' = Window \ {tail} /\ tail \in Window
    BY WindowShrinks
  <2>2. /\ ptr[t] = log[tail + 1] /\ ptr[t] \in Thread
        /\ state[ptr[t]] = "Applied"
    BY ClaimAppended
  <2>3. pc[ptr[t]] \in Dequeuing /\ ptr[t] \notin published
    BY <2>1, <2>2 DEF IInv, Types, WindowInv, StateInv, Enqueued, Dequeuing
  <2>4. \A p \in Window' : log[p + 1] # ptr[t]
    BY <2>1, <2>2 DEF IInv, WindowInv
  <2>5. \A b \in Thread : pc[b] \in Dequeuing => pc'[b] \in Dequeuing
    BY DEF IInv, Types, Dequeuing
  <2>6. \A c \in Thread \ {t} : pc'[c] = pc[c]
    BY DEF IInv, Types
  <2> QED
    BY <2>1, <2>2, <2>3, <2>4, <2>5, <2>6 DEF IInv, ClaimInv
<1>8. SoleClaimInv'
  <2>1. ptr[t] = log[tail + 1] /\ tail \in Window
    BY ClaimAppended, WindowShrinks
  <2>2. \A c \in Thread \ {t} : pc'[c] = "clear" =>
          pc[c] = "clear" /\ ptr[c] # ptr[t]
    BY <2>1 DEF IInv, Types, ClaimInv
  <2> QED
    BY <2>2 DEF IInv, SoleClaimInv
<1>9. PublishedInv'
  BY DEF IInv, Types, PublishedInv, Dequeuing
<1>10. StateInv'
  BY DEF IInv, Types, StateInv, Dequeuing
<1>11. StampInv'
  BY DEF IInv, Types, StampInv
<1>12. ClaimsInOrder'
  <2>1. /\ Len(claimed) = tail
        /\ \A i \in 1 .. tail : claimed[i] = log[i]
    BY DEF IInv, ClaimsInOrder
  <2>2. /\ Len(claimed') = tail + 1
        /\ \A i \in 1 .. tail : claimed'[i] = claimed[i]
        /\ claimed'[tail + 1] = log[tail + 1]
    BY <2>1, ClaimAppended
  <2> QED
    BY <2>1, <2>2, SMTT(30) DEF IInv, Types, ClaimsInOrder
<1> QED
  BY <1>1, <1>2, <1>3, <1>4, <1>5, <1>6, <1>7, <1>8, <1>9,
     <1>10, <1>11, <1>12 DEF IInv

LEMMA CasFailStep ==
  ASSUME NEW t \in Thread, IInv, CasFail(t)
  PROVE  IInv'
<1> USE DEF CasFail, Goto, queueVars, localVars, histVars
<1>1. Types'
  BY DEF IInv, Types, Labels, Preparing, Dequeuing, RuntimeState
<1>2. LockInv'
  BY NullAssumption DEF IInv, Types, LockInv, Preparing
<1>3. RingInv'
  BY DEF IInv, Types, RingInv
<1>4. SlotInv'
  BY DEF IInv, Types, SlotInv, Window
<1>5. SnapInv'
  BY DEF IInv, Types, SnapInv, RingInv
<1>6. WindowInv'
  BY DEF IInv, Types, WindowInv, Window, Enqueued, Dequeuing
<1>7. ClaimInv'
  BY DEF IInv, Types, ClaimInv, Window, Dequeuing
<1>8. SoleClaimInv'
  BY DEF IInv, Types, SoleClaimInv
<1>9. PublishedInv'
  BY DEF IInv, Types, PublishedInv, Dequeuing
<1>10. StateInv'
  BY DEF IInv, Types, StateInv, Dequeuing
<1>11. StampInv'
  BY DEF IInv, Types, StampInv
<1>12. ClaimsInOrder'
  BY DEF IInv, ClaimsInOrder
<1> QED
  BY <1>1, <1>2, <1>3, <1>4, <1>5, <1>6, <1>7, <1>8, <1>9,
     <1>10, <1>11, <1>12 DEF IInv

LEMMA ClearSlotStep ==
  ASSUME NEW t \in Thread, IInv, ClearSlot(t)
  PROVE  IInv'
<1> USE DEF ClearSlot, Goto, queueVars, localVars, histVars
<1>1. Types'
  BY SlotInRange DEF IInv, Types, Labels, Dequeuing, ClaimInv
<1>2. LockInv'
  BY NullAssumption DEF IInv, Types, LockInv, Preparing
<1>3. RingInv'
  BY DEF IInv, Types, RingInv
<1>4. SlotInv'
  <2>1. ht[t].tail \in Nat
    BY DEF IInv, Types
  <2>2. \A i \in 0 .. (N - 1) : slots'[i] \in {slots[i], Null}
    BY <2>1, SlotInRange DEF IInv, Types
  <2>3. head \in Nat /\ \A p \in Window : p \in Nat
    BY DEF IInv, Types, Window
  <2>4. \A u \in Thread : pc'[u] = "advance" => pc[u] = "advance"
    BY DEF IInv, Types
  <2> QED
    BY <2>2, <2>3, <2>4, SlotInRange DEF IInv, SlotInv, Window
<1>5. SnapInv'
  BY DEF IInv, Types, SnapInv
<1>6. WindowInv'
  BY DEF IInv, Types, WindowInv, ClaimInv, Window, Enqueued, Dequeuing
<1>7. ClaimInv'
  <2>1. \A c \in Thread : pc'[c] = "clear" =>
          c # t /\ pc[c] = "clear" /\ ptr[c] # ptr[t]
    BY DEF IInv, Types, SoleClaimInv
  <2>2. \A b \in Thread : pc[b] \in Dequeuing => pc'[b] \in Dequeuing
    BY DEF IInv, Types, Dequeuing
  <2> QED
    BY <2>1, <2>2 DEF IInv, ClaimInv, Window
<1>8. SoleClaimInv'
  BY DEF IInv, Types, SoleClaimInv
<1>9. PublishedInv'
  BY DEF IInv, Types, PublishedInv, ClaimInv, Dequeuing
<1>10. StateInv'
  BY DEF IInv, Types, StateInv, Dequeuing
<1>11. StampInv'
  BY DEF IInv, Types, StampInv
<1>12. ClaimsInOrder'
  BY DEF IInv, ClaimsInOrder
<1> QED
  BY <1>1, <1>2, <1>3, <1>4, <1>5, <1>6, <1>7, <1>8, <1>9,
     <1>10, <1>11, <1>12 DEF IInv

LEMMA FinishStep ==
  ASSUME NEW t \in Thread, IInv, Finish(t)
  PROVE  IInv'
<1> USE DEF Finish, Goto, queueVars, localVars, histVars
<1>1. Types'
  <2>1. permits' \in Nat /\ published' \in SUBSET Thread
    BY DEF IInv, Types
  <2>2. pc' \in [Thread -> Labels] /\ state' \in [Thread -> RuntimeState]
    BY DEF IInv, Types, Labels, RuntimeState
  <2> QED
    BY <2>1, <2>2 DEF IInv, Types
<1>2. LockInv'
  BY NullAssumption DEF IInv, Types, LockInv, Preparing
<1>3. RingInv'
  BY DEF IInv, Types, RingInv
<1>4. SlotInv'
  BY DEF IInv, Types, SlotInv, Window
<1>5. SnapInv'
  <2>1. \A c \in Thread : pc'[c] \in {"slot", "isApplied", "cas"} =>
          c # t /\ pc[c] = pc'[c]
    BY DEF IInv, Types
  <2>2. \A c \in Thread :
          pc[c] = "cas" /\ ht[c].tail = tail => ptr[c] \in Thread \ {t}
    <3> SUFFICES ASSUME NEW c \in Thread, pc[c] = "cas", ht[c].tail = tail
                 PROVE  ptr[c] \in Thread \ {t}
      OBVIOUS
    <3>1. ptr[c] = log[tail + 1] /\ ptr[c] \in Thread /\ tail \in Window
      BY DEF IInv, Types, SnapInv, Window
    <3> QED
      BY <3>1 DEF IInv, WindowInv
  <2>3. \A b \in Thread \ {t} : state'[b] = state[b]
    BY DEF IInv, Types
  <2> QED
    BY <2>1, <2>2, <2>3 DEF IInv, SnapInv
<1>6. WindowInv'
  <2>1. \A p \in Window : log[p + 1] # t
    BY DEF IInv, WindowInv
  <2> QED
    BY <2>1 DEF IInv, Types, WindowInv, Window
<1>7. ClaimInv'
  BY DEF IInv, Types, ClaimInv, Window, Dequeuing
<1>8. SoleClaimInv'
  BY DEF IInv, Types, SoleClaimInv
<1>9. PublishedInv'
  BY DEF IInv, Types, PublishedInv, Dequeuing
<1>10. StateInv'
  BY DEF IInv, Types, StateInv, Dequeuing
<1>11. StampInv'
  BY DEF IInv, Types, StampInv
<1>12. ClaimsInOrder'
  BY DEF IInv, ClaimsInOrder
<1> QED
  BY <1>1, <1>2, <1>3, <1>4, <1>5, <1>6, <1>7, <1>8, <1>9,
     <1>10, <1>11, <1>12 DEF IInv

-----------------------------------------------------------------------------
(* The inductive invariant holds initially and is kept by every step.      *)
LEMMA InitIInv == Init => IInv
<1> SUFFICES ASSUME Init PROVE IInv
  OBVIOUS
<1> USE DEF Init
<1>1. Types
  BY NAssumption, SeqAssumption DEF Types, Labels, RuntimeState
<1>2. LockInv /\ StateInv /\ SnapInv
  BY NullAssumption DEF LockInv, StateInv, SnapInv, Preparing, Dequeuing
<1>3. RingInv /\ StampInv /\ ClaimsInOrder
  BY NAssumption DEF RingInv, StampInv, ClaimsInOrder
<1>4. Window = {}
  BY DEF Window
<1>5. SlotInv /\ WindowInv /\ ClaimInv /\ SoleClaimInv /\ PublishedInv
  BY <1>4 DEF SlotInv, WindowInv, ClaimInv, SoleClaimInv, PublishedInv
<1> QED
  BY <1>1, <1>2, <1>3, <1>5 DEF IInv

LEMMA NextIInv == IInv /\ [Next]_vars => IInv'
<1> SUFFICES ASSUME IInv, [Next]_vars PROVE IInv'
  OBVIOUS
<1>1. ASSUME NEW t \in Thread, Produce(t) PROVE IInv'
  BY <1>1, ReserveStep, LockQueueStep, EnqueueCheckStep, EnqueueStoreStep,
     EnqueueAdvanceStep, SetInQueueStep, AssignSeqStep, PrepareCommitStep,
     ApplyStep DEF Produce
<1>2. ASSUME NEW t \in Thread, Consume(t) PROVE IInv'
  BY <1>2, LoadHeadTailStep, LoadSlotStep, IsAppliedStep, CasTailStep,
     CasFailStep, ClearSlotStep, FinishStep DEF Consume
<1>3. CASE UNCHANGED vars
  BY <1>3 DEF vars, IInv, Types, LockInv, RingInv, SlotInv, SnapInv,
     WindowInv, ClaimInv, SoleClaimInv, PublishedInv, StateInv, StampInv,
     ClaimsInOrder, Window
<1> QED
  BY <1>1, <1>2, <1>3 DEF Next

LEMMA Invariance == Spec => []IInv
  BY InitIInv, NextIInv, PTL DEF Spec

(* try_dequeue is a queue: batches are claimed in the order they were      *)
(* enqueued and each once, for any number of threads and any ring size,    *)
(* although enqueue may overwrite and a late clear may erase a slot.       *)
THEOREM ClaimOrder == Spec => []ClaimsInOrder
<1>1. IInv => ClaimsInOrder
  BY DEF IInv
<1> QED
  BY <1>1, Invariance, PTL

(* A batch is claimed only while it is applied and once it has its         *)
(* sequence number.                                                        *)
THEOREM ClaimReadiness == Spec => ClaimsReady
<1>1. ASSUME IInv, [Next]_vars, tail' # tail
      PROVE  state[log[tail + 1]] = "Applied" /\ tail < Len(stamped)
  <2>1. PICK t \in Thread : CasTail(t)
    BY <1>1 DEF Next, Produce, Consume, vars, queueVars, Reserve, LockQueue,
       EnqueueCheck, EnqueueStore, EnqueueAdvance, SetInQueue, AssignSeq,
       PrepareCommit, Apply, LoadHeadTail, LoadSlot, IsApplied, CasFail,
       ClearSlot, Finish
  <2>2. /\ tail \in Nat /\ head \in Nat /\ tail < head
        /\ state[log[tail + 1]] = "Applied"
        /\ log[tail + 1] \in Thread
    BY <1>1, <2>1, ClaimAppended DEF IInv, Types
  <2>3. Len(stamped) = head - 1 => tail < head - 1
    <3> SUFFICES ASSUME Len(stamped) = head - 1 PROVE tail + 1 # head
      BY <2>2
    <3>1. PICK u \in Thread : pc[u] \in {"setInQueue", "assignSeq"}
      BY <1>1 DEF IInv, StampInv
    <3>2. log[head] = u /\ state[u] # "Applied"
      BY <1>1, <3>1 DEF IInv, StampInv, StateInv
    <3> QED
      BY <2>2, <3>2
  <2> QED
    BY <1>1, <2>2, <2>3 DEF IInv, StampInv
<1>2. IInv /\ [Next]_vars =>
        [tail' # tail => /\ state[log[tail + 1]] = "Applied"
                         /\ tail < Len(stamped)]_vars
  BY <1>1
<1> QED
  BY <1>2, Invariance, PTL DEF Spec, ClaimsReady

-----------------------------------------------------------------------------
(* A permit is a free position.                                            *)

(* The threads that hold a permit: from reserve_space to the release, also *)
(* when prepare failed.                                                    *)
Admitted == {t \in Thread : pc[t] # "idle"}

(* Every permit is left or held by one admitted thread.                    *)
PermitInv ==
  IsFiniteSet(Admitted) /\ permits + Cardinality(Admitted) = N

PInv == IInv /\ PermitInv /\ NoReservationFailure

(* The positions of the window belong to different admitted committers,    *)
(* and none to the one that checks for room: so there is room.             *)
LEMMA CheckFindsRoom ==
  ASSUME PInv, NEW t \in Thread, pc[t] = "check"
  PROVE  tail + N # head
<1> SUFFICES ASSUME tail + N = head PROVE FALSE
  OBVIOUS
<1> DEFINE A == Admitted \ {t}
           f == [p \in Window |-> log[p + 1]]
<1>1. IInv /\ tail \in Nat /\ head \in Nat /\ permits \in Nat
  BY DEF PInv, IInv, Types
<1>2. IsFiniteSet(Window) /\ Cardinality(Window) = N
  BY <1>1, NAssumption, FS_Interval DEF Window
<1>3. t \in Admitted /\ IsFiniteSet(Admitted) /\ Cardinality(Admitted) \in Nat
  BY FS_CardinalityType DEF PInv, PermitInv, Admitted
<1>4. IsFiniteSet(A) /\ Cardinality(A) = Cardinality(Admitted) - 1
  BY <1>3, FS_RemoveElement
<1>5. Cardinality(A) < Cardinality(Window)
  BY <1>1, <1>2, <1>3, <1>4, NAssumption DEF PInv, PermitInv
<1>6. f \in [Window -> A]
  <2> SUFFICES ASSUME NEW p \in Window PROVE log[p + 1] \in A
    OBVIOUS
  <2>1. log[p + 1] \in Thread /\ pc[log[p + 1]] \in Enqueued
    BY <1>1 DEF IInv, WindowInv
  <2> QED BY <2>1 DEF Admitted, Enqueued, Dequeuing
<1> HIDE DEF A, f
<1>7. \E p, q \in Window : p # q /\ f[p] = f[q]
  BY <1>2, <1>4, <1>5, <1>6, FS_PigeonHole
<1> QED BY <1>1, <1>7 DEF IInv, WindowInv, f

LEMMA PermitStep ==
  ASSUME PInv, NEW t \in Thread, Produce(t) \/ Consume(t)
  PROVE  PermitInv' /\ NoReservationFailure'
<1>0. /\ IInv /\ pc \in [Thread -> Labels] /\ permits \in Nat
      /\ IsFiniteSet(Admitted) /\ Cardinality(Admitted) \in Nat
      /\ permits + Cardinality(Admitted) = N
  BY FS_CardinalityType DEF PInv, PermitInv, IInv, Types
<1>1. CASE Reserve(t)
  <2>1. permits' = permits - 1 /\ pc' = [pc EXCEPT ![t] = "lock"] /\ pc[t] = "idle"
    BY <1>1 DEF Reserve, Goto
  <2>2. t \notin Admitted /\ Admitted' = Admitted \union {t}
    BY <1>0, <2>1 DEF Admitted
  <2>3. IsFiniteSet(Admitted') /\ Cardinality(Admitted') = Cardinality(Admitted) + 1
    BY <1>0, <2>2, FS_AddElement
  <2>4. PermitInv'
    BY <1>0, <2>1, <2>3 DEF PermitInv
  <2> QED BY <1>0, <2>1, <2>4 DEF PInv, NoReservationFailure
<1>2. CASE Finish(t)
  <2>1. permits' = permits + 1 /\ pc' = [pc EXCEPT ![t] = "idle"] /\ pc[t] = "publish"
    BY <1>2 DEF Finish, Goto
  <2>2. t \in Admitted /\ Admitted' = Admitted \ {t}
    BY <1>0, <2>1 DEF Admitted
  <2>3. IsFiniteSet(Admitted') /\ Cardinality(Admitted') = Cardinality(Admitted) - 1
    BY <1>0, <2>2, FS_RemoveElement
  <2>4. PermitInv'
    BY <1>0, <2>1, <2>3 DEF PermitInv
  <2> QED BY <1>0, <2>1, <2>4 DEF PInv, NoReservationFailure
<1>3. CASE ~Reserve(t) /\ ~Finish(t)
  <2>1. \E l \in Labels \ {"idle", "panic"} :
          pc[t] # "idle" /\ pc' = [pc EXCEPT ![t] = l] /\ permits' = permits
    <3>1. CASE EnqueueCheck(t)
      BY <3>1, CheckFindsRoom DEF EnqueueCheck, Goto, Labels, Preparing
    <3>2. CASE ~EnqueueCheck(t)
      BY <1>3, <3>2 DEF Produce, Consume, LockQueue, EnqueueStore, EnqueueAdvance,
         SetInQueue, AssignSeq, PrepareCommit, Apply, LoadHeadTail, LoadSlot, IsApplied,
         CasTail, CasFail, ClearSlot, Goto, Labels, Preparing, Dequeuing
    <3> QED BY <3>1, <3>2
  <2>2. Admitted' = Admitted
    BY <1>0, <2>1 DEF Admitted
  <2> QED BY <1>0, <2>1, <2>2 DEF PInv, PermitInv, NoReservationFailure
<1> QED BY <1>1, <1>2, <1>3

LEMMA PermitInvariance == Spec => []PInv
<1>1. Init => PInv
  <2> SUFFICES ASSUME Init PROVE PInv
    OBVIOUS
  <2>1. Admitted = {} /\ permits = N /\ NoReservationFailure
    BY DEF Init, Admitted, NoReservationFailure
  <2> QED BY <2>1, InitIInv, FS_EmptySet, NAssumption DEF PInv, PermitInv
<1>2. PInv /\ [Next]_vars => PInv'
  <2> SUFFICES ASSUME PInv, [Next]_vars PROVE PInv'
    OBVIOUS
  <2>1. IInv'
    BY NextIInv DEF PInv
  <2>2. CASE UNCHANGED vars
    BY <2>1, <2>2 DEF vars, PInv, PermitInv, Admitted, NoReservationFailure
  <2>3. CASE Next
    BY <2>1, <2>3, PermitStep DEF Next, PInv
  <2> QED BY <2>2, <2>3
<1> QED
  BY <1>1, <1>2, PTL DEF Spec

(* enqueue never panics with "Queue full - reservation failed": for any    *)
(* number of threads, a committer that was admitted finds a free position, *)
(* also when others failed in prepare and kept their permits.              *)
THEOREM ReservationNeverFails == Spec => []NoReservationFailure
<1>1. PInv => NoReservationFailure
  BY DEF PInv
<1> QED
  BY <1>1, PermitInvariance, PTL

(* Type correctness of the pipeline: among others, the permits never pass  *)
(* the ring's slots, the window is at most a lap, q_mu is held by the one  *)
(* thread inside prepare, and every pointer that the tail CAS wins and     *)
(* try_dequeue returns is a batch, never null.                             *)
THEOREM TypeCorrect == Spec => []TypeOK
<1>1. ASSUME PInv PROVE TypeOK
  <2>1. Types /\ LockInv /\ RingInv /\ PermitInv
    BY <1>1 DEF PInv, IInv
  <2>2. permits \in 0 .. N
    BY <2>1, FS_CardinalityType, NAssumption DEF Types, PermitInv
  <2>3. head \in tail .. (tail + N)
    BY <2>1, NAssumption DEF Types, RingInv
  <2> QED BY <2>1, <2>2, <2>3 DEF TypeOK, Types, LockInv
<1> QED
  BY <1>1, PermitInvariance, PTL

-----------------------------------------------------------------------------
(* Every batch is somewhere.                                               *)

InRing(b) == \E p \in Window : log[p + 1] = b
WithConsumer(b) == \E c \in Thread : pc[c] = "clear" /\ ptr[c] = b

(* IInv says that a batch is in at most one place; this is the other half. *)
SomewhereInv ==
  \A b \in Thread :
    pc[b] \in Enqueued => InRing(b) \/ WithConsumer(b) \/ b \in published

HInv == IInv /\ SomewhereInv

LEMMA SomewhereStep ==
  ASSUME HInv, NEW t \in Thread, Produce(t) \/ Consume(t)
  PROVE  SomewhereInv'
<1>0. IInv /\ Types /\ SomewhereInv
  BY DEF HInv, IInv
<1>1. CASE EnqueueAdvance(t)
  <2> SUFFICES ASSUME NEW b \in Thread, pc'[b] \in Enqueued
               PROVE  InRing(b)' \/ WithConsumer(b)' \/ b \in published'
    BY DEF SomewhereInv
  <2>1. /\ head' = head + 1 /\ tail' = tail /\ ptr' = ptr /\ published' = published
        /\ pc[t] = "advance" /\ pc' = [pc EXCEPT ![t] = "setInQueue"]
    BY <1>1 DEF EnqueueAdvance, Goto, localVars
  <2>2. /\ head \in Nat /\ tail \in Nat /\ tail <= head
        /\ \A i \in 1 .. head : log'[i] = log[i] /\ log'[head + 1] = t
    BY <1>0, <1>1, LogAppended DEF IInv, Types, RingInv
  <2>3. log'[head + 1] = t /\ head \in Window'
    BY <1>0, <1>1, <2>1, <2>2, LogAppended DEF Window
  <2>4. Window \subseteq Window' /\ \A p \in Window : log'[p + 1] = log[p + 1]
    BY <2>1, <2>2 DEF Window
  <2>5. CASE b = t
    BY <2>3, <2>5 DEF InRing
  <2>6. CASE b # t
    <3>1. pc[b] \in Enqueued
      BY <1>0, <2>1, <2>6 DEF Types
    <3>2. InRing(b) => InRing(b)'
      BY <2>4 DEF InRing
    <3>3. WithConsumer(b) => WithConsumer(b)'
      BY <1>0, <2>1 DEF WithConsumer, Types
    <3> QED BY <1>0, <2>1, <3>1, <3>2, <3>3 DEF SomewhereInv
  <2> QED BY <2>5, <2>6
<1>2. CASE CasTail(t)
  <2> SUFFICES ASSUME NEW b \in Thread, pc'[b] \in Enqueued
               PROVE  InRing(b)' \/ WithConsumer(b)' \/ b \in published'
    BY DEF SomewhereInv
  <2>1. /\ log' = log /\ ptr' = ptr /\ published' = published
        /\ pc[t] = "cas" /\ pc' = [pc EXCEPT ![t] = "clear"]
    BY <1>2 DEF CasTail, Goto, localVars
  <2>2. ptr[t] = log[tail + 1] /\ Window' = Window \ {tail}
    BY <1>0, <1>2, ClaimAppended, WindowShrinks
  <2>3. pc[b] \in Enqueued
    BY <1>0, <2>1 DEF Types, Enqueued, Dequeuing
  <2>4. InRing(b) => InRing(b)' \/ WithConsumer(b)'
    BY <1>0, <2>1, <2>2 DEF InRing, WithConsumer, Types
  <2>5. WithConsumer(b) => WithConsumer(b)'
    BY <1>0, <2>1 DEF WithConsumer, Types
  <2> QED BY <1>0, <2>1, <2>3, <2>4, <2>5 DEF SomewhereInv
<1>3. CASE ClearSlot(t)
  <2>1. /\ log' = log /\ ptr' = ptr /\ head' = head /\ tail' = tail
        /\ published' = published \union {ptr[t]}
        /\ pc[t] = "clear" /\ pc' = [pc EXCEPT ![t] = "publish"]
    BY <1>3 DEF ClearSlot, Goto, localVars, histVars
  <2> QED BY <1>0, <2>1 DEF SomewhereInv, InRing, WithConsumer, Types, Window, Enqueued,
             Dequeuing
<1>4. CASE Finish(t)
  <2>1. /\ log' = log /\ ptr' = ptr /\ head' = head /\ tail' = tail
        /\ published' = published \ {t}
        /\ pc[t] = "publish" /\ pc' = [pc EXCEPT ![t] = "idle"]
    BY <1>4 DEF Finish, Goto, queueVars, localVars, histVars
  <2> QED BY <1>0, <2>1 DEF SomewhereInv, InRing, WithConsumer, Types, Window, Enqueued,
             Dequeuing
<1>5. CASE ~EnqueueAdvance(t) /\ ~CasTail(t) /\ ~ClearSlot(t) /\ ~Finish(t)
  <2>1. /\ log' = log /\ head' = head /\ tail' = tail /\ published' = published
        /\ \E l \in Labels : /\ pc' = [pc EXCEPT ![t] = l] /\ l # "clear"
                             /\ l \in Enqueued => pc[t] \in Enqueued
        /\ pc[t] # "clear" /\ \A c \in Thread : c # t => ptr'[c] = ptr[c]
    <3>1. CASE Produce(t)
      BY <1>0, <1>5, <3>1 DEF Produce, Reserve, LockQueue, EnqueueCheck, EnqueueStore, SetInQueue,
         AssignSeq, PrepareCommit, Apply, Goto, queueVars, localVars, histVars,
         Labels, Preparing, Dequeuing, Enqueued
    <3>2. CASE Consume(t)
      BY <1>0, <1>5, <3>2 DEF Consume, LoadHeadTail, LoadSlot, IsApplied, CasFail, Goto,
         queueVars, localVars, histVars, Labels, Preparing, Dequeuing, Enqueued, Types
    <3> QED BY <3>1, <3>2
  <2> SUFFICES ASSUME NEW b \in Thread, pc'[b] \in Enqueued
               PROVE  InRing(b)' \/ WithConsumer(b)' \/ b \in published'
    BY DEF SomewhereInv
  <2>2. PICK l \in Labels : /\ pc' = [pc EXCEPT ![t] = l] /\ l # "clear"
                            /\ l \in Enqueued => pc[t] \in Enqueued
    BY <2>1
  <2>3. pc'[t] = l /\ \A c \in Thread : c # t => pc'[c] = pc[c]
    <3>1. pc \in [Thread -> Labels] /\ pc' = [pc EXCEPT ![t] = l]
      BY <1>0, <2>2 DEF Types
    <3> QED BY <3>1, Zenon
  <2>4. pc[b] \in Enqueued
    <3>1. CASE b = t
      BY <2>2, <2>3, <3>1, Zenon
    <3>2. CASE b # t
      BY <2>3, <3>2, Zenon
    <3> QED BY <3>1, <3>2
  <2>5. InRing(b) => InRing(b)'
    BY <2>1 DEF InRing, Window
  <2>6. WithConsumer(b) => WithConsumer(b)'
    BY <2>1, <2>3 DEF WithConsumer
  <2> QED BY <1>0, <2>1, <2>4, <2>5, <2>6 DEF SomewhereInv
<1> QED BY <1>1, <1>2, <1>3, <1>4, <1>5

(* A batch that is queued is with nobody, and handed back exactly once.    *)
LEMMA InOnePlace == HInv => HandedBackOnce
<1> SUFFICES ASSUME HInv, NEW b \in Thread
             PROVE  LET queued == {p \in Window : log[p + 1] = b}
                        won    == {c \in Thread : pc[c] = "clear" /\ ptr[c] = b}
                        back   == {b} \intersect published
                    IN  Cardinality(queued) + Cardinality(won) + Cardinality(back)
                          = IF pc[b] \in Enqueued THEN 1 ELSE 0
  BY DEF HandedBackOnce
<1> DEFINE queued == {p \in Window : log[p + 1] = b}
           won    == {c \in Thread : pc[c] = "clear" /\ ptr[c] = b}
           back   == {b} \intersect published
<1>1. IInv
  BY DEF HInv
<1>2. queued = {} \/ \E p : queued = {p}
  BY <1>1 DEF IInv, WindowInv
<1>3. won = {} \/ \E c : won = {c}
  BY <1>1 DEF IInv, SoleClaimInv
<1>4. back = {} \/ back = {b}
  OBVIOUS
<1>5. /\ queued # {} => pc[b] \in Enqueued /\ won = {} /\ back = {}
      /\ won # {} => pc[b] \in Enqueued /\ back = {}
      /\ back # {} => pc[b] \in Enqueued
  BY <1>1 DEF IInv, WindowInv, ClaimInv, PublishedInv, Enqueued
<1>6. pc[b] \in Enqueued => queued # {} \/ won # {} \/ back # {}
  BY DEF HInv, SomewhereInv, InRing, WithConsumer
<1> HIDE DEF queued, won, back
<1>7. /\ Cardinality({}) = 0
      /\ queued # {} => Cardinality(queued) = 1
      /\ won # {} => Cardinality(won) = 1
      /\ back # {} => Cardinality(back) = 1
  BY <1>2, <1>3, <1>4, FS_EmptySet, FS_Singleton
<1>8. Cardinality(queued) + Cardinality(won) + Cardinality(back)
        = IF pc[b] \in Enqueued THEN 1 ELSE 0
  BY <1>5, <1>6, <1>7
<1> QED BY <1>8 DEF queued, won, back

(* try_dequeue hands every enqueued batch back once: it is at one position *)
(* of the ring, or with the one consumer that claimed it, or with its      *)
(* committer, at every point of every interleaving.                        *)
THEOREM EveryBatchHandedBackOnce == Spec => []HandedBackOnce
<1>1. Init => HInv
  <2>1. Init => SomewhereInv
    BY DEF Init, SomewhereInv, Enqueued, Dequeuing
  <2> QED BY <2>1, InitIInv DEF HInv
<1>2. HInv /\ [Next]_vars => HInv'
  <2> SUFFICES ASSUME HInv, [Next]_vars PROVE HInv'
    OBVIOUS
  <2>1. IInv'
    BY NextIInv DEF HInv
  <2>2. CASE UNCHANGED vars
    BY <2>1, <2>2 DEF vars, HInv, SomewhereInv, InRing, WithConsumer, Window
  <2>3. CASE Next
    BY <2>1, <2>3, SomewhereStep DEF Next, HInv
  <2> QED BY <2>2, <2>3
<1> QED
  BY <1>1, <1>2, InOnePlace, PTL DEF Spec
=============================================================================
