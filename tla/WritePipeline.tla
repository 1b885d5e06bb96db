--------------------------- MODULE WritePipeline ---------------------------
(***************************************************************************)
(* The commit path of the write pipeline (db/write_pipeline.rs): every     *)
(* committing thread reserves queue space, enqueues its batch under q_mu   *)
(* (BatchQueue::enqueue inside WritePipeline::prepare), applies it, and    *)
(* then competes with the other committing threads to dequeue applied      *)
(* batches in order (BatchQueue::try_dequeue).                             *)
(*                                                                         *)
(* A step is one access to memory the threads share.  A thread commits one *)
(* batch at a time, so the batch of thread t is written t; committing      *)
(* again reuses the allocation, as the batch pool does.                    *)
(*                                                                         *)
(* The reservation semaphore is taken atomically here; PipelineAdmission   *)
(* shows that the code's semaphore behaves like that.  Positions are the   *)
(* naturals: below MaxPos = 2^32 the packed u32 head and tail never wrap.  *)
(***************************************************************************)
EXTENDS Integers, Sequences, FiniteSets

CONSTANTS
  Thread,    \* the committing threads; also names each thread's batch
  Null,      \* the null pointer
  N,         \* slots of the ring, and permits of commit_sem
  Counts,    \* operation counts a batch may have
  SeqSpan,   \* number of values of a u64 sequence number (2^64)
  MaxPos     \* bound: enqueues explored (2^32 before the head wraps)

ASSUME NAssumption == N \in Nat \ {0}
ASSUME NullAssumption == Null \notin Thread
ASSUME BoundAssumption == MaxPos \in Nat
ASSUME SeqAssumption == SeqSpan \in Nat \ {0} /\ Counts \subseteq Nat

VARIABLES
  head, tail,      \* BatchQueue::head_tail, unpacked
  slots,           \* BatchQueue::slots
  permits,         \* permits left in commit_sem
  q_mu,            \* holder of WritePipeline::q_mu, or Null
  state,           \* runtime_commit_state of each batch
  log_seq_num,     \* SeqNumState::log_seq_num
  published,       \* batches try_dequeue returned whose committer has not left
  pc,              \* what each thread does next
  ht,              \* try_dequeue's local copy of head_tail
  ptr,             \* try_dequeue's local batch pointer
  log,             \* history: the batch enqueued at each position
  stamped,         \* history: the range assign_seq_num_once gave each position
  claimed          \* history: the batches won by the tail CAS, in order

queueVars == <<head, tail, slots>>
localVars == <<ht, ptr>>
histVars  == <<log, stamped, claimed>>
vars == <<head, tail, slots, permits, q_mu, state, log_seq_num, published,
          pc, ht, ptr, log, stamped, claimed>>

(* Labels of a thread inside prepare, that is, between lock and unlock of  *)
(* q_mu; inside try_dequeue; and from the enqueue of its batch on.         *)
Preparing == {"check", "store", "advance", "setInQueue", "assignSeq",
              "prepareCommit"}
Dequeuing == {"publish", "slot", "isApplied", "cas", "clear"}
Enqueued  == {"setInQueue", "assignSeq", "prepareCommit", "apply", "failed"}
               \union Dequeuing
Labels    == {"idle", "lock", "apply", "failed", "panic"}
               \union Preparing \union Dequeuing

(* BatchRuntimeState, without the two states this path never stores.       *)
RuntimeState == {"Acquired", "InQueue", "Applied"}

(* slots[p & (N - 1)]: N is a power of two.                                *)
Slot(p) == p % N

(* Positions enqueued and not yet claimed: [tail, head).                   *)
Window == tail .. (head - 1)

Goto(t, l) == pc' = [pc EXCEPT ![t] = l]

Init ==
  /\ head = 0 /\ tail = 0
  /\ slots = [i \in 0 .. (N - 1) |-> Null]
  /\ permits = N
  /\ q_mu = Null
  /\ state = [t \in Thread |-> "Acquired"]
  /\ log_seq_num = 0
  /\ published = {}
  /\ pc = [t \in Thread |-> "idle"]
  /\ ht = [t \in Thread |-> [head |-> 0, tail |-> 0]]
  /\ ptr = [t \in Thread |-> Null]
  /\ log = << >> /\ stamped = << >> /\ claimed = << >>

-----------------------------------------------------------------------------
(* The producer side: reserve_space, then prepare under q_mu.              *)

(* Mutant: the permit is seen but not taken.                               *)
ReserveUncounted(t) ==
  /\ pc[t] = "idle"
  /\ permits > 0
  /\ permits' = permits
  /\ Goto(t, "lock")
  /\ UNCHANGED <<queueVars, q_mu, state, log_seq_num, published, localVars,
                 histVars>>

Reserve(t) ==
  /\ pc[t] = "idle"
  /\ permits > 0
  /\ permits' = permits - 1
  /\ Goto(t, "lock")
  /\ UNCHANGED <<queueVars, q_mu, state, log_seq_num, published, localVars,
                 histVars>>

LockQueue(t) ==
  /\ pc[t] = "lock"
  /\ q_mu = Null
  /\ q_mu' = t
  /\ Goto(t, "check")
  /\ UNCHANGED <<queueVars, permits, state, log_seq_num, published,
                 localVars, histVars>>

(* enqueue loads head_tail and panics on a full ring.  The slot it then    *)
(* loads only decides whether it executes one spin hint.                   *)
EnqueueCheck(t) ==
  /\ pc[t] = "check"
  /\ head < MaxPos
  /\ Goto(t, IF tail + N = head THEN "panic" ELSE "store")
  /\ UNCHANGED <<queueVars, permits, q_mu, state, log_seq_num, published,
                 localVars, histVars>>

EnqueueStore(t) ==
  /\ pc[t] = "store"
  /\ slots' = [slots EXCEPT ![Slot(head)] = t]
  /\ Goto(t, "advance")
  /\ UNCHANGED <<head, tail, permits, q_mu, state, log_seq_num, published,
                 localVars, histVars>>

EnqueueAdvance(t) ==
  /\ pc[t] = "advance"
  /\ head' = head + 1
  /\ log' = Append(log, t)
  /\ Goto(t, "setInQueue")
  /\ UNCHANGED <<tail, slots, permits, q_mu, state, log_seq_num, published,
                 localVars, stamped, claimed>>

SetInQueue(t) ==
  /\ pc[t] = "setInQueue"
  /\ state' = [state EXCEPT ![t] = "InQueue"]
  /\ Goto(t, "assignSeq")
  /\ UNCHANGED <<queueVars, permits, q_mu, log_seq_num, published,
                 localVars, histVars>>

(* fetch_add returns the old value and prepare subtracts the count from    *)
(* it; both wrap at the width of u64.                                      *)
SeqBase(old, count) == (old - count) % SeqSpan

AssignSeq(t) ==
  /\ pc[t] = "assignSeq"
  /\ \E count \in Counts :
       /\ stamped' = Append(stamped,
                       [base  |-> SeqBase(log_seq_num, count),
                        count |-> count])
       /\ log_seq_num' = (log_seq_num + count) % SeqSpan
  /\ Goto(t, "prepareCommit")
  /\ UNCHANGED <<queueVars, permits, q_mu, state, published, localVars, log,
                 claimed>>

(* WriterEnv::prepare_commit.  On an error prepare returns early: the      *)
(* batch stays in the ring and nothing gives its permit back.              *)
PrepareCommit(t) ==
  /\ pc[t] = "prepareCommit"
  /\ q_mu' = Null
  /\ \/ Goto(t, "apply")
     \/ Goto(t, "failed")
  /\ UNCHANGED <<queueVars, permits, state, log_seq_num, published,
                 localVars, histVars>>

(* WriterEnv::apply_commit, then mark_applied.                             *)
Apply(t) ==
  /\ pc[t] = "apply"
  /\ state' = [state EXCEPT ![t] = "Applied"]
  /\ Goto(t, "publish")
  /\ UNCHANGED <<queueVars, permits, q_mu, log_seq_num, published,
                 localVars, histVars>>

-----------------------------------------------------------------------------
(* The consumer side.  publish calls try_dequeue until the thread's own    *)
(* batch has been returned to somebody.                                    *)

LoadHeadTail(t) ==
  /\ pc[t] = "publish"
  /\ t \notin published
  /\ tail # head
  /\ ht' = [ht EXCEPT ![t] = [head |-> head, tail |-> tail]]
  /\ Goto(t, "slot")
  /\ UNCHANGED <<queueVars, permits, q_mu, state, log_seq_num, published,
                 ptr, histVars>>

LoadSlot(t) ==
  /\ pc[t] = "slot"
  /\ ptr' = [ptr EXCEPT ![t] = slots[Slot(ht[t].tail)]]
  /\ Goto(t, IF ptr'[t] = Null THEN "publish" ELSE "isApplied")
  /\ UNCHANGED <<queueVars, permits, q_mu, state, log_seq_num, published,
                 ht, histVars>>

(* Mutant: the batch is taken whatever its runtime state.                  *)
IsAppliedSkipped(t) ==
  /\ pc[t] = "isApplied"
  /\ Goto(t, "cas")
  /\ UNCHANGED <<queueVars, permits, q_mu, state, log_seq_num, published,
                 localVars, histVars>>

IsApplied(t) ==
  /\ pc[t] = "isApplied"
  /\ Goto(t, IF state[ptr[t]] = "Applied" THEN "cas" ELSE "publish")
  /\ UNCHANGED <<queueVars, permits, q_mu, state, log_seq_num, published,
                 localVars, histVars>>

(* Mutant: a store of the new tail instead of a compare-exchange.          *)
CasTailStored(t) ==
  /\ pc[t] = "cas"
  /\ tail' = ht[t].tail + 1
  /\ claimed' = Append(claimed, ptr[t])
  /\ Goto(t, "clear")
  /\ UNCHANGED <<head, slots, permits, q_mu, state, log_seq_num, published,
                 localVars, log, stamped>>

CasTail(t) ==
  /\ pc[t] = "cas"
  /\ ht[t] = [head |-> head, tail |-> tail]
  /\ tail' = tail + 1
  /\ claimed' = Append(claimed, ptr[t])
  /\ Goto(t, "clear")
  /\ UNCHANGED <<head, slots, permits, q_mu, state, log_seq_num, published,
                 localVars, log, stamped>>

(* A failed CAS goes round the loop with the value it read.                *)
CasFail(t) ==
  /\ pc[t] = "cas"
  /\ ht[t] # [head |-> head, tail |-> tail]
  /\ ht' = [ht EXCEPT ![t] = [head |-> head, tail |-> tail]]
  /\ Goto(t, IF tail = head THEN "publish" ELSE "slot")
  /\ UNCHANGED <<queueVars, permits, q_mu, state, log_seq_num, published,
                 ptr, histVars>>

(* Mutant: the consumer gives back the permit of the batch it dequeued,    *)
(* which the batch's committer gives back as well.                         *)
ClearSlotReleases(t) ==
  /\ pc[t] = "clear"
  /\ slots' = [slots EXCEPT ![Slot(ht[t].tail)] = Null]
  /\ published' = published \union {ptr[t]}
  /\ permits' = permits + 1
  /\ Goto(t, "publish")
  /\ UNCHANGED <<head, tail, q_mu, state, log_seq_num, localVars, histVars>>

ClearSlot(t) ==
  /\ pc[t] = "clear"
  /\ slots' = [slots EXCEPT ![Slot(ht[t].tail)] = Null]
  /\ published' = published \union {ptr[t]}
  /\ Goto(t, "publish")
  /\ UNCHANGED <<head, tail, permits, q_mu, state, log_seq_num, localVars,
                 histVars>>

(* Mutant: the committer leaves without consuming its own hand-back.       *)
FinishUnconsumed(t) ==
  /\ pc[t] = "publish"
  /\ t \in published
  /\ published' = published
  /\ permits' = permits + 1
  /\ state' = [state EXCEPT ![t] = "Acquired"]
  /\ Goto(t, "idle")
  /\ UNCHANGED <<queueVars, q_mu, log_seq_num, localVars, histVars>>

(* The commit is over: release_queue_space, and the owner resets the batch *)
(* for its next use.                                                       *)
Finish(t) ==
  /\ pc[t] = "publish"
  /\ t \in published
  /\ published' = published \ {t}
  /\ permits' = permits + 1
  /\ state' = [state EXCEPT ![t] = "Acquired"]
  /\ Goto(t, "idle")
  /\ UNCHANGED <<queueVars, q_mu, log_seq_num, localVars, histVars>>

Produce(t) ==
  \/ Reserve(t) \/ LockQueue(t) \/ EnqueueCheck(t) \/ EnqueueStore(t)
  \/ EnqueueAdvance(t) \/ SetInQueue(t) \/ AssignSeq(t) \/ PrepareCommit(t)
  \/ Apply(t)

Consume(t) ==
  \/ LoadHeadTail(t) \/ LoadSlot(t) \/ IsApplied(t) \/ CasTail(t)
  \/ CasFail(t) \/ ClearSlot(t) \/ Finish(t)

Next == \E t \in Thread : Produce(t) \/ Consume(t)

Spec == Init /\ [][Next]_vars
-----------------------------------------------------------------------------
(* Types and ranges: the window is at most a lap of the ring, the permits  *)
(* never pass the ring's slots (release asserts that the count was below   *)
(* the limit) although several threads give them back, q_mu is held by the *)
(* thread inside prepare and by no other, and the numbers stamped have the *)
(* width of a u64.                                                         *)
TypeOK ==
  /\ tail \in Nat /\ head \in tail .. (tail + N)
  /\ slots \in [0 .. (N - 1) -> Thread \union {Null}]
  /\ permits \in 0 .. N
  /\ q_mu \in Thread \union {Null}
  /\ \A t \in Thread : pc[t] \in Preparing \union {"panic"} <=> q_mu = t
  /\ state \in [Thread -> RuntimeState]
  /\ log_seq_num \in 0 .. (SeqSpan - 1)
  /\ published \in SUBSET Thread
  /\ pc \in [Thread -> Labels]
  /\ ht \in [Thread -> [head : Nat, tail : Nat]]
  /\ ptr \in [Thread -> Thread \union {Null}]
  /\ log \in Seq(Thread)
  /\ stamped \in Seq([base : 0 .. (SeqSpan - 1), count : Counts])
  /\ claimed \in Seq(Thread)

(* Consumers claim batches in the order the producers enqueued them, each  *)
(* position once, whatever pointer a consumer loaded before it stalled and *)
(* however often the allocation behind it was reused meanwhile             *)
(* (try_dequeue: the batch returned is the one at the tail the CAS moved). *)
ClaimsInOrder ==
  /\ Len(claimed) = tail
  /\ \A i \in 1 .. tail : claimed[i] = log[i]

(* The tail moves past a batch only while that batch is applied and has    *)
(* its sequence number, although both were tested, or written, several     *)
(* steps before the CAS and the batch is in the ring before either         *)
(* (prepare enqueues first; try_dequeue tests is_applied first).           *)
ClaimsReady ==
  [][tail' # tail =>
       /\ state[log[tail + 1]] = "Applied"
       /\ tail < Len(stamped)]_vars

(* enqueue never reaches "Queue full - reservation failed": a permit       *)
(* really is a free position, also while claimed slots are not cleared.    *)
NoReservationFailure == \A t \in Thread : pc[t] # "panic"

(* A batch is in one place only: at one position of the ring, or with the  *)
(* one consumer that claimed it, or handed back to its committer; the      *)
(* batch of a committer that has not enqueued is in none.                  *)
HandedBackOnce ==
  \A b \in Thread :
    LET queued == {p \in Window : log[p + 1] = b}
        won    == {c \in Thread : pc[c] = "clear" /\ ptr[c] = b}
        back   == {b} \intersect published
    IN  Cardinality(queued) + Cardinality(won) + Cardinality(back)
          = IF pc[b] \in Enqueued THEN 1 ELSE 0

-----------------------------------------------------------------------------
(* What comments in the code say and the code does not do.                 *)

(* enqueue: "Once we're here we own the slot - all consumers are finished  *)
(* on it" when it stores the batch.                                        *)
ProducerOwnsSlot ==
  \A t, c \in Thread :
    pc[t] = "store" /\ pc[c] = "clear" => Slot(ht[c].tail) # Slot(head)

(* commit: "No pipeline component may retain a pointer into the batch      *)
(* allocation after this method returns": try_dequeue dereferences only    *)
(* batches whose committer is still in commit.                             *)
NoRetainedPointer ==
  \A c \in Thread : pc[c] = "isApplied" => pc[ptr[c]] # "idle"

(* The sequence numbers assign_seq_num_once gives the batch's operations.  *)
SeqRange(r) == {(r.base + k) % SeqSpan : k \in 0 .. (r.count - 1)}

(* WriterEnv's commit flow: "Sequence numbers are reserved and assigned to *)
(* the batch": no number is in the ranges of two batches.                  *)
SeqRangesDisjoint ==
  \A i, j \in DOMAIN stamped :
    i # j => SeqRange(stamped[i]) \intersect SeqRange(stamped[j]) = {}
=============================================================================
