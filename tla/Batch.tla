--------------------------------- MODULE Batch ---------------------------------
(***************************************************************************)
(* One batch allocation of crates/engine/src/db/batch.rs through its life: *)
(* the owner fills it, seals it and hands it to the write pipeline, waits  *)
(* for its WAL sync and resets it or gives it back to the pool, from which *)
(* it is acquired again.  The WAL worker reports the sync through a clone  *)
(* of the batch's waiter (crates/engine/src/wal/mod.rs).                   *)
(*                                                                         *)
(* The buffer is its length and the operations in it, each at its offset   *)
(* with its two encoded lengths; the bytes of keys and values are left     *)
(* out.  The steps are those of a release build: debug assertions are not  *)
(* compiled in, assert! and slice bounds are.                              *)
(*                                                                         *)
(* The repository has two commit paths.  commit, as it stands, signals the *)
(* waiter itself and sends the WAL nothing; prepare, which commit does not *)
(* call yet, hands the batch to the environment and through it to the WAL. *)
(* A behaviour takes one of the two throughout.                            *)
(***************************************************************************)
EXTENDS VarInt, SequencesExt

CONSTANTS MAX_BATCH_SIZE,
          MAX_USER_KEY_BYTES,
          MAX_LEN,          \* the largest length a varint encodes (u32::MAX)
          KeyLens, ValueLens,
          MaxCommits        \* bound: commits in the life of the allocation

HEADER_SIZE == 12

ASSUME SizeAssumption ==
  /\ MAX_BATCH_SIZE \in Nat /\ MAX_USER_KEY_BYTES \in Nat /\ MAX_LEN \in Nat
  /\ KeyLens \subseteq Nat /\ ValueLens \subseteq Nat /\ MaxCommits \in Nat
  /\ HEADER_SIZE <= MAX_BATCH_SIZE

\* Every length that is not refused fits the bytes of a varint.
ASSUME VarIntAssumption ==
  /\ MAX_USER_KEY_BYTES \div 128 ^ (MAX_VARINT - 1) <= 127
  /\ MAX_LEN \div 128 ^ (MAX_VARINT - 1) <= 127

VARIABLES
  env,       \* commits go through prepare and the environment
  data,      \* the buffer: its length, its header and its operations
  count,     \* BatchInner.count
  runtime,   \* runtime_commit_state
  object,    \* where the allocation is, and the type state of its handle
  sync,      \* state of the sync waiter
  clone,     \* the WAL worker holds a clone it has not signalled
  wait,      \* the owner's call of reset or close, and its step in the waiter
  error,     \* the result of the last operation
  commits,   \* commits so far
  outcome,   \* history: what the WAL reported for the last commit: "none" when
             \* it was sent nothing, "pending" until it reports
  deferred   \* history: the operations put_with wrote since the last clear

buffer == <<data, count, deferred>>
vars == <<env, buffer, runtime, object, sync, clone, wait, error, commits, outcome>>

Terminal == {"SyncDone", "IoError", "WalError"}
Cleared == [len |-> 0, seq |-> 0, count |-> 0, ops |-> <<>>]
NotWaiting == [op |-> "none", pc |-> "none"]

\* A record's encoded size: kind, column family, both varints, key and value.
RecordSize(klen, vlen) == 1 + 8 + size(klen) + klen + size(vlen) + vlen

\* BatchInner::new: an allocation starts with its header.
Init ==
  /\ env \in BOOLEAN
  /\ data = [Cleared EXCEPT !.len = HEADER_SIZE]
  /\ count = 0 /\ deferred = 0
  /\ runtime = "Acquired" /\ object = "uncommitted"
  /\ sync = "Init" /\ clone = FALSE
  /\ wait = NotWaiting /\ error = "ok"
  /\ commits = 0 /\ outcome = "none"

Owned(state) == object = state /\ wait = NotWaiting

-----------------------------------------------------------------------------
(* The buffer                                                              *)

\* Mutant: a record too large for any batch is left to the check for room.
RecordRefusalLate(klen, vlen) ==
  IF klen > MAX_USER_KEY_BYTES THEN "KeyTooLarge"
  ELSE IF vlen > MAX_LEN THEN "ValueTooLarge"
  ELSE "ok"

\* What is refused whatever the batch holds: by key_value_record_layout, and by
\* the first check of reserve_operation.
RecordRefusal(klen, vlen) ==
  IF klen > MAX_USER_KEY_BYTES THEN "KeyTooLarge"
  ELSE IF vlen > MAX_LEN THEN "ValueTooLarge"
  ELSE IF HEADER_SIZE + RecordSize(klen, vlen) > MAX_BATCH_SIZE THEN "RecordTooLarge"
  ELSE "ok"

\* init_buffer on a buffer that clear has emptied.
Initialised(d) == IF d.len = 0 THEN [Cleared EXCEPT !.len = HEADER_SIZE] ELSE d

\* The check of reserve_operation for room, behind what the buffer holds.
HasRoom(d, klen, vlen) == d.len + RecordSize(klen, vlen) <= MAX_BATCH_SIZE

\* reserve_operation: a record that fits no batch is refused first, then an
\* empty buffer gets its header, and only then is there a check for room.
\* result is the buffer left when the reservation is granted.
Reserve(klen, vlen, result) ==
  \/ /\ RecordRefusal(klen, vlen) # "ok"
     /\ error' = RecordRefusal(klen, vlen) /\ data' = data
  \/ /\ RecordRefusal(klen, vlen) = "ok" /\ ~HasRoom(Initialised(data), klen, vlen)
     /\ error' = "BatchFull" /\ data' = Initialised(data)
  \/ /\ RecordRefusal(klen, vlen) = "ok" /\ HasRoom(Initialised(data), klen, vlen)
     /\ error' = "ok" /\ data' = result

\* The buffer with an operation written at its end.
Written(d, klen, vlen) ==
  [d EXCEPT !.len = @ + RecordSize(klen, vlen),
            !.ops = Append(@, [at |-> d.len, key |-> VarInt(klen),
                               value |-> VarInt(vlen)])]

\* put encodes the operation, counts it and stores the count in the header.
\* (BatchObject::put_cf calls it and throws the error away.)
Put(klen, vlen) ==
  /\ Owned("uncommitted")
  /\ Reserve(klen, vlen, [Written(Initialised(data), klen, vlen)
                            EXCEPT !.count = count + 1])
  /\ count' = IF error' = "ok" THEN count + 1 ELSE count
  /\ UNCHANGED <<env, deferred, runtime, object, sync, clone, wait, commits, outcome>>

\* put_with reserves the operation and runs the closure that fills it; the
\* count is left alone.
PutWith(klen, vlen) ==
  /\ Owned("uncommitted")
  /\ Reserve(klen, vlen, Written(Initialised(data), klen, vlen))
  /\ deferred' = IF error' = "ok" THEN deferred + 1 ELSE deferred
  /\ UNCHANGED <<env, count, runtime, object, sync, clone, wait, commits, outcome>>

\* Truncates the buffer to a length that ends an operation: the operations that
\* begin below it are left.
ResizeTo(d, len) ==
  LET left == CHOOSE n \in 0 .. Len(d.ops) :
                \A i \in DOMAIN d.ops : d.ops[i].at < len <=> i <= n
  IN [d EXCEPT !.len = len, !.ops = SubSeq(@, 1, left)]

\* Mutant: the reservation is dropped without giving its space back.
RolledBackNot(d, klen, vlen) == [Written(d, klen, vlen) EXCEPT !.ops = d.ops]

\* DeferredOp::rollback: the buffer is resized to where the reservation began.
RolledBack(d, klen, vlen) == ResizeTo(Written(d, klen, vlen), d.len)

\* The closure panics: DeferredOp::drop rolls back while the thread unwinds, and
\* a caller that catches the panic still has the batch.
PutWithPanics(klen, vlen) ==
  /\ Owned("uncommitted")
  /\ Reserve(klen, vlen, RolledBack(Initialised(data), klen, vlen))
  /\ UNCHANGED <<env, count, deferred, runtime, object, sync, clone, wait, commits, outcome>>

-----------------------------------------------------------------------------
(* Commit                                                                  *)

Seal ==
  /\ Owned("uncommitted")
  /\ object' = "sealed"
  /\ UNCHANGED <<env, buffer, runtime, sync, clone, wait, error, commits, outcome>>

\* WritePipeline::commit as it stands: it signals the waiter itself, so that
\* nobody waits for a WAL that was sent nothing.
Commit ==
  /\ ~env /\ Owned("sealed") /\ commits < MaxCommits
  /\ sync' = "SyncDone" /\ outcome' = "none"
  /\ commits' = commits + 1
  /\ UNCHANGED <<env, buffer, runtime, object, clone, wait, error>>

\* Mutant: a waiter that has seen a commit is not primed again.
PrimeOnce == sync' = IF sync = "Init" THEN "Primed" ELSE sync

\* SyncLogWaiter::prime.  Its assertion that the state is Init is a debug one.
Prime == sync' = "Primed"

\* WritePipeline::prepare queues the batch.  The sequence number of a batch "is
\* written exactly once": a batch that was queued is not committed again
\* before it is reset.
Enqueue ==
  /\ env /\ Owned("sealed") /\ runtime = "Acquired" /\ commits < MaxCommits
  /\ runtime' = "InQueue"
  /\ commits' = commits + 1
  /\ UNCHANGED <<env, count, deferred, wait, error>>

\* assign_seq_num_once: the number goes into the first bytes of the header.
AssignSeqNumOnce ==
  /\ data.len >= HEADER_SIZE
  /\ data' = [data EXCEPT !.seq = commits + 1]

\* The number is stamped and the environment primes the waiter and sends a clone
\* of it to the WAL worker; the commit goes on to apply the batch.
Prepare ==
  /\ Enqueue /\ AssignSeqNumOnce
  /\ Prime /\ clone' = TRUE /\ outcome' = "pending"
  /\ object' = "committing"

\* The environment fails before it sends anything: prepare returns its error and
\* the owner has its batch back, still InQueue.
PrepareFails ==
  /\ Enqueue /\ AssignSeqNumOnce
  /\ outcome' = "none"
  /\ UNCHANGED <<object, sync, clone>>

\* A buffer that has no header cannot take the number: the slice panics.
PreparePanics ==
  /\ Enqueue /\ data.len < HEADER_SIZE
  /\ object' = "panicked"
  /\ UNCHANGED <<data, sync, clone, outcome>>

\* The pipeline has finished with the batch: mark_applied, and commit returns.
MarkApplied ==
  /\ object = "committing"
  /\ runtime' = "Applied" /\ object' = "sealed"
  /\ UNCHANGED <<env, buffer, sync, clone, wait, error, commits, outcome>>

\* SyncLogWaiter::signal by the WAL worker, under the waiter's mutex: the state
\* is stored and everyone asleep on the condition variable is woken.
Signal(state) ==
  /\ clone /\ clone' = FALSE
  /\ sync' = state /\ outcome' = state
  /\ wait' = IF wait.pc = "asleep" THEN [wait EXCEPT !.pc = "lock"] ELSE wait
  /\ UNCHANGED <<env, buffer, runtime, object, error, commits>>

-----------------------------------------------------------------------------
(* reset and close                                                         *)

\* BatchInner::clear: everything but the waiter goes, the header too.
Clear == data' = Cleared /\ count' = 0 /\ deferred' = 0

\* reset_batch asserts that the pipeline has let go of the batch; reset keeps it
\* for the caller, release puts it into the pool.
Reuse ==
  IF runtime \in {"Acquired", "Applied"}
  THEN /\ Clear
       /\ runtime' = IF wait.op = "reset" THEN "Acquired" ELSE "Idle"
       /\ object' = IF wait.op = "reset" THEN "uncommitted" ELSE "pooled"
  ELSE /\ object' = "panicked"
       /\ UNCHANGED <<buffer, runtime>>

\* Mutant: any state but Primed will do.
ReusableWhenOver(state) == state # "Primed"

\* wait_until_reusable is Ok: never committed, or synced.
Reusable(state) == state \in {"Init", "SyncDone"}

\* wait_until_reusable returned: reset panics on an error, close returns it and
\* drops the batch.
Return(state) ==
  /\ wait' = NotWaiting
  /\ IF Reusable(state)
     THEN Reuse
     ELSE /\ object' = IF wait.op = "reset" THEN "panicked" ELSE "dropped"
          /\ UNCHANGED <<buffer, runtime>>
  /\ UNCHANGED <<env, sync, clone, error, commits, outcome>>

Start(op) ==
  /\ Owned("uncommitted") \/ Owned("sealed")
  /\ wait' = [op |-> op, pc |-> "spin"]
  /\ UNCHANGED <<env, buffer, runtime, object, sync, clone, error, commits, outcome>>

\* wait_until_reusable, and the bounded spin of SyncLogWaiter::wait: the owner
\* returns with what it finds, or gives up spinning on Primed.
Spin ==
  /\ wait.pc = "spin"
  /\ IF sync # "Primed" THEN Return(sync)
     ELSE /\ wait' = [wait EXCEPT !.pc = "lock"]
          /\ UNCHANGED <<env, buffer, runtime, object, sync, clone, error, commits, outcome>>

\* Mutant: the state is not looked at again under the mutex.
SleepUnchecked ==
  /\ wait.pc = "lock"
  /\ wait' = [wait EXCEPT !.pc = "asleep"]
  /\ UNCHANGED <<env, buffer, runtime, object, sync, clone, error, commits, outcome>>

\* The slow path: the state is checked under the mutex, which the condition
\* variable releases as the owner falls asleep.
Sleep ==
  /\ wait.pc = "lock"
  /\ IF sync # "Primed" THEN Return(sync)
     ELSE /\ wait' = [wait EXCEPT !.pc = "asleep"]
          /\ UNCHANGED <<env, buffer, runtime, object, sync, clone, error, commits, outcome>>

\* Condvar::wait returns without a notification (external).
SpuriousWake ==
  /\ wait.pc = "asleep"
  /\ wait' = [wait EXCEPT !.pc = "lock"]
  /\ UNCHANGED <<env, buffer, runtime, object, sync, clone, error, commits, outcome>>

\* Mutant: the batch leaves the pool as it was stored.
AcquireIdle ==
  /\ object = "pooled"
  /\ object' = "uncommitted"
  /\ UNCHANGED <<env, buffer, runtime, sync, clone, wait, error, commits, outcome>>

\* The pool hands the batch out again.
Acquire ==
  /\ object = "pooled"
  /\ object' = "uncommitted" /\ runtime' = "Acquired"
  /\ UNCHANGED <<env, buffer, sync, clone, wait, error, commits, outcome>>

Next ==
  \/ \E k \in KeyLens, v \in ValueLens :
       Put(k, v) \/ PutWith(k, v) \/ PutWithPanics(k, v)
  \/ Seal \/ Commit \/ Prepare \/ PrepareFails \/ PreparePanics \/ MarkApplied
  \/ \E state \in Terminal : Signal(state)
  \/ \E op \in {"reset", "close"} : Start(op)
  \/ Spin \/ Sleep \/ SpuriousWake \/ Acquire

\* The worker reports every sync it was sent, and a thread that can run runs.
Spec == Init /\ [][Next]_vars
             /\ WF_vars(\E state \in Terminal : Signal(state))
             /\ WF_vars(Spin \/ Sleep)

-----------------------------------------------------------------------------
(* Properties                                                              *)

\* Types, and the runtime state of an allocation says where it is: Idle in the
\* pool only, Acquired while the owner may write to it, InQueue while a commit
\* has it.
TypeOK ==
  /\ count \in Nat /\ deferred \in Nat /\ commits \in 0 .. MaxCommits
  /\ sync \in Terminal \cup {"Init", "Primed"}
  /\ outcome \in Terminal \cup {"none", "pending"}
  /\ error \in {"ok", "KeyTooLarge", "ValueTooLarge", "RecordTooLarge", "BatchFull"}
  /\ runtime = "Idle" <=> object = "pooled"
  /\ object = "uncommitted" => runtime = "Acquired"
  /\ object = "committing" => runtime = "InQueue"

\* The offset behind the i-th operation, found the way a reader finds it: from
\* the decoded lengths.
EndOf(i) ==
  LET o == data.ops[i]
      k == decode(o.key)
      v == decode(o.value)
  IN o.at + 1 + 8 + k[2] + k[1] + v[2] + v[1]

\* The bytes of a batch are a header and operations end to end, whatever mix of
\* operations was written, refused or rolled back: a reader that walks them by
\* their encoded lengths reads each one and stops at the end, and the batch never
\* outgrows its limit.  The header's count falls short of the "operation count"
\* its doc gives it by exactly the operations that put_with wrote.
BufferDecodes ==
  /\ data.len <= MAX_BATCH_SIZE
  /\ count + deferred = Len(data.ops)
  /\ data.len = 0 => data.ops = <<>>
  /\ data.len > 0 =>
       /\ data.count = count
       /\ \A i \in DOMAIN data.ops :
            data.ops[i].at = IF i = 1 THEN HEADER_SIZE ELSE EndOf(i - 1)
       /\ data.len = IF data.ops = <<>> THEN HEADER_SIZE ELSE EndOf(Len(data.ops))

\* "Both checks happen before the Vec is initialized or resized", so that the
\* caller can commit the batch and retry: an operation that is refused leaves the
\* batch as it was.  The check for room comes after init_buffer; that it never
\* refuses a buffer that had just to be initialised is up to the first check.
RefusalChangesNothing ==
  [][error' # "ok" /\ object = "uncommitted" /\ wait = NotWaiting /\ wait' = wait
       => UNCHANGED buffer]_vars

\* A batch is writable or in the pool only when no WAL sync of it is outstanding:
\* "The batch must not be reset or returned to the pool until that waiter has
\* completed."
NoReuseBeforeSync == clone => object \in {"committing", "sealed"}

\* With commits that go through the environment, a committed batch is reused only
\* when the WAL reported success for its last commit, however many its waiter
\* has already seen: a success reported for an earlier commit is never taken for
\* one of this commit, nor for one whose prepare failed.  Its waiter still shows
\* that success: every commit of the batch but its first has prime find SyncDone,
\* where its debug assertion wants Init.
ReuseMeansDurable ==
  env /\ object \in {"uncommitted", "pooled"} /\ commits > 0
    => outcome = "SyncDone" /\ sync = "SyncDone"

\* An owner that waits for a sync returns once the worker has reported it.
WaitReturns == wait # NotWaiting ~> wait = NotWaiting
================================================================================
