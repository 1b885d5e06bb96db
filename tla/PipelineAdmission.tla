------------------------- MODULE PipelineAdmission -------------------------
(***************************************************************************)
(* The admission semaphore of the write pipeline (PipelineAdmission in     *)
(* db/write_pipeline.rs) and reserve_space / release_queue_space, which    *)
(* use it: an atomic count with a lock-free fast path, and a mutex and     *)
(* condition variable for threads that find the count at zero.             *)
(*                                                                         *)
(* A step is one access to the count, the mutex or the condition variable. *)
(***************************************************************************)
EXTENDS Integers, FiniteSets

CONSTANTS
  Thread,       \* the committing threads
  Null,         \* "no thread"
  Limit,        \* COUNTING_SEM_LIMIT, the capacity of the queue
  Spins,        \* tries of reserve_space before it blocks (200)
  MaxRounds,    \* bound: permits each thread takes
  MaxSpurious   \* bound: wakeups of the condition variable without a notify

ASSUME LimitAssumption == Limit \in Nat \ {0}
ASSUME ThreadAssumption == IsFiniteSet(Thread) /\ Null \notin Thread
ASSUME AdmissionBounds ==
  Spins \in Nat \ {0} /\ MaxRounds \in Nat /\ MaxSpurious \in Nat

VARIABLES
  count,      \* permits left
  sem_mu,     \* holder of the mutex, or Null
  waiting,    \* threads asleep on sem_cv
  pc,         \* what each thread does next
  caller,     \* who called try_acquire: reserve_space's loop, acquire's fast
              \* path, or acquire's loop under the mutex
  cur,        \* try_acquire's local copy of count
  spins,      \* iterations of reserve_space's loop
  rounds,     \* permits each thread has returned
  spurious    \* spurious wakeups so far

vars == <<count, sem_mu, waiting, pc, caller, cur, spins, rounds, spurious>>

Callers == {"spin", "fast", "slow"}
Labels  == {"idle", "load", "cas", "lock", "check", "sleep", "asleep",
            "unlock", "hold", "relLock", "relAdd", "relNotify", "relUnlock",
            "panic"}

(* A thread owns a permit from its successful CAS to release's fetch_add.  *)
Holders == {t \in Thread : pc[t] \in {"unlock", "hold", "relLock", "relAdd"}}

Goto(t, l) == pc' = [pc EXCEPT ![t] = l]

Init ==
  /\ count = Limit
  /\ sem_mu = Null
  /\ waiting = {}
  /\ pc = [t \in Thread |-> "idle"]
  /\ caller = [t \in Thread |-> "spin"]
  /\ cur = [t \in Thread |-> 0]
  /\ spins = [t \in Thread |-> 0]
  /\ rounds = [t \in Thread |-> 0]
  /\ spurious = 0

-----------------------------------------------------------------------------
(* reserve_space: Spins calls of try_acquire, then acquire.                *)

ReserveSpace(t) ==
  /\ pc[t] = "idle"
  /\ rounds[t] < MaxRounds
  /\ caller' = [caller EXCEPT ![t] = "spin"]
  /\ spins' = [spins EXCEPT ![t] = 0]
  /\ Goto(t, "load")
  /\ UNCHANGED <<count, sem_mu, waiting, cur, rounds, spurious>>

(* try_acquire saw no permit and returns false to its caller.              *)
TryFails(t) ==
  /\ \/ /\ caller[t] = "spin"
        /\ spins' = [spins EXCEPT ![t] = @ + 1]
        /\ caller' = [caller EXCEPT
                        ![t] = IF spins'[t] < Spins THEN "spin" ELSE "fast"]
        /\ Goto(t, "load")
     \/ /\ caller[t] = "fast"
        /\ Goto(t, "lock")
        /\ UNCHANGED <<caller, spins>>
     \/ /\ caller[t] = "slow"
        /\ Goto(t, "check")
        /\ UNCHANGED <<caller, spins>>

(* Mutant: a count of zero is not treated as a failure.                    *)
TryAcquireLoadAny(t) ==
  /\ pc[t] = "load"
  /\ cur' = [cur EXCEPT ![t] = count]
  /\ Goto(t, "cas")
  /\ UNCHANGED <<count, sem_mu, waiting, caller, spins, rounds, spurious>>

TryAcquireLoad(t) ==
  /\ pc[t] = "load"
  /\ cur' = [cur EXCEPT ![t] = count]
  /\ \/ count = 0 /\ TryFails(t)
     \/ count # 0 /\ Goto(t, "cas") /\ UNCHANGED <<caller, spins>>
  /\ UNCHANGED <<count, sem_mu, waiting, rounds, spurious>>

(* Mutant: a store of the decremented copy instead of a compare-exchange.  *)
TryAcquireStore(t) ==
  /\ pc[t] = "cas"
  /\ count' = cur[t] - 1
  /\ Goto(t, IF caller[t] = "slow" THEN "unlock" ELSE "hold")
  /\ UNCHANGED <<sem_mu, waiting, caller, cur, spins, rounds, spurious>>

(* acquire returns out of its loop with the guard still to be dropped.     *)
TryAcquireCas(t) ==
  /\ pc[t] = "cas"
  /\ count = cur[t]
  /\ count' = count - 1
  /\ Goto(t, IF caller[t] = "slow" THEN "unlock" ELSE "hold")
  /\ UNCHANGED <<sem_mu, waiting, caller, cur, spins, rounds, spurious>>

TryAcquireRetry(t) ==
  /\ pc[t] = "cas"
  /\ count # cur[t]
  /\ cur' = [cur EXCEPT ![t] = count]
  /\ \/ count = 0 /\ TryFails(t)
     \/ count # 0 /\ UNCHANGED <<pc, caller, spins>>
  /\ UNCHANGED <<count, sem_mu, waiting, rounds, spurious>>

(* acquire's slow path; a woken thread locks again before it returns from  *)
(* wait.                                                                   *)
AcquireLock(t) ==
  /\ pc[t] = "lock"
  /\ sem_mu = Null
  /\ sem_mu' = t
  /\ Goto(t, "check")
  /\ UNCHANGED <<count, waiting, caller, cur, spins, rounds, spurious>>

AcquireCheck(t) ==
  /\ pc[t] = "check"
  /\ Goto(t, IF count = 0 THEN "sleep" ELSE "load")
  /\ caller' = [caller EXCEPT ![t] = "slow"]
  /\ UNCHANGED <<count, sem_mu, waiting, cur, spins, rounds, spurious>>

AcquireWait(t) ==
  /\ pc[t] = "sleep"
  /\ sem_mu' = Null
  /\ waiting' = waiting \union {t}
  /\ Goto(t, "asleep")
  /\ UNCHANGED <<count, caller, cur, spins, rounds, spurious>>

SpuriousWake(t) ==
  /\ t \in waiting
  /\ spurious < MaxSpurious
  /\ spurious' = spurious + 1
  /\ waiting' = waiting \ {t}
  /\ Goto(t, "lock")
  /\ UNCHANGED <<count, sem_mu, caller, cur, spins, rounds>>

AcquireUnlock(t) ==
  /\ pc[t] = "unlock"
  /\ sem_mu' = Null
  /\ Goto(t, "hold")
  /\ UNCHANGED <<count, waiting, caller, cur, spins, rounds, spurious>>

-----------------------------------------------------------------------------
(* release_queue_space.                                                    *)

ReleaseSpace(t) ==
  /\ pc[t] = "hold"
  /\ Goto(t, "relLock")
  /\ UNCHANGED <<count, sem_mu, waiting, caller, cur, spins, rounds,
                 spurious>>

(* Mutant: the count is raised without taking the mutex first.             *)
ReleaseLockFree(t) ==
  /\ pc[t] = "relLock"
  /\ Goto(t, "relAdd")
  /\ UNCHANGED <<count, sem_mu, waiting, caller, cur, spins, rounds,
                 spurious>>

ReleaseLock(t) ==
  /\ pc[t] = "relLock"
  /\ sem_mu = Null
  /\ sem_mu' = t
  /\ Goto(t, "relAdd")
  /\ UNCHANGED <<count, waiting, caller, cur, spins, rounds, spurious>>

(* fetch_add, and the assertion that the count was below the limit.        *)
ReleaseAdd(t) ==
  /\ pc[t] = "relAdd"
  /\ count' = count + 1
  /\ Goto(t, IF count < Limit THEN "relNotify" ELSE "panic")
  /\ UNCHANGED <<sem_mu, waiting, caller, cur, spins, rounds, spurious>>

(* Mutant: the permit is returned without a notification.                  *)
ReleaseSilent(t) ==
  /\ pc[t] = "relNotify"
  /\ Goto(t, "relUnlock")
  /\ UNCHANGED <<count, sem_mu, waiting, caller, cur, spins, rounds,
                 spurious>>

ReleaseNotify(t) ==
  /\ pc[t] = "relNotify"
  /\ \/ /\ waiting = {}
        /\ Goto(t, "relUnlock")
        /\ UNCHANGED waiting
     \/ \E w \in waiting :
          /\ waiting' = waiting \ {w}
          /\ pc' = [pc EXCEPT ![t] = "relUnlock", ![w] = "lock"]
  /\ UNCHANGED <<count, sem_mu, caller, cur, spins, rounds, spurious>>

ReleaseUnlock(t) ==
  /\ pc[t] = "relUnlock"
  /\ sem_mu' = Null
  /\ rounds' = [rounds EXCEPT ![t] = @ + 1]
  /\ Goto(t, "idle")
  /\ UNCHANGED <<count, waiting, caller, cur, spins, spurious>>

Step(t) ==
  \/ ReserveSpace(t) \/ TryAcquireLoad(t) \/ TryAcquireCas(t)
  \/ TryAcquireRetry(t) \/ AcquireLock(t) \/ AcquireCheck(t)
  \/ AcquireWait(t) \/ AcquireUnlock(t) \/ ReleaseSpace(t)
  \/ ReleaseLock(t) \/ ReleaseAdd(t) \/ ReleaseNotify(t) \/ ReleaseUnlock(t)

Next == \E t \in Thread : Step(t) \/ SpuriousWake(t)

(* A thread that can run does run; in particular the mutex is eventually   *)
(* granted to a thread that finds it free for good, and an admitted        *)
(* committer eventually returns its permit.                                *)
Fairness == \A t \in Thread : WF_vars(Step(t))

Spec == Init /\ [][Next]_vars

FairSpec == Spec /\ Fairness
-----------------------------------------------------------------------------
(* Types; the u16 count stays between 0 and Limit: try_acquire never takes *)
(* it below zero and release never past the limit it asserts.              *)
TypeOK ==
  /\ count \in 0 .. Limit
  /\ sem_mu \in Thread \union {Null}
  /\ waiting \in SUBSET Thread
  /\ pc \in [Thread -> Labels]
  /\ caller \in [Thread -> Callers]
  /\ cur \in [Thread -> 0 .. Limit]
  /\ spins \in [Thread -> 0 .. Spins]
  /\ rounds \in [Thread -> 0 .. MaxRounds]
  /\ spurious \in 0 .. MaxSpurious

(* No permit is lost or made: the ones left and the ones held are Limit,   *)
(* across CAS races, barging, spurious wakeups and the slow path.          *)
PermitsConserved == count + Cardinality(Holders) = Limit

(* Threads that will look at the count again without being notified.       *)
Awake ==
  {t \in Thread : \/ pc[t] \in {"lock", "check"}
                  \/ pc[t] \in {"load", "cas"} /\ caller[t] = "slow"}

(* No lost wakeup: while a thread sleeps on sem_cv, every permit left is   *)
(* matched by a thread that is on its way to look for one or by a release  *)
(* that has not notified yet, whoever takes permits on the fast path.      *)
NoLostWakeup ==
  waiting # {} =>
    count <= Cardinality(Awake)
               + Cardinality({t \in Thread : pc[t] = "relNotify"})

(* Every reserve_space is admitted in the end: with a bounded number of    *)
(* rounds no interleaving leaves a thread asleep, or everyone waiting on   *)
(* the mutex.                                                              *)
EveryoneServed == <>(\A t \in Thread : rounds[t] = MaxRounds)

Semaphore == INSTANCE CountingSemaphore
               WITH available <- count, holders <- Holders

(* The code's semaphore implements the abstract one that WritePipeline     *)
(* takes its permits from: only the successful CAS and release's fetch_add *)
(* move a permit, one at a time.                                           *)
ImplementsSemaphore == Semaphore!Spec
=============================================================================
