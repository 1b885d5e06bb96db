---------------------- MODULE PipelineAdmissionProofs ----------------------
(***************************************************************************)
(* Proofs about PipelineAdmission for every number of threads and permits. *)
(***************************************************************************)
EXTENDS PipelineAdmission, FiniteSetTheorems, TLAPS

(* What a thread remembers: a CAS is only tried with a positive copy of    *)
(* the count, the spin loop ends, and a sleeping thread does nothing else. *)
LocalInv ==
  \A t \in Thread :
    /\ pc[t] = "cas" => cur[t] > 0
    /\ pc[t] \in {"load", "cas"} /\ caller[t] = "spin" => spins[t] < Spins
    /\ t \in waiting => pc[t] = "asleep"
    /\ pc[t] # "idle" => rounds[t] < MaxRounds
    /\ pc[t] # "panic"

AInv == TypeOK /\ LocalInv /\ PermitsConserved

LEMMA HoldersFinite ==
  /\ IsFiniteSet(Holders)
  /\ Cardinality(Holders) \in Nat
<1>1. IsFiniteSet(Holders)
  BY FS_Subset, ThreadAssumption DEF Holders
<1> QED
  BY <1>1, FS_CardinalityType

(* A release finds the count below the limit: the releasing thread still   *)
(* counts as a holder, so the assertion in release cannot fail.            *)
LEMMA HolderLeavesRoom ==
  ASSUME AInv, NEW t \in Holders
  PROVE  count < Limit
<1>1. Cardinality(Holders) \in Nat /\ Cardinality(Holders) # 0
  BY HoldersFinite, FS_EmptySet
<1> QED
  BY <1>1, LimitAssumption DEF AInv, TypeOK, PermitsConserved

(* A step that leaves count and Holders alone conserves permits.           *)
LEMMA QuietConserves ==
  ASSUME AInv, count' = count, Holders' = Holders
  PROVE  PermitsConserved'
  BY DEF AInv, PermitsConserved
-----------------------------------------------------------------------------
(* One lemma per action: AInv is kept, and the step is an acquire, a       *)
(* release or a stutter of the abstract semaphore.                         *)
SemStep == Semaphore!Next \/ UNCHANGED Semaphore!semVars

LEMMA ReserveSpaceStep ==
  ASSUME NEW t \in Thread, AInv, ReserveSpace(t)
  PROVE  AInv' /\ SemStep
<1> USE DEF ReserveSpace, Goto
<1>1. TypeOK'
  BY LimitAssumption, AdmissionBounds
     DEF AInv, TypeOK, LocalInv, Labels, Callers
<1>2. LocalInv'
  BY LimitAssumption, AdmissionBounds DEF AInv, TypeOK, LocalInv
<1>3. count' = count /\ Holders' = Holders
  BY DEF AInv, TypeOK, LocalInv, Holders
<1> QED
  BY <1>1, <1>2, <1>3, QuietConserves DEF AInv, SemStep, Semaphore!semVars

LEMMA TryAcquireLoadStep ==
  ASSUME NEW t \in Thread, AInv, TryAcquireLoad(t)
  PROVE  AInv' /\ SemStep
<1> USE DEF TryAcquireLoad, TryFails, Goto
<1>1. TypeOK'
  BY LimitAssumption, AdmissionBounds
     DEF AInv, TypeOK, LocalInv, Labels, Callers
<1>2. LocalInv'
  BY LimitAssumption, AdmissionBounds DEF AInv, TypeOK, LocalInv
<1>3. count' = count /\ Holders' = Holders
  BY DEF AInv, TypeOK, LocalInv, Holders
<1> QED
  BY <1>1, <1>2, <1>3, QuietConserves DEF AInv, SemStep, Semaphore!semVars

LEMMA TryAcquireRetryStep ==
  ASSUME NEW t \in Thread, AInv, TryAcquireRetry(t)
  PROVE  AInv' /\ SemStep
<1> USE DEF TryAcquireRetry, TryFails, Goto
<1>1. TypeOK'
  BY LimitAssumption, AdmissionBounds
     DEF AInv, TypeOK, LocalInv, Labels, Callers
<1>2. LocalInv'
  BY LimitAssumption, AdmissionBounds DEF AInv, TypeOK, LocalInv
<1>3. count' = count /\ Holders' = Holders
  BY DEF AInv, TypeOK, LocalInv, Holders
<1> QED
  BY <1>1, <1>2, <1>3, QuietConserves DEF AInv, SemStep, Semaphore!semVars

LEMMA AcquireLockStep ==
  ASSUME NEW t \in Thread, AInv, AcquireLock(t)
  PROVE  AInv' /\ SemStep
<1> USE DEF AcquireLock, Goto
<1>1. TypeOK'
  BY LimitAssumption, AdmissionBounds
     DEF AInv, TypeOK, LocalInv, Labels, Callers
<1>2. LocalInv'
  BY LimitAssumption, AdmissionBounds DEF AInv, TypeOK, LocalInv
<1>3. count' = count /\ Holders' = Holders
  BY DEF AInv, TypeOK, LocalInv, Holders
<1> QED
  BY <1>1, <1>2, <1>3, QuietConserves DEF AInv, SemStep, Semaphore!semVars

LEMMA AcquireCheckStep ==
  ASSUME NEW t \in Thread, AInv, AcquireCheck(t)
  PROVE  AInv' /\ SemStep
<1> USE DEF AcquireCheck, Goto
<1>1. TypeOK'
  BY LimitAssumption, AdmissionBounds
     DEF AInv, TypeOK, LocalInv, Labels, Callers
<1>2. LocalInv'
  BY LimitAssumption, AdmissionBounds DEF AInv, TypeOK, LocalInv
<1>3. count' = count /\ Holders' = Holders
  BY DEF AInv, TypeOK, LocalInv, Holders
<1> QED
  BY <1>1, <1>2, <1>3, QuietConserves DEF AInv, SemStep, Semaphore!semVars

LEMMA AcquireWaitStep ==
  ASSUME NEW t \in Thread, AInv, AcquireWait(t)
  PROVE  AInv' /\ SemStep
<1> USE DEF AcquireWait, Goto
<1>1. TypeOK'
  BY LimitAssumption, AdmissionBounds
     DEF AInv, TypeOK, LocalInv, Labels, Callers
<1>2. LocalInv'
  BY LimitAssumption, AdmissionBounds DEF AInv, TypeOK, LocalInv
<1>3. count' = count /\ Holders' = Holders
  BY DEF AInv, TypeOK, LocalInv, Holders
<1> QED
  BY <1>1, <1>2, <1>3, QuietConserves DEF AInv, SemStep, Semaphore!semVars

LEMMA SpuriousWakeStep ==
  ASSUME NEW t \in Thread, AInv, SpuriousWake(t)
  PROVE  AInv' /\ SemStep
<1> USE DEF SpuriousWake, Goto
<1>1. TypeOK'
  BY LimitAssumption, AdmissionBounds
     DEF AInv, TypeOK, LocalInv, Labels, Callers
<1>2. LocalInv'
  BY LimitAssumption, AdmissionBounds DEF AInv, TypeOK, LocalInv
<1>3. count' = count /\ Holders' = Holders
  BY DEF AInv, TypeOK, LocalInv, Holders
<1> QED
  BY <1>1, <1>2, <1>3, QuietConserves DEF AInv, SemStep, Semaphore!semVars

LEMMA AcquireUnlockStep ==
  ASSUME NEW t \in Thread, AInv, AcquireUnlock(t)
  PROVE  AInv' /\ SemStep
<1> USE DEF AcquireUnlock, Goto
<1>1. TypeOK'
  BY LimitAssumption, AdmissionBounds
     DEF AInv, TypeOK, LocalInv, Labels, Callers
<1>2. LocalInv'
  BY LimitAssumption, AdmissionBounds DEF AInv, TypeOK, LocalInv
<1>3. count' = count /\ Holders' = Holders
  BY DEF AInv, TypeOK, LocalInv, Holders
<1> QED
  BY <1>1, <1>2, <1>3, QuietConserves DEF AInv, SemStep, Semaphore!semVars

LEMMA ReleaseSpaceStep ==
  ASSUME NEW t \in Thread, AInv, ReleaseSpace(t)
  PROVE  AInv' /\ SemStep
<1> USE DEF ReleaseSpace, Goto
<1>1. TypeOK'
  BY LimitAssumption, AdmissionBounds
     DEF AInv, TypeOK, LocalInv, Labels, Callers
<1>2. LocalInv'
  BY LimitAssumption, AdmissionBounds DEF AInv, TypeOK, LocalInv
<1>3. count' = count /\ Holders' = Holders
  BY DEF AInv, TypeOK, LocalInv, Holders
<1> QED
  BY <1>1, <1>2, <1>3, QuietConserves DEF AInv, SemStep, Semaphore!semVars

LEMMA ReleaseLockStep ==
  ASSUME NEW t \in Thread, AInv, ReleaseLock(t)
  PROVE  AInv' /\ SemStep
<1> USE DEF ReleaseLock, Goto
<1>1. TypeOK'
  BY LimitAssumption, AdmissionBounds
     DEF AInv, TypeOK, LocalInv, Labels, Callers
<1>2. LocalInv'
  BY LimitAssumption, AdmissionBounds DEF AInv, TypeOK, LocalInv
<1>3. count' = count /\ Holders' = Holders
  BY DEF AInv, TypeOK, LocalInv, Holders
<1> QED
  BY <1>1, <1>2, <1>3, QuietConserves DEF AInv, SemStep, Semaphore!semVars

LEMMA ReleaseNotifyStep ==
  ASSUME NEW t \in Thread, AInv, ReleaseNotify(t)
  PROVE  AInv' /\ SemStep
<1> USE DEF ReleaseNotify, Goto
<1>1. TypeOK'
  BY LimitAssumption, AdmissionBounds
     DEF AInv, TypeOK, LocalInv, Labels, Callers
<1>2. LocalInv'
  BY LimitAssumption, AdmissionBounds DEF AInv, TypeOK, LocalInv
<1>3. count' = count /\ Holders' = Holders
  BY DEF AInv, TypeOK, LocalInv, Holders
<1> QED
  BY <1>1, <1>2, <1>3, QuietConserves DEF AInv, SemStep, Semaphore!semVars

LEMMA ReleaseUnlockStep ==
  ASSUME NEW t \in Thread, AInv, ReleaseUnlock(t)
  PROVE  AInv' /\ SemStep
<1> USE DEF ReleaseUnlock, Goto
<1>1. TypeOK'
  BY LimitAssumption, AdmissionBounds
     DEF AInv, TypeOK, LocalInv, Labels, Callers
<1>2. LocalInv'
  BY LimitAssumption, AdmissionBounds DEF AInv, TypeOK, LocalInv
<1>3. count' = count /\ Holders' = Holders
  BY DEF AInv, TypeOK, LocalInv, Holders
<1> QED
  BY <1>1, <1>2, <1>3, QuietConserves DEF AInv, SemStep, Semaphore!semVars

(* The CAS that takes a permit.                                            *)
LEMMA TryAcquireCasStep ==
  ASSUME NEW t \in Thread, AInv, TryAcquireCas(t)
  PROVE  AInv' /\ SemStep
<1> USE DEF TryAcquireCas, Goto
<1>1. count > 0 /\ count \in Nat /\ count' = count - 1
  BY DEF AInv, TypeOK, LocalInv
<1>2. TypeOK'
  <2>1. count' \in 0 .. Limit
    BY <1>1, LimitAssumption DEF AInv, TypeOK
  <2>2. pc' \in [Thread -> Labels]
    BY DEF AInv, TypeOK, Labels
  <2> QED
    BY <2>1, <2>2 DEF AInv, TypeOK
<1>3. LocalInv'
  BY DEF AInv, TypeOK, LocalInv
<1>4. t \notin Holders /\ Holders' = Holders \union {t}
  BY DEF AInv, TypeOK, Holders
<1>5. Cardinality(Holders') = Cardinality(Holders) + 1
  BY <1>4, HoldersFinite, FS_AddElement
<1>6. PermitsConserved'
  BY <1>1, <1>5, HoldersFinite, LimitAssumption DEF AInv, PermitsConserved
<1>7. Semaphore!Acquire(t)
  BY <1>1, <1>4 DEF Semaphore!Acquire
<1> QED
  BY <1>2, <1>3, <1>6, <1>7 DEF AInv, SemStep, Semaphore!Next

(* The fetch_add that returns it.                                          *)
LEMMA ReleaseAddStep ==
  ASSUME NEW t \in Thread, AInv, ReleaseAdd(t)
  PROVE  AInv' /\ SemStep
<1> USE DEF ReleaseAdd, Goto
<1>1. t \in Holders
  BY DEF Holders
<1>2. count < Limit /\ count \in Nat /\ count' = count + 1
  BY <1>1, HolderLeavesRoom DEF AInv, TypeOK
<1>3. pc' = [pc EXCEPT ![t] = "relNotify"]
  BY <1>2
<1>4. TypeOK'
  BY <1>2, <1>3, LimitAssumption DEF AInv, TypeOK, Labels
<1>5. LocalInv'
  BY <1>3 DEF AInv, TypeOK, LocalInv
<1>6. Holders' = Holders \ {t}
  BY <1>3 DEF AInv, TypeOK, Holders
<1>7. Cardinality(Holders') = Cardinality(Holders) - 1
  BY <1>1, <1>6, HoldersFinite, FS_RemoveElement
<1>8. PermitsConserved'
  BY <1>2, <1>7, HoldersFinite, LimitAssumption DEF AInv, PermitsConserved
<1>9. Semaphore!Release(t)
  BY <1>1, <1>2, <1>6 DEF Semaphore!Release
<1> QED
  BY <1>4, <1>5, <1>8, <1>9 DEF AInv, SemStep, Semaphore!Next

LEMMA NextStep == AInv /\ [Next]_vars => AInv' /\ SemStep
<1> SUFFICES ASSUME AInv, [Next]_vars PROVE AInv' /\ SemStep
  OBVIOUS
<1>1. ASSUME NEW t \in Thread, Step(t) \/ SpuriousWake(t)
      PROVE  AInv' /\ SemStep
  BY <1>1, ReserveSpaceStep, TryAcquireLoadStep, TryAcquireCasStep,
     TryAcquireRetryStep, AcquireLockStep, AcquireCheckStep,
     AcquireWaitStep, AcquireUnlockStep, ReleaseSpaceStep, ReleaseLockStep,
     ReleaseAddStep, ReleaseNotifyStep, ReleaseUnlockStep,
     SpuriousWakeStep DEF Step
<1>2. CASE UNCHANGED vars
  <2>1. count' = count /\ Holders' = Holders
    BY <1>2 DEF vars, Holders
  <2>2. TypeOK' /\ LocalInv'
    BY <1>2 DEF vars, AInv, TypeOK, LocalInv
  <2> QED
    BY <2>1, <2>2, QuietConserves DEF AInv, SemStep, Semaphore!semVars
<1> QED
  BY <1>1, <1>2 DEF Next

LEMMA InitStep == Init => AInv /\ Semaphore!Init
<1> SUFFICES ASSUME Init PROVE AInv /\ Semaphore!Init
  OBVIOUS
<1> USE DEF Init
<1>1. TypeOK /\ LocalInv
  BY LimitAssumption, AdmissionBounds
     DEF TypeOK, LocalInv, Labels, Callers
<1>2. Holders = {}
  BY DEF Holders
<1>3. PermitsConserved
  BY <1>2, FS_EmptySet, LimitAssumption DEF PermitsConserved
<1> QED
  BY <1>1, <1>2, <1>3 DEF AInv, Semaphore!Init

LEMMA AdmissionInvariance == Spec => []AInv
  BY InitStep, NextStep, PTL DEF Spec

(* Type correctness: among others the count stays between zero and the     *)
(* limit, so neither try_acquire's decrement nor release's increment       *)
(* leaves the range of the counter.                                        *)
THEOREM AdmissionTypeCorrect == Spec => []TypeOK
<1>1. AInv => TypeOK
  BY DEF AInv
<1> QED
  BY <1>1, AdmissionInvariance, PTL

(* Permits are neither lost nor made, for any number of threads.           *)
THEOREM Conservation == Spec => []PermitsConserved
<1>1. AInv => PermitsConserved
  BY DEF AInv
<1> QED
  BY <1>1, AdmissionInvariance, PTL

(* release never reaches "Semaphore released at count limit" when it is    *)
(* called by threads that were admitted.                                   *)
THEOREM ReleaseNeverPanics == Spec => [](\A t \in Thread : pc[t] # "panic")
<1>1. AInv => \A t \in Thread : pc[t] # "panic"
  BY DEF AInv, LocalInv
<1> QED
  BY <1>1, AdmissionInvariance, PTL

(* The code's semaphore implements the abstract counting semaphore.        *)
THEOREM AdmissionImplements == Spec => ImplementsSemaphore
<1>1. Init => Semaphore!Init
  BY InitStep
<1>2. AInv /\ [Next]_vars => [Semaphore!Next]_(Semaphore!semVars)
  BY NextStep DEF SemStep
<1> QED
  BY <1>1, <1>2, AdmissionInvariance, PTL
     DEF Spec, ImplementsSemaphore, Semaphore!Spec

-----------------------------------------------------------------------------
(* No lost wakeup                                                          *)

(* Threads that will look at the count, or wake one that will.             *)
Seekers == Awake \union {t \in Thread : pc[t] = "relNotify"}

InSlowLoop(t) == pc[t] \in {"load", "cas"} /\ caller[t] = "slow"

(* The mutex protects the slow path and the whole of release.              *)
MutexInv ==
  \A t \in Thread :
    pc[t] \in {"check", "sleep", "unlock", "relAdd", "relNotify", "relUnlock"}
      \/ InSlowLoop(t) => sem_mu = t

(* A thread about to wait has seen no permit, and none can be returned     *)
(* before it is on the condition variable's queue.                         *)
SleepInv == \A t \in Thread : pc[t] = "sleep" => count = 0

WakeInv == waiting # {} => count <= Cardinality(Seekers)

WInv == AInv /\ MutexInv /\ SleepInv /\ WakeInv

LEMMA SeekersFinite ==
  /\ IsFiniteSet(Seekers) /\ Cardinality(Seekers) \in Nat
  /\ IsFiniteSet(Seekers') /\ Cardinality(Seekers') \in Nat
<1>1. Seekers \subseteq Thread /\ Seekers' \subseteq Thread
  BY DEF Seekers, Awake
<1> QED
  BY <1>1, FS_Subset, FS_CardinalityType, ThreadAssumption

(* A step that loses no seeker and adds no permit.                         *)
LEMMA SeekersKept ==
  ASSUME WInv, TypeOK', Seekers \subseteq Seekers', count' <= count,
         waiting' # {} => waiting # {} \/ count' = 0
  PROVE  WakeInv'
<1>1. Cardinality(Seekers) <= Cardinality(Seekers')
  BY SeekersFinite, FS_Subset
<1>2. count \in Nat /\ count' \in Nat
  BY LimitAssumption DEF WInv, AInv, TypeOK
<1> QED
  BY <1>1, <1>2, SeekersFinite DEF WInv, WakeInv

LEMMA MutexStep ==
  ASSUME WInv, NEW t \in Thread, Step(t) \/ SpuriousWake(t)
  PROVE  MutexInv' /\ SleepInv'
<1>0. TypeOK /\ MutexInv /\ SleepInv /\ LocalInv
  BY DEF WInv, AInv
<1> USE <1>0, ThreadAssumption DEF TypeOK, MutexInv, SleepInv, LocalInv, InSlowLoop, Goto, Labels, Callers
<1>1. CASE ReserveSpace(t)
  BY <1>1 DEF ReserveSpace
<1>2. CASE TryAcquireLoad(t)
  BY <1>2 DEF TryAcquireLoad, TryFails
<1>3. CASE TryAcquireCas(t)
  BY <1>3 DEF TryAcquireCas
<1>4. CASE TryAcquireRetry(t)
  BY <1>4 DEF TryAcquireRetry, TryFails
<1>5. CASE AcquireLock(t)
  BY <1>5 DEF AcquireLock
<1>6. CASE AcquireCheck(t)
  BY <1>6 DEF AcquireCheck
<1>7. CASE AcquireWait(t)
  BY <1>7 DEF AcquireWait
<1>8. CASE AcquireUnlock(t)
  BY <1>8 DEF AcquireUnlock
<1>9. CASE ReleaseSpace(t)
  BY <1>9 DEF ReleaseSpace
<1>10. CASE ReleaseLock(t)
  BY <1>10 DEF ReleaseLock
<1>11. CASE ReleaseAdd(t)
  BY <1>11 DEF ReleaseAdd
<1>12. CASE ReleaseNotify(t)
  BY <1>12 DEF ReleaseNotify
<1>13. CASE ReleaseUnlock(t)
  BY <1>13 DEF ReleaseUnlock
<1>14. CASE SpuriousWake(t)
  BY <1>14 DEF SpuriousWake
<1> QED
  BY <1>1, <1>2, <1>3, <1>4, <1>5, <1>6, <1>7, <1>8, <1>9, <1>10, <1>11, <1>12,
     <1>13, <1>14 DEF Step

(* The CAS takes one permit and at most one seeker, fetch_add gives one of *)
(* each, and the notification passes the seeker's part to a sleeper.       *)
LEMMA WakeStep ==
  ASSUME WInv, AInv', NEW t \in Thread, Step(t) \/ SpuriousWake(t)
  PROVE  WakeInv'
<1>0. TypeOK /\ TypeOK' /\ SleepInv /\ LocalInv /\ count \in Nat /\ count' \in Nat
  BY LimitAssumption DEF WInv, AInv, TypeOK
<1>1. CASE \/ ReserveSpace(t) \/ AcquireLock(t) \/ AcquireUnlock(t) \/ ReleaseSpace(t)
           \/ ReleaseLock(t) \/ ReleaseUnlock(t) \/ SpuriousWake(t)
  <2>1. Seekers \subseteq Seekers'
    BY <1>0, <1>1 DEF TypeOK, LocalInv, Seekers, Awake, Goto, ReserveSpace, AcquireLock,
       AcquireUnlock, ReleaseSpace, ReleaseLock, ReleaseUnlock, SpuriousWake
  <2>2. count' = count /\ waiting' \subseteq waiting
    BY <1>1 DEF ReserveSpace, AcquireLock, AcquireUnlock, ReleaseSpace, ReleaseLock,
       ReleaseUnlock, SpuriousWake
  <2> QED BY <1>0, <2>1, <2>2, SeekersKept
<1>2. CASE TryAcquireLoad(t) \/ TryAcquireRetry(t)
  <2>1. count' = count /\ waiting' = waiting
    BY <1>2 DEF TryAcquireLoad, TryAcquireRetry
  <2>2. Seekers \subseteq Seekers'
    BY <1>0, <1>2 DEF TypeOK, Seekers, Awake, Goto, TryAcquireLoad, TryAcquireRetry,
       TryFails
  <2> QED BY <1>0, <2>1, <2>2, SeekersKept
<1>3. CASE AcquireCheck(t)
  <2>1. count' = count /\ waiting' = waiting
    BY <1>3 DEF AcquireCheck
  <2>2. CASE count = 0
    BY <2>1, <2>2, SeekersFinite DEF WakeInv
  <2>3. CASE count # 0
    <3>1. Seekers \subseteq Seekers'
      BY <1>0, <1>3, <2>3 DEF TypeOK, Seekers, Awake, Goto, AcquireCheck
    <3> QED BY <1>0, <2>1, <3>1, SeekersKept
  <2> QED BY <2>2, <2>3
<1>4. CASE AcquireWait(t)
  <2>1. count' = 0
    BY <1>0, <1>4 DEF AcquireWait, SleepInv
  <2> QED BY <2>1, SeekersFinite DEF WakeInv
<1>5. CASE TryAcquireCas(t)
  <2>1. count' = count - 1 /\ waiting' = waiting
    BY <1>5 DEF TryAcquireCas
  <2>2. Seekers' = Seekers \ {t}
    BY <1>0, <1>5 DEF TypeOK, Seekers, Awake, Goto, TryAcquireCas
  <2>3. Cardinality(Seekers) - 1 <= Cardinality(Seekers')
    BY <2>2, SeekersFinite, FS_RemoveElement
  <2> QED BY <1>0, <2>1, <2>3, SeekersFinite DEF WInv, WakeInv
<1>6. CASE ReleaseAdd(t)
  <2>1. count' = count + 1 /\ waiting' = waiting
    BY <1>6 DEF ReleaseAdd
  <2>2. pc' = [pc EXCEPT ![t] = "relNotify"]
    BY <1>6, HolderLeavesRoom DEF ReleaseAdd, Goto, Holders, WInv
  <2>3. t \notin Seekers /\ Seekers' = Seekers \union {t}
    BY <1>0, <1>6, <2>2 DEF TypeOK, Seekers, Awake, ReleaseAdd
  <2>4. Cardinality(Seekers') = Cardinality(Seekers) + 1
    BY <2>3, SeekersFinite, FS_AddElement
  <2> QED BY <1>0, <2>1, <2>4, SeekersFinite DEF WInv, WakeInv
<1>7. CASE ReleaseNotify(t)
  <2>1. count' = count
    BY <1>7 DEF ReleaseNotify
  <2>2. CASE waiting = {}
    BY <1>7, <2>2 DEF ReleaseNotify, WakeInv
  <2>3. CASE waiting # {}
    <3>1. PICK w \in waiting : /\ waiting' = waiting \ {w}
                               /\ pc' = [pc EXCEPT ![t] = "relUnlock", ![w] = "lock"]
      BY <1>7, <2>3 DEF ReleaseNotify
    <3>2. w \in Thread /\ pc[w] = "asleep" /\ pc[t] = "relNotify" /\ w # t
      BY <1>0, <1>7 DEF TypeOK, LocalInv, ReleaseNotify
    <3>3. t \in Seekers /\ w \notin Seekers /\ Seekers' = (Seekers \ {t}) \union {w}
      BY <1>0, <1>7, <3>1, <3>2 DEF TypeOK, Seekers, Awake, ReleaseNotify
    <3>4. /\ Cardinality(Seekers \ {t}) = Cardinality(Seekers) - 1
          /\ IsFiniteSet(Seekers \ {t})
      BY <3>3, SeekersFinite, FS_RemoveElement
    <3>5. Cardinality(Seekers') = Cardinality(Seekers \ {t}) + 1
      BY <3>3, <3>4, FS_AddElement
    <3> QED BY <1>0, <2>1, <2>3, <3>4, <3>5, SeekersFinite DEF WInv, WakeInv
  <2> QED BY <2>2, <2>3
<1> QED
  BY <1>1, <1>2, <1>3, <1>4, <1>5, <1>6, <1>7 DEF Step

LEMMA WakeInvariance == Spec => []WInv
<1>1. Init => WInv
  <2> SUFFICES ASSUME Init PROVE WInv
    OBVIOUS
  <2>1. MutexInv /\ SleepInv /\ WakeInv
    BY DEF Init, MutexInv, InSlowLoop, SleepInv, WakeInv
  <2> QED BY <2>1, InitStep DEF WInv
<1>2. WInv /\ [Next]_vars => WInv'
  <2> SUFFICES ASSUME WInv, [Next]_vars PROVE WInv'
    OBVIOUS
  <2>1. AInv'
    BY NextStep DEF WInv
  <2>2. CASE UNCHANGED vars
    BY <2>1, <2>2 DEF vars, WInv, MutexInv, InSlowLoop, SleepInv, WakeInv, Seekers, Awake
  <2>3. CASE Next
    BY <2>1, <2>3, MutexStep, WakeStep DEF Next, WInv
  <2> QED BY <2>2, <2>3
<1> QED
  BY <1>1, <1>2, PTL DEF Spec

(* No wakeup is lost between a waiter's check of the count and its sleep:  *)
(* while a thread sleeps, every permit left has someone on the way to it,  *)
(* for any number of threads, spurious wakeups and barging fast paths.     *)
THEOREM NoWakeupLost == Spec => []NoLostWakeup
<1>1. WInv => NoLostWakeup
  <2> SUFFICES ASSUME WInv PROVE NoLostWakeup
    OBVIOUS
  <2> DEFINE N == {t \in Thread : pc[t] = "relNotify"}
  <2>1. Awake \subseteq Thread /\ N \subseteq Thread /\ Awake \cap N = {}
    BY DEF Awake
  <2>2. IsFiniteSet(Awake) /\ IsFiniteSet(N)
    BY <2>1, FS_Subset, ThreadAssumption
  <2>3. Cardinality(Awake \union N) = Cardinality(Awake) + Cardinality(N)
    <3>1. /\ Cardinality(Awake) \in Nat /\ Cardinality(N) \in Nat
          /\ Cardinality({}) = 0
      BY <2>2, FS_CardinalityType, FS_EmptySet
    <3>2. Cardinality(Awake \union N)
            = Cardinality(Awake) + Cardinality(N) - Cardinality(Awake \cap N)
      BY <2>2, FS_Union
    <3>3. Cardinality(Awake \cap N) = 0
      BY <2>1, <3>1
    <3> HIDE DEF N
    <3> QED BY <3>1, <3>2, <3>3
  <2> QED BY <2>3 DEF WInv, WakeInv, NoLostWakeup, Seekers
<1> QED
  BY <1>1, WakeInvariance, PTL
=============================================================================
