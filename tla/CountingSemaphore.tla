------------------------- MODULE CountingSemaphore -------------------------
(***************************************************************************)
(* What the write pipeline expects of its admission semaphore: at most     *)
(* Limit threads are admitted at a time, admitting and leaving are atomic. *)
(* WritePipeline takes its permits this way.                               *)
(***************************************************************************)
EXTENDS Integers

CONSTANTS Thread, Limit

VARIABLES available, holders

semVars == <<available, holders>>

Init == available = Limit /\ holders = {}

Acquire(t) ==
  /\ t \notin holders
  /\ available > 0
  /\ available' = available - 1
  /\ holders' = holders \union {t}

Release(t) ==
  /\ t \in holders
  /\ available' = available + 1
  /\ holders' = holders \ {t}

Next == \E t \in Thread : Acquire(t) \/ Release(t)

Spec == Init /\ [][Next]_semVars
=============================================================================
