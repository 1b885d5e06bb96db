------------------------------ MODULE HazardDomain ------------------------------
(***************************************************************************)
(* The hazard pointer domain of crates/mem/src/hazard.  A domain keeps two *)
(* lists of records: every record ever allocated is on the list from head, *)
(* and the ones nobody owns are on the list from avail_head, which is      *)
(* locked through the lowest bit of that pointer.  A thread acquires an    *)
(* array of N records (taken from the available list, topped up with new   *)
(* ones), protects objects with them, and hands the chain back when the    *)
(* array is dropped.                                                       *)
(*                                                                         *)
(* A step is one atomic access to shared memory.  The stores to hazard     *)
(* slots are seen in order by everyone (the build for targets other than   *)
(* x86_64 has the SeqCst fence between publishing and re-checking).        *)
(***************************************************************************)
EXTENDS Integers, Sequences, SequencesExt, FiniteSets

CONSTANTS Thread,  \* threads that use the domain
          Rec,     \* records that may be allocated (a bound)
          Obj,     \* objects a client publishes through one AtomicPtr
          Null,    \* the null pointer
          Sizes    \* the N of acquire_many::<N> that clients use

ASSUME NullAssumption == Null \notin Rec \cup Obj
ASSUME SizesAssumption == Sizes \subseteq Nat \ {0}

VARIABLES
  head,       \* HazPtrRecs.head
  next,       \* HzdPtrRec.next
  count,      \* HazPtrRecs.count
  availHead,  \* HazPtrRecs.avail_head: an address and its LOCK_BIT
  available,  \* HzdPtrRec.available
  ptr,        \* HzdPtrRec.ptr: the protected object
  used,       \* the records allocated so far
  loc,        \* loc[t]: program counter and local variables of thread t
  src,        \* the AtomicPtr the clients protect
  retired,    \* objects unlinked from src and passed to retire_ptr
  freed,      \* objects a reclaimer may have dropped
  shared      \* history: records that two owners held at once

recVars == <<head, next, count, used>>
availVars == <<availHead, available>>
objVars == <<src, retired, freed>>
vars == <<recVars, availVars, ptr, loc, objVars, shared>>

PtrOf(S) == S \cup {Null}

\* An AtomicPtr<HzdPtrRec> whose lowest bit may be set.
Tagged == [addr : PtrOf(Rec), locked : BOOLEAN]
Untagged(a) == [addr |-> a, locked |-> FALSE]
IsNull(tp) == tp = Untagged(Null)

PC == {"idle", "load", "lock", "walk", "unlock", "cut", "take", "new",
       "publish", "link", "own", "protect", "recheck", "pushLoad", "pushCas",
       "bad", "panic"}

Local == [pc : PC, n : Nat, avail : Tagged, tail : PtrOf(Rec),
          cur : PtrOf(Rec), left : Nat, rec : PtrOf(Rec), seen : PtrOf(Rec),
          got : Seq(Rec), i : Nat, p : PtrOf(Obj), held : SUBSET (Rec \X Obj)]

Fresh == [pc |-> "idle", n |-> 0, avail |-> Untagged(Null), tail |-> Null,
          cur |-> Null, left |-> 0, rec |-> Null, seen |-> Null, got |-> <<>>,
          i |-> 0, p |-> Null, held |-> {}]

Init ==
  /\ head = Null /\ next = [r \in Rec |-> Null] /\ count = 0 /\ used = {}
  /\ availHead = Untagged(Null) /\ available = [r \in Rec |-> Null]
  /\ ptr = [r \in Rec |-> Null]
  /\ loc = [t \in Thread |-> Fresh]
  /\ src \in Obj /\ retired = {} /\ freed = {} /\ shared = {}

At(t, label) == loc[t].pc = label
Go(t, label) == loc' = [loc EXCEPT ![t].pc = label]

-----------------------------------------------------------------------------
(* acquire_many::<N>                                                       *)

AcquireMany(t, n) ==
  /\ At(t, "idle")
  /\ loc' = [loc EXCEPT ![t] = [Fresh EXCEPT !.pc = "load", !.n = n]]
  /\ UNCHANGED <<recVars, availVars, ptr, objVars, shared>>

\* try_acquire_available loads the head; null means there is nothing to take.
LoadAvail(t) ==
  /\ At(t, "load")
  /\ loc' = [loc EXCEPT ![t].avail = availHead,
                        ![t].cur = Null, ![t].tail = Null,
                        ![t].pc = IF IsNull(availHead) THEN "take" ELSE "lock"]
  /\ UNCHANGED <<recVars, availVars, ptr, objVars, shared>>

\* fetch_or(LOCK_BIT): the caller that finds the bit clear has the lock and
\* walks the pointer it loaded before.  A pointer loaded while the list was
\* locked still carries the bit: it is no address of a record.
LockAvail(t) ==
  /\ At(t, "lock")
  /\ \/ /\ availHead.locked
        /\ loc' = [loc EXCEPT ![t].pc = "load", ![t].avail = Untagged(Null)]
        /\ UNCHANGED availHead
     \/ /\ ~availHead.locked
        /\ availHead' = [availHead EXCEPT !.locked = TRUE]
        /\ loc' = [loc EXCEPT ![t].pc =
                     IF loc[t].avail.locked THEN "bad" ELSE "walk",
                     ![t].tail = loc[t].avail.addr, ![t].left = 1]
  /\ UNCHANGED <<recVars, available, ptr, objVars, shared>>

\* One load of tail.available in try_acquire_available_locked; left counts
\* the records passed, cur is the code's next.
Walk(t) ==
  /\ At(t, "walk")
  /\ LET nxt == available[loc[t].tail]
         more == nxt # Null /\ loc[t].left < loc[t].n
     IN loc' = [loc EXCEPT
                  ![t].tail = IF more THEN nxt ELSE @,
                  ![t].left = IF more THEN @ + 1 ELSE @,
                  ![t].cur = IF more THEN @ ELSE nxt,
                  ![t].pc = IF more THEN "walk" ELSE "unlock"]
  /\ UNCHANGED <<recVars, availVars, ptr, objVars, shared>>

UnlockAvail(t) ==
  /\ At(t, "unlock")
  /\ availHead' = Untagged(loc[t].cur)
  /\ Go(t, "cut")
  /\ UNCHANGED <<recVars, available, ptr, objVars, shared>>

CutTail(t) ==
  /\ At(t, "cut")
  /\ available' = [available EXCEPT ![loc[t].tail] = Null]
  /\ loc' = [loc EXCEPT ![t].pc = "take", ![t].cur = loc[t].avail.addr,
                        ![t].avail = Untagged(Null), ![t].tail = Null,
                        ![t].left = 0]
  /\ UNCHANGED <<recVars, availHead, ptr, objVars, shared>>

Owned(t) == Range(loc[t].got)

\* Thread t is given record r; the locals of acquire_many die with the last.
Own(t, r) ==
  LET got == Append(loc[t].got, r)
      nxt == IF loc[t].cur = Null THEN Null ELSE available[r]
  IN /\ loc' = [loc EXCEPT ![t] =
                  IF Len(got) = loc[t].n
                  THEN [Fresh EXCEPT !.pc = "own", !.n = loc[t].n, !.got = got]
                  ELSE [@ EXCEPT !.pc = "take", !.got = got, !.tail = r,
                                 !.cur = nxt, !.rec = Null, !.seen = Null]]
     /\ shared' = IF \E u \in Thread : r \in Owned(u) THEN shared \cup {r}
                  ELSE shared

\* The closure of acquire_many: the next record of the stolen chain ...
TakeStolen(t) ==
  /\ At(t, "take") /\ loc[t].cur # Null
  /\ Own(t, loc[t].cur)
  /\ UNCHANGED <<recVars, availVars, ptr, objVars>>

\* ... or a new one (acquire_new_rec), allocated and set to follow the head.
NewRec(t) ==
  /\ At(t, "take") /\ loc[t].cur = Null
  /\ \E r \in Rec \ used :
       /\ used' = used \cup {r}
       /\ next' = [next EXCEPT ![r] = head]
       /\ loc' = [loc EXCEPT ![t].pc = "publish", ![t].rec = r,
                             ![t].seen = head]
  /\ UNCHANGED <<head, count, availVars, ptr, objVars, shared>>

\* Mutant: acquire_new_rec stores the head instead of comparing and exchanging it.
PublishRecBlind(t) ==
  /\ At(t, "publish")
  /\ head' = loc[t].rec
  /\ Go(t, "link")
  /\ UNCHANGED <<next, count, used, availVars, ptr, objVars, shared>>

\* Mutant: Every retry of the push counts the record again.
PublishRecCounts(t) ==
  /\ At(t, "publish")
  /\ \/ /\ head = loc[t].seen
        /\ head' = loc[t].rec
        /\ Go(t, "link")
        /\ UNCHANGED next
     \/ /\ next' = [next EXCEPT ![loc[t].rec] = head]
        /\ loc' = [loc EXCEPT ![t].seen = head]
        /\ UNCHANGED head
  /\ count' = count + 1
  /\ UNCHANGED <<used, availVars, ptr, objVars, shared>>

\* compare_exchange_weak on head: it may fail although head is unchanged.
PublishRec(t) ==
  /\ At(t, "publish")
  /\ \/ /\ head = loc[t].seen
        /\ head' = loc[t].rec
        /\ Go(t, "link")
        /\ UNCHANGED next
     \/ /\ next' = [next EXCEPT ![loc[t].rec] = head]
        /\ loc' = [loc EXCEPT ![t].seen = head]
        /\ UNCHANGED head
  /\ UNCHANGED <<count, used, availVars, ptr, objVars, shared>>

\* count.fetch_add, and the chain of the array grows by the new record.
LinkRec(t) ==
  /\ At(t, "link")
  /\ count' = count + 1
  /\ available' = IF loc[t].tail = Null THEN available
                  ELSE [available EXCEPT ![loc[t].tail] = loc[t].rec]
  /\ Own(t, loc[t].rec)
  /\ UNCHANGED <<head, next, used, availHead, ptr, objVars>>

-----------------------------------------------------------------------------
(* HzdPtr::protect on the i-th record of the array                         *)

Slot(t) == loc[t].got[loc[t].i]

\* What t holds through record r ends when r is used again (&mut self).
Drops(t, r) == {h \in loc[t].held : h[1] # r}

ProtectPtr(t) ==
  /\ At(t, "own")
  /\ \E i \in DOMAIN loc[t].got :
       loc' = [loc EXCEPT ![t].i = i, ![t].p = src, ![t].pc = "protect",
                          ![t].held = Drops(t, loc[t].got[i])]
  /\ UNCHANGED <<recVars, availVars, ptr, objVars, shared>>

PublishHazard(t) ==
  /\ At(t, "protect")
  /\ ptr' = [ptr EXCEPT ![Slot(t)] = loc[t].p]
  /\ Go(t, "recheck")
  /\ UNCHANGED <<recVars, availVars, objVars, shared>>

\* Mutant: try_protect_ptr trusts the first load of the source.
TryProtectPtrNoRecheck(t) ==
  /\ At(t, "recheck")
  /\ loc' = [loc EXCEPT ![t].pc = "own", ![t].i = 0, ![t].p = Null,
               ![t].held = @ \cup {<<Slot(t), o>> : o \in {loc[t].p} \cap Obj}]
  /\ UNCHANGED <<ptr, recVars, availVars, objVars, shared>>

\* The source is loaded again: unchanged, the object is protected; changed,
\* the slot is reset and the new value is tried.
TryProtectPtr(t) ==
  /\ At(t, "recheck")
  /\ \/ /\ src = loc[t].p
        /\ loc' = [loc EXCEPT ![t].pc = "own", ![t].i = 0, ![t].p = Null,
                     ![t].held = @ \cup {<<Slot(t), o>> : o \in {src} \cap Obj}]
        /\ UNCHANGED ptr
     \/ /\ src # loc[t].p
        /\ ptr' = [ptr EXCEPT ![Slot(t)] = Null]
        /\ loc' = [loc EXCEPT ![t].pc = "protect", ![t].p = src]
  /\ UNCHANGED <<recVars, availVars, objVars, shared>>

\* HzdPtr::reset_protection.
ResetProtection(t) ==
  /\ At(t, "own")
  /\ \E r \in Owned(t) :
       /\ ptr' = [ptr EXCEPT ![r] = Null]
       /\ loc' = [loc EXCEPT ![t].held = Drops(t, r)]
  /\ UNCHANGED <<recVars, availVars, objVars, shared>>

-----------------------------------------------------------------------------
(* Dropping the array: reset every slot, then release_many                 *)

\* The slots are reset one after the other; nothing is held through them any
\* more when the drop begins, so one step stands for all the stores.
Cleared(t) == [r \in Rec |-> IF r \in Owned(t) THEN Null ELSE ptr[r]]

DropArray(t) ==
  /\ At(t, "own")
  /\ ptr' = Cleared(t)
  /\ loc' = [loc EXCEPT ![t].held = {},
               ![t].pc = IF available[Last(loc[t].got)] = Null THEN "pushLoad"
                         ELSE "panic"]
  /\ UNCHANGED <<recVars, availVars, objVars, shared>>

\* Dropping a lone HzdPtr resets its slot and panics (todo!()).
DropSingle(t) ==
  /\ At(t, "own") /\ loc[t].n = 1
  /\ ptr' = Cleared(t)
  /\ loc' = [loc EXCEPT ![t].held = {}, ![t].pc = "panic"]
  /\ UNCHANGED <<recVars, availVars, objVars, shared>>

\* Mutant: push_available does not look at LOCK_BIT.
PushLoadUnlocked(t) ==
  /\ At(t, "pushLoad")
  /\ available' = [available EXCEPT ![Last(loc[t].got)] = availHead.addr]
  /\ loc' = [loc EXCEPT ![t].avail = availHead, ![t].pc = "pushCas"]
  /\ UNCHANGED <<recVars, availHead, ptr, objVars, shared>>

\* push_available spins while the list is locked, and otherwise sets the tail
\* of the chain to follow the head it has loaded.
PushLoad(t) ==
  /\ At(t, "pushLoad") /\ ~availHead.locked
  /\ available' = [available EXCEPT ![Last(loc[t].got)] = availHead.addr]
  /\ loc' = [loc EXCEPT ![t].avail = availHead, ![t].pc = "pushCas"]
  /\ UNCHANGED <<recVars, availHead, ptr, objVars, shared>>

PushCas(t) ==
  /\ At(t, "pushCas")
  /\ \/ /\ availHead = loc[t].avail
        /\ availHead' = Untagged(Head(loc[t].got))
        /\ loc' = [loc EXCEPT ![t] = Fresh]
     \/ /\ availHead # loc[t].avail
        /\ loc' = [loc EXCEPT ![t].pc = "pushLoad", ![t].avail = Untagged(Null)]
        /\ UNCHANGED availHead
  /\ UNCHANGED <<recVars, available, ptr, objVars, shared>>

-----------------------------------------------------------------------------
(* The client's side: unlinking an object, and a reclaimer                 *)

\* A client replaces the object in src and retires the old one; retire_ptr
\* itself only returns 0.
SwapAndRetire ==
  /\ \E o \in PtrOf(Obj \ (retired \cup {src})) : src' = o
  /\ retired' = retired \cup ({src} \cap Obj)
  /\ UNCHANGED <<recVars, availVars, ptr, loc, freed, shared>>

\* The records a walk of the list visits: the least set that has the head and
\* the successor of each of its members.
WalkClosed(S) ==
  /\ head # Null => head \in S
  /\ \A r \in S : next[r] # Null => next[r] \in S

Listed == {r \in Rec : \A S \in SUBSET Rec : WalkClosed(S) => r \in S}

\* A reclaimer frees what is retired and found in no record of the domain.
Reclaim ==
  /\ freed' = freed \cup {o \in retired :
                            \A r \in Listed : ptr[r] # o}
  /\ freed' # freed
  /\ UNCHANGED <<recVars, availVars, ptr, loc, src, retired, shared>>

Step(t) ==
  \/ \E n \in Sizes : AcquireMany(t, n)
  \/ LoadAvail(t) \/ LockAvail(t) \/ Walk(t) \/ UnlockAvail(t) \/ CutTail(t)
  \/ TakeStolen(t) \/ NewRec(t) \/ PublishRec(t) \/ LinkRec(t)
  \/ ProtectPtr(t) \/ PublishHazard(t) \/ TryProtectPtr(t)
  \/ ResetProtection(t) \/ DropArray(t) \/ DropSingle(t)
  \/ PushLoad(t) \/ PushCas(t)

Next == (\E t \in Thread : Step(t)) \/ SwapAndRetire \/ Reclaim

Spec == Init /\ [][Next]_vars

-----------------------------------------------------------------------------
(* Properties                                                              *)

\* Types: records, objects and list pointers stay within the domain, and the
\* counter never exceeds the records allocated (acquire_new_rec counts each
\* record once).
TypeOK ==
  /\ head \in PtrOf(Rec) /\ next \in [Rec -> PtrOf(Rec)]
  /\ availHead \in Tagged /\ available \in [Rec -> PtrOf(Rec)]
  /\ ptr \in [Rec -> PtrOf(Obj)] /\ used \subseteq Rec
  /\ count \in 0 .. Cardinality(used)
  /\ loc \in [Thread -> Local]
  /\ src \in PtrOf(Obj) /\ freed \subseteq retired /\ retired \subseteq Obj
  /\ shared \subseteq Rec

Holders == {t \in Thread : loc[t].pc \in {"walk", "unlock", "bad"}}

\* LOCK_BIT is a lock: at most one thread is inside
\* try_acquire_available_locked, and the bit is set exactly while one is, so
\* that neither a push_available nor a second walk interferes with it.
LockBitExcludes ==
  /\ Cardinality(Holders) <= 1
  /\ availHead.locked <=> Holders # {}

Published == used \ {loc[t].rec : t \in {u \in Thread : At(u, "publish")}}

\* The list from head, which a reclaimer scans, has every record
\* acquire_new_rec has published, whatever pushes raced; it is a simple list
\* (no record follows two others, none is followed by the head, so a walk comes
\* to its end); and count agrees with it but for the pushes not yet counted.
RecordListComplete ==
  /\ Listed = Published
  /\ \A r \in Published : next[r] # head
  /\ \A r, s \in Published : next[r] = next[s] => r = s
  /\ count = Cardinality(Published) - Cardinality({t \in Thread : At(t, "link")})

\* What protect returned is never freed while the HzdPtr holds it, even if the
\* object is unlinked and retired right after: the publish-then-recheck of
\* try_protect_ptr makes it visible to every later scan.  (A record that two
\* owners share can be reset by the other one and is excepted.)
ProtectionSound ==
  \A t \in Thread : \A h \in loc[t].held :
    h[1] \in shared \/ h[2] \notin freed

\* "A hazard pointer ... can be owned by at most one thread at any time"
\* (hazard_ptr.rs:39-40): no record is in the arrays of two threads.
SingleOwner ==
  \A t, u \in Thread : t # u => Owned(t) \cap Owned(u) = {}

=============================================================================
