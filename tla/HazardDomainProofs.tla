-------------------------- MODULE HazardDomainProofs --------------------------
(***************************************************************************)
(* Theorems about the hazard pointer domain, for any number of threads,    *)
(* records and objects and any array sizes.                                *)
(***************************************************************************)
EXTENDS HazardDomain, FiniteSetTheorems, TLAPS

(***************************************************************************)
(* The inductive invariant.                                                *)
(***************************************************************************)
\* Everything but the bound on count.
Types ==
  /\ head \in PtrOf(Rec) /\ next \in [Rec -> PtrOf(Rec)]
  /\ availHead \in Tagged /\ available \in [Rec -> PtrOf(Rec)]
  /\ ptr \in [Rec -> PtrOf(Obj)] /\ used \subseteq Rec
  /\ loc \in [Thread -> Local]
  /\ src \in PtrOf(Obj) /\ freed \subseteq retired /\ retired \subseteq Obj
  /\ shared \subseteq Rec

\* LOCK_BIT is set exactly while one thread is between fetch_or and the store
\* that unlocks; the head push_available compares with was not locked.
LockInv ==
  /\ \A t, u \in Thread : t \in Holders /\ u \in Holders => t = u
  /\ availHead.locked <=> Holders # {}
  /\ \A t \in Thread : At(t, "pushCas") => ~loc[t].avail.locked

\* The labels at which a call has its whole array, and those of a protect.
WithArray == {"own", "protect", "recheck", "pushLoad", "pushCas", "panic"}
Protecting == {"protect", "recheck"}

\* What the local variables of a call mean.
LocalInv ==
  \A t \in Thread :
    /\ At(t, "lock") => loc[t].avail # Untagged(Null)
    /\ At(t, "walk") => loc[t].tail \in Rec
    /\ loc[t].pc \in WithArray => loc[t].got # <<>>
    /\ loc[t].pc \in Protecting => loc[t].i \in DOMAIN loc[t].got

\* Records being published: each thread has its own, set to follow the head it
\* has seen, and the published ones have left them behind.
NewInv ==
  /\ \A t \in Thread : At(t, "publish") => loc[t].rec \in used /\ next[loc[t].rec] = loc[t].seen
  /\ \A t \in Thread : At(t, "link") => loc[t].rec \in Published
  /\ \A t, u \in Thread : At(t, "publish") /\ At(u, "publish") /\ t # u
                            => loc[t].rec # loc[u].rec

\* The published records are the least set closed under a walk from head, and
\* the list is simple.
ListInv ==
  /\ WalkClosed(Published)
  /\ \A S \in SUBSET Rec : WalkClosed(S) => Published \subseteq S
  /\ \A r \in Published : next[r] # head
  /\ \A r, s \in Published : next[r] = next[s] => r = s

Linkers == {t \in Thread : At(t, "link")}

CountInv ==
  /\ IsFiniteSet(used) /\ IsFiniteSet(Linkers) /\ count \in Nat
  /\ count + Cardinality(Linkers) = Cardinality(Published)

\* Only published records circulate on the available list and in arrays.
ChainInv ==
  /\ availHead.addr \in PtrOf(Published)
  /\ \A r \in Rec : available[r] \in PtrOf(Published)
  /\ \A t \in Thread :
       /\ loc[t].avail.addr \in PtrOf(Published) /\ loc[t].cur \in PtrOf(Published)
       /\ loc[t].tail \in PtrOf(Published) /\ Owned(t) \subseteq Published

\* A record in two arrays is known to be shared; what a thread holds is in the
\* slot of a record of its array and not freed; between publishing a hazard
\* and checking it again the slot has the pointer, and nothing is held
\* through it.
HazardInv ==
  /\ src \notin retired
  /\ \A t, u \in Thread : t # u => Owned(t) \cap Owned(u) \subseteq shared
  /\ \A t \in Thread : \A h \in loc[t].held :
       /\ h[1] \in Owned(t)
       /\ h[1] \in shared \/ (ptr[h[1]] = h[2] /\ h[2] \notin freed)
  /\ \A t \in Thread : At(t, "recheck") => Slot(t) \in shared \/ ptr[Slot(t)] = loc[t].p
  /\ \A t \in Thread : loc[t].pc \in Protecting => \A h \in loc[t].held : h[1] # Slot(t)

IInv == Types /\ LockInv /\ LocalInv /\ NewInv /\ ListInv /\ CountInv /\ ChainInv /\ HazardInv


(***************************************************************************)
(* The effect of a step on the locals of its thread.                       *)
(***************************************************************************)
LEMMA Labels ==
  /\ "idle" \in PC /\ "load" \in PC /\ "lock" \in PC /\ "walk" \in PC /\ "unlock" \in PC
  /\ "cut" \in PC /\ "take" \in PC /\ "publish" \in PC /\ "link" \in PC /\ "own" \in PC
  /\ "protect" \in PC /\ "recheck" \in PC /\ "pushLoad" \in PC /\ "pushCas" \in PC
  /\ "bad" \in PC /\ "panic" \in PC
BY DEF PC

\* The locals of t become v, those of the other threads stay.
Becomes(t, v) ==
  /\ v \in Local /\ loc' \in [Thread -> Local] /\ loc'[t] = v
  /\ \A u \in Thread : u # t => loc'[u] = loc[u]

LEMMA Pointers ==
  /\ Null \in PtrOf(Rec) /\ Null \in PtrOf(Obj) /\ \A r \in Rec : r \in PtrOf(Rec)
  /\ \A a \in PtrOf(Rec) : Untagged(a) \in Tagged /\ Untagged(a).addr = a /\ ~Untagged(a).locked
  /\ \A p \in PtrOf(Rec) : p # Null => p \in Rec
BY DEF PtrOf, Untagged, Tagged

LEMMA FreshIsLocal == Fresh \in Local
BY Labels, Pointers DEF Fresh, Local

LEMMA LocalsBecome ==
  ASSUME Types, NEW t \in Thread, NEW v \in Local, loc' = [loc EXCEPT ![t] = v]
  PROVE  Becomes(t, v)
BY DEF Types, Becomes

LEMMA AcquireManyEffect ==
  ASSUME Types, NEW t \in Thread, NEW n \in Sizes, AcquireMany(t, n)
  PROVE  Becomes(t, [Fresh EXCEPT !.pc = "load", !.n = n])
<1>1. n \in Nat /\ [Fresh EXCEPT !.pc = "load", !.n = n] \in Local
  BY Labels, FreshIsLocal, SizesAssumption DEF Local
<1> QED BY <1>1, LocalsBecome DEF AcquireMany

LEMMA LoadAvailEffect ==
  ASSUME Types, NEW t \in Thread, LoadAvail(t)
  PROVE  \E l \in PC : /\ l = IF IsNull(availHead) THEN "take" ELSE "lock"
                       /\ Becomes(t, [loc[t] EXCEPT !.avail = availHead, !.cur = Null,
                                                    !.tail = Null, !.pc = l])
<1> DEFINE l == IF IsNull(availHead) THEN "take" ELSE "lock"
           v == [loc[t] EXCEPT !.avail = availHead, !.cur = Null, !.tail = Null, !.pc = l]
<1>1. l \in PC /\ loc[t] \in Local /\ availHead \in Tagged /\ Null \in PtrOf(Rec)
  BY Labels, Pointers DEF Types
<1>2. loc' = [loc EXCEPT ![t].avail = availHead, ![t].cur = Null, ![t].tail = Null, ![t].pc = l]
  BY DEF LoadAvail
<1> HIDE DEF l
<1>3. v \in Local
  BY <1>1 DEF Local
<1>4. loc' = [loc EXCEPT ![t] = v]
  BY <1>2 DEF Types
<1>5. Becomes(t, v)
  BY <1>3, <1>4, LocalsBecome
<1> QED BY <1>1, <1>5 DEF l

LEMMA LockFailsEffect ==
  ASSUME Types, NEW t \in Thread, LockAvail(t), availHead.locked
  PROVE  Becomes(t, [loc[t] EXCEPT !.pc = "load", !.avail = Untagged(Null)])
<1>1. loc \in [Thread -> Local] /\ loc[t] \in Local /\ "load" \in PC /\ Untagged(Null) \in Tagged
  BY Labels, Pointers DEF Types
<1>2. [loc[t] EXCEPT !.pc = "load", !.avail = Untagged(Null)] \in Local
  BY <1>1 DEF Local
<1>3. loc' = [loc EXCEPT ![t] = [loc[t] EXCEPT !.pc = "load", !.avail = Untagged(Null)]]
  BY <1>1 DEF LockAvail
<1> QED BY <1>2, <1>3, LocalsBecome

LEMMA LockTakenEffect ==
  ASSUME Types, NEW t \in Thread, LockAvail(t), ~availHead.locked
  PROVE  \E l \in PC : /\ l = IF loc[t].avail.locked THEN "bad" ELSE "walk"
                       /\ Becomes(t, [loc[t] EXCEPT !.pc = l, !.tail = loc[t].avail.addr,
                                                    !.left = 1])
<1> DEFINE l == IF loc[t].avail.locked THEN "bad" ELSE "walk"
           v == [loc[t] EXCEPT !.pc = l, !.tail = loc[t].avail.addr, !.left = 1]
<1>1. l \in PC /\ loc[t] \in Local
  BY Labels DEF Types
<1>2. loc[t].avail.addr \in PtrOf(Rec)
  BY <1>1 DEF Local, Tagged
<1>3. loc' = [loc EXCEPT ![t].pc = l, ![t].tail = loc[t].avail.addr, ![t].left = 1]
  BY DEF LockAvail
<1> HIDE DEF l
<1>4. v \in Local
  BY <1>1, <1>2 DEF Local
<1>5. loc' = [loc EXCEPT ![t] = v]
  BY <1>3 DEF Types
<1>6. Becomes(t, v)
  BY <1>4, <1>5, LocalsBecome
<1> QED BY <1>1, <1>6 DEF l

LEMMA WalkEffect ==
  ASSUME Types, NEW t \in Thread, Walk(t), loc[t].tail \in Rec
  PROVE  LET nxt == available[loc[t].tail]
             more == nxt # Null /\ loc[t].left < loc[t].n
         IN  Becomes(t, IF more THEN [loc[t] EXCEPT !.tail = nxt, !.left = @ + 1]
                        ELSE [loc[t] EXCEPT !.cur = nxt, !.pc = "unlock"])
BY Labels, Pointers DEF Types, Walk, Becomes, Local, At

LEMMA UnlockAvailEffect ==
  ASSUME Types, NEW t \in Thread, UnlockAvail(t)
  PROVE  Becomes(t, [loc[t] EXCEPT !.pc = "cut"])
<1>1. loc \in [Thread -> Local] /\ loc[t] \in Local /\ "cut" \in PC
  BY Labels, Pointers DEF Types
<1>2. [loc[t] EXCEPT !.pc = "cut"] \in Local
  BY <1>1 DEF Local
<1>3. loc' = [loc EXCEPT ![t] = [loc[t] EXCEPT !.pc = "cut"]]
  BY <1>1 DEF UnlockAvail, Go
<1> QED BY <1>2, <1>3, LocalsBecome

LEMMA CutTailEffect ==
  ASSUME Types, NEW t \in Thread, CutTail(t)
  PROVE  Becomes(t, [loc[t] EXCEPT !.pc = "take", !.cur = loc[t].avail.addr,
                       !.avail = Untagged(Null), !.tail = Null, !.left = 0])
<1>1. loc \in [Thread -> Local] /\ loc[t] \in Local /\ "take" \in PC /\ Untagged(Null) \in Tagged
      /\ Null \in PtrOf(Rec) /\ loc[t].avail.addr \in PtrOf(Rec)
  BY Labels, Pointers DEF Types, Local, Tagged
<1>2. [loc[t] EXCEPT !.pc = "take", !.cur = loc[t].avail.addr,
                       !.avail = Untagged(Null), !.tail = Null, !.left = 0] \in Local
  BY <1>1 DEF Local
<1>3. loc' = [loc EXCEPT ![t] = [loc[t] EXCEPT !.pc = "take", !.cur = loc[t].avail.addr,
                       !.avail = Untagged(Null), !.tail = Null, !.left = 0]]
  BY <1>1 DEF CutTail
<1> QED BY <1>2, <1>3, LocalsBecome

LEMMA OwnEffect ==
  ASSUME Types, NEW t \in Thread, NEW r \in Rec, Own(t, r)
  PROVE  LET got == Append(loc[t].got, r)
             nxt == IF loc[t].cur = Null THEN Null ELSE available[r]
         IN  /\ got \in Seq(Rec) /\ nxt \in PtrOf(Rec)
             /\ Becomes(t, IF Len(got) = loc[t].n
                           THEN [Fresh EXCEPT !.pc = "own", !.n = loc[t].n, !.got = got]
                           ELSE [loc[t] EXCEPT !.pc = "take", !.got = got, !.tail = r,
                                               !.cur = nxt, !.rec = Null, !.seen = Null])
<1> DEFINE got == Append(loc[t].got, r)
           nxt == IF loc[t].cur = Null THEN Null ELSE available[r]
           full == [Fresh EXCEPT !.pc = "own", !.n = loc[t].n, !.got = got]
           more == [loc[t] EXCEPT !.pc = "take", !.got = got, !.tail = r, !.cur = nxt,
                                  !.rec = Null, !.seen = Null]
<1>1. /\ loc \in [Thread -> Local] /\ loc[t] \in Local /\ "own" \in PC /\ "take" \in PC
      /\ Null \in PtrOf(Rec) /\ r \in PtrOf(Rec) /\ nxt \in PtrOf(Rec)
  BY Labels, Pointers DEF Types
<1>2. got \in Seq(Rec) /\ loc[t].n \in Nat
  BY <1>1 DEF Local
<1>3. loc' = [loc EXCEPT ![t] = IF Len(got) = loc[t].n THEN full ELSE more]
  BY <1>1 DEF Own
<1> HIDE DEF got, nxt
<1>4. full \in Local
  BY <1>1, <1>2, FreshIsLocal DEF Local
<1>5. more \in Local
  BY <1>1, <1>2 DEF Local
<1> HIDE DEF full, more
<1>6. Becomes(t, IF Len(got) = loc[t].n THEN full ELSE more)
  BY <1>3, <1>4, <1>5, LocalsBecome
<1> QED BY <1>1, <1>2, <1>6 DEF got, nxt, full, more

LEMMA NewRecEffect ==
  ASSUME Types, NEW t \in Thread, NEW r \in Rec,
         loc' = [loc EXCEPT ![t].pc = "publish", ![t].rec = r, ![t].seen = head]
  PROVE  Becomes(t, [loc[t] EXCEPT !.pc = "publish", !.rec = r, !.seen = head])
<1>1. /\ loc \in [Thread -> Local] /\ loc[t] \in Local /\ "publish" \in PC
      /\ r \in PtrOf(Rec) /\ head \in PtrOf(Rec)
  BY Labels, Pointers DEF Types
<1>2. [loc[t] EXCEPT !.pc = "publish", !.rec = r, !.seen = head] \in Local
  BY <1>1 DEF Local
<1>3. loc' = [loc EXCEPT ![t] = [loc[t] EXCEPT !.pc = "publish", !.rec = r, !.seen = head]]
  BY <1>1
<1> QED BY <1>2, <1>3, LocalsBecome

LEMMA GoEffect ==
  ASSUME Types, NEW t \in Thread, NEW l \in PC, Go(t, l)
  PROVE  Becomes(t, [loc[t] EXCEPT !.pc = l])
<1>1. loc \in [Thread -> Local] /\ loc[t] \in Local
  BY Labels, Pointers DEF Types
<1>2. [loc[t] EXCEPT !.pc = l] \in Local
  BY <1>1 DEF Local
<1>3. loc' = [loc EXCEPT ![t] = [loc[t] EXCEPT !.pc = l]]
  BY <1>1 DEF Go
<1> QED BY <1>2, <1>3, LocalsBecome

LEMMA PublishFailsEffect ==
  ASSUME Types, NEW t \in Thread, loc' = [loc EXCEPT ![t].seen = head]
  PROVE  Becomes(t, [loc[t] EXCEPT !.seen = head])
<1>1. loc \in [Thread -> Local] /\ loc[t] \in Local /\ head \in PtrOf(Rec)
  BY Labels, Pointers DEF Types
<1>2. [loc[t] EXCEPT !.seen = head] \in Local
  BY <1>1 DEF Local
<1>3. loc' = [loc EXCEPT ![t] = [loc[t] EXCEPT !.seen = head]]
  BY <1>1
<1> QED BY <1>2, <1>3, LocalsBecome

LEMMA ProtectPtrEffect ==
  ASSUME Types, NEW t \in Thread, NEW i \in Nat,
         loc' = [loc EXCEPT ![t].i = i, ![t].p = src, ![t].pc = "protect",
                            ![t].held = Drops(t, loc[t].got[i])]
  PROVE  Becomes(t, [loc[t] EXCEPT !.i = i, !.p = src, !.pc = "protect",
                                   !.held = Drops(t, loc[t].got[i])])
<1> DEFINE D == Drops(t, loc[t].got[i])
<1>1. /\ loc \in [Thread -> Local] /\ loc[t] \in Local /\ "protect" \in PC
      /\ src \in PtrOf(Obj)
  BY Labels DEF Types
<1>2. D \in SUBSET (Rec \X Obj)
  BY <1>1 DEF Drops, Local
<1> HIDE DEF D
<1>3. [loc[t] EXCEPT !.i = i, !.p = src, !.pc = "protect", !.held = D] \in Local
  BY <1>1, <1>2 DEF Local
<1>4. loc' = [loc EXCEPT ![t] = [loc[t] EXCEPT !.i = i, !.p = src, !.pc = "protect", !.held = D]]
  BY <1>1 DEF D
<1> QED BY <1>3, <1>4, LocalsBecome DEF D

LEMMA ProtectedEffect ==
  ASSUME Types, NEW t \in Thread, NEW H \in SUBSET (Rec \X Obj),
         loc' = [loc EXCEPT ![t].pc = "own", ![t].i = 0, ![t].p = Null,
                            ![t].held = @ \cup H]
  PROVE  Becomes(t, [loc[t] EXCEPT !.pc = "own", !.i = 0, !.p = Null,
                                   !.held = loc[t].held \cup H])
<1>1. /\ loc \in [Thread -> Local] /\ loc[t] \in Local /\ "own" \in PC
      /\ Null \in PtrOf(Obj)
  BY Labels, Pointers DEF Types
<1>2. loc[t].held \cup H \in SUBSET (Rec \X Obj)
  BY <1>1 DEF Local
<1>3. [loc[t] EXCEPT !.pc = "own", !.i = 0, !.p = Null, !.held = loc[t].held \cup H] \in Local
  BY <1>1, <1>2 DEF Local
<1>4. loc' = [loc EXCEPT ![t] = [loc[t] EXCEPT !.pc = "own", !.i = 0, !.p = Null,
                                               !.held = loc[t].held \cup H]]
  BY <1>1
<1> QED BY <1>3, <1>4, LocalsBecome

LEMMA RetryEffect ==
  ASSUME Types, NEW t \in Thread, 
         loc' = [loc EXCEPT ![t].pc = "protect", ![t].p = src]
  PROVE  Becomes(t, [loc[t] EXCEPT !.pc = "protect", !.p = src])
<1>1. loc \in [Thread -> Local] /\ loc[t] \in Local /\ "protect" \in PC /\ src \in PtrOf(Obj)
  BY Labels, Pointers DEF Types
<1>2. [loc[t] EXCEPT !.pc = "protect", !.p = src] \in Local
  BY <1>1 DEF Local
<1>3. loc' = [loc EXCEPT ![t] = [loc[t] EXCEPT !.pc = "protect", !.p = src]]
  BY <1>1
<1> QED BY <1>2, <1>3, LocalsBecome

LEMMA HeldEffect ==
  ASSUME Types, NEW t \in Thread, NEW H \in SUBSET (Rec \X Obj),
         loc' = [loc EXCEPT ![t].held = H]
  PROVE  Becomes(t, [loc[t] EXCEPT !.held = H])
<1>1. loc \in [Thread -> Local] /\ loc[t] \in Local
  BY Labels, Pointers DEF Types
<1>2. [loc[t] EXCEPT !.held = H] \in Local
  BY <1>1 DEF Local
<1>3. loc' = [loc EXCEPT ![t] = [loc[t] EXCEPT !.held = H]]
  BY <1>1
<1> QED BY <1>2, <1>3, LocalsBecome

LEMMA DropEffect ==
  ASSUME Types, NEW t \in Thread, NEW l \in PC,
         loc' = [loc EXCEPT ![t].held = {}, ![t].pc = l]
  PROVE  Becomes(t, [loc[t] EXCEPT !.held = {}, !.pc = l])
<1>1. loc \in [Thread -> Local] /\ loc[t] \in Local
  BY Labels, Pointers DEF Types
<1>2. [loc[t] EXCEPT !.held = {}, !.pc = l] \in Local
  BY <1>1 DEF Local
<1>3. loc' = [loc EXCEPT ![t] = [loc[t] EXCEPT !.held = {}, !.pc = l]]
  BY <1>1
<1> QED BY <1>2, <1>3, LocalsBecome

LEMMA PushLoadEffect ==
  ASSUME Types, NEW t \in Thread, PushLoad(t)
  PROVE  Becomes(t, [loc[t] EXCEPT !.avail = availHead, !.pc = "pushCas"])
<1>1. loc \in [Thread -> Local] /\ loc[t] \in Local /\ "pushCas" \in PC /\ availHead \in Tagged
  BY Labels, Pointers DEF Types
<1>2. [loc[t] EXCEPT !.avail = availHead, !.pc = "pushCas"] \in Local
  BY <1>1 DEF Local
<1>3. loc' = [loc EXCEPT ![t] = [loc[t] EXCEPT !.avail = availHead, !.pc = "pushCas"]]
  BY <1>1 DEF PushLoad
<1> QED BY <1>2, <1>3, LocalsBecome

LEMMA PushFailsEffect ==
  ASSUME Types, NEW t \in Thread, PushCas(t), availHead # loc[t].avail
  PROVE  Becomes(t, [loc[t] EXCEPT !.pc = "pushLoad", !.avail = Untagged(Null)])
<1>1. loc \in [Thread -> Local] /\ loc[t] \in Local /\ "pushLoad" \in PC /\ Untagged(Null) \in Tagged
  BY Labels, Pointers DEF Types
<1>2. [loc[t] EXCEPT !.pc = "pushLoad", !.avail = Untagged(Null)] \in Local
  BY <1>1 DEF Local
<1>3. loc' = [loc EXCEPT ![t] = [loc[t] EXCEPT !.pc = "pushLoad", !.avail = Untagged(Null)]]
  BY <1>1 DEF PushCas
<1> QED BY <1>2, <1>3, LocalsBecome

LEMMA PushDoneEffect ==
  ASSUME Types, NEW t \in Thread, PushCas(t), availHead = loc[t].avail
  PROVE  Becomes(t, Fresh)
BY FreshIsLocal, LocalsBecome DEF PushCas


(***************************************************************************)
(* The same effects, field by field.                                       *)
(***************************************************************************)
SameChain(t) == /\ loc'[t].avail = loc[t].avail /\ loc'[t].tail = loc[t].tail
                /\ loc'[t].cur = loc[t].cur
SameNew(t) == loc'[t].rec = loc[t].rec /\ loc'[t].seen = loc[t].seen
SameSlot(t) == loc'[t].i = loc[t].i /\ loc'[t].p = loc[t].p
SameArray(t) == loc'[t].got = loc[t].got
SameHeld(t) == loc'[t].held = loc[t].held

\* Nothing but the locals of acquire_many that concern the available list.
OnlyChain(t) == SameNew(t) /\ SameArray(t) /\ SameSlot(t) /\ SameHeld(t)

\* Only the program counter changes, and becomes l.
OnlyGoes(t, l) == loc'[t].pc = l /\ SameChain(t) /\ OnlyChain(t)

\* The locals are those of a new call, but for the label and the array.
Restarts(t, l, got) ==
  /\ loc'[t].pc = l /\ loc'[t].got = got /\ loc'[t].avail = Untagged(Null)
  /\ loc'[t].tail = Null /\ loc'[t].cur = Null /\ loc'[t].rec = Null /\ loc'[t].held = {}

LEMMA AcquireManyFields ==
  ASSUME Types, NEW t \in Thread, NEW n \in Sizes, AcquireMany(t, n)
  PROVE  Restarts(t, "load", <<>>)
<1>1. loc'[t] = [Fresh EXCEPT !.pc = "load", !.n = n]
  BY AcquireManyEffect DEF Becomes
<1> QED BY <1>1 DEF Fresh, Restarts

LEMMA PushDoneFields ==
  ASSUME Types, NEW t \in Thread, PushCas(t), availHead = loc[t].avail
  PROVE  Restarts(t, "idle", <<>>)
<1>1. loc'[t] = Fresh
  BY PushDoneEffect DEF Becomes
<1> QED BY <1>1 DEF Fresh, Restarts

LEMMA LoadAvailFields ==
  ASSUME Types, NEW t \in Thread, LoadAvail(t)
  PROVE  /\ loc'[t].pc = (IF IsNull(availHead) THEN "take" ELSE "lock")
         /\ loc'[t].avail = availHead /\ loc'[t].cur = Null /\ loc'[t].tail = Null
         /\ OnlyChain(t)
<1>0. loc[t] \in Local
  BY DEF Types
<1>1. PICK l \in PC : /\ l = IF IsNull(availHead) THEN "take" ELSE "lock"
                      /\ loc'[t] = [loc[t] EXCEPT !.avail = availHead, !.cur = Null,
                                                  !.tail = Null, !.pc = l]
  BY LoadAvailEffect DEF Becomes
<1>2. /\ loc'[t].pc = l /\ loc'[t].avail = availHead /\ loc'[t].cur = Null /\ loc'[t].tail = Null
      /\ OnlyChain(t)
  BY <1>0, <1>1 DEF Local, OnlyChain, SameNew, SameArray, SameSlot, SameHeld
<1> QED BY <1>1, <1>2

LEMMA LockFailsFields ==
  ASSUME Types, NEW t \in Thread, LockAvail(t), availHead.locked
  PROVE  /\ loc'[t].pc = "load" /\ loc'[t].avail = Untagged(Null)
         /\ loc'[t].tail = loc[t].tail /\ loc'[t].cur = loc[t].cur /\ OnlyChain(t)
<1>1. /\ loc[t] \in Local
      /\ loc'[t] = [loc[t] EXCEPT !.pc = "load", !.avail = Untagged(Null)]
  BY LockFailsEffect DEF Becomes, Types
<1> QED BY <1>1 DEF Local, OnlyChain, SameNew, SameArray, SameSlot, SameHeld

LEMMA LockTakenFields ==
  ASSUME Types, NEW t \in Thread, LockAvail(t), ~availHead.locked
  PROVE  /\ loc'[t].pc = (IF loc[t].avail.locked THEN "bad" ELSE "walk")
         /\ loc'[t].tail = loc[t].avail.addr
         /\ loc'[t].avail = loc[t].avail /\ loc'[t].cur = loc[t].cur /\ OnlyChain(t)
<1>0. loc[t] \in Local
  BY DEF Types
<1>1. PICK l \in PC : /\ l = IF loc[t].avail.locked THEN "bad" ELSE "walk"
                      /\ loc'[t] = [loc[t] EXCEPT !.pc = l, !.tail = loc[t].avail.addr,
                                                  !.left = 1]
  BY LockTakenEffect DEF Becomes
<1>2. /\ loc'[t].pc = l /\ loc'[t].tail = loc[t].avail.addr
      /\ loc'[t].avail = loc[t].avail /\ loc'[t].cur = loc[t].cur /\ OnlyChain(t)
  BY <1>0, <1>1 DEF Local, OnlyChain, SameNew, SameArray, SameSlot, SameHeld
<1> QED BY <1>1, <1>2

LEMMA WalkFields ==
  ASSUME Types, NEW t \in Thread, Walk(t), loc[t].tail \in Rec
  PROVE  /\ loc'[t].avail = loc[t].avail /\ OnlyChain(t)
         /\ LET nxt == available[loc[t].tail]
            IN  \/ loc'[t].pc = "walk" /\ nxt # Null /\ loc'[t].tail = nxt /\ loc'[t].cur = loc[t].cur
                \/ loc'[t].pc = "unlock" /\ loc'[t].tail = loc[t].tail /\ loc'[t].cur = nxt
<1> DEFINE nxt == available[loc[t].tail]
           more == nxt # Null /\ loc[t].left < loc[t].n
<1>1. /\ loc[t] \in Local /\ loc[t].pc = "walk"
      /\ loc'[t] = IF more THEN [loc[t] EXCEPT !.tail = nxt, !.left = @ + 1]
                   ELSE [loc[t] EXCEPT !.cur = nxt, !.pc = "unlock"]
  BY WalkEffect DEF Becomes, Types, Walk, At
<1>2. CASE more
  <2>1. /\ loc'[t].avail = loc[t].avail /\ OnlyChain(t)
        /\ loc'[t].pc = "walk" /\ loc'[t].tail = nxt /\ loc'[t].cur = loc[t].cur
    BY <1>1, <1>2 DEF Local, OnlyChain, SameNew, SameArray, SameSlot, SameHeld
  <2> QED BY <1>2, <2>1
<1>3. CASE ~more
  <2>1. /\ loc'[t].avail = loc[t].avail /\ OnlyChain(t)
        /\ loc'[t].pc = "unlock" /\ loc'[t].tail = loc[t].tail /\ loc'[t].cur = nxt
    BY <1>1, <1>3 DEF Local, OnlyChain, SameNew, SameArray, SameSlot, SameHeld
  <2> QED BY <2>1
<1> QED BY <1>2, <1>3

LEMMA GoFields ==
  ASSUME Types, NEW t \in Thread, NEW l \in PC, Go(t, l)
  PROVE  OnlyGoes(t, l)
<1>1. loc[t] \in Local /\ loc'[t] = [loc[t] EXCEPT !.pc = l]
  BY GoEffect DEF Becomes, Types
<1> QED BY <1>1 DEF Local, OnlyGoes, SameChain, OnlyChain, SameNew, SameArray, SameSlot, SameHeld

LEMMA CutTailFields ==
  ASSUME Types, NEW t \in Thread, CutTail(t)
  PROVE  /\ loc'[t].pc = "take" /\ loc'[t].cur = loc[t].avail.addr /\ loc'[t].tail = Null
         /\ loc'[t].avail = Untagged(Null) /\ OnlyChain(t)
<1>1. /\ loc[t] \in Local
      /\ loc'[t] = [loc[t] EXCEPT !.pc = "take", !.cur = loc[t].avail.addr,
                       !.avail = Untagged(Null), !.tail = Null, !.left = 0]
  BY CutTailEffect DEF Becomes, Types
<1> QED BY <1>1 DEF Local, OnlyChain, SameNew, SameArray, SameSlot, SameHeld

\* With its last record the array is complete; before, the next is looked for.
LEMMA OwnFields ==
  ASSUME Types, NEW t \in Thread, NEW r \in Rec, Own(t, r)
  PROVE  LET got == Append(loc[t].got, r)
         IN  \/ Restarts(t, "own", got)
             \/ /\ loc'[t].pc = "take" /\ loc'[t].got = got /\ loc'[t].tail = r
                /\ loc'[t].cur = (IF loc[t].cur = Null THEN Null ELSE available[r])
                /\ loc'[t].avail = loc[t].avail /\ SameHeld(t)
<1> DEFINE got == Append(loc[t].got, r)
           nxt == IF loc[t].cur = Null THEN Null ELSE available[r]
<1>1. /\ loc[t] \in Local
      /\ loc'[t] = IF Len(got) = loc[t].n
                   THEN [Fresh EXCEPT !.pc = "own", !.n = loc[t].n, !.got = got]
                   ELSE [loc[t] EXCEPT !.pc = "take", !.got = got, !.tail = r,
                                       !.cur = nxt, !.rec = Null, !.seen = Null]
  BY OwnEffect DEF Becomes, Types
<1> HIDE DEF got, nxt
<1>2. CASE Len(got) = loc[t].n
  <2>1. loc'[t] = [Fresh EXCEPT !.pc = "own", !.n = loc[t].n, !.got = got]
    BY <1>1, <1>2
  <2>2. Restarts(t, "own", got)
    BY <2>1 DEF Fresh, Restarts
  <2> QED BY <2>2 DEF got
<1>3. CASE Len(got) # loc[t].n
  <2>1. /\ loc'[t].pc = "take" /\ loc'[t].got = got /\ loc'[t].tail = r /\ loc'[t].cur = nxt
        /\ loc'[t].avail = loc[t].avail /\ SameHeld(t)
    BY <1>1, <1>3 DEF Local, SameHeld
  <2> QED BY <2>1 DEF got, nxt
<1> QED BY <1>2, <1>3

LEMMA NewRecFields ==
  ASSUME Types, NEW t \in Thread, NEW r \in Rec,
         Becomes(t, [loc[t] EXCEPT !.pc = "publish", !.rec = r, !.seen = head])
  PROVE  /\ loc'[t].pc = "publish" /\ loc'[t].rec = r /\ loc'[t].seen = head
         /\ SameChain(t) /\ SameArray(t) /\ SameSlot(t) /\ SameHeld(t)
<1>1. loc[t] \in Local /\ loc'[t] = [loc[t] EXCEPT !.pc = "publish", !.rec = r, !.seen = head]
  BY DEF Becomes, Types
<1> QED BY <1>1 DEF Local, SameChain, SameArray, SameSlot, SameHeld

LEMMA PublishFailsFields ==
  ASSUME Types, NEW t \in Thread,
         Becomes(t, [loc[t] EXCEPT !.seen = head])
  PROVE  /\ loc'[t].pc = loc[t].pc /\ loc'[t].rec = loc[t].rec /\ loc'[t].seen = head
         /\ SameChain(t) /\ SameArray(t) /\ SameSlot(t) /\ SameHeld(t)
<1>1. loc[t] \in Local /\ loc'[t] = [loc[t] EXCEPT !.seen = head]
  BY DEF Becomes, Types
<1> QED BY <1>1 DEF Local, SameChain, SameArray, SameSlot, SameHeld

LEMMA ProtectPtrFields ==
  ASSUME Types, NEW t \in Thread, NEW i \in Nat,
         Becomes(t, [loc[t] EXCEPT !.i = i, !.p = src, !.pc = "protect",
                                   !.held = Drops(t, loc[t].got[i])])
  PROVE  /\ loc'[t].pc = "protect" /\ loc'[t].i = i /\ loc'[t].p = src
         /\ loc'[t].held = Drops(t, loc[t].got[i])
         /\ SameChain(t) /\ SameNew(t) /\ SameArray(t)
<1> DEFINE D == Drops(t, loc[t].got[i])
<1>1. loc[t] \in Local /\ loc'[t] = [loc[t] EXCEPT !.i = i, !.p = src, !.pc = "protect", !.held = D]
  BY DEF Becomes, Types
<1> HIDE DEF D
<1>2. /\ loc'[t].pc = "protect" /\ loc'[t].i = i /\ loc'[t].p = src /\ loc'[t].held = D
      /\ SameChain(t) /\ SameNew(t) /\ SameArray(t)
  BY <1>1 DEF Local, SameChain, SameNew, SameArray
<1> QED BY <1>2 DEF D

LEMMA ProtectedFields ==
  ASSUME Types, NEW t \in Thread, NEW H \in SUBSET (Rec \X Obj),
         Becomes(t, [loc[t] EXCEPT !.pc = "own", !.i = 0, !.p = Null,
                                   !.held = loc[t].held \cup H])
  PROVE  /\ loc'[t].pc = "own" /\ loc'[t].held = loc[t].held \cup H
         /\ SameChain(t) /\ SameNew(t) /\ SameArray(t)
<1> DEFINE K == loc[t].held \cup H
<1>1. loc[t] \in Local /\ loc'[t] = [loc[t] EXCEPT !.pc = "own", !.i = 0, !.p = Null, !.held = K]
  BY DEF Becomes, Types
<1> HIDE DEF K
<1>2. loc'[t].pc = "own" /\ loc'[t].held = K /\ SameChain(t) /\ SameNew(t) /\ SameArray(t)
  BY <1>1 DEF Local, SameChain, SameNew, SameArray
<1> QED BY <1>2 DEF K

LEMMA RetryFields ==
  ASSUME Types, NEW t \in Thread,
         Becomes(t, [loc[t] EXCEPT !.pc = "protect", !.p = src])
  PROVE  /\ loc'[t].pc = "protect" /\ loc'[t].p = src /\ loc'[t].i = loc[t].i
         /\ SameChain(t) /\ SameNew(t) /\ SameArray(t) /\ SameHeld(t)
<1>1. loc[t] \in Local /\ loc'[t] = [loc[t] EXCEPT !.pc = "protect", !.p = src]
  BY DEF Becomes, Types
<1> QED BY <1>1 DEF Local, SameChain, SameNew, SameArray, SameHeld

LEMMA HeldFields ==
  ASSUME Types, NEW t \in Thread, NEW H \in SUBSET (Rec \X Obj),
         Becomes(t, [loc[t] EXCEPT !.held = H])
  PROVE  /\ loc'[t].pc = loc[t].pc /\ loc'[t].held = H
         /\ SameChain(t) /\ SameNew(t) /\ SameArray(t) /\ SameSlot(t)
<1>1. loc[t] \in Local /\ loc'[t] = [loc[t] EXCEPT !.held = H]
  BY DEF Becomes, Types
<1> QED BY <1>1 DEF Local, SameChain, SameNew, SameArray, SameSlot

LEMMA DropFields ==
  ASSUME Types, NEW t \in Thread, NEW l \in PC,
         Becomes(t, [loc[t] EXCEPT !.held = {}, !.pc = l])
  PROVE  /\ loc'[t].pc = l /\ loc'[t].held = {}
         /\ SameChain(t) /\ SameNew(t) /\ SameArray(t) /\ SameSlot(t)
<1>1. loc[t] \in Local /\ loc'[t] = [loc[t] EXCEPT !.held = {}, !.pc = l]
  BY DEF Becomes, Types
<1> QED BY <1>1 DEF Local, SameChain, SameNew, SameArray, SameSlot

LEMMA PushLoadFields ==
  ASSUME Types, NEW t \in Thread, PushLoad(t)
  PROVE  /\ loc'[t].pc = "pushCas" /\ loc'[t].avail = availHead
         /\ loc'[t].tail = loc[t].tail /\ loc'[t].cur = loc[t].cur /\ OnlyChain(t)
<1>1. loc[t] \in Local /\ loc'[t] = [loc[t] EXCEPT !.avail = availHead, !.pc = "pushCas"]
  BY PushLoadEffect DEF Becomes, Types
<1> QED BY <1>1 DEF Local, OnlyChain, SameNew, SameArray, SameSlot, SameHeld

LEMMA PushFailsFields ==
  ASSUME Types, NEW t \in Thread, PushCas(t), availHead # loc[t].avail
  PROVE  /\ loc'[t].pc = "pushLoad" /\ loc'[t].avail = Untagged(Null)
         /\ loc'[t].tail = loc[t].tail /\ loc'[t].cur = loc[t].cur /\ OnlyChain(t)
<1>1. loc[t] \in Local /\ loc'[t] = [loc[t] EXCEPT !.pc = "pushLoad", !.avail = Untagged(Null)]
  BY PushFailsEffect DEF Becomes, Types
<1> QED BY <1>1 DEF Local, OnlyChain, SameNew, SameArray, SameSlot, SameHeld


(***************************************************************************)
(* Types.                                                                  *)
(***************************************************************************)
\* The record a thread counts is one, and so is the record of the slot it uses.
LEMMA LinkedRec ==
  ASSUME Types, NewInv, NEW t \in Thread, LinkRec(t)
  PROVE  loc[t].rec \in Rec /\ loc[t].rec \in Published
BY DEF Types, NewInv, LinkRec, Published

LEMMA SlotIsOwned ==
  ASSUME Types, LocalInv, NEW t \in Thread, loc[t].pc \in Protecting
  PROVE  Slot(t) \in Owned(t) /\ Slot(t) \in Rec
<1>1. loc[t].got \in Seq(Rec) /\ loc[t].i \in DOMAIN loc[t].got
  BY DEF Types, LocalInv, Local
<1> QED BY <1>1 DEF Slot, Owned, Range

\* The locals stay well-typed, and only those of the thread that steps change.
LEMMA LocalsStep ==
  ASSUME Types, LocalInv, NewInv, NEW t \in Thread, Step(t)
  PROVE  loc' \in [Thread -> Local] /\ \A u \in Thread : u # t => loc'[u] = loc[u]
<1> SUFFICES \E v : Becomes(t, v)
  BY DEF Becomes
<1>0. loc[t] \in Local /\ src \in PtrOf(Obj) /\ Null \notin Rec /\ Null \notin Obj
  BY NullAssumption DEF Types
<1>1. CASE \E n \in Sizes : AcquireMany(t, n)
  BY <1>1, AcquireManyEffect
<1>2. CASE LoadAvail(t)
  BY <1>2, LoadAvailEffect
<1>3. CASE LockAvail(t)
  BY <1>3, LockFailsEffect, LockTakenEffect
<1>4. CASE Walk(t)
  BY <1>4, WalkEffect DEF LocalInv, Walk
<1>5. CASE UnlockAvail(t)
  BY <1>5, UnlockAvailEffect
<1>6. CASE CutTail(t)
  BY <1>6, CutTailEffect
<1>7. CASE TakeStolen(t)
  <2>1. loc[t].cur \in Rec
    BY <1>0, <1>7, Pointers DEF TakeStolen, Local
  <2> QED BY <1>7, <2>1, OwnEffect DEF TakeStolen
<1>8. CASE NewRec(t)
  BY <1>8, NewRecEffect DEF NewRec
<1>9. CASE PublishRec(t)
  BY <1>9, GoEffect, PublishFailsEffect, Labels DEF PublishRec
<1>10. CASE LinkRec(t)
  <2>1. loc[t].rec \in Rec
    BY <1>10, LinkedRec
  <2> QED BY <1>10, <2>1, OwnEffect DEF LinkRec
<1>11. CASE ProtectPtr(t)
  <2>1. \A i \in DOMAIN loc[t].got : i \in Nat
    BY <1>0 DEF Local
  <2> QED BY <1>11, <2>1, ProtectPtrEffect DEF ProtectPtr
<1>12. CASE PublishHazard(t)
  BY <1>12, GoEffect, Labels DEF PublishHazard
<1>13. CASE TryProtectPtr(t)
  <2> DEFINE H == {<<Slot(t), o>> : o \in {src} \cap Obj}
  <2>1. H \in SUBSET (Rec \X Obj)
    BY <1>13, SlotIsOwned DEF TryProtectPtr, Protecting, At
  <2> HIDE DEF H
  <2>2. CASE src = loc[t].p
    BY <1>13, <2>1, <2>2, ProtectedEffect DEF TryProtectPtr, H
  <2>3. CASE src # loc[t].p
    BY <1>13, <2>3, RetryEffect DEF TryProtectPtr
  <2> QED BY <2>2, <2>3
<1>14. CASE ResetProtection(t)
  <2>1. \A r : Drops(t, r) \in SUBSET (Rec \X Obj)
    BY <1>0 DEF Drops, Local
  <2>2. PICK r : loc' = [loc EXCEPT ![t].held = Drops(t, r)]
    BY <1>14 DEF ResetProtection
  <2> QED BY <2>1, <2>2, HeldEffect
<1>15. CASE DropArray(t) \/ DropSingle(t)
  <2>1. \E l \in PC : loc' = [loc EXCEPT ![t].held = {}, ![t].pc = l]
    BY <1>15, Labels DEF DropArray, DropSingle
  <2> QED BY <2>1, DropEffect
<1>16. CASE PushLoad(t)
  BY <1>16, PushLoadEffect
<1>17. CASE PushCas(t)
  BY <1>17, PushFailsEffect, PushDoneEffect
<1> QED BY <1>1, <1>2, <1>3, <1>4, <1>5, <1>6, <1>7, <1>8, <1>9, <1>10, <1>11, <1>12, <1>13,
           <1>14, <1>15, <1>16, <1>17
        DEF Step

\* What a step does to the shared variables is well-typed too.
LEMMA TypesStep == Types /\ LocalInv /\ NewInv /\ [Next]_vars => Types'
<1> SUFFICES ASSUME Types, LocalInv, NewInv, [Next]_vars PROVE Types'
  OBVIOUS
<1>1. ASSUME NEW t \in Thread, Step(t) PROVE Types'
  <2>0. loc[t] \in Local /\ loc' \in [Thread -> Local]
    BY <1>1, LocalsStep DEF Types
  <2>1. CASE (\E n \in Sizes : AcquireMany(t, n)) \/ LoadAvail(t) \/ Walk(t) \/ ProtectPtr(t)
    BY <2>0, <2>1 DEF AcquireMany, LoadAvail, Walk, ProtectPtr, Types, recVars, availVars, objVars
  <2>2. CASE LockAvail(t) \/ UnlockAvail(t) \/ PushCas(t)
    <3>1. availHead' \in Tagged
      <4>1. CASE LockAvail(t)
        BY <4>1 DEF LockAvail, Types, Tagged
      <4>2. CASE UnlockAvail(t)
        BY <2>0, <4>2, Pointers DEF UnlockAvail, Local
      <4>3. CASE PushCas(t)
        <5>1. loc[t].got \in Seq(Rec) /\ loc[t].got # <<>>
          BY <2>0, <4>3 DEF PushCas, LocalInv, WithArray, At, Local
        <5>2. Head(loc[t].got) \in PtrOf(Rec)
          BY <5>1, Pointers
        <5> QED BY <4>3, <5>2, Pointers DEF PushCas, Types
      <4> QED BY <2>2, <4>1, <4>2, <4>3
    <3>2. UNCHANGED <<head, next, used, available, ptr, src, retired, freed, shared>>
      BY <2>2 DEF LockAvail, UnlockAvail, PushCas, recVars, objVars
    <3> QED BY <2>0, <3>1, <3>2 DEF Types
  <2>3. CASE CutTail(t) \/ PushLoad(t)
    <3>1. available' \in [Rec -> PtrOf(Rec)]
      BY <2>3, Pointers DEF CutTail, PushLoad, Types, Tagged
    <3>2. UNCHANGED <<head, next, used, availHead, ptr, src, retired, freed, shared>>
      BY <2>3 DEF CutTail, PushLoad, recVars, objVars
    <3> QED BY <2>0, <3>1, <3>2 DEF Types
  <2>4. CASE TakeStolen(t) \/ LinkRec(t)
    <3>1. PICK r \in Rec : Own(t, r)
      BY <2>0, <2>4, LinkedRec, Pointers DEF TakeStolen, LinkRec, Local
    <3>2. shared' \subseteq Rec
      BY <3>1 DEF Own, Types
    <3>3. available' \in [Rec -> PtrOf(Rec)]
      BY <2>0, <2>4 DEF TakeStolen, LinkRec, Types, availVars, Local
    <3>4. UNCHANGED <<head, next, used, availHead, ptr, src, retired, freed>>
      BY <2>4 DEF TakeStolen, LinkRec, recVars, availVars, objVars
    <3> QED BY <2>0, <3>2, <3>3, <3>4 DEF Types
  <2>5. CASE NewRec(t)
    BY <2>0, <2>5 DEF NewRec, Types, availVars, objVars
  <2>6. CASE PublishRec(t)
    <3>1. head' \in PtrOf(Rec) /\ next' \in [Rec -> PtrOf(Rec)]
      BY <2>0, <2>6 DEF PublishRec, Types, Local
    <3> QED BY <2>0, <2>6, <3>1 DEF PublishRec, Types, availVars, objVars
  <2>7. CASE PublishHazard(t) \/ TryProtectPtr(t) \/ ResetProtection(t)
    <3>1. ptr' \in [Rec -> PtrOf(Obj)]
      BY <2>0, <2>7, Pointers DEF PublishHazard, TryProtectPtr, ResetProtection, Types, Local
    <3> QED BY <2>0, <2>7, <3>1 DEF PublishHazard, TryProtectPtr, ResetProtection, Types, recVars,
               availVars, objVars
  <2>8. CASE DropArray(t) \/ DropSingle(t)
    <3>1. ptr' \in [Rec -> PtrOf(Obj)]
      BY <2>0, <2>8, Pointers DEF DropArray, DropSingle, Cleared, Types
    <3> QED BY <2>0, <2>8, <3>1 DEF DropArray, DropSingle, Types, recVars, availVars, objVars
  <2> QED BY <1>1, <2>1, <2>2, <2>3, <2>4, <2>5, <2>6, <2>7, <2>8 DEF Step
<1>2. CASE SwapAndRetire
  BY <1>2 DEF SwapAndRetire, Types, recVars, availVars, PtrOf
<1>3. CASE Reclaim
  BY <1>3 DEF Reclaim, Types, recVars, availVars
<1>4. CASE UNCHANGED vars
  BY <1>4 DEF vars, Types, recVars, availVars, objVars
<1> QED BY <1>1, <1>2, <1>3, <1>4 DEF Next


(***************************************************************************)
(* What each step does, in terms the invariants speak of.                  *)
(***************************************************************************)
Acquired(t) ==
  /\ At(t, "idle") /\ Restarts(t, "load", <<>>)
  /\ UNCHANGED <<recVars, availVars, ptr, objVars, shared>>

Loaded(t) ==
  /\ At(t, "load") /\ loc'[t].pc = (IF IsNull(availHead) THEN "take" ELSE "lock")
  /\ loc'[t].avail = availHead /\ loc'[t].cur = Null /\ loc'[t].tail = Null /\ OnlyChain(t)
  /\ UNCHANGED <<recVars, availVars, ptr, objVars, shared>>

LockMissed(t) ==
  /\ At(t, "lock") /\ loc'[t].pc = "load" /\ loc'[t].avail = Untagged(Null)
  /\ loc'[t].tail = loc[t].tail /\ loc'[t].cur = loc[t].cur /\ OnlyChain(t)
  /\ UNCHANGED <<recVars, availVars, ptr, objVars, shared>>

LockTaken(t) ==
  /\ At(t, "lock") /\ ~availHead.locked /\ availHead'.locked /\ availHead'.addr = availHead.addr
  /\ loc'[t].pc = (IF loc[t].avail.locked THEN "bad" ELSE "walk")
  /\ loc'[t].tail = loc[t].avail.addr
  /\ loc'[t].avail = loc[t].avail /\ loc'[t].cur = loc[t].cur /\ OnlyChain(t)
  /\ UNCHANGED <<recVars, available, ptr, objVars, shared>>

Walked(t) ==
  /\ At(t, "walk") /\ loc'[t].avail = loc[t].avail /\ OnlyChain(t)
  /\ LET nxt == available[loc[t].tail]
     IN  \/ loc'[t].pc = "walk" /\ nxt # Null /\ loc'[t].tail = nxt /\ loc'[t].cur = loc[t].cur
         \/ loc'[t].pc = "unlock" /\ loc'[t].tail = loc[t].tail /\ loc'[t].cur = nxt
  /\ UNCHANGED <<recVars, availVars, ptr, objVars, shared>>

Unlocked(t) ==
  /\ At(t, "unlock") /\ availHead' = Untagged(loc[t].cur) /\ OnlyGoes(t, "cut")
  /\ UNCHANGED <<recVars, available, ptr, objVars, shared>>

TailCut(t) ==
  /\ At(t, "cut") /\ available' = [available EXCEPT ![loc[t].tail] = Null]
  /\ loc'[t].pc = "take" /\ loc'[t].cur = loc[t].avail.addr /\ loc'[t].tail = Null
  /\ loc'[t].avail = Untagged(Null) /\ OnlyChain(t)
  /\ UNCHANGED <<recVars, availHead, ptr, objVars, shared>>

\* t is given r, which makes its array complete or not.
Given(t, r) ==
  /\ LET got == Append(loc[t].got, r)
     IN  \/ Restarts(t, "own", got)
         \/ /\ loc'[t].pc = "take" /\ loc'[t].got = got /\ loc'[t].tail = r
            /\ loc'[t].cur = (IF loc[t].cur = Null THEN Null ELSE available[r])
            /\ loc'[t].avail = loc[t].avail /\ SameHeld(t)
  /\ shared' = IF \E u \in Thread : r \in Owned(u) THEN shared \cup {r} ELSE shared

StolenTaken(t) ==
  /\ At(t, "take") /\ loc[t].cur \in Rec /\ Given(t, loc[t].cur)
  /\ UNCHANGED <<recVars, availVars, ptr, objVars>>

RecMade(t, r) ==
  /\ At(t, "take") /\ r \in Rec \ used
  /\ used' = used \cup {r} /\ next' = [next EXCEPT ![r] = head]
  /\ loc'[t].pc = "publish" /\ loc'[t].rec = r /\ loc'[t].seen = head
  /\ SameChain(t) /\ SameArray(t) /\ SameSlot(t) /\ SameHeld(t)
  /\ UNCHANGED <<head, count, availVars, ptr, objVars, shared>>

RecPublished(t) ==
  /\ At(t, "publish") /\ head = loc[t].seen /\ head' = loc[t].rec /\ OnlyGoes(t, "link")
  /\ UNCHANGED <<next, count, used, availVars, ptr, objVars, shared>>

PublishMissed(t) ==
  /\ At(t, "publish") /\ next' = [next EXCEPT ![loc[t].rec] = head]
  /\ loc'[t].pc = "publish" /\ loc'[t].rec = loc[t].rec /\ loc'[t].seen = head
  /\ SameChain(t) /\ SameArray(t) /\ SameSlot(t) /\ SameHeld(t)
  /\ UNCHANGED <<head, count, used, availVars, ptr, objVars, shared>>

RecLinked(t) ==
  /\ At(t, "link") /\ loc[t].rec \in Published /\ count' = count + 1
  /\ available' = IF loc[t].tail = Null THEN available
                  ELSE [available EXCEPT ![loc[t].tail] = loc[t].rec]
  /\ Given(t, loc[t].rec)
  /\ UNCHANGED <<head, next, used, availHead, ptr, objVars>>

ProtectBegun(t, i) ==
  /\ At(t, "own") /\ loc'[t].pc = "protect" /\ i \in DOMAIN loc[t].got /\ loc'[t].i = i
  /\ loc'[t].p = src /\ loc'[t].held = Drops(t, loc[t].got[i])
  /\ SameChain(t) /\ SameNew(t) /\ SameArray(t)
  /\ UNCHANGED <<recVars, availVars, ptr, objVars, shared>>

HazardSet(t) ==
  /\ At(t, "protect") /\ ptr' = [ptr EXCEPT ![Slot(t)] = loc[t].p] /\ OnlyGoes(t, "recheck")
  /\ UNCHANGED <<recVars, availVars, objVars, shared>>

Protected(t) ==
  /\ At(t, "recheck") /\ src = loc[t].p /\ loc'[t].pc = "own"
  /\ loc'[t].held = loc[t].held \cup {<<Slot(t), o>> : o \in {src} \cap Obj}
  /\ SameChain(t) /\ SameNew(t) /\ SameArray(t)
  /\ UNCHANGED <<recVars, availVars, ptr, objVars, shared>>

ProtectMissed(t) ==
  /\ At(t, "recheck") /\ ptr' = [ptr EXCEPT ![Slot(t)] = Null]
  /\ loc'[t].pc = "protect" /\ loc'[t].p = src /\ loc'[t].i = loc[t].i
  /\ SameChain(t) /\ SameNew(t) /\ SameArray(t) /\ SameHeld(t)
  /\ UNCHANGED <<recVars, availVars, objVars, shared>>

SlotReset(t, r) ==
  /\ At(t, "own") /\ r \in Owned(t) /\ ptr' = [ptr EXCEPT ![r] = Null]
  /\ loc'[t].pc = "own" /\ loc'[t].held = Drops(t, r)
  /\ SameChain(t) /\ SameNew(t) /\ SameArray(t) /\ SameSlot(t)
  /\ UNCHANGED <<recVars, availVars, objVars, shared>>

Dropped(t) ==
  /\ At(t, "own") /\ ptr' = Cleared(t) /\ loc'[t].held = {}
  /\ loc'[t].pc \in {"pushLoad", "panic"}
  /\ SameChain(t) /\ SameNew(t) /\ SameArray(t) /\ SameSlot(t)
  /\ UNCHANGED <<recVars, availVars, objVars, shared>>

PushBegun(t) ==
  /\ At(t, "pushLoad") /\ ~availHead.locked
  /\ available' = [available EXCEPT ![Last(loc[t].got)] = availHead.addr]
  /\ loc'[t].pc = "pushCas" /\ loc'[t].avail = availHead
  /\ loc'[t].tail = loc[t].tail /\ loc'[t].cur = loc[t].cur /\ OnlyChain(t)
  /\ UNCHANGED <<recVars, availHead, ptr, objVars, shared>>

Pushed(t) ==
  /\ At(t, "pushCas") /\ availHead = loc[t].avail
  /\ availHead' = Untagged(Head(loc[t].got)) /\ Restarts(t, "idle", <<>>)
  /\ UNCHANGED <<recVars, available, ptr, objVars, shared>>

PushMissed(t) ==
  /\ At(t, "pushCas") /\ loc'[t].pc = "pushLoad" /\ loc'[t].avail = Untagged(Null)
  /\ loc'[t].tail = loc[t].tail /\ loc'[t].cur = loc[t].cur /\ OnlyChain(t)
  /\ UNCHANGED <<recVars, availVars, ptr, objVars, shared>>

\* The steps that concern the list of all records ...
OnRecords(t) ==
  (\E r \in Rec : RecMade(t, r)) \/ RecPublished(t) \/ PublishMissed(t) \/ RecLinked(t)

\* ... those that write to hazard slots ...
OnSlots(t) ==
  \/ (\E i \in Nat : ProtectBegun(t, i)) \/ HazardSet(t) \/ Protected(t) \/ ProtectMissed(t)
  \/ (\E r \in Rec : SlotReset(t, r)) \/ Dropped(t)

\* ... and those on the available list.
OnAvailable(t) ==
  \/ Acquired(t) \/ Loaded(t) \/ LockMissed(t) \/ LockTaken(t) \/ Walked(t) \/ Unlocked(t)
  \/ TailCut(t) \/ StolenTaken(t) \/ PushBegun(t) \/ Pushed(t) \/ PushMissed(t)

LEMMA AvailableSummary ==
  ASSUME Types, LocalInv, NEW t \in Thread,
         \/ \E n \in Sizes : AcquireMany(t, n)
         \/ LoadAvail(t) \/ LockAvail(t) \/ Walk(t) \/ UnlockAvail(t) \/ CutTail(t)
         \/ TakeStolen(t) \/ PushLoad(t) \/ PushCas(t)
  PROVE  OnAvailable(t)
<1>0. loc[t] \in Local
  BY DEF Types
<1>1. CASE \E n \in Sizes : AcquireMany(t, n)
  <2>1. Restarts(t, "load", <<>>)
    BY <1>1, AcquireManyFields
  <2>2. Acquired(t)
    BY <1>1, <2>1 DEF AcquireMany, Acquired
  <2> QED BY <2>2 DEF OnAvailable
<1>2. CASE LoadAvail(t)
  <2>1. Loaded(t)
    BY <1>2, LoadAvailFields DEF LoadAvail, Loaded
  <2> QED BY <2>1 DEF OnAvailable
<1>3. CASE LockAvail(t) /\ availHead.locked
  <2>1. LockMissed(t)
    BY <1>3, LockFailsFields DEF LockAvail, LockMissed, availVars
  <2> QED BY <2>1 DEF OnAvailable
<1>4. CASE LockAvail(t) /\ ~availHead.locked
  <2>1. availHead'.locked /\ availHead'.addr = availHead.addr
    BY <1>4 DEF LockAvail, Types, Tagged
  <2>2. At(t, "lock") /\ UNCHANGED <<recVars, available, ptr, objVars, shared>>
    BY <1>4 DEF LockAvail
  <2>3. LockTaken(t)
    BY <1>4, <2>1, <2>2, LockTakenFields DEF LockTaken
  <2> QED BY <2>3 DEF OnAvailable
<1>5. CASE Walk(t)
  <2>1. loc[t].tail \in Rec /\ At(t, "walk")
    BY <1>5 DEF Walk, LocalInv
  <2>2. Walked(t)
    BY <1>5, <2>1, WalkFields DEF Walk, Walked
  <2> QED BY <2>2 DEF OnAvailable
<1>6. CASE UnlockAvail(t)
  <2>1. OnlyGoes(t, "cut")
    BY <1>6, GoFields, Labels DEF UnlockAvail
  <2>2. Unlocked(t)
    BY <1>6, <2>1 DEF UnlockAvail, Unlocked
  <2> QED BY <2>2 DEF OnAvailable
<1>7. CASE CutTail(t)
  <2>1. TailCut(t)
    BY <1>7, CutTailFields DEF CutTail, TailCut
  <2> QED BY <2>1 DEF OnAvailable
<1>8. CASE TakeStolen(t)
  <2>1. loc[t].cur \in Rec
    BY <1>0, <1>8, Pointers DEF TakeStolen, Local
  <2>2. Given(t, loc[t].cur)
    BY <1>8, <2>1, OwnFields DEF TakeStolen, Own, Given
  <2>3. StolenTaken(t)
    BY <1>8, <2>1, <2>2 DEF TakeStolen, StolenTaken
  <2> QED BY <2>3 DEF OnAvailable
<1>9. CASE PushLoad(t)
  <2>1. PushBegun(t)
    BY <1>9, PushLoadFields DEF PushLoad, PushBegun
  <2> QED BY <2>1 DEF OnAvailable
<1>10. CASE PushCas(t) /\ availHead = loc[t].avail
  <2>1. Pushed(t)
    BY <1>10, PushDoneFields DEF PushCas, Pushed
  <2> QED BY <2>1 DEF OnAvailable
<1>11. CASE PushCas(t) /\ availHead # loc[t].avail
  <2>1. PushMissed(t)
    BY <1>11, PushFailsFields DEF PushCas, PushMissed, availVars
  <2> QED BY <2>1 DEF OnAvailable
<1> QED BY <1>1, <1>2, <1>3, <1>4, <1>5, <1>6, <1>7, <1>8, <1>9, <1>10, <1>11

LEMMA RecordsSummary ==
  ASSUME Types, NewInv, NEW t \in Thread, NewRec(t) \/ PublishRec(t) \/ LinkRec(t)
  PROVE  OnRecords(t)
<1>1. CASE NewRec(t)
  <2>1. PICK r \in Rec \ used :
          /\ used' = used \cup {r} /\ next' = [next EXCEPT ![r] = head]
          /\ loc' = [loc EXCEPT ![t].pc = "publish", ![t].rec = r, ![t].seen = head]
    BY <1>1 DEF NewRec
  <2>2. /\ loc'[t].pc = "publish" /\ loc'[t].rec = r /\ loc'[t].seen = head
        /\ SameChain(t) /\ SameArray(t) /\ SameSlot(t) /\ SameHeld(t)
    BY <2>1, NewRecEffect, NewRecFields
  <2>3. At(t, "take") /\ UNCHANGED <<head, count, availVars, ptr, objVars, shared>>
    BY <1>1 DEF NewRec
  <2>4. RecMade(t, r)
    BY <2>1, <2>2, <2>3 DEF RecMade
  <2> QED BY <2>4 DEF OnRecords
<1>2. CASE PublishRec(t) /\ head = loc[t].seen /\ head' = loc[t].rec /\ Go(t, "link") /\ next' = next
  <2>1. OnlyGoes(t, "link")
    BY <1>2, GoFields, Labels
  <2>2. RecPublished(t)
    BY <1>2, <2>1 DEF PublishRec, RecPublished
  <2> QED BY <2>2 DEF OnRecords
<1>3. CASE /\ PublishRec(t) /\ next' = [next EXCEPT ![loc[t].rec] = head]
           /\ loc' = [loc EXCEPT ![t].seen = head] /\ head' = head
  <2>1. /\ loc'[t].pc = loc[t].pc /\ loc'[t].rec = loc[t].rec /\ loc'[t].seen = head
        /\ SameChain(t) /\ SameArray(t) /\ SameSlot(t) /\ SameHeld(t)
    BY <1>3, PublishFailsEffect, PublishFailsFields
  <2>2. loc[t].pc = "publish" /\ UNCHANGED <<count, used, availVars, ptr, objVars, shared>>
    BY <1>3 DEF PublishRec, At
  <2>3. PublishMissed(t)
    BY <1>3, <2>1, <2>2 DEF PublishMissed, At
  <2> QED BY <2>3 DEF OnRecords
<1>4. CASE LinkRec(t)
  <2>1. loc[t].rec \in Rec /\ loc[t].rec \in Published
    BY <1>4, LinkedRec
  <2>2. Given(t, loc[t].rec)
    BY <1>4, <2>1, OwnFields DEF LinkRec, Own, Given
  <2>3. RecLinked(t)
    BY <1>4, <2>1, <2>2 DEF LinkRec, RecLinked
  <2> QED BY <2>3 DEF OnRecords
<1> QED BY <1>1, <1>2, <1>3, <1>4 DEF PublishRec

LEMMA SlotsSummary ==
  ASSUME Types, LocalInv, NEW t \in Thread,
         \/ ProtectPtr(t) \/ PublishHazard(t) \/ TryProtectPtr(t)
         \/ ResetProtection(t) \/ DropArray(t) \/ DropSingle(t)
  PROVE  OnSlots(t)
<1>0. loc[t] \in Local
  BY DEF Types
<1>1. CASE ProtectPtr(t)
  <2>1. PICK i \in DOMAIN loc[t].got :
          loc' = [loc EXCEPT ![t].i = i, ![t].p = src, ![t].pc = "protect",
                             ![t].held = Drops(t, loc[t].got[i])]
    BY <1>1 DEF ProtectPtr
  <2>2. i \in Nat
    BY <1>0 DEF Local
  <2>3. /\ loc'[t].pc = "protect" /\ loc'[t].i = i /\ loc'[t].p = src
        /\ loc'[t].held = Drops(t, loc[t].got[i])
        /\ SameChain(t) /\ SameNew(t) /\ SameArray(t)
    BY <2>1, <2>2, ProtectPtrEffect, ProtectPtrFields
  <2>4. At(t, "own") /\ UNCHANGED <<recVars, availVars, ptr, objVars, shared>>
    BY <1>1 DEF ProtectPtr
  <2>5. ProtectBegun(t, i)
    BY <2>3, <2>4 DEF ProtectBegun
  <2> QED BY <2>2, <2>5 DEF OnSlots
<1>2. CASE PublishHazard(t)
  <2>1. OnlyGoes(t, "recheck")
    BY <1>2, GoFields, Labels DEF PublishHazard
  <2>2. HazardSet(t)
    BY <1>2, <2>1 DEF PublishHazard, HazardSet
  <2> QED BY <2>2 DEF OnSlots
<1>3. CASE TryProtectPtr(t)
  <2> DEFINE H == {<<Slot(t), o>> : o \in {src} \cap Obj}
  <2>1. H \in SUBSET (Rec \X Obj)
    BY <1>3, SlotIsOwned DEF TryProtectPtr, Protecting, At
  <2>2. At(t, "recheck") /\ UNCHANGED <<recVars, availVars, objVars, shared>>
    BY <1>3 DEF TryProtectPtr
  <2>3. CASE src = loc[t].p
    <3>1. loc' = [loc EXCEPT ![t].pc = "own", ![t].i = 0, ![t].p = Null, ![t].held = @ \cup H]
          /\ ptr' = ptr
      BY <1>3, <2>3 DEF TryProtectPtr
    <3> HIDE DEF H
    <3>2. Becomes(t, [loc[t] EXCEPT !.pc = "own", !.i = 0, !.p = Null,
                                   !.held = loc[t].held \cup H])
      BY <2>1, <3>1, ProtectedEffect
    <3>3. /\ loc'[t].pc = "own" /\ loc'[t].held = loc[t].held \cup H
          /\ SameChain(t) /\ SameNew(t) /\ SameArray(t)
      BY <2>1, <3>2, ProtectedFields
    <3>4. Protected(t)
      BY <2>2, <2>3, <3>1, <3>3 DEF Protected, H
    <3> QED BY <3>4 DEF OnSlots
  <2>4. CASE src # loc[t].p
    <3>1. /\ loc' = [loc EXCEPT ![t].pc = "protect", ![t].p = src]
          /\ ptr' = [ptr EXCEPT ![Slot(t)] = Null]
      BY <1>3, <2>4 DEF TryProtectPtr
    <3>2. /\ loc'[t].pc = "protect" /\ loc'[t].p = src /\ loc'[t].i = loc[t].i
          /\ SameChain(t) /\ SameNew(t) /\ SameArray(t) /\ SameHeld(t)
      BY <3>1, RetryEffect, RetryFields
    <3>3. ProtectMissed(t)
      BY <2>2, <3>1, <3>2 DEF ProtectMissed
    <3> QED BY <3>3 DEF OnSlots
  <2> QED BY <2>3, <2>4
<1>4. CASE ResetProtection(t)
  <2>1. PICK r \in Owned(t) : ptr' = [ptr EXCEPT ![r] = Null] /\ loc' = [loc EXCEPT ![t].held = Drops(t, r)]
    BY <1>4 DEF ResetProtection
  <2>2. Drops(t, r) \in SUBSET (Rec \X Obj)
    BY <1>0 DEF Drops, Local
  <2>3. r \in Rec
    BY <1>0 DEF Owned, Range, Local
  <2>4. /\ loc'[t].pc = loc[t].pc /\ loc'[t].held = Drops(t, r)
        /\ SameChain(t) /\ SameNew(t) /\ SameArray(t) /\ SameSlot(t)
    BY <2>1, <2>2, HeldEffect, HeldFields
  <2>5. loc[t].pc = "own" /\ UNCHANGED <<recVars, availVars, objVars, shared>>
    BY <1>4 DEF ResetProtection, At
  <2>6. SlotReset(t, r)
    BY <2>1, <2>4, <2>5 DEF SlotReset, At
  <2> QED BY <2>3, <2>6 DEF OnSlots
<1>5. CASE DropArray(t) \/ DropSingle(t)
  <2>1. PICK l \in PC : /\ l \in {"pushLoad", "panic"}
                        /\ loc' = [loc EXCEPT ![t].held = {}, ![t].pc = l]
    BY <1>5, Labels DEF DropArray, DropSingle
  <2>2. /\ loc'[t].pc = l /\ loc'[t].held = {}
        /\ SameChain(t) /\ SameNew(t) /\ SameArray(t) /\ SameSlot(t)
    BY <2>1, DropEffect, DropFields
  <2>3. At(t, "own") /\ ptr' = Cleared(t) /\ UNCHANGED <<recVars, availVars, objVars, shared>>
    BY <1>5 DEF DropArray, DropSingle
  <2>4. Dropped(t)
    BY <2>1, <2>2, <2>3 DEF Dropped
  <2> QED BY <2>4 DEF OnSlots
<1> QED BY <1>1, <1>2, <1>3, <1>4, <1>5

\* The steps other than those of thread t.
Frame(t) == /\ loc' \in [Thread -> Local] /\ \A u \in Thread : u # t => loc'[u] = loc[u]

LEMMA StepSummary ==
  ASSUME Types, LocalInv, NewInv, NEW t \in Thread, Step(t)
  PROVE  Frame(t) /\ (OnRecords(t) \/ OnSlots(t) \/ OnAvailable(t))
<1>1. Frame(t)
  BY LocalsStep DEF Frame
<1>2. OnRecords(t) \/ OnSlots(t) \/ OnAvailable(t)
  BY AvailableSummary, RecordsSummary, SlotsSummary DEF Step
<1> QED BY <1>1, <1>2


(***************************************************************************)
(* The lock bit.                                                           *)
(***************************************************************************)
Locked == {"walk", "unlock", "bad"}

LEMMA LockStep ==
  ASSUME Types, LocalInv, NewInv, LockInv, [Next]_vars PROVE LockInv'
<1>q. ASSUME NEW t \in Thread, loc[t].pc \notin Locked, loc'[t].pc \notin Locked,
             loc'[t].pc # "pushCas", availHead' = availHead, Frame(t)
      PROVE  LockInv'
  BY <1>q DEF LockInv, Holders, At, Locked, Frame
<1>1. ASSUME NEW t \in Thread, Step(t) PROVE LockInv'
  <2>0. Frame(t) /\ (OnRecords(t) \/ OnSlots(t) \/ OnAvailable(t))
    BY <1>1, StepSummary
  <2>1. CASE OnRecords(t) \/ OnSlots(t)
    <3>1. availHead' = availHead
      BY <2>1 DEF OnRecords, RecMade, RecPublished, PublishMissed, RecLinked, OnSlots, ProtectBegun,
         HazardSet, Protected, ProtectMissed, SlotReset, Dropped, availVars
    <3>2. loc[t].pc \notin Locked /\ loc'[t].pc \notin Locked /\ loc'[t].pc # "pushCas"
      BY <2>1 DEF OnRecords, RecMade, RecPublished, PublishMissed, RecLinked, OnSlots, ProtectBegun,
         HazardSet, Protected, ProtectMissed, SlotReset, Dropped, At, Locked, OnlyGoes, Given,
         Restarts
    <3> QED BY <1>q, <2>0, <3>1, <3>2
  <2>2. CASE Acquired(t) \/ Loaded(t) \/ LockMissed(t) \/ TailCut(t) \/ StolenTaken(t) \/ PushMissed(t)
    <3>1. availHead' = availHead
      BY <2>2 DEF Acquired, Loaded, LockMissed, TailCut, StolenTaken, PushMissed, availVars
    <3>2. loc[t].pc \notin Locked /\ loc'[t].pc \notin Locked /\ loc'[t].pc # "pushCas"
      BY <2>2 DEF Acquired, Loaded, LockMissed, TailCut, StolenTaken, PushMissed, At, Locked, Given,
         Restarts
    <3> QED BY <1>q, <2>0, <3>1, <3>2
  <2>3. CASE LockTaken(t)
    <3>1. loc'[t].pc \in {"bad", "walk"} /\ loc[t].pc = "lock" /\ availHead'.locked /\ ~availHead.locked
      BY <2>3 DEF LockTaken, At
    <3> QED BY <2>0, <3>1 DEF LockInv, Holders, At, Frame
  <2>4. CASE Walked(t)
    <3>1. loc'[t].pc \in {"walk", "unlock"} /\ loc[t].pc = "walk" /\ availHead' = availHead
      BY <2>4 DEF Walked, At, availVars
    <3> QED BY <2>0, <3>1 DEF LockInv, Holders, At, Frame
  <2>5. CASE Unlocked(t)
    <3>1. loc'[t].pc = "cut" /\ loc[t].pc = "unlock" /\ ~availHead'.locked
      BY <2>5 DEF Unlocked, OnlyGoes, At, Untagged
    <3> QED BY <2>0, <3>1 DEF LockInv, Holders, At, Frame
  <2>6. CASE PushBegun(t)
    <3>1. /\ loc'[t].pc = "pushCas" /\ loc'[t].avail = availHead /\ ~availHead.locked
          /\ loc[t].pc = "pushLoad" /\ availHead' = availHead
      BY <2>6 DEF PushBegun, At
    <3> QED BY <2>0, <3>1 DEF LockInv, Holders, At, Frame
  <2>7. CASE Pushed(t)
    <3>1. /\ loc'[t].pc = "idle" /\ loc[t].pc = "pushCas" /\ ~availHead'.locked
          /\ availHead = loc[t].avail
      BY <2>7 DEF Pushed, Restarts, At, Untagged
    <3>2. ~availHead.locked
      BY <3>1 DEF LockInv, At
    <3> QED BY <2>0, <3>1, <3>2 DEF LockInv, Holders, At, Frame
  <2> QED BY <2>0, <2>1, <2>2, <2>3, <2>4, <2>5, <2>6, <2>7 DEF OnAvailable
<1>2. CASE UNCHANGED <<loc, availHead>>
  BY <1>2 DEF LockInv, Holders, At
<1> QED BY <1>1, <1>2 DEF Next, SwapAndRetire, Reclaim, vars, availVars

(***************************************************************************)
(* The local variables.                                                    *)
(***************************************************************************)
LEMMA LocalStep ==
  ASSUME Types, LocalInv, NewInv, [Next]_vars PROVE LocalInv'
<1>1. ASSUME NEW t \in Thread, Step(t) PROVE LocalInv'
  <2>0. Frame(t) /\ (OnRecords(t) \/ OnSlots(t) \/ OnAvailable(t)) /\ loc[t] \in Local
    BY <1>1, StepSummary DEF Types
  <2> SUFFICES /\ loc'[t].pc = "lock" => loc'[t].avail # Untagged(Null)
               /\ loc'[t].pc = "walk" => loc'[t].tail \in Rec
               /\ loc'[t].pc \in WithArray => loc'[t].got # <<>>
               /\ loc'[t].pc \in Protecting => loc'[t].i \in DOMAIN loc'[t].got
    BY <2>0 DEF LocalInv, Frame, At
  <2>1. ASSUME NEW r \in Rec, Given(t, r)
        PROVE  loc'[t].pc \in {"own", "take"} /\ loc'[t].got # <<>>
    <3>1. Append(loc[t].got, r) # <<>>
      BY <2>0 DEF Local
    <3> QED BY <2>1, <3>1 DEF Given, Restarts
  <2>2. CASE OnRecords(t)
    <3>1. CASE RecLinked(t)
      <4>1. loc[t].rec \in Rec
        BY <3>1 DEF RecLinked, Published, Types
      <4> QED BY <2>1, <3>1, <4>1 DEF RecLinked, WithArray, Protecting
    <3>2. CASE ~RecLinked(t)
      BY <2>2, <3>2 DEF OnRecords, RecMade, RecPublished, PublishMissed, OnlyGoes, WithArray, Protecting
    <3> QED BY <3>1, <3>2
  <2>3. CASE OnSlots(t)
    <3>1. loc[t].got # <<>> /\ loc'[t].got = loc[t].got /\ loc'[t].pc \notin {"lock", "walk"}
      BY <2>3 DEF LocalInv, WithArray, OnSlots, ProtectBegun, HazardSet, Protected, ProtectMissed, SlotReset,
         Dropped, At, OnlyGoes, OnlyChain, SameArray
    <3>2. loc'[t].pc \in Protecting => loc'[t].i \in DOMAIN loc[t].got
      BY <2>3 DEF LocalInv, Protecting, OnSlots, ProtectBegun, HazardSet, Protected, ProtectMissed, SlotReset,
         Dropped, At, OnlyGoes, OnlyChain, SameSlot
    <3> QED BY <3>1, <3>2
  <2>4. CASE Loaded(t)
    BY <2>4 DEF Loaded, IsNull, WithArray, Protecting
  <2>5. CASE LockTaken(t)
    <3>1. loc[t].avail \in Tagged /\ loc[t].avail # Untagged(Null)
      BY <2>0, <2>5 DEF LockTaken, LocalInv, Local
    <3>2. ~loc[t].avail.locked => loc[t].avail.addr \in Rec
      BY <3>1 DEF Tagged, Untagged, PtrOf
    <3> QED BY <2>5, <3>2 DEF LockTaken, WithArray, Protecting
  <2>6. CASE Walked(t)
    <3>1. loc[t].tail \in Rec /\ available[loc[t].tail] \in PtrOf(Rec)
      BY <2>6 DEF Walked, LocalInv, Types
    <3> QED BY <2>6, <3>1, Pointers DEF Walked, WithArray, Protecting
  <2>7. CASE StolenTaken(t)
    BY <2>1, <2>7 DEF StolenTaken, WithArray, Protecting
  <2>8. CASE PushBegun(t) \/ PushMissed(t)
    <3>1. loc[t].got # <<>> /\ loc'[t].got = loc[t].got
      BY <2>8 DEF PushBegun, PushMissed, LocalInv, WithArray, At, OnlyChain, SameArray
    <3> QED BY <2>8, <3>1 DEF PushBegun, PushMissed, Protecting
  <2>9. CASE Acquired(t) \/ LockMissed(t) \/ Unlocked(t) \/ TailCut(t) \/ Pushed(t)
    BY <2>9 DEF Acquired, LockMissed, Unlocked, TailCut, Pushed, Restarts, OnlyGoes, WithArray, Protecting
  <2> QED BY <2>0, <2>2, <2>3, <2>4, <2>5, <2>6, <2>7, <2>8, <2>9 DEF OnAvailable
<1>2. CASE UNCHANGED loc
  BY <1>2 DEF LocalInv, At
<1> QED BY <1>1, <1>2 DEF Next, SwapAndRetire, Reclaim, vars

(***************************************************************************)
(* The list of all records.                                                *)
(***************************************************************************)
\* A step that does not concern the list leaves it and the records being
\* published alone.
ListKept(t) ==
  /\ UNCHANGED <<head, next, used, count>>
  /\ loc[t].pc \notin {"publish", "link"} /\ loc'[t].pc \notin {"publish", "link"}

LEMMA ListIsKept ==
  ASSUME NEW t \in Thread, OnSlots(t) \/ OnAvailable(t) PROVE ListKept(t)
<1>1. CASE OnSlots(t)
  BY <1>1 DEF OnSlots, ProtectBegun, HazardSet, Protected, ProtectMissed, SlotReset, Dropped,
     ListKept, recVars, At, OnlyGoes
<1>2. CASE OnAvailable(t)
  BY <1>2 DEF OnAvailable, Acquired, Loaded, LockMissed, LockTaken, Walked, Unlocked, TailCut,
     StolenTaken, PushBegun, Pushed, PushMissed, ListKept, recVars, At, OnlyGoes, Restarts, Given
<1> QED BY <1>1, <1>2

\* A step publishes the record of its thread, or none.
LEMMA PublishedStep ==
  ASSUME Types, NewInv, NEW t \in Thread, Frame(t), OnRecords(t) \/ ListKept(t)
  PROVE  Published' = Published \cup {r \in Rec : RecPublished(t) /\ r = loc[t].rec}
<1>1. CASE ListKept(t)
  BY <1>1 DEF ListKept, Published, RecPublished, Frame, At
<1>2. CASE \E r \in Rec : RecMade(t, r)
  BY <1>2 DEF RecMade, RecPublished, Published, Frame, At, NewInv
<1>3. CASE RecPublished(t)
  <2>1. loc[t].rec \in used /\ loc[t].rec \in Rec /\ loc[t].pc = "publish" /\ loc'[t].pc = "link" /\ used' = used
    BY <1>3 DEF RecPublished, NewInv, Types, OnlyGoes, At
  <2>2. \A u \in Thread : u # t /\ loc[u].pc = "publish" => loc[u].rec # loc[t].rec
    BY <2>1 DEF NewInv, At
  <2> QED BY <1>3, <2>1, <2>2 DEF Published, Frame, At
<1>4. CASE PublishMissed(t)
  BY <1>4 DEF PublishMissed, RecPublished, Published, Frame, At, OnlyGoes
<1>5. CASE RecLinked(t)
  <2>1. loc[t].pc = "link" /\ loc'[t].pc # "publish" /\ used' = used
    BY <1>5 DEF RecLinked, Given, Restarts, At
  <2> QED BY <2>1 DEF RecPublished, Published, Frame, At
<1> QED BY <1>1, <1>2, <1>3, <1>4, <1>5 DEF OnRecords

LEMMA NewStep ==
  ASSUME Types, LocalInv, NewInv, [Next]_vars PROVE NewInv'
<1>1. ASSUME NEW t \in Thread, Step(t) PROVE NewInv'
  <2>0. Frame(t) /\ (OnRecords(t) \/ ListKept(t))
    BY <1>1, StepSummary, ListIsKept
  <2>p. Published' = Published \cup {r \in Rec : RecPublished(t) /\ r = loc[t].rec}
    BY <2>0, PublishedStep
  <2>1. CASE ListKept(t)
    <3>1. Published \subseteq Published'
      BY <2>p
    <3> QED BY <2>0, <2>1, <3>1 DEF ListKept, NewInv, Frame, At
  <2>2. ASSUME NEW r \in Rec, RecMade(t, r) PROVE NewInv'
    <3>1. /\ loc'[t].pc = "publish" /\ loc'[t].rec = r /\ loc'[t].seen = head /\ r \notin used
          /\ used' = used \cup {r} /\ next'[r] = head
          /\ \A q \in used : next'[q] = next[q]
      BY <2>2 DEF RecMade, Types
    <3>2. Published \subseteq Published'
      BY <2>p
    <3>3. \A u \in Thread : u # t /\ loc[u].pc = "publish" => loc[u].rec \in used
      BY DEF NewInv, At
    <3> QED BY <2>0, <3>1, <3>2, <3>3 DEF NewInv, Frame, At
  <2>3. CASE RecPublished(t)
    <3>1. /\ loc[t].pc = "publish" /\ loc'[t].pc = "link" /\ loc'[t].rec = loc[t].rec
          /\ used' = used /\ next' = next
      BY <2>3 DEF RecPublished, OnlyGoes, OnlyChain, SameNew, At
    <3>2. Published \subseteq Published' /\ loc[t].rec \in Published'
      <4>1. loc[t].rec \in Rec
        BY <3>1 DEF NewInv, Types, At
      <4> QED BY <2>p, <2>3, <4>1
    <3> QED BY <2>0, <3>1, <3>2 DEF NewInv, Frame, At
  <2>4. CASE PublishMissed(t)
    <3>1. /\ loc[t].pc = "publish" /\ loc'[t].pc = "publish" /\ loc'[t].rec = loc[t].rec
          /\ loc'[t].seen = head /\ used' = used
      BY <2>4 DEF PublishMissed, At
    <3>2. next'[loc[t].rec] = head /\ \A q \in Rec : q # loc[t].rec => next'[q] = next[q]
      <4>1. loc[t].rec \in Rec
        BY <3>1 DEF NewInv, Types, At
      <4> QED BY <2>4, <4>1 DEF PublishMissed, Types
    <3>3. Published \subseteq Published'
      BY <2>p
    <3>4. \A u \in Thread : u # t /\ loc[u].pc = "publish" => loc[u].rec \in Rec /\ loc[u].rec # loc[t].rec
      BY <3>1 DEF NewInv, At, Types
    <3> QED BY <2>0, <3>1, <3>2, <3>3, <3>4 DEF NewInv, Frame, At
  <2>5. CASE RecLinked(t)
    <3>1. loc[t].pc = "link" /\ loc'[t].pc \notin {"publish", "link"} /\ used' = used /\ next' = next
      BY <2>5 DEF RecLinked, Given, Restarts, At
    <3>2. Published \subseteq Published'
      BY <2>p
    <3> QED BY <2>0, <3>1, <3>2 DEF NewInv, Frame, At
  <2> QED BY <2>0, <2>1, <2>2, <2>3, <2>4, <2>5 DEF OnRecords
<1>2. CASE UNCHANGED <<loc, used, next>>
  BY <1>2 DEF NewInv, Published, At
<1> QED BY <1>1, <1>2 DEF Next, SwapAndRetire, Reclaim, vars, recVars

\* Writing to the link of a record that is not published changes no walk.
LEMMA UnlistedWrite ==
  ASSUME Types, ListInv, head' = head, Published' = Published,
         \A q \in Published : next'[q] = next[q]
  PROVE  ListInv'
<1> DEFINE P == Published
<1>1. P \subseteq Rec /\ WalkClosed(P)
  BY DEF Published, Types, ListInv
<1>2. WalkClosed(P)'
  BY <1>1 DEF WalkClosed
<1>3. ASSUME NEW S \in SUBSET Rec, WalkClosed(S)' PROVE P' \subseteq S
  <2>1. WalkClosed(S \cap P)
    BY <1>1, <1>3 DEF WalkClosed
  <2>2. S \cap P \in SUBSET Rec
    OBVIOUS
  <2> QED BY <2>1, <2>2 DEF ListInv
<1>4. \A r \in P' : next'[r] # head'
  BY DEF ListInv
<1>5. \A r, s \in P' : next'[r] = next'[s] => r = s
  BY DEF ListInv
<1> QED BY <1>2, <1>3, <1>4, <1>5 DEF ListInv

\* A compare-and-exchange that succeeds puts the record before the whole list.
LEMMA FrontInsert ==
  ASSUME Types, ListInv, NEW r \in Rec \ Published, next[r] = head, head' = r, next' = next,
         Published' = Published \cup {r}
  PROVE  ListInv'
<1> DEFINE P == Published
<1>1. P \subseteq Rec /\ WalkClosed(P) /\ head \in PtrOf(P) /\ r # Null /\ Null \notin P
  BY NullAssumption DEF Published, Types, ListInv, WalkClosed, PtrOf
<1>2. \A q \in P : next[q] \in PtrOf(P)
  BY <1>1 DEF WalkClosed, PtrOf
<1> HIDE DEF P
<1>3. WalkClosed(P)'
  <2>1. P' = P \cup {r}
    BY DEF P
  <2> QED BY <1>1, <1>2, <2>1 DEF WalkClosed, PtrOf
<1>4. ASSUME NEW S \in SUBSET Rec, WalkClosed(S)' PROVE P' \subseteq S
  <2>1. r \in S /\ (head # Null => head \in S)
    BY <1>1, <1>4 DEF WalkClosed
  <2>2. WalkClosed(S)
    BY <1>4, <2>1 DEF WalkClosed
  <2> QED BY <2>1, <2>2 DEF ListInv, P
<1>5. \A q \in P' : next'[q] # head'
  BY <1>1, <1>2 DEF PtrOf, P
<1>6. \A q, s \in P' : next'[q] = next'[s] => q = s
  BY DEF ListInv, P
<1> QED BY <1>3, <1>4, <1>5, <1>6 DEF ListInv, P

LEMMA ListStep ==
  ASSUME Types, LocalInv, NewInv, ListInv, [Next]_vars PROVE ListInv'
<1>1. ASSUME NEW t \in Thread, Step(t) PROVE ListInv'
  <2>0. Frame(t) /\ (OnRecords(t) \/ ListKept(t))
    BY <1>1, StepSummary, ListIsKept
  <2>p. Published' = Published \cup {r \in Rec : RecPublished(t) /\ r = loc[t].rec}
    BY <2>0, PublishedStep
  <2>1. CASE RecPublished(t)
    <3>1. /\ loc[t].rec \in Rec /\ loc[t].rec \notin Published /\ next[loc[t].rec] = head
          /\ head' = loc[t].rec /\ next' = next
      BY <2>1 DEF RecPublished, NewInv, Types, Published, At
    <3>2. Published' = Published \cup {loc[t].rec}
      BY <2>p, <2>1, <3>1
    <3> QED BY <3>1, <3>2, FrontInsert
  <2>2. CASE ~RecPublished(t)
    <3>1. Published' = Published
      BY <2>p, <2>2
    <3>2. head' = head /\ \A q \in Published : next'[q] = next[q]
      <4>1. CASE \E r \in Rec : RecMade(t, r)
        BY <4>1 DEF RecMade, Types, Published
      <4>2. CASE PublishMissed(t)
        <5>1. loc[t].rec \notin Published /\ head' = head
          BY <4>2 DEF PublishMissed, Published, At
        <5> QED BY <4>2, <5>1 DEF PublishMissed, Types, Published
      <4>3. CASE RecLinked(t) \/ ListKept(t)
        BY <4>3 DEF RecLinked, ListKept
      <4> QED BY <2>0, <2>2, <4>1, <4>2, <4>3 DEF OnRecords
    <3> QED BY <3>1, <3>2, UnlistedWrite
  <2> QED BY <2>1, <2>2
<1>2. CASE UNCHANGED <<head, next, used, loc>>
  BY <1>2 DEF ListInv, WalkClosed, Published, At
<1> QED BY <1>1, <1>2 DEF Next, SwapAndRetire, Reclaim, vars, recVars

LEMMA CountStep ==
  ASSUME Types, LocalInv, NewInv, CountInv, [Next]_vars PROVE CountInv'
<1>1. ASSUME NEW t \in Thread, Step(t) PROVE CountInv'
  <2>0. Frame(t) /\ (OnRecords(t) \/ ListKept(t))
    BY <1>1, StepSummary, ListIsKept
  <2>p. Published' = Published \cup {r \in Rec : RecPublished(t) /\ r = loc[t].rec}
    BY <2>0, PublishedStep
  <2>f. IsFiniteSet(Published) /\ IsFiniteSet(Linkers) /\ Cardinality(Published) \in Nat
        /\ Cardinality(Linkers) \in Nat /\ count \in Nat
    BY FS_Subset, FS_CardinalityType DEF Published, CountInv
  <2>1. CASE RecPublished(t)
    <3>1. loc[t].rec \in Rec /\ loc[t].rec \notin Published
      BY <2>1 DEF RecPublished, NewInv, Types, Published, At
    <3>2. Published' = Published \cup {loc[t].rec}
      BY <2>p, <2>1, <3>1
    <3>3. loc[t].pc = "publish" /\ loc'[t].pc = "link" /\ count' = count /\ used' = used
      BY <2>1 DEF RecPublished, OnlyGoes, At
    <3>4. Linkers' = Linkers \cup {t} /\ t \notin Linkers
      BY <2>0, <3>3 DEF Linkers, Frame, At
    <3>5. /\ Cardinality(Published') = Cardinality(Published) + 1
          /\ IsFiniteSet(Linkers') /\ Cardinality(Linkers') = Cardinality(Linkers) + 1
      BY <2>f, <3>1, <3>2, <3>4, FS_AddElement
    <3> QED BY <2>f, <3>3, <3>5 DEF CountInv
  <2>2. CASE RecLinked(t)
    <3>1. loc[t].pc = "link" /\ loc'[t].pc # "link" /\ count' = count + 1 /\ used' = used
      BY <2>2 DEF RecLinked, Given, Restarts, At
    <3>2. Published' = Published
      BY <2>p, <3>1 DEF RecPublished, At
    <3>3. Linkers' = Linkers \ {t} /\ t \in Linkers
      BY <2>0, <3>1 DEF Linkers, Frame, At
    <3>4. IsFiniteSet(Linkers') /\ Cardinality(Linkers') = Cardinality(Linkers) - 1
      BY <2>f, <3>3, FS_RemoveElement
    <3> QED BY <2>f, <3>1, <3>2, <3>4 DEF CountInv
  <2>3. CASE ~RecPublished(t) /\ ~RecLinked(t)
    <3>1. Published' = Published
      BY <2>p, <2>3
    <3>2. loc[t].pc # "link" /\ loc'[t].pc # "link" /\ count' = count
      BY <2>0, <2>3 DEF OnRecords, RecMade, PublishMissed, ListKept, At
    <3>3. Linkers' = Linkers
      BY <2>0, <3>2 DEF Linkers, Frame, At
    <3>4. IsFiniteSet(used')
      <4>1. \/ used' = used
            \/ \E r \in Rec : used' = used \cup {r}
        BY <2>0, <2>3 DEF OnRecords, RecMade, PublishMissed, ListKept
      <4> QED BY <4>1, FS_AddElement DEF CountInv
    <3> QED BY <3>1, <3>2, <3>3, <3>4 DEF CountInv
  <2> QED BY <2>1, <2>2, <2>3
<1>2. CASE UNCHANGED <<used, count, loc>>
  BY <1>2 DEF CountInv, Published, Linkers, At
<1> QED BY <1>1, <1>2 DEF Next, SwapAndRetire, Reclaim, vars, recVars

(***************************************************************************)
(* The available list and the arrays.                                      *)
(***************************************************************************)
LEMMA GivenGrows ==
  ASSUME Types, NEW t \in Thread, NEW r \in Rec, Given(t, r)
  PROVE  Owned(t)' = Owned(t) \cup {r}
<1>1. loc[t].got \in Seq(Rec) /\ loc'[t].got = Append(loc[t].got, r)
  BY DEF Types, Local, Given, Restarts
<1>2. Range(Append(loc[t].got, r)) = Range(loc[t].got) \cup {r}
  <2> DEFINE s == loc[t].got
  <2>1. s \in Seq(Rec)
    BY <1>1
  <2> HIDE DEF s
  <2>2. /\ DOMAIN Append(s, r) = DOMAIN s \cup {Len(s) + 1} /\ Append(s, r)[Len(s) + 1] = r
        /\ \A i \in DOMAIN s : Append(s, r)[i] = s[i]
    BY <2>1
  <2>3. Range(Append(s, r)) = Range(s) \cup {r}
    BY <2>2 DEF Range
  <2> QED BY <2>3 DEF s
<1> QED BY <1>1, <1>2 DEF Owned

\* Every step keeps the other threads' arrays, and its own too unless it is
\* given a record, or the array is new or gone.
LEMMA OwnedStep ==
  ASSUME Types, NEW t \in Thread, Frame(t), OnRecords(t) \/ OnSlots(t) \/ OnAvailable(t)
  PROVE  /\ \A u \in Thread : u # t => Owned(u)' = Owned(u)
         /\ \/ StolenTaken(t) /\ Owned(t)' = Owned(t) \cup {loc[t].cur}
            \/ RecLinked(t) /\ Owned(t)' = Owned(t) \cup {loc[t].rec}
            \/ (Acquired(t) \/ Pushed(t)) /\ Owned(t)' = {}
            \/ ~StolenTaken(t) /\ ~RecLinked(t) /\ ~Acquired(t) /\ ~Pushed(t) /\ SameArray(t) /\ Owned(t)' = Owned(t)
<1>1. \A u \in Thread : u # t => Owned(u)' = Owned(u)
  BY DEF Frame, Owned
<1>2. CASE StolenTaken(t)
  BY <1>1, <1>2, GivenGrows DEF StolenTaken
<1>3. CASE RecLinked(t)
  <2>1. loc[t].rec \in Rec
    BY <1>3 DEF RecLinked, Published, Types
  <2> QED BY <1>1, <1>3, <2>1, GivenGrows DEF RecLinked
<1>4. CASE Acquired(t) \/ Pushed(t)
  <2>1. loc'[t].got = <<>>
    BY <1>4 DEF Acquired, Pushed, Restarts
  <2>2. Owned(t)' = {}
    BY <2>1 DEF Owned, Range
  <2> QED BY <1>1, <1>4, <2>2
<1>5. CASE ~StolenTaken(t) /\ ~RecLinked(t) /\ ~Acquired(t) /\ ~Pushed(t)
  <2>1. SameArray(t)
    BY <1>5 DEF OnRecords, RecMade, RecPublished, PublishMissed, OnSlots, ProtectBegun, HazardSet,
       Protected, ProtectMissed, SlotReset, Dropped, OnAvailable, Loaded, LockMissed, LockTaken, Walked,
       Unlocked, TailCut, PushBegun, PushMissed, OnlyGoes, OnlyChain
  <2>2. Owned(t)' = Owned(t)
    BY <2>1 DEF SameArray, Owned
  <2> QED BY <1>1, <1>5, <2>1, <2>2
<1> QED BY <1>2, <1>3, <1>4, <1>5

LEMMA ChainStep ==
  ASSUME Types, LocalInv, NewInv, ChainInv, [Next]_vars PROVE ChainInv'
<1>1. ASSUME NEW t \in Thread, Step(t) PROVE ChainInv'
  <2>0. Frame(t) /\ (OnRecords(t) \/ OnSlots(t) \/ OnAvailable(t)) /\ loc[t] \in Local
    BY <1>1, StepSummary DEF Types
  <2> DEFINE Q == PtrOf(Published)
  <2>p. Published \subseteq Published'
    BY <2>0, PublishedStep, ListIsKept
  <2>q. /\ Q \subseteq Q' /\ Null \in Q /\ Untagged(Null).addr = Null
        /\ \A r \in Published : r \in Q
    BY <2>p DEF PtrOf, Untagged
  <2>c. /\ availHead.addr \in Q /\ loc[t].avail.addr \in Q /\ loc[t].cur \in Q /\ loc[t].tail \in Q
        /\ \A r \in Rec : available[r] \in Q
        /\ Owned(t) \subseteq Published
    BY DEF ChainInv
  <2>o. \A u \in Thread : u # t => /\ loc'[u].avail.addr \in Q /\ loc'[u].cur \in Q
                                   /\ loc'[u].tail \in Q /\ Owned(u)' \subseteq Published
    BY <2>0, OwnedStep DEF ChainInv, Frame
  <2> HIDE DEF Q
  <2>1. availHead'.addr \in Q
    <3>1. CASE Unlocked(t)
      BY <2>c, <3>1 DEF Unlocked, Untagged
    <3>2. CASE Pushed(t)
      <4>1. loc[t].got \in Seq(Rec) /\ loc[t].got # <<>>
        BY <2>0, <3>2 DEF Pushed, LocalInv, WithArray, At, Local
      <4>2. Head(loc[t].got) \in Owned(t)
        BY <4>1 DEF Owned, Range
      <4> QED BY <2>c, <2>q, <3>2, <4>2 DEF Pushed, Untagged
    <3>3. CASE ~Unlocked(t) /\ ~Pushed(t)
      <4>1. availHead'.addr = availHead.addr
        BY <2>0, <3>3 DEF OnRecords, RecMade, RecPublished, PublishMissed, RecLinked, OnSlots, ProtectBegun,
           HazardSet, Protected, ProtectMissed, SlotReset, Dropped, OnAvailable, Acquired, Loaded,
           LockMissed, LockTaken, Walked, TailCut, StolenTaken, PushBegun, PushMissed, availVars
      <4> QED BY <2>c, <4>1
    <3> QED BY <3>1, <3>2, <3>3
  <2>2. \A r \in Rec : available'[r] \in Q
    <3>1. \/ available' = available
          \/ \E a, b : b \in Q /\ available' = [available EXCEPT ![a] = b]
      <4>1. CASE TailCut(t)
        BY <2>q, <4>1 DEF TailCut
      <4>2. CASE PushBegun(t)
        BY <2>c, <4>2 DEF PushBegun
      <4>3. CASE RecLinked(t)
        BY <2>q, <4>3 DEF RecLinked
      <4>4. CASE ~TailCut(t) /\ ~PushBegun(t) /\ ~RecLinked(t)
        BY <2>0, <4>4 DEF OnRecords, RecMade, RecPublished, PublishMissed, OnSlots, ProtectBegun,
           HazardSet, Protected, ProtectMissed, SlotReset, Dropped, OnAvailable, Acquired, Loaded,
           LockMissed, LockTaken, Walked, Unlocked, StolenTaken, Pushed, PushMissed, availVars
      <4> QED BY <4>1, <4>2, <4>3, <4>4
    <3> QED BY <2>c, <3>1 DEF Types
  <2>3. Owned(t)' \subseteq Published
    <3>1. StolenTaken(t) => loc[t].cur \in Published
      BY <2>c, NullAssumption DEF StolenTaken, Q, PtrOf
    <3>2. RecLinked(t) => loc[t].rec \in Published
      BY DEF RecLinked
    <3> QED BY <2>0, <2>c, <3>1, <3>2, OwnedStep
  <2>4. loc'[t].avail.addr \in Q /\ loc'[t].cur \in Q /\ loc'[t].tail \in Q
    <3>1. ASSUME NEW r \in Published, Given(t, r) PROVE loc'[t].avail.addr \in Q /\ loc'[t].cur \in Q /\ loc'[t].tail \in Q
      <4>1. r \in Rec
        BY DEF Published, Types
      <4> QED BY <2>c, <2>q, <3>1, <4>1 DEF Given, Restarts
    <3>2. CASE OnRecords(t)
      BY <2>c, <3>1, <3>2 DEF OnRecords, RecMade, RecPublished, PublishMissed, RecLinked, OnlyGoes, SameChain
    <3>3. CASE OnSlots(t)
      BY <2>c, <3>3 DEF OnSlots, ProtectBegun, HazardSet, Protected, ProtectMissed, SlotReset, Dropped,
         OnlyGoes, SameChain
    <3>4. CASE StolenTaken(t)
      <4>1. loc[t].cur \in Published
        BY <2>c, <3>4, NullAssumption DEF StolenTaken, Q, PtrOf
      <4> QED BY <3>1, <3>4, <4>1 DEF StolenTaken
    <3>5. CASE Walked(t)
      <4>1. loc[t].tail \in Rec
        BY <3>5 DEF Walked, LocalInv
      <4> QED BY <2>c, <3>5, <4>1 DEF Walked
    <3>6. CASE Acquired(t) \/ Pushed(t)
      BY <2>q, <3>6 DEF Acquired, Pushed, Restarts
    <3>7. CASE Loaded(t) \/ LockMissed(t) \/ LockTaken(t) \/ Unlocked(t) \/ TailCut(t) \/ PushBegun(t) \/ PushMissed(t)
      BY <2>c, <2>q, <3>7 DEF Loaded, LockMissed, LockTaken, Unlocked, TailCut, PushBegun, PushMissed,
         OnlyGoes, SameChain
    <3> QED BY <2>0, <3>2, <3>3, <3>4, <3>5, <3>6, <3>7 DEF OnAvailable
  <2>5. \A u \in Thread : /\ loc'[u].avail.addr \in Q /\ loc'[u].cur \in Q
                          /\ loc'[u].tail \in Q /\ Owned(u)' \subseteq Published
    BY <2>o, <2>3, <2>4
  <2> QED BY <2>p, <2>q, <2>1, <2>2, <2>5 DEF ChainInv, Q
<1>2. CASE UNCHANGED <<used, availHead, available, loc>>
  BY <1>2 DEF ChainInv, Published, At, Owned
<1> QED BY <1>1, <1>2 DEF Next, SwapAndRetire, Reclaim, vars, recVars, availVars

(***************************************************************************)
(* Hazard slots.                                                           *)
(***************************************************************************)
\* A step writes only to slots of its own array.
LEMMA SlotWrites ==
  ASSUME Types, LocalInv, NEW t \in Thread, OnRecords(t) \/ OnSlots(t) \/ OnAvailable(t)
  PROVE  /\ \A r \in Rec : r \notin Owned(t) => ptr'[r] = ptr[r]
         /\ UNCHANGED <<src, retired, freed>> /\ shared \subseteq shared'
<1>1. /\ UNCHANGED <<src, retired, freed>> /\ shared \subseteq shared'
      /\ OnRecords(t) \/ OnAvailable(t) => ptr' = ptr
  BY DEF OnRecords, RecMade, RecPublished, PublishMissed, RecLinked, OnSlots, ProtectBegun,
     HazardSet, Protected, ProtectMissed, SlotReset, Dropped, OnAvailable, Acquired, Loaded,
     LockMissed, LockTaken, Walked, Unlocked, TailCut, StolenTaken, PushBegun, Pushed,
     PushMissed, objVars, Given
<1>2. CASE HazardSet(t) \/ ProtectMissed(t)
  <2>1. Slot(t) \in Owned(t)
    BY <1>2, SlotIsOwned DEF HazardSet, ProtectMissed, At, Protecting
  <2> QED BY <1>1, <1>2, <2>1 DEF HazardSet, ProtectMissed, Types
<1>3. CASE (\E r \in Rec : SlotReset(t, r)) \/ Dropped(t)
  BY <1>1, <1>3 DEF SlotReset, Dropped, Cleared, Types
<1>4. CASE OnRecords(t) \/ OnAvailable(t) \/ Protected(t) \/ (\E i \in Nat : ProtectBegun(t, i))
  BY <1>1, <1>4 DEF Protected, ProtectBegun
<1> QED BY <1>2, <1>3, <1>4 DEF OnSlots

\* What thread t holds and what it is about to hold are in its slots.
Held(t) ==
  /\ \A h \in loc[t].held :
       /\ h[1] \in Owned(t)
       /\ h[1] \in shared \/ (ptr[h[1]] = h[2] /\ h[2] \notin freed)
  /\ At(t, "recheck") => Slot(t) \in shared \/ ptr[Slot(t)] = loc[t].p
  /\ loc[t].pc \in Protecting => \A h \in loc[t].held : h[1] # Slot(t)

LEMMA HazardInvParts ==
  HazardInv <=> /\ src \notin retired
                /\ \A t, u \in Thread : t # u => Owned(t) \cap Owned(u) \subseteq shared
                /\ \A t \in Thread : Held(t)
BY DEF HazardInv, Held

\* The slots another thread writes to are not those of u, unless shared.
LEMMA OthersHeld ==
  ASSUME Types, LocalInv, HazardInv, NEW t \in Thread, Frame(t), NEW u \in Thread, u # t,
         OnRecords(t) \/ OnSlots(t) \/ OnAvailable(t)
  PROVE  Held(u)'
<1>1. /\ \A r \in Rec : r \notin Owned(t) => ptr'[r] = ptr[r]
      /\ freed' = freed /\ shared \subseteq shared'
  BY SlotWrites
<1>2. loc'[u] = loc[u] /\ Owned(u)' = Owned(u) /\ Slot(u)' = Slot(u) /\ Owned(u) \subseteq Rec
  BY DEF Frame, Owned, Slot, Types, Local, Range
<1>3. \A r \in Owned(u) : r \in shared \/ ptr'[r] = ptr[r]
  BY <1>1, <1>2 DEF HazardInv
<1>4. loc[u].pc \in Protecting => Slot(u) \in Owned(u)
  BY SlotIsOwned
<1>5. Held(u)
  BY HazardInvParts
<1> QED BY <1>1, <1>2, <1>3, <1>4, <1>5 DEF Held, At, Protecting

LEMMA OwnHeld ==
  ASSUME Types, LocalInv, HazardInv, NEW t \in Thread, Frame(t),
         OnRecords(t) \/ OnSlots(t) \/ OnAvailable(t)
  PROVE  Held(t)'
<1>0. /\ \A r \in Rec : r \notin Owned(t) => ptr'[r] = ptr[r]
      /\ freed' = freed /\ src' = src /\ shared \subseteq shared'
  BY SlotWrites
<1>h. Held(t) /\ Owned(t) \subseteq Rec
  BY HazardInvParts DEF Owned, Range, Types, Local
<1>1. CASE OnRecords(t) \/ OnAvailable(t)
  <2>1. loc'[t].pc \notin Protecting /\ loc'[t].pc # "recheck" /\ ptr' = ptr
    BY <1>1 DEF Protecting, OnRecords, RecMade, RecPublished, PublishMissed, RecLinked, OnAvailable,
       Acquired, Loaded, LockMissed, LockTaken, Walked, Unlocked, TailCut, StolenTaken, PushBegun,
       Pushed, PushMissed, OnlyGoes, Given, Restarts
  <2>2. loc'[t].held = {} \/ (loc'[t].held = loc[t].held /\ Owned(t) \subseteq Owned(t)')
    <3>1. CASE Acquired(t) \/ Pushed(t)
      BY <3>1 DEF Acquired, Pushed, Restarts
    <3>2. CASE ~Acquired(t) /\ ~Pushed(t)
      <4>1. Owned(t) \subseteq Owned(t)'
        BY <1>1, <3>2, OwnedStep
      <4>2. loc'[t].held = {} \/ loc'[t].held = loc[t].held
        BY <1>1, <3>2 DEF OnRecords, RecMade, RecPublished, PublishMissed, RecLinked, OnAvailable,
           Loaded, LockMissed, LockTaken, Walked, Unlocked, TailCut, StolenTaken, PushBegun,
           PushMissed, OnlyGoes, OnlyChain, SameHeld, Given, Restarts
      <4> QED BY <4>1, <4>2
    <3> QED BY <3>1, <3>2
  <2> QED BY <1>0, <1>h, <2>1, <2>2 DEF Held, At
<1>2. ASSUME NEW i \in Nat, ProtectBegun(t, i) PROVE Held(t)'
  <2>1. /\ loc'[t].pc = "protect" /\ loc'[t].held = {h \in loc[t].held : h[1] # loc[t].got[i]}
        /\ ptr' = ptr /\ loc'[t].got = loc[t].got /\ loc'[t].i = i
    BY <1>2 DEF ProtectBegun, Drops, SameArray
  <2>2. Owned(t)' = Owned(t) /\ Slot(t)' = loc[t].got[i]
    BY <2>1 DEF Owned, Slot
  <2> QED BY <1>0, <1>h, <2>1, <2>2 DEF Held, At
<1>3. CASE HazardSet(t)
  <2>1. /\ loc[t].pc = "protect" /\ loc'[t].pc = "recheck" /\ loc'[t].held = loc[t].held
        /\ loc'[t].got = loc[t].got /\ loc'[t].i = loc[t].i /\ loc'[t].p = loc[t].p
        /\ ptr' = [ptr EXCEPT ![Slot(t)] = loc[t].p]
    BY <1>3 DEF HazardSet, OnlyGoes, OnlyChain, SameArray, SameSlot, SameHeld, At
  <2>2. Slot(t) \in Rec /\ Owned(t)' = Owned(t) /\ Slot(t)' = Slot(t)
    BY <2>1, SlotIsOwned DEF Owned, Slot, Protecting
  <2>3. ptr'[Slot(t)] = loc[t].p /\ \A r \in Rec : r # Slot(t) => ptr'[r] = ptr[r]
    BY <2>1, <2>2 DEF Types
  <2>4. \A h \in loc[t].held : h[1] # Slot(t) /\ h[1] \in Rec
    BY <1>h, <2>1 DEF Held, Protecting
  <2> QED BY <1>0, <1>h, <2>1, <2>2, <2>3, <2>4 DEF Held, At
<1>4. CASE Protected(t)
  <2>1. /\ loc[t].pc = "recheck" /\ loc'[t].pc = "own" /\ src = loc[t].p /\ ptr' = ptr
        /\ loc'[t].held = loc[t].held \cup {<<Slot(t), o>> : o \in {src} \cap Obj}
        /\ loc'[t].got = loc[t].got
    BY <1>4 DEF Protected, SameArray, At
  <2>2. Slot(t) \in Owned(t) /\ Owned(t)' = Owned(t)
    BY <2>1, SlotIsOwned DEF Owned, Protecting
  <2>3. src \notin freed /\ (Slot(t) \in shared \/ ptr[Slot(t)] = src)
    BY <2>1 DEF HazardInv, Types, At
  <2>4. \A h \in loc'[t].held : h \in loc[t].held \/ (h[1] = Slot(t) /\ h[2] = src)
    BY <2>1
  <2> QED BY <1>0, <1>h, <2>1, <2>2, <2>3, <2>4 DEF Held, At, Protecting
<1>5. CASE ProtectMissed(t)
  <2>1. /\ loc[t].pc = "recheck" /\ loc'[t].pc = "protect" /\ loc'[t].held = loc[t].held
        /\ loc'[t].got = loc[t].got /\ loc'[t].i = loc[t].i
        /\ ptr' = [ptr EXCEPT ![Slot(t)] = Null]
    BY <1>5 DEF ProtectMissed, SameArray, SameHeld, At
  <2>2. Slot(t) \in Rec /\ Owned(t)' = Owned(t) /\ Slot(t)' = Slot(t)
    BY <2>1, SlotIsOwned DEF Owned, Slot, Protecting
  <2>3. \A r \in Rec : r # Slot(t) => ptr'[r] = ptr[r]
    BY <2>1, <2>2 DEF Types
  <2>4. \A h \in loc[t].held : h[1] # Slot(t) /\ h[1] \in Rec
    BY <1>h, <2>1 DEF Held, Protecting
  <2> QED BY <1>0, <1>h, <2>1, <2>2, <2>3, <2>4 DEF Held, At
<1>6. ASSUME NEW r \in Rec, SlotReset(t, r) PROVE Held(t)'
  <2>1. /\ loc'[t].pc = "own" /\ loc'[t].held = {h \in loc[t].held : h[1] # r}
        /\ ptr' = [ptr EXCEPT ![r] = Null] /\ loc'[t].got = loc[t].got
    BY <1>6 DEF SlotReset, Drops, SameArray
  <2>2. Owned(t)' = Owned(t) /\ \A q \in Rec : q # r => ptr'[q] = ptr[q]
    BY <2>1 DEF Owned, Types
  <2> QED BY <1>0, <1>h, <2>1, <2>2 DEF Held, At, Protecting
<1>7. CASE Dropped(t)
  BY <1>7 DEF Dropped, Held, At, Protecting
<1> QED BY <1>1, <1>2, <1>3, <1>4, <1>5, <1>6, <1>7 DEF OnSlots

LEMMA HazardStep ==
  ASSUME Types, LocalInv, NewInv, ListInv, ChainInv, HazardInv, [Next]_vars PROVE HazardInv'
<1>1. ASSUME NEW t \in Thread, Step(t) PROVE HazardInv'
  <2>0. Frame(t) /\ (OnRecords(t) \/ OnSlots(t) \/ OnAvailable(t))
    BY <1>1, StepSummary
  <2>1. (src \notin retired)' /\ shared \subseteq shared'
    BY <2>0, SlotWrites DEF HazardInv
  <2>2. ASSUME NEW a \in Thread, NEW b \in Thread, a # b PROVE (Owned(a) \cap Owned(b) \subseteq shared)'
    <3>1. Owned(a) \cap Owned(b) \subseteq shared
      BY <2>2 DEF HazardInv
    <3>2. ASSUME NEW r, Owned(t)' = Owned(t) \cup {r}, Given(t, r) PROVE (Owned(a) \cap Owned(b) \subseteq shared)'
      <4>1. \A u \in Thread : u # t => Owned(u)' = Owned(u) /\ (r \in Owned(u) => r \in shared')
        BY <2>0, <3>2, OwnedStep DEF Given
      <4> QED BY <2>1, <2>2, <3>1, <3>2, <4>1
    <3>3. ASSUME Owned(t)' \subseteq Owned(t) PROVE (Owned(a) \cap Owned(b) \subseteq shared)'
      <4>1. \A u \in Thread : Owned(u)' \subseteq Owned(u)
        BY <2>0, <3>3, OwnedStep
      <4> QED BY <2>1, <3>1, <4>1
    <3> QED BY <2>0, <3>2, <3>3, OwnedStep DEF StolenTaken, RecLinked
  <2>3. \A u \in Thread : Held(u)'
    BY <2>0, OwnHeld, OthersHeld
  <2> QED BY <2>1, <2>2, <2>3 DEF HazardInv, Held
<1>2. CASE SwapAndRetire
  <2>1. src' \notin retired'
    BY <1>2, NullAssumption DEF SwapAndRetire, PtrOf, HazardInv, Types
  <2>2. UNCHANGED <<loc, ptr, freed, shared>>
    BY <1>2 DEF SwapAndRetire
  <2> QED BY <2>1, <2>2 DEF HazardInv, Owned, Slot, At
<1>3. CASE Reclaim
  <2>1. UNCHANGED <<loc, ptr, src, retired, shared>>
    BY <1>3 DEF Reclaim
  <2>2. ASSUME NEW t \in Thread, NEW h \in loc[t].held, h[1] \notin shared PROVE h[2] \notin freed'
    <3>1. h[1] \in Published /\ ptr[h[1]] = h[2] /\ h[2] \notin freed
      BY <2>2 DEF HazardInv, ChainInv
    <3>2. h[1] \in Listed
      BY <3>1 DEF ListInv, Listed, Published, Types
    <3> QED BY <1>3, <3>1, <3>2 DEF Reclaim
  <2> QED BY <2>1, <2>2 DEF HazardInv, Owned, Slot, At
<1>4. CASE UNCHANGED vars
  BY <1>4 DEF vars, objVars, HazardInv, Owned, Slot, At
<1> QED BY <1>1, <1>2, <1>3, <1>4 DEF Next

(***************************************************************************)
(* Theorems.                                                               *)
(***************************************************************************)
LEMMA InitIInv == Init => IInv
<1> SUFFICES ASSUME Init PROVE IInv
  OBVIOUS
<1>1. Types
  BY FreshIsLocal, Pointers DEF Init, Types, PtrOf
<1>2. /\ \A t \in Thread : loc[t] = Fresh
      /\ head = Null /\ next = [r \in Rec |-> Null] /\ used = {} /\ count = 0
      /\ availHead = Untagged(Null) /\ available = [r \in Rec |-> Null]
      /\ retired = {} /\ freed = {}
  BY DEF Init
<1>3. \A t \in Thread : /\ loc[t].pc = "idle" /\ loc[t].avail = Untagged(Null) /\ loc[t].tail = Null
                        /\ loc[t].cur = Null /\ loc[t].got = <<>> /\ loc[t].held = {}
  BY <1>2 DEF Fresh
<1>4. Published = {} /\ Linkers = {} /\ Holders = {} /\ \A t \in Thread : Owned(t) = {}
  BY <1>2, <1>3 DEF Published, Linkers, Holders, At, Owned, Range
<1>5. LockInv
  BY <1>2, <1>3, <1>4, Pointers DEF LockInv, At
<1>6. LocalInv /\ NewInv
  BY <1>3 DEF LocalInv, NewInv, At, WithArray, Protecting
<1>7. ListInv
  BY <1>2, <1>4 DEF ListInv, WalkClosed
<1>8. CountInv
  BY <1>2, <1>4, FS_EmptySet DEF CountInv
<1>9. ChainInv
  BY <1>2, <1>3, <1>4, Pointers DEF ChainInv, PtrOf
<1>10. HazardInv
  BY <1>2, <1>3, <1>4 DEF HazardInv, At, Protecting
<1> QED BY <1>1, <1>5, <1>6, <1>7, <1>8, <1>9, <1>10 DEF IInv

LEMMA Inductive == IInv /\ [Next]_vars => IInv'
<1> SUFFICES ASSUME IInv, [Next]_vars PROVE IInv'
  OBVIOUS
<1>1. /\ Types /\ LockInv /\ LocalInv /\ NewInv /\ ListInv /\ CountInv /\ ChainInv /\ HazardInv
  BY DEF IInv
<1>2. Types' /\ LockInv'
  BY <1>1, TypesStep, LockStep
<1>3. LocalInv' /\ NewInv' /\ ListInv'
  BY <1>1, LocalStep, NewStep, ListStep
<1>4. CountInv' /\ ChainInv' /\ HazardInv'
  BY <1>1, CountStep, ChainStep, HazardStep
<1> QED BY <1>2, <1>3, <1>4 DEF IInv

\* The inductive invariant holds throughout.
THEOREM Invariance == Spec => []IInv
BY InitIInv, Inductive, PTL DEF Spec

\* Records, objects and list pointers stay within the domain, and count never
\* exceeds the records acquire_new_rec has allocated.
THEOREM TypeCorrect == Spec => []TypeOK
<1>1. IInv => TypeOK
  <2> SUFFICES ASSUME IInv PROVE TypeOK
    OBVIOUS
  <2>1. Types /\ CountInv
    BY DEF IInv
  <2>2. Published \subseteq used /\ IsFiniteSet(used)
    BY <2>1 DEF Published, CountInv
  <2>3. /\ IsFiniteSet(Published) /\ Cardinality(Published) <= Cardinality(used)
    BY <2>2, FS_Subset
  <2>4. Cardinality(used) \in Nat /\ Cardinality(Linkers) \in Nat /\ Cardinality(Published) \in Nat
    BY <2>1, <2>2, <2>3, FS_CardinalityType DEF CountInv
  <2>5. count \in 0 .. Cardinality(used)
    BY <2>1, <2>3, <2>4 DEF CountInv
  <2> QED BY <2>1, <2>5 DEF Types, TypeOK
<1> QED BY <1>1, Invariance, PTL

\* LOCK_BIT excludes: at most one thread is inside
\* try_acquire_available_locked, and the bit is set exactly while one is.
THEOREM LockAlwaysExcludes == Spec => []LockBitExcludes
<1>1. IInv => LockBitExcludes
  <2> SUFFICES ASSUME IInv PROVE LockBitExcludes
    OBVIOUS
  <2>1. LockInv
    BY DEF IInv
  <2>2. Holders \subseteq Thread /\ \A t, u \in Holders : t = u
    BY <2>1 DEF LockInv, Holders
  <2>3. Cardinality(Holders) <= 1
    <3>1. CASE Holders = {}
      BY <3>1, FS_EmptySet
    <3>2. CASE Holders # {}
      <4>1. PICK t \in Holders : TRUE
        BY <3>2
      <4>2. Holders = {t}
        BY <2>2, <4>1
      <4> QED BY <4>2, FS_Singleton
    <3> QED BY <3>1, <3>2
  <2> QED BY <2>1, <2>3 DEF LockInv, LockBitExcludes
<1> QED BY <1>1, Invariance, PTL

\* The list from head, which a reclaimer walks, has exactly the records
\* acquire_new_rec has published, it is simple, and count agrees with it but
\* for the pushes not yet counted.
THEOREM RecordsNeverLost == Spec => []RecordListComplete
<1>1. IInv => RecordListComplete
  <2> SUFFICES ASSUME IInv PROVE RecordListComplete
    OBVIOUS
  <2>1. Types /\ ListInv /\ CountInv
    BY DEF IInv
  <2>2. Published \in SUBSET Rec
    BY <2>1 DEF Published, Types
  <2>3. Listed = Published
    BY <2>1, <2>2 DEF Listed, ListInv
  <2>4. IsFiniteSet(Published) /\ IsFiniteSet(Linkers)
    BY <2>1, FS_Subset DEF Published, CountInv
  <2>5. Cardinality(Published) \in Nat /\ Cardinality(Linkers) \in Nat
    BY <2>4, FS_CardinalityType
  <2>6. count = Cardinality(Published) - Cardinality(Linkers)
    BY <2>1, <2>5 DEF CountInv
  <2> QED BY <2>1, <2>3, <2>6 DEF RecordListComplete, ListInv, Linkers
<1> QED BY <1>1, Invariance, PTL

\* What protect returned through a record nobody else was given is never freed
\* while the HzdPtr holds it, whenever the object is unlinked and retired and
\* whenever a reclaimer scans.
THEOREM ProtectionAlwaysSound == Spec => []ProtectionSound
<1>1. IInv => ProtectionSound
  BY DEF IInv, HazardInv, ProtectionSound
<1> QED BY <1>1, Invariance, PTL

================================================================================
