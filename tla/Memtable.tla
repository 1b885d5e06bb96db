------------------------------- MODULE Memtable -------------------------------
(***************************************************************************)
(* The memtable of crates/engine/src/memtable/memtable.rs: inserts (of an  *)
(* encoded key, or directly into a node), point reads at a sequence        *)
(* number, and iteration, by any number of threads over one skip list.     *)
(* answer is a history variable: it holds a call's answer from the step at *)
(* which the call takes effect.                                            *)
(***************************************************************************)
EXTENDS SkipList, FiniteSets

CONSTANTS User, Snapshot,  \* the user keys and sequence numbers read
          MaxCalls,        \* calls a thread makes (a bound)
          Inserter, DirectInserter, Reader  \* which threads make which calls

ASSUME RolesAssumption == Inserter \cup DirectInserter \cup Reader \subseteq Thread
ASSUME ReadAssumption == User \subseteq Int /\ Snapshot \subseteq Nat

\* The calls, and the answers of those that took effect.
InsertCalls == [op : {"insert", "insert_direct"}, key : Key]
GetCalls == [op : {"get"}, user : User, seq : Snapshot]
IterCalls == [op : {"iter"}]
Answers == [op : {"answer"}, kind : {"NotFound", "Value", "Deleted", "Merge"},
            val : Thread \cup {Null}]
           \cup {[op |-> "done"]}

ASSUME NullAssumption == Null \notin InsertCalls \cup GetCalls \cup IterCalls \cup Answers

VARIABLES
  answer,  \* answer[t]: the answer of t's call once it took effect, or Null
  iter,    \* iter[t]: the last key t's iterator returned, and the keys of the
           \* list it was positioned on that it has yet to return
  calls    \* calls[t]: the calls t has made

vars == <<listVars, loc, answer, iter, calls>>

\* The versions in the table are the nodes on the base level.
Versions == {<<key[n], val[n]>> : n \in OnLevel(0)}

\* The call of a thread with locals l and answer a, as the map sees it.
Calling(l, a) ==
  IF a # Null THEN a
  ELSE IF l.pc = "panic" THEN [op |-> "panicked"]
  ELSE IF l.call = Null \/ l.call.op = "iter" THEN Null
  ELSE IF l.call.op = "get" THEN l.call
  ELSE [op |-> "insert", key |-> l.call.key]

Pending == [t \in Thread |-> Calling(loc[t], answer[t])]

Abs == INSTANCE VersionedMap
  WITH Client <- Thread, None <- Null, map <- Versions, call <- Pending

NoIter == [last |-> Null, owed |-> {}]

Init ==
  /\ InitList
  /\ answer = [t \in Thread |-> Null]
  /\ iter = [t \in Thread |-> NoIter]
  /\ calls = [t \in Thread |-> 0]

-----------------------------------------------------------------------------
(* Calls                                                                   *)

Start(t, call, l) ==
  /\ At(t, "idle") /\ calls[t] < MaxCalls
  /\ calls' = [calls EXCEPT ![t] = @ + 1]
  /\ Set(t, [l EXCEPT !.call = call])
  /\ UNCHANGED <<listVars, answer>>

\* Memtable::insert searches before it allocates.
Insert(t) ==
  /\ \E k \in Key : Start(t, [op |-> "insert", key |-> k],
                          SearchFor(Fresh, k, "decide"))
  /\ UNCHANGED iter

\* insert_direct allocates the node, writes the key into it and searches.  The
\* trailer is copied from a temporary that no longer exists, so k is the key the
\* copy leaves in the node, with whichever trailer of the user key it has read.
InsertDirect(t) ==
  /\ \E k \in Key : Start(t, [op |-> "insert_direct", key |-> k],
                          [Fresh EXCEPT !.pc = "decide"])
  /\ UNCHANGED iter

\* get looks for the first version not above (user, seq, sentinel kind).
Get(t) ==
  /\ \E u \in User, s \in Snapshot :
       Start(t, [op |-> "get", user |-> u, seq |-> s],
             SearchFor(Fresh, Encode(u, s, SEEK_OP_SENTINEL), "return"))
  /\ UNCHANGED iter

\* iter, seek_to_first; and iter_from, seek.
IterFirst(t) ==
  /\ Start(t, [op |-> "iter"],
           [Fresh EXCEPT !.pc = "iter", !.succs[0] = tower[Sentinel][0]])
  /\ iter' = [iter EXCEPT ![t].owed = {e[1] : e \in Versions}]

IterFrom(t) ==
  /\ \E u \in User, s \in Snapshot :
       LET k == Encode(u, s, SEEK_OP_SENTINEL)
       IN /\ Start(t, [op |-> "iter"], SearchFor(Fresh, k, "iter"))
          /\ iter' = [iter EXCEPT ![t].owed =
                        {e[1] : e \in {f \in Versions : ~Less(f[1], k)}}]

\* The iterator's node, which search_node takes from the base successors; its
\* key is read and the pointer to the next one is loaded.
Current(t) == loc[t].succs[0]

IterNext(t) ==
  /\ At(t, "iter") /\ Current(t) # Null
  /\ iter' = [iter EXCEPT ![t].owed = @ \ {key[Current(t)]},
                          ![t].last = key[Current(t)]]
  /\ Set(t, [loc[t] EXCEPT !.succs[0] = tower[Current(t)][0]])
  /\ UNCHANGED <<listVars, answer, calls>>

IterEnd(t) ==
  /\ At(t, "iter") /\ Current(t) = Null
  /\ Set(t, Fresh)
  /\ iter' = [iter EXCEPT ![t] = NoIter]
  /\ UNCHANGED <<listVars, answer, calls>>

-----------------------------------------------------------------------------
(* The step at which a call takes effect                                   *)

\* Mutant: get does not compare the user key of the node it finds.
MemReturnAnyUser(n, user) ==
  CASE n = Null -> Abs!Answer("NotFound", Null)
    [] n # Null /\ OpOf(key[n]) = Put -> Abs!Answer("Value", val[n])
    [] n # Null /\ OpOf(key[n]) = Delete -> Abs!Answer("Deleted", Null)
    [] n # Null /\ OpOf(key[n]) = Merge -> Abs!Answer("Merge", Null)

\* Memtable::get on the node found.
MemReturn(n, user) ==
  CASE n = Null -> Abs!Answer("NotFound", Null)
    [] n # Null /\ key[n].user # user -> Abs!Answer("NotFound", Null)
    [] n # Null /\ key[n].user = user ->
         CASE OpOf(key[n]) = Put -> Abs!Answer("Value", val[n])
           [] OpOf(key[n]) = Delete -> Abs!Answer("Deleted", Null)
           [] OpOf(key[n]) = Merge -> Abs!Answer("Merge", Null)

\* A read is decided by the load, at the base, that ends its search; an insert
\* takes effect when it meets its key or links the node at the base.
Effect(t, l) ==
  CASE answer[t] # Null -> answer[t]
    [] answer[t] = Null /\ l.call.op = "get" ->
         IF l.pc = "return" THEN MemReturn(l.succs[0], l.call.user) ELSE Null
    [] answer[t] = Null /\ l.call.op \in {"insert", "insert_direct"} ->
         IF l.found # Null \/ l.pc = "up" THEN Abs!Done ELSE Null
    [] OTHER -> Null

Work(t) ==
  /\ \/ SearchStep(t)
     \/ \E k \in Key : MustBuild(t) /\ k = loc[t].call.key /\ AllocNode(t, k, t)
     \/ RaiseLevel(t) \/ LinkBase(t) \/ LinkUp(t)
  /\ answer' = [answer EXCEPT ![t] = Effect(t, loc'[t])]
  /\ UNCHANGED <<iter, calls>>

Return(t) ==
  /\ At(t, "return") \/ Exists(t) \/ LinkedUp(t)
  /\ Set(t, Fresh)
  /\ answer' = [answer EXCEPT ![t] = Null]
  /\ UNCHANGED <<listVars, iter, calls>>

Continue(t) == Work(t) \/ Return(t) \/ IterNext(t) \/ IterEnd(t)

Next ==
  \/ \E t \in Inserter : Insert(t)
  \/ \E t \in DirectInserter : InsertDirect(t)
  \/ \E t \in Reader : Get(t) \/ IterFirst(t) \/ IterFrom(t)
  \/ \E t \in Thread : Continue(t)

Spec == Init /\ [][Next]_vars

-----------------------------------------------------------------------------
(* Properties                                                              *)

\* Types, and max_level is never below the height of a node, but for one whose
\* insert is still raising it: a search starts no lower than the tallest tower.
TypeOK ==
  /\ DOMAIN tower = 0 .. allocated /\ allocated <= MaxNodes
  /\ \A n \in DOMAIN tower : \A v \in DOMAIN tower[n] : tower[n][v] \in Ptr
  /\ key \in Seq(Key) /\ Len(val) = allocated /\ Len(height) = allocated
  /\ max_level \in 1 .. MAX_HEAD_HEIGHT
  /\ \A n \in Node : n <= allocated => height[n] <= max_level \/ \E t \in Thread :
       At(t, "raise") /\ loc[t].node = n
  /\ \A t \in Thread : loc[t].level \in 0 .. MAX_HEAD_HEIGHT

\* Whatever inserts race on the neighbours, every pointer of every tower leads
\* to a larger key, so that levels are sorted and have no duplicates or
\* cycles; a walk meets every node a pointer leads to, so that none is lost;
\* and a node linked at a level is linked at the level below.
LevelsSorted ==
  /\ \A n \in DOMAIN tower \ {Sentinel} : \A v \in DOMAIN tower[n] :
       tower[n][v] # Null => Less(key[n], key[tower[n][v]])
  /\ \A v \in Levels : OnLevel(v) = Reachable(v)
  /\ \A v \in Levels \ {0} : OnLevel(v) \subseteq OnLevel(v - 1)

\* When an insert has returned, its node is reachable at every level of its
\* tower: a level whose compare-and-swap failed was not given up.
TowersComplete ==
  \A n \in OnLevel(0) :
    \/ \E t \in Thread : loc[t].node = n
    \/ \A v \in 0 .. height[n] - 1 : n \in OnLevel(v)

\* An iterator moves on to ever larger keys, and when it ends it has returned
\* every key that was there when it was positioned, while inserts go on.
IterSeesSnapshot ==
  \A t \in Thread : At(t, "iter") =>
    IF Current(t) = Null THEN iter[t].owed = {}
    ELSE iter[t].last # Null => Less(iter[t].last, key[Current(t)])

\* Inserts and reads by concurrent threads are linearizable: the table behaves
\* as the versioned map, each call taking effect at one step.
ImplementsVersionedMap == Abs!Spec
================================================================================
