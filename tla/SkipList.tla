------------------------------- MODULE SkipList -------------------------------
(***************************************************************************)
(* The lock-free skip list of crates/engine/src/utils/skiplists/           *)
(* mem_skip_list.rs, on which the memtable is built.  Nodes are allocated  *)
(* from an arena, linked with compare-and-swap level by level from the     *)
(* base upward, and never unlinked.  This module has the list and the      *)
(* steps of search and insert; Memtable makes calls out of them.           *)
(*                                                                         *)
(* A step is one load, store or compare-and-swap of a shared pointer or    *)
(* counter.  Writes to a node's own tower before the compare-and-swap that *)
(* publishes that level are part of the step that publishes it.            *)
(***************************************************************************)
EXTENDS InternalKey, Sequences

CONSTANTS Thread,           \* threads that insert and read
          Key,              \* the internal keys that may be inserted
          Null,             \* the null pointer
          MaxNodes,         \* nodes the arena has room for at most
          MAX_HEAD_HEIGHT,  \* levels of the sentinel
          Zeros             \* trailing zeros the random numbers may have

ASSUME HeightAssumption == MAX_HEAD_HEIGHT \in Nat \ {0} /\ Zeros \subseteq Nat
ASSUME NodesAssumption == MaxNodes \in Nat /\ Null \notin 0 .. MaxNodes
ASSUME KeyAssumption == /\ Key \subseteq [user : Int, trailer : Nat]
                        /\ \A k \in Key : OpOf(k) \in {Put, Delete, Merge}

VARIABLES
  tower,      \* tower[n][l]: the node after n at level l; 0 is the sentinel
  key, val,   \* key[n], val[n]: contents, written before n is linked
  height,     \* height[n]
  max_level,  \* Data.max_level
  loc         \* loc[t]: program counter, call and locals of thread t

listVars == <<tower, key, val, height, max_level>>

Levels == 0 .. MAX_HEAD_HEIGHT - 1
Sentinel == 0
Node == 1 .. MaxNodes
Ptr == Node \cup {Sentinel, Null}
allocated == Len(key)

Below(a, b) == IF a < b THEN a ELSE b
Above(a, b) == IF a > b THEN a ELSE b

\* generate_random_level: trailing zeros plus one, at most MAX_HEAD_HEIGHT.
\* The loop that means to lower a tall tower tests the address of a slot of
\* the sentinel, which is never null, so it always goes down to 3.
RandomLevel(zeros) ==
  LET h == Below(MAX_HEAD_HEIGHT, zeros + 1)
  IN IF h >= 4 THEN 3 ELSE h

Fresh == [pc |-> "idle", call |-> Null, key |-> Null, level |-> 0,
          pred |-> Sentinel,
          preds |-> [l \in Levels |-> Sentinel],
          succs |-> [l \in Levels |-> Null], found |-> Null,
          after |-> "", node |-> Null, seen |-> 0, up |-> 1]

InitList ==
  /\ tower = [n \in {Sentinel} |-> [l \in Levels |-> Null]]
  /\ key = <<>> /\ val = <<>> /\ height = <<>>
  /\ max_level = 1
  /\ loc = [t \in Thread |-> Fresh]

At(t, label) == loc[t].pc = label
Set(t, l) == loc' = [loc EXCEPT ![t] = l]

-----------------------------------------------------------------------------
(* search                                                                  *)

\* A fresh TraversalCtx for key k; the search continues at label after.
SearchFor(l, k, after) ==
  [l EXCEPT !.pc = "max", !.key = k, !.after = after, !.found = Null,
            !.pred = Sentinel,
            !.preds = [v \in Levels |-> Sentinel],
            !.succs = [v \in Levels |-> Null]]

LoadMaxLevel(t) ==
  /\ At(t, "max")
  /\ Set(t, [loc[t] EXCEPT !.pc = "skip", !.level = max_level])
  /\ UNCHANGED listVars

\* Pointer n has been loaded after p at level v.  The level ends at the first
\* node that is not below the key (an equal one is remembered): its neighbours
\* are recorded, and the level below or the caller follows.
Stops(l, n) == n # Null => ~Less(key[n], l.key)

Loaded(l, p, v) ==
  LET n == tower[p][v]
  IN IF ~Stops(l, n)
     THEN [l EXCEPT !.pc = "move", !.level = v, !.pred = n]
     ELSE [l EXCEPT !.pc = IF v = 0 THEN l.after ELSE "down", !.level = v,
                    !.pred = IF v = 0 THEN Sentinel ELSE p,
                    !.preds[v] = p, !.succs[v] = n,
                    !.found = IF n # Null /\ key[n] = l.key THEN n ELSE @]

\* Levels the sentinel has no successor at are skipped; with none left, the
\* list is empty.  (The pointer is loaded again to start the first level with
\* a successor; having one is stable, so one load stands for both.)
SkipLevel(t) ==
  LET l == loc[t]
  IN /\ At(t, "skip")
     /\ \/ /\ tower[Sentinel][l.level - 1] # Null
           /\ Set(t, Loaded(l, Sentinel, l.level - 1))
        \/ /\ tower[Sentinel][l.level - 1] = Null
           /\ Set(t, [l EXCEPT !.level = @ - 1,
                               !.pc = IF l.level = 1 THEN l.after ELSE "skip"])
     /\ UNCHANGED listVars

MoveRight(t) ==
  /\ At(t, "move")
  /\ Set(t, Loaded(loc[t], loc[t].pred, loc[t].level))
  /\ UNCHANGED listVars

Descend(t) ==
  /\ At(t, "down")
  /\ Set(t, Loaded(loc[t], loc[t].pred, loc[t].level - 1))
  /\ UNCHANGED listVars

SearchStep(t) == LoadMaxLevel(t) \/ SkipLevel(t) \/ MoveRight(t) \/ Descend(t)

-----------------------------------------------------------------------------
(* insert and insert_with                                                  *)

\* What the search of an insert decides: the key is there already and is
\* returned; or a node must be built (insert, which searches first); or the
\* node there is must be linked (insert_with, and every retry).
Exists(t) == At(t, "decide") /\ loc[t].found # Null
MustBuild(t) == At(t, "decide") /\ loc[t].found = Null /\ loc[t].node = Null
MustLink(t) == At(t, "decide") /\ loc[t].found = Null /\ loc[t].node # Null
LinkedUp(t) == At(t, "up") /\ loc[t].up = height[loc[t].node]

\* A node is built: insert has searched already, insert_with searches now, with
\* the key it wrote into the node.
Built(l) == IF l.call.op = "insert" THEN [l EXCEPT !.pc = "decide"]
            ELSE SearchFor(l, l.call.key, "decide")

\* Mutant: the height of the list is never raised.
RaiseNever(l, h) == Built([l EXCEPT !.seen = 0])

\* max_level, as just loaded, is high enough for the new node or must be raised.
Raise(l, h) == IF h <= max_level THEN Built([l EXCEPT !.seen = 0])
               ELSE [l EXCEPT !.pc = "raise", !.seen = max_level]

\* Node::alloc and the copies into the node, with a height drawn for it.  The
\* height is drawn first, and max_level is raised before the arena, too full for
\* the node's bytes, may panic.  (Data.entries, only ever written, is left out.)
AllocNode(t, k, x) ==
  /\ MustBuild(t)
  /\ \/ /\ \E z \in Zeros : max_level' = Above(max_level, RandomLevel(z))
        /\ Set(t, [loc[t] EXCEPT !.pc = "panic"])
        /\ UNCHANGED <<tower, key, val, height>>
     \/ /\ allocated < MaxNodes
        /\ LET n == allocated + 1
           IN \E z \in Zeros :
                /\ tower' = [m \in 0 .. n |->
                               IF m < n THEN tower[m]
                               ELSE [v \in 0 .. RandomLevel(z) - 1 |-> Null]]
                /\ key' = Append(key, k) /\ val' = Append(val, x)
                /\ height' = Append(height, RandomLevel(z))
                /\ Set(t, Raise([loc[t] EXCEPT !.node = n], RandomLevel(z)))
        /\ UNCHANGED max_level

\* The compare_exchange_weak loop that raises max_level to the new height.
RaiseLevel(t) ==
  /\ At(t, "raise")
  /\ \/ /\ max_level = loc[t].seen
        /\ max_level' = height[loc[t].node]
        /\ Set(t, Built([loc[t] EXCEPT !.seen = 0]))
     \/ /\ max_level # loc[t].seen
        /\ Set(t, Raise(loc[t], height[loc[t].node]))
        /\ UNCHANGED max_level
  /\ UNCHANGED <<tower, key, val, height>>

\* Mutant: the new node is published without its successor.
LinkedNoSuccessor(n, p, s, v) == [tower EXCEPT ![p][v] = n]

\* Node n follows p at level v: n's own pointer is set unless the successor
\* is null, and p's is swapped if it still is that successor.
Linked(n, p, s, v) ==
  [tower EXCEPT ![n][v] = IF s = Null THEN @ ELSE s, ![p][v] = n]

Missed(n, s, v) == [tower EXCEPT ![n][v] = IF s = Null THEN @ ELSE s]

\* Mutant: the base pointer is stored instead of compared and swapped.
LinkBaseBlind(t) ==
  LET l == loc[t] p == l.preds[0] s == l.succs[0]
  IN /\ MustLink(t)
     /\ tower' = Linked(l.node, p, s, 0)
     /\ Set(t, [l EXCEPT !.pc = "up", !.up = 1])
     /\ UNCHANGED <<key, val, height, max_level>>

\* Linking at the base publishes the node; after it the levels above follow.
LinkBase(t) ==
  LET l == loc[t] p == l.preds[0] s == l.succs[0]
  IN /\ MustLink(t)
     /\ \/ /\ tower[p][0] = s
           /\ tower' = Linked(l.node, p, s, 0)
           /\ Set(t, [l EXCEPT !.pc = "up", !.up = 1])
        \/ /\ tower[p][0] # s
           /\ tower' = Missed(l.node, s, 0)
           /\ Set(t, SearchFor(l, l.call.key, "decide"))
     /\ UNCHANGED <<key, val, height, max_level>>

\* Mutant: a level whose compare-and-swap fails is given up.
LinkUpOnce(t) ==
  LET l == loc[t] p == l.preds[l.up] s == l.succs[l.up]
  IN /\ At(t, "up") /\ ~LinkedUp(t)
     /\ tower' = IF tower[p][l.up] = s THEN Linked(l.node, p, s, l.up)
                 ELSE Missed(l.node, s, l.up)
     /\ Set(t, [l EXCEPT !.up = @ + 1])
     /\ UNCHANGED <<key, val, height, max_level>>

LinkUp(t) ==
  LET l == loc[t] p == l.preds[l.up] s == l.succs[l.up]
  IN /\ At(t, "up") /\ ~LinkedUp(t)
     /\ \/ /\ tower[p][l.up] = s
           /\ tower' = Linked(l.node, p, s, l.up)
           /\ Set(t, [l EXCEPT !.up = @ + 1])
        \/ /\ tower[p][l.up] # s
           /\ tower' = Missed(l.node, s, l.up)
           /\ Set(t, SearchFor(l, l.call.key, "up"))
     /\ UNCHANGED <<key, val, height, max_level>>

-----------------------------------------------------------------------------
(* The list as a whole                                                     *)

\* The nodes some pointer at level v leads to.
OnLevel(v) == {tower[m][v] : m \in {n \in DOMAIN tower : v \in DOMAIN tower[n]}}
              \ {Null}

\* The nodes a walk at level v meets: the least set that has the sentinel's
\* successor and the successor of each of its members.
LevelClosed(S, v) == \A m \in S \cup {Sentinel} :
                       v \in DOMAIN tower[m] => tower[m][v] \in S \cup {Null}

Reachable(v) == {n \in 1 .. allocated : \A S \in SUBSET (1 .. allocated) :
                                          LevelClosed(S, v) => n \in S}
================================================================================
