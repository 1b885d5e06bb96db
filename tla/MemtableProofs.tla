---------------------------- MODULE MemtableProofs ----------------------------
(***************************************************************************)
(* Theorems about the memtable and its skip list, for any threads, keys,   *)
(* heights and capacities: the list stays sorted and complete, iterators   *)
(* miss nothing, and inserts and reads are linearizable (the memtable      *)
(* implements VersionedMap).                                               *)
(***************************************************************************)
EXTENDS Memtable, TLAPS

(***************************************************************************)
(* The inductive invariant: types, the levels of the list, what each       *)
(* thread's locals say about the list, and which nodes are on which level. *)
(***************************************************************************)
\* The labels of a search and of a call, and where a search may return to.
Searching == {"max", "skip", "move", "down"}
Labels == Searching \cup {"idle", "decide", "raise", "up", "return", "iter", "panic"}
Afters == {"", "decide", "up", "return", "iter"}

\* The keys searches compare: those inserted and those a read seeks.
SearchKeys == [user : Int, trailer : Nat]
Calls == InsertCalls \cup GetCalls \cup IterCalls

Locals == [pc : Labels, call : Calls \cup {Null}, key : SearchKeys \cup {Null},
           level : 0 .. MAX_HEAD_HEIGHT, pred : Node \cup {Sentinel},
           preds : [Levels -> Node \cup {Sentinel}], succs : [Levels -> Node \cup {Null}],
           found : Node \cup {Null}, after : Afters, node : Node \cup {Null},
           seen : Nat, up : Nat]

\* The nodes allocated so far, and the levels that node m has a pointer at.
Nodes == 1 .. allocated
Has(m) == IF m = Sentinel THEN Levels ELSE 0 .. height[m] - 1

\* The arrays agree in length, and every pointer of a tower is a node or null.
ListTypes ==
  /\ key \in Seq(Key) /\ val \in Seq(Thread) /\ height \in Seq(1 .. MAX_HEAD_HEIGHT)
  /\ Len(val) = allocated /\ Len(height) = allocated /\ allocated <= MaxNodes
  /\ max_level \in 1 .. MAX_HEAD_HEIGHT
  /\ DOMAIN tower = Nodes \cup {Sentinel}
  /\ \A m \in Nodes \cup {Sentinel} :
       /\ DOMAIN tower[m] = Has(m)
       /\ \A v \in Has(m) : tower[m][v] \in Nodes \cup {Null}

Cursors == [last : Key \cup {Null}, owed : SUBSET Key]
LocTypes ==
  /\ loc \in [Thread -> Locals]
  /\ answer \in [Thread -> Answers \cup {Null}]
  /\ iter \in [Thread -> Cursors]

\* The pointers of the towers T at level v, and the nodes they lead to.
SuccOf(T, v) == [m \in {n \in DOMAIN T : v \in DOMAIN T[n]} |-> T[m][v]]
OnOf(T, v) == {T[m][v] : m \in {n \in DOMAIN T : v \in DOMAIN T[n]}} \ {Null}
Succ(v) == SuccOf(tower, v)

\* One level with nodes M, keys K and successors f: keys differ, a successor is
\* larger, and no node lies between a node (or the sentinel) and its successor.
Ordered(M, K, f) ==
  /\ \A m, n \in M : K[m] = K[n] => m = n
  /\ \A m \in M \cup {Sentinel} : f[m] \in M \cup {Null}
  /\ \A m \in M : f[m] # Null => Less(K[m], K[f[m]])
  /\ \A m \in M \cup {Sentinel}, n \in M :
       m = Sentinel \/ Less(K[m], K[n]) => f[m] \in M /\ (f[m] = n \/ Less(K[f[m]], K[n]))

\* M is the least set with the sentinel's successor and the successors of its
\* members: a walk along f from the sentinel meets all of it.
Closed(S, f) == \A m \in S \cup {Sentinel} : f[m] \in S \cup {Null}
Reached(M, f) == \A S \in SUBSET M : Closed(S, f) => M \subseteq S

\* Every level is ordered and walked whole; a node on it is tall enough, and is
\* on all the levels below.
LevelInv ==
  \A v \in Levels :
    /\ Ordered(OnLevel(v), key, Succ(v)) /\ Reached(OnLevel(v), Succ(v))
    /\ \A n \in OnLevel(v) : v < height[n] /\ \A w \in 0 .. v : n \in OnLevel(w)

\* The pointer a node was given before it is linked leads to a larger key too.
OffInv ==
  \A v \in Levels : \A m \in Nodes :
    v \in Has(m) /\ tower[m][v] # Null => Less(key[m], key[tower[m][v]])

\* The neighbours recorded at level v for key k: once right, they stay nodes of
\* the level on the two sides of k, though others may come between them.
PredOK(k, v, p) == p = Sentinel \/ (p \in OnLevel(v) /\ Less(key[p], k))
SuccOK(k, v, s) == s = Null \/ (s \in OnLevel(v) /\ ~Less(key[s], k))

\* What a search has recorded, and where it stands.  A successor with the key
\* searched for has been remembered as found.
SearchOK(l) ==
  /\ \A v \in Levels : PredOK(l.key, v, l.preds[v]) /\ SuccOK(l.key, v, l.succs[v])
  /\ \A v \in Levels : l.succs[v] # Null /\ key[l.succs[v]] = l.key => l.found # Null
  /\ l.found # Null => l.found \in OnLevel(0) /\ key[l.found] = l.key
  /\ l.pc = "move" => /\ l.level \in Levels /\ l.pred \in OnLevel(l.level)
                      /\ Less(key[l.pred], l.key)
  /\ l.pc = "down" => l.level \in Levels \ {0} /\ PredOK(l.key, l.level, l.pred)
  /\ l.pc = "skip" => l.level \in 1 .. MAX_HEAD_HEIGHT

\* The node of the insert is linked at the base already.
LinkPhase(l) == l.pc = "up" \/ (l.pc \in Searching /\ l.after = "up")

\* The locals of a get, of an iterator, and of an insert with and without its
\* node, which nobody can reach before it is linked at the base and which is
\* then on exactly the levels below l.up.
GetOK(l) ==
  /\ l.pc \in Searching \cup {"return"} /\ l.after = "return" /\ l.node = Null
  /\ l.key = Encode(l.call.user, l.call.seq, SEEK_OP_SENTINEL)
IterOK(l) ==
  /\ l.pc \in Searching \cup {"iter"} /\ l.node = Null
  /\ l.pc \in Searching => l.after = "iter" /\ l.key \in SearchKeys
BuiltOK(l, t) ==
  /\ l.node \in Nodes /\ key[l.node] = l.call.key /\ val[l.node] = t
  /\ l.pc = "raise" => l.found = Null /\ l.seen < height[l.node]
  /\ l.key = l.call.key \/ (l.pc = "raise" /\ l.call.op = "insert_direct")
  /\ l.pc \in Searching => l.after \in {"decide", "up"}
  /\ IF LinkPhase(l)
     THEN l.up \in 1 .. height[l.node] /\ \A v \in Has(l.node) : l.node \in OnLevel(v) <=> v < l.up
     ELSE \A v \in Levels : l.node \notin OnLevel(v)
UnbuiltOK(l) ==
  /\ l.pc \in Searching \cup {"decide", "panic"}
  /\ l.call.op = "insert" => l.key = l.call.key
  /\ l.pc \in Searching => l.call.op = "insert" /\ l.after = "decide"
  /\ l.call.op = "insert_direct" \/ l.pc = "panic" => l.found = Null
InsertOK(l, t) ==
  /\ l.pc \in Searching \cup {"decide", "raise", "up", "panic"}
  /\ IF l.node = Null THEN UnbuiltOK(l) ELSE BuiltOK(l, t) /\ l.pc # "panic"

PhaseOK(t, l) ==
  /\ l.call = Null => l.pc = "idle" /\ l.node = Null /\ l.found = Null
  /\ l.call \in GetCalls => GetOK(l)
  /\ l.call \in IterCalls => IterOK(l)
  /\ l.call \in InsertCalls => InsertOK(l, t)

\* A call has an answer exactly from the step at which it took effect.
AnswerOK(l, a) ==
  /\ a # Null <=> \/ l.call \in GetCalls /\ l.pc = "return"
                  \/ l.call \in InsertCalls /\ (l.found # Null \/ LinkPhase(l))
  /\ a # Null /\ l.call \in InsertCalls => a = [op |-> "done"]

\* A version with key k is in the table.
KeyOn(k) == \E n \in OnLevel(0) : key[n] = k

\* The keys an iterator still owes are in the table, at or after its position.
CursorOK(l, i) ==
  /\ l.call \notin IterCalls => i = NoIter
  /\ \A k \in i.owed : KeyOn(k)
  /\ l.pc \in Searching => i.last = Null /\ \A k \in i.owed : ~Less(k, l.key)
  /\ l.pc = "iter" =>
       /\ l.succs[0] = Null => i.owed = {}
       /\ l.succs[0] # Null => /\ l.succs[0] \in OnLevel(0)
                               /\ i.last # Null => Less(i.last, key[l.succs[0]])
                               /\ \A k \in i.owed : ~Less(k, key[l.succs[0]])

\* All that holds of one thread, with its locals, answer and iterator.
ThreadOK(t, l, a, i) ==
  /\ l.pc # "iter" => SearchOK(l)
  /\ PhaseOK(t, l) /\ AnswerOK(l, a) /\ CursorOK(l, i)
ThreadInv == \A t \in Thread : ThreadOK(t, loc[t], answer[t], iter[t])

\* A node is built and linked by one thread.
OwnerInv == \A t, u \in Thread : loc[t].node # Null /\ loc[t].node = loc[u].node => t = u

\* max_level covers every node but those still raising it, and a node is on all
\* its levels once its insert has let go of it.
HeightInv == \A n \in Nodes : height[n] <= max_level \/ \E t \in Thread : At(t, "raise") /\ loc[t].node = n
TowerInv == \A n \in OnLevel(0) : (\E t \in Thread : loc[t].node = n) \/ \A v \in Has(n) : n \in OnLevel(v)

IInv == ListTypes /\ LocTypes /\ LevelInv /\ OffInv /\ ThreadInv /\ OwnerInv /\ HeightInv /\ TowerInv

(***************************************************************************)
(* The order of internal keys.                                             *)
(***************************************************************************)
LEMMA KeyIsSearchKey == Key \subseteq SearchKeys
BY KeyAssumption DEF SearchKeys

LEMMA LessOrder ==
  /\ \A a \in SearchKeys : ~Less(a, a)
  /\ \A a, b, c \in SearchKeys : Less(a, b) /\ Less(b, c) => Less(a, c)
  /\ \A a, b \in SearchKeys : Less(a, b) \/ a = b \/ Less(b, a)
<1>1. \A a, b \in SearchKeys : a.user = b.user /\ a.trailer = b.trailer => a = b
  BY DEF SearchKeys
<1>2. \A a \in SearchKeys : a.user \in Int /\ a.trailer \in Nat
  BY DEF SearchKeys
<1> QED BY <1>1, <1>2 DEF Less

\* Not below, below: what a comparison at the end of a level adds up to.
LEMMA LessMixed ==
  /\ \A a, b, c \in SearchKeys : ~Less(b, a) /\ ~Less(c, b) => ~Less(c, a)
  /\ \A a, b, c \in SearchKeys : ~Less(b, a) /\ Less(b, c) => Less(a, c)
  /\ \A a, b, c \in SearchKeys : Less(a, b) /\ ~Less(c, b) => Less(a, c)
  /\ \A a, b \in SearchKeys : Less(a, b) => ~Less(b, a)
  /\ \A a, b \in SearchKeys : ~Less(a, b) /\ a # b => Less(b, a)
BY LessOrder

(***************************************************************************)
(* One level of the list.                                                  *)
(***************************************************************************)
\* A node that comes between a node and its successor.
LEMMA InsertOrdered ==
  ASSUME NEW M, NEW K, NEW f, NEW g, NEW n, NEW p \in M \cup {Sentinel}, NEW s,
         \A m \in M \cup {n} : K[m] \in SearchKeys /\ m # Null /\ m # Sentinel,
         n \notin M, Ordered(M, K, f), f[p] = s,
         p = Sentinel \/ Less(K[p], K[n]), s = Null \/ Less(K[n], K[s]),
         g[p] = n, g[n] = s, \A m \in M \cup {Sentinel} : m # p => g[m] = f[m]
  PROVE  Ordered(M \cup {n}, K, g)
<1>1. /\ \A m, o \in M : K[m] = K[o] => m = o
      /\ \A m \in M \cup {Sentinel} : f[m] \in M \cup {Null}
      /\ \A m \in M : f[m] # Null => Less(K[m], K[f[m]])
      /\ \A m \in M \cup {Sentinel}, o \in M :
           m = Sentinel \/ Less(K[m], K[o]) => f[m] \in M /\ (f[m] = o \/ Less(K[f[m]], K[o]))
  BY DEF Ordered
<1>2. s \in M \cup {Null} /\ K[n] \in SearchKeys /\ n # Null
  BY <1>1
<1>3. \A m \in M : K[m] # K[n]
  <2> SUFFICES ASSUME NEW m \in M, K[m] = K[n] PROVE FALSE
    OBVIOUS
  <2>1. s \in M /\ (s = m \/ Less(K[s], K[m]))
    BY <1>1
  <2> QED BY <1>2, <2>1, LessOrder
<1>4. \A m, o \in M \cup {n} : K[m] = K[o] => m = o
  BY <1>1, <1>3
<1>5. \A m \in M \cup {n} \cup {Sentinel} : g[m] \in M \cup {n} \cup {Null}
  BY <1>1, <1>2
<1>6. \A m \in M \cup {n} : g[m] # Null => Less(K[m], K[g[m]])
  BY <1>1, <1>2
<1>7. ASSUME NEW m \in M \cup {n} \cup {Sentinel}, NEW o \in M \cup {n}, m = Sentinel \/ Less(K[m], K[o])
      PROVE  g[m] \in M \cup {n} /\ (g[m] = o \/ Less(K[g[m]], K[o]))
  <2>1. CASE m = p
    <3>1. CASE o = n
      BY <2>1, <3>1
    <3>2. CASE o \in M
      <4>1. s \in M /\ (s = o \/ Less(K[s], K[o]))
        BY <1>1, <1>7, <2>1, <3>2
      <4> QED BY <1>2, <2>1, <3>2, <4>1, LessOrder
    <3> QED BY <3>1, <3>2
  <2>2. CASE m = n
    <3>1. o \in M /\ Less(K[n], K[o])
      BY <1>2, <1>7, <2>2, LessOrder
    <3>2. p = Sentinel \/ Less(K[p], K[o])
      BY <1>2, <3>1, LessOrder
    <3> QED BY <1>1, <2>2, <3>1, <3>2
  <2>3. CASE m # p /\ m # n
    <3>1. m \in M \cup {Sentinel} /\ g[m] = f[m]
      BY <1>7, <2>3
    <3>2. CASE o \in M
      BY <1>1, <1>7, <3>1, <3>2
    <3>3. CASE o = n
      <4>1. p \in M => m = Sentinel \/ Less(K[m], K[p])
        <5> SUFFICES ASSUME p \in M, m \in M, ~Less(K[m], K[p]) PROVE FALSE
          BY <3>1
        <5>1. K[m] # K[p]
          BY <1>1, <2>3
        <5>2. Less(K[p], K[m])
          BY <5>1, LessOrder
        <5>3. s \in M /\ (s = m \/ Less(K[s], K[m]))
          BY <1>1, <5>2
        <5>4. Less(K[n], K[s])
          BY <5>3
        <5>5. Less(K[m], K[n]) /\ Less(K[n], K[m])
          BY <1>2, <1>7, <3>3, <5>3, <5>4, LessOrder
        <5> QED BY <1>2, <5>5, LessOrder
      <4>2. CASE p = Sentinel
        <5>1. m \in M
          BY <2>3, <3>1, <4>2
        <5>2. s \in M /\ (s = m \/ Less(K[s], K[m]))
          BY <1>1, <4>2, <5>1
        <5>3. Less(K[n], K[m]) /\ Less(K[m], K[n])
          BY <1>2, <1>7, <3>3, <5>1, <5>2, LessOrder
        <5> QED BY <1>2, <5>1, <5>3, LessOrder
      <4>3. CASE p \in M
        <5>1. f[m] \in M /\ (f[m] = p \/ Less(K[f[m]], K[p]))
          BY <1>1, <3>1, <4>1, <4>3
        <5>2. Less(K[f[m]], K[n])
          BY <1>2, <4>3, <5>1, LessOrder
        <5> QED BY <3>1, <3>3, <5>1, <5>2
      <4> QED BY <4>2, <4>3
    <3> QED BY <3>2, <3>3
  <2> QED BY <2>1, <2>2, <2>3
<1> QED BY <1>4, <1>5, <1>6, <1>7 DEF Ordered

LEMMA InsertReached ==
  ASSUME NEW M, NEW f, NEW g, NEW n, NEW p \in M \cup {Sentinel}, NEW s \in M \cup {Null},
         n \notin M, n # Sentinel, Sentinel \notin M, Null \notin M, n # Null, \A m \in M \cup {Sentinel} : f[m] \in M \cup {Null},
         Reached(M, f), f[p] = s,
         g[p] = n, g[n] = s, \A m \in M \cup {Sentinel} : m # p => g[m] = f[m]
  PROVE  Reached(M \cup {n}, g)
<1> SUFFICES ASSUME NEW S \in SUBSET (M \cup {n}), Closed(S, g) PROVE M \cup {n} \subseteq S
  BY DEF Reached
<1>1. \A m \in S \cup {Sentinel} : g[m] \in S \cup {Null}
  BY DEF Closed
<1>2. CASE p \in S \cup {Sentinel}
  <2>1. n \in S /\ s \in S \cup {Null}
    BY <1>1, <1>2
  <2>2. Closed(S \cap M, f)
    BY <1>1, <2>1 DEF Closed
  <2> QED BY <2>1, <2>2 DEF Reached
<1>3. CASE p \notin S \cup {Sentinel}
  <2>1. Closed(S \cap M, f)
    BY <1>1, <1>3 DEF Closed
  <2> QED BY <1>3, <2>1 DEF Reached
<1> QED BY <1>2, <1>3

\* A level that a step leaves alone.
LEMMA SameLevel ==
  ASSUME NEW M, NEW K, NEW L, NEW f, NEW g, \A m \in M : K[m] = L[m],
         \A m \in M \cup {Sentinel} : f[m] = g[m], Ordered(M, K, f), Reached(M, f)
  PROVE  Ordered(M, L, g) /\ Reached(M, g)
<1>1. Ordered(M, L, g)
  BY DEF Ordered
<1>2. \A S \in SUBSET M : Closed(S, g) => Closed(S, f)
  BY DEF Closed
<1> QED BY <1>1, <1>2 DEF Reached

\* Every node of a level is the successor of one, or of the sentinel.
LEMMA Pointed ==
  ASSUME NEW M, NEW f, Reached(M, f), \A m \in M \cup {Sentinel} : f[m] \in M \cup {Null}, NEW x \in M
  PROVE  \E m \in M \cup {Sentinel} : f[m] = x
<1> SUFFICES ASSUME \A m \in M \cup {Sentinel} : f[m] # x PROVE FALSE
  OBVIOUS
<1>1. Closed(M \ {x}, f)
  BY DEF Closed
<1> QED BY <1>1 DEF Reached

LEMMA SuccAt ==
  ASSUME NEW T, NEW v, NEW m \in DOMAIN T, v \in DOMAIN T[m]
  PROVE  SuccOf(T, v)[m] = T[m][v]
BY DEF SuccOf

LEMMA OnIs ==
  ASSUME NEW T, NEW v
  PROVE  \A n : n \in OnOf(T, v) <=> n # Null /\ \E m \in DOMAIN T : v \in DOMAIN T[m] /\ T[m][v] = n
BY DEF OnOf

LEMMA OnLevelIs ==
  /\ \A v : OnLevel(v) = OnOf(tower, v)
  /\ \A v : OnLevel(v)' = OnOf(tower', v)
  /\ \A v : Succ(v)' = SuccOf(tower', v)
BY DEF OnLevel, OnOf, Succ, SuccOf

LEMMA SeqElement ==
  ASSUME NEW S, NEW q \in Seq(S), NEW i \in 1 .. Len(q)
  PROVE  q[i] \in S
OBVIOUS

LEMMA NodeFacts ==
  ASSUME ListTypes
  PROVE  /\ allocated \in Nat /\ Nodes \subseteq Node /\ Sentinel \notin Nodes /\ Null \notin Nodes
         /\ Sentinel # Null /\ 0 \in Levels
         /\ \A n \in Nodes : /\ key[n] \in Key /\ key[n] \in SearchKeys /\ val[n] \in Thread
                             /\ height[n] \in 1 .. MAX_HEAD_HEIGHT /\ Has(n) \subseteq Levels /\ 0 \in Has(n)
                             /\ n \in Nat
         /\ Has(Sentinel) = Levels
<1>1. allocated \in Nat /\ MaxNodes \in Nat /\ Null \notin 0 .. MaxNodes /\ allocated <= MaxNodes
  BY NodesAssumption DEF ListTypes, allocated
<1>2. Nodes \subseteq Node /\ Sentinel \notin Nodes /\ Null \notin Nodes /\ Sentinel # Null /\ 0 \in Levels
  BY <1>1, HeightAssumption DEF Nodes, Node, Sentinel, Levels
<1>3. ASSUME NEW n \in Nodes
      PROVE  /\ key[n] \in Key /\ val[n] \in Thread /\ height[n] \in 1 .. MAX_HEAD_HEIGHT
             /\ n \in Nat
  <2>1. n \in Nat /\ n \in 1 .. Len(key) /\ n \in 1 .. Len(val) /\ n \in 1 .. Len(height)
    BY <1>1 DEF ListTypes, Nodes, allocated
  <2>2. key \in Seq(Key) /\ val \in Seq(Thread) /\ height \in Seq(1 .. MAX_HEAD_HEIGHT)
    BY DEF ListTypes
  <2> QED BY <2>1, <2>2, SeqElement
<1>4. ASSUME NEW n \in Nodes PROVE Has(n) \subseteq Levels /\ 0 \in Has(n)
  BY <1>2, <1>3, <1>4, HeightAssumption DEF Has, Levels
<1> QED BY <1>1, <1>2, <1>3, <1>4, KeyIsSearchKey DEF Has

\* What the invariants say of a level, in terms of the towers.
LEMMA LevelFacts ==
  ASSUME ListTypes, LevelInv, NEW v \in Levels
  PROVE  /\ OnLevel(v) \subseteq Nodes /\ Sentinel \notin OnLevel(v) /\ Null \notin OnLevel(v)
         /\ \A m \in OnLevel(v) \cup {Sentinel} :
              /\ m \in DOMAIN tower /\ v \in DOMAIN tower[m] /\ v \in Has(m)
              /\ Succ(v)[m] = tower[m][v] /\ tower[m][v] \in OnLevel(v) \cup {Null}
         /\ \A n \in OnLevel(v) : \E m \in OnLevel(v) \cup {Sentinel} : tower[m][v] = n
         /\ \A n \in OnLevel(v) : \A w \in 0 .. v : n \in OnLevel(w)
         /\ \A m, n \in OnLevel(v) : key[m] = key[n] => m = n
         /\ \A m \in OnLevel(v) \cup {Sentinel}, n \in OnLevel(v) :
              m = Sentinel \/ Less(key[m], key[n]) =>
                tower[m][v] \in OnLevel(v) /\ (tower[m][v] = n \/ Less(key[tower[m][v]], key[n]))
<1>1. OnLevel(v) \subseteq Nodes /\ Null \notin OnLevel(v)
  BY DEF OnLevel, ListTypes
<1>2. Sentinel \notin OnLevel(v)
  BY <1>1, NodeFacts
<1>3. ASSUME NEW m \in OnLevel(v) \cup {Sentinel}
      PROVE  m \in DOMAIN tower /\ v \in DOMAIN tower[m] /\ v \in Has(m) /\ Succ(v)[m] = tower[m][v]
  <2>1. m \in Nodes \cup {Sentinel} /\ DOMAIN tower = Nodes \cup {Sentinel} /\ DOMAIN tower[m] = Has(m)
    BY <1>1 DEF ListTypes
  <2>2. v \in Has(m)
    <3>1. CASE m = Sentinel
      BY <3>1 DEF Has
    <3>2. CASE m # Sentinel
      <4>1. m \in OnLevel(v) /\ v < height[m] /\ height[m] \in Nat
        BY <1>1, <3>2, NodeFacts DEF LevelInv
      <4> QED BY <3>2, <4>1 DEF Has, Levels
    <3> QED BY <3>1, <3>2
  <2> QED BY <2>1, <2>2, SuccAt DEF Succ
<1>4. Ordered(OnLevel(v), key, Succ(v)) /\ Reached(OnLevel(v), Succ(v))
      /\ \A n \in OnLevel(v) : \A w \in 0 .. v : n \in OnLevel(w)
  BY DEF LevelInv
<1>5. /\ \A m \in OnLevel(v) \cup {Sentinel} : Succ(v)[m] \in OnLevel(v) \cup {Null}
      /\ \A m, n \in OnLevel(v) : key[m] = key[n] => m = n
      /\ \A m \in OnLevel(v) \cup {Sentinel}, n \in OnLevel(v) :
           m = Sentinel \/ Less(key[m], key[n]) =>
             Succ(v)[m] \in OnLevel(v) /\ (Succ(v)[m] = n \/ Less(key[Succ(v)[m]], key[n]))
  BY <1>4 DEF Ordered
<1>6. \A n \in OnLevel(v) : \E m \in OnLevel(v) \cup {Sentinel} : Succ(v)[m] = n
  BY <1>4, <1>5, Pointed
<1> QED BY <1>1, <1>2, <1>3, <1>4, <1>5, <1>6

(***************************************************************************)
(* What the steps do to the list.                                          *)
(***************************************************************************)
SameNodes == key' = key /\ val' = val /\ height' = height /\ max_level' = max_level

SamePointers(n, p, v) ==
  /\ DOMAIN tower' = DOMAIN tower
  /\ \A m \in DOMAIN tower : DOMAIN tower'[m] = DOMAIN tower[m]
  /\ \A m \in DOMAIN tower : \A w \in DOMAIN tower[m] :
       ~(w = v /\ (m = n \/ m = p)) => tower'[m][w] = tower[m][w]

LinkedAt(n, p, s, v) ==
  /\ SameNodes /\ SamePointers(n, p, v) /\ tower'[p][v] = n
  /\ tower'[n][v] = IF s = Null THEN tower[n][v] ELSE s

MissedAt(n, s, v) ==
  /\ SameNodes /\ SamePointers(n, n, v)
  /\ tower'[n][v] = IF s = Null THEN tower[n][v] ELSE s

SameLevels == \A w \in Levels : OnLevel(w)' = OnLevel(w)

LEMMA LinkedIs ==
  ASSUME ListTypes, NEW n \in Nodes, NEW p \in Nodes \cup {Sentinel}, NEW s, NEW v, n # p,
         v \in Has(n), v \in Has(p), tower' = Linked(n, p, s, v), SameNodes
  PROVE  LinkedAt(n, p, s, v)
<1>1. n \in DOMAIN tower /\ p \in DOMAIN tower /\ v \in DOMAIN tower[n] /\ v \in DOMAIN tower[p]
  BY DEF ListTypes
<1> QED BY <1>1 DEF Linked, LinkedAt, SamePointers

LEMMA MissedIs ==
  ASSUME ListTypes, NEW n \in Nodes, NEW s, NEW v,
         v \in Has(n), tower' = Missed(n, s, v), SameNodes
  PROVE  MissedAt(n, s, v)
<1>1. n \in DOMAIN tower /\ v \in DOMAIN tower[n]
  BY DEF ListTypes
<1> QED BY <1>1 DEF Missed, MissedAt, SamePointers

\* The nodes and the heights, when a step changes pointers only.
LEMMA SameHas ==
  ASSUME ListTypes, SameNodes, NEW n, NEW p, NEW v, SamePointers(n, p, v)
  PROVE  /\ Nodes' = Nodes /\ allocated' = allocated
         /\ \A m : Has(m)' = Has(m)
         /\ DOMAIN tower' = Nodes \cup {Sentinel}
         /\ \A m \in Nodes \cup {Sentinel} : DOMAIN tower'[m] = Has(m) /\ DOMAIN tower[m] = Has(m)
         /\ \A m \in Nodes \cup {Sentinel} : \A w \in Has(m) :
              ~(w = v /\ (m = n \/ m = p)) => tower'[m][w] = tower[m][w]
<1>1. Nodes' = Nodes /\ allocated' = allocated
  BY DEF SameNodes, Nodes, allocated
<1>2. \A m : Has(m)' = Has(m)
  BY DEF SameNodes, Has
<1>3. DOMAIN tower = Nodes \cup {Sentinel} /\ \A m \in Nodes \cup {Sentinel} : DOMAIN tower[m] = Has(m)
  BY DEF ListTypes
<1> QED BY <1>1, <1>2, <1>3 DEF SamePointers

LEMMA SameListTypes ==
  ASSUME ListTypes, SameNodes, NEW n, NEW p, NEW v, SamePointers(n, p, v),
         \A m \in Nodes \cup {Sentinel} :
           v \in Has(m) /\ (m = n \/ m = p) => tower'[m][v] \in Nodes \cup {Null}
  PROVE  ListTypes'
<1>1. /\ Nodes' = Nodes /\ allocated' = allocated /\ \A m : Has(m)' = Has(m)
      /\ DOMAIN tower' = Nodes \cup {Sentinel}
      /\ \A m \in Nodes \cup {Sentinel} : DOMAIN tower'[m] = Has(m)
      /\ \A m \in Nodes \cup {Sentinel} : \A w \in Has(m) :
           ~(w = v /\ (m = n \/ m = p)) => tower'[m][w] = tower[m][w]
  BY SameHas
<1>2. \A m \in Nodes \cup {Sentinel} : \A w \in Has(m) : tower[m][w] \in Nodes \cup {Null}
  BY DEF ListTypes
<1>3. \A m \in Nodes \cup {Sentinel} : \A w \in Has(m) : tower'[m][w] \in Nodes \cup {Null}
  BY <1>1, <1>2
<1>4. /\ key' \in Seq(Key) /\ val' \in Seq(Thread) /\ height' \in Seq(1 .. MAX_HEAD_HEIGHT)
      /\ Len(val') = allocated' /\ Len(height') = allocated' /\ allocated' <= MaxNodes
      /\ max_level' \in 1 .. MAX_HEAD_HEIGHT
  BY <1>1 DEF ListTypes, SameNodes
<1> QED BY <1>1, <1>3, <1>4 DEF ListTypes

LEMMA OnLevelHas ==
  ASSUME ListTypes, NEW v
  PROVE  \A x : x \in OnLevel(v) <=> x # Null /\ \E m \in Nodes \cup {Sentinel} : v \in Has(m) /\ tower[m][v] = x
BY DEF OnLevel, ListTypes

LEMMA OnLevelNext ==
  ASSUME ListTypes', NEW v
  PROVE  \A x : x \in OnLevel(v)' <=> x # Null /\ \E m \in Nodes' \cup {Sentinel} : v \in Has(m)' /\ tower'[m][v] = x
BY DEF OnLevel, ListTypes

\* The levels other than v, when a step changes pointers at v only.
LEMMA OtherLevels ==
  ASSUME ListTypes, ListTypes', LevelInv, SameNodes, NEW n, NEW p, NEW v, SamePointers(n, p, v),
         NEW w \in Levels, w # v
  PROVE  /\ OnLevel(w)' = OnLevel(w)
         /\ Ordered(OnLevel(w), key, Succ(w)') /\ Reached(OnLevel(w), Succ(w)')
<1>1. /\ Nodes' = Nodes /\ \A m : Has(m)' = Has(m)
      /\ DOMAIN tower' = Nodes \cup {Sentinel}
      /\ \A m \in Nodes \cup {Sentinel} : DOMAIN tower'[m] = Has(m)
      /\ \A m \in Nodes \cup {Sentinel} : \A x \in Has(m) :
           ~(x = v /\ (m = n \/ m = p)) => tower'[m][x] = tower[m][x]
  BY SameHas
<1>2. OnLevel(w)' = OnLevel(w)
  BY <1>1, OnLevelHas, OnLevelNext
<1>3. \A m \in OnLevel(w) \cup {Sentinel} : /\ m \in Nodes \cup {Sentinel} /\ w \in Has(m)
                                            /\ Succ(w)[m] = tower[m][w]
  BY LevelFacts
<1>4. \A m \in OnLevel(w) \cup {Sentinel} : Succ(w)'[m] = tower'[m][w]
  BY <1>1, <1>3, SuccAt, OnLevelIs
<1>5. \A m \in OnLevel(w) \cup {Sentinel} : Succ(w)[m] = Succ(w)'[m]
  BY <1>1, <1>3, <1>4
<1>6. Ordered(OnLevel(w), key, Succ(w)) /\ Reached(OnLevel(w), Succ(w))
  BY DEF LevelInv
<1> QED BY <1>2, <1>5, <1>6, SameLevel

\* A node that is not on a level may change its own pointer there, to one of
\* the level's nodes with a larger key.
LEMMA MissList ==
  ASSUME ListTypes, LevelInv, OffInv, NEW v \in Levels, NEW n \in Nodes, v \in Has(n), n \notin OnLevel(v),
         NEW s, s = Null \/ (s \in OnLevel(v) /\ Less(key[n], key[s])), MissedAt(n, s, v)
  PROVE  ListTypes' /\ LevelInv' /\ OffInv' /\ SameLevels
<1>1. SameNodes /\ SamePointers(n, n, v) /\ tower'[n][v] = (IF s = Null THEN tower[n][v] ELSE s)
  BY DEF MissedAt
<1>2. /\ OnLevel(v) \subseteq Nodes /\ Sentinel \notin OnLevel(v)
      /\ \A x \in OnLevel(v) : \E m \in OnLevel(v) \cup {Sentinel} : tower[m][v] = x
      /\ \A m \in OnLevel(v) \cup {Sentinel} : v \in Has(m) /\ Succ(v)[m] = tower[m][v]
  BY LevelFacts
<1>3. tower[n][v] \in Nodes \cup {Null} /\ n # Sentinel
  BY NodeFacts DEF ListTypes
<1>4. ListTypes'
  <2>1. tower'[n][v] \in Nodes \cup {Null}
    BY <1>1, <1>2, <1>3
  <2> QED BY <1>1, <2>1, SameListTypes
<1>5. /\ Nodes' = Nodes /\ (\A m : Has(m)' = Has(m)) /\ key' = key /\ height' = height
      /\ DOMAIN tower' = Nodes \cup {Sentinel}
      /\ \A m \in Nodes \cup {Sentinel} : DOMAIN tower'[m] = Has(m)
      /\ \A m \in Nodes \cup {Sentinel} : \A w \in Has(m) : ~(w = v /\ m = n) => tower'[m][w] = tower[m][w]
  BY <1>1, SameHas DEF SameNodes
<1>6. OnLevel(v)' = OnLevel(v)
  <2>1. ASSUME NEW x \in OnLevel(v)' PROVE x \in OnLevel(v)
    <3>1. PICK m \in Nodes \cup {Sentinel} : v \in Has(m) /\ tower'[m][v] = x /\ x # Null
      BY <1>4, <1>5, <2>1, OnLevelNext
    <3>2. m # n => tower[m][v] = x
      BY <1>5, <3>1
    <3>3. m = n => x = s \/ tower[m][v] = x
      BY <1>1, <3>1
    <3>4. tower[m][v] = x => x \in OnLevel(v)
      BY <3>1, OnLevelHas
    <3> QED BY <3>1, <3>2, <3>3, <3>4
  <2>2. ASSUME NEW x \in OnLevel(v) PROVE x \in OnLevel(v)'
    <3>1. PICK m \in OnLevel(v) \cup {Sentinel} : tower[m][v] = x
      BY <1>2
    <3>2. m # n /\ m \in Nodes \cup {Sentinel} /\ v \in Has(m) /\ x # Null
      BY <1>2, <1>3, <2>2, LevelFacts
    <3>3. tower'[m][v] = x
      BY <1>5, <3>1, <3>2
    <3> QED BY <1>4, <1>5, <3>2, <3>3, OnLevelNext
  <2> QED BY <2>1, <2>2
<1>7. Ordered(OnLevel(v), key, Succ(v)') /\ Reached(OnLevel(v), Succ(v)')
  <2>1. \A m \in OnLevel(v) \cup {Sentinel} : m # n /\ m \in Nodes \cup {Sentinel}
    BY <1>2, <1>3
  <2>2. \A m \in OnLevel(v) \cup {Sentinel} : Succ(v)'[m] = tower'[m][v]
    BY <1>2, <1>5, <2>1, SuccAt, OnLevelIs
  <2>3. \A m \in OnLevel(v) \cup {Sentinel} : Succ(v)[m] = Succ(v)'[m]
    BY <1>2, <1>5, <2>1, <2>2
  <2>4. Ordered(OnLevel(v), key, Succ(v)) /\ Reached(OnLevel(v), Succ(v))
    BY DEF LevelInv
  <2> QED BY <2>3, <2>4, SameLevel
<1>8. SameLevels
  BY <1>1, <1>4, <1>6, OtherLevels DEF SameLevels
<1>9. LevelInv'
  <2> SUFFICES ASSUME NEW w \in Levels
               PROVE  /\ Ordered(OnLevel(w)', key', Succ(w)') /\ Reached(OnLevel(w)', Succ(w)')
                      /\ \A x \in OnLevel(w)' : w < height'[x] /\ \A y \in 0 .. w : x \in OnLevel(y)'
    BY DEF LevelInv
  <2>1. Ordered(OnLevel(w)', key', Succ(w)') /\ Reached(OnLevel(w)', Succ(w)')
    BY <1>1, <1>4, <1>5, <1>6, <1>7, OtherLevels
  <2>2. \A y \in 0 .. w : y \in Levels
    BY HeightAssumption DEF Levels
  <2>3. \A x \in OnLevel(w) : w < height[x] /\ \A y \in 0 .. w : x \in OnLevel(y)
    BY DEF LevelInv
  <2> QED BY <1>5, <1>8, <2>1, <2>2, <2>3 DEF SameLevels
<1>10. OffInv'
  <2> SUFFICES ASSUME NEW w \in Levels, NEW m \in Nodes, w \in Has(m), tower'[m][w] # Null
               PROVE  Less(key[m], key[tower'[m][w]])
    BY <1>5 DEF OffInv
  <2>1. CASE w = v /\ m = n
    BY <1>1, <2>1 DEF OffInv
  <2>2. CASE ~(w = v /\ m = n)
    <3>1. tower'[m][w] = tower[m][w]
      BY <1>5, <2>2
    <3> QED BY <3>1 DEF OffInv
  <2> QED BY <2>1, <2>2
<1> QED BY <1>4, <1>8, <1>9, <1>10

\* A node is linked between two that are neighbours at the level.
LEMMA LinkList ==
  ASSUME ListTypes, LevelInv, OffInv, NEW v \in Levels, NEW n \in Nodes, v \in Has(n), n \notin OnLevel(v),
         \A w \in 0 .. v : w # v => n \in OnLevel(w), NEW p, PredOK(key[n], v, p),
         NEW s, s = Null \/ (s \in OnLevel(v) /\ Less(key[n], key[s])),
         tower[p][v] = s, LinkedAt(n, p, s, v)
  PROVE  /\ ListTypes' /\ LevelInv' /\ OffInv'
         /\ OnLevel(v)' = OnLevel(v) \cup {n}
         /\ \A w \in Levels : w # v => OnLevel(w)' = OnLevel(w)
<1>1. /\ SameNodes /\ SamePointers(n, p, v) /\ tower'[p][v] = n
      /\ tower'[n][v] = (IF s = Null THEN tower[n][v] ELSE s)
  BY DEF LinkedAt
<1>2. /\ OnLevel(v) \subseteq Nodes /\ Sentinel \notin OnLevel(v) /\ Null \notin OnLevel(v)
      /\ \A x \in OnLevel(v) : \E m \in OnLevel(v) \cup {Sentinel} : tower[m][v] = x
      /\ \A m \in OnLevel(v) \cup {Sentinel} : v \in Has(m) /\ Succ(v)[m] = tower[m][v]
                                               /\ tower[m][v] \in OnLevel(v) \cup {Null}
  BY LevelFacts
<1>3. tower[n][v] \in Nodes \cup {Null} /\ n # Sentinel /\ n # Null
  BY NodeFacts DEF ListTypes
<1>4. p \in OnLevel(v) \cup {Sentinel} /\ (p = Sentinel \/ Less(key[p], key[n])) /\ p # n
  BY <1>3 DEF PredOK
<1>5. \A x \in Nodes : key[x] \in SearchKeys
  BY NodeFacts
<1>6. tower'[n][v] = s
  <2> SUFFICES ASSUME s = Null, tower[n][v] # Null PROVE FALSE
    BY <1>1
  <2>1. tower[n][v] \in OnLevel(v) /\ Less(key[n], key[tower[n][v]])
    BY OnLevelHas DEF OffInv
  <2>2. p = Sentinel \/ Less(key[p], key[tower[n][v]])
    BY <1>2, <1>4, <1>5, <2>1, LessOrder
  <2>3. tower[p][v] \in OnLevel(v)
    BY <1>4, <2>1, <2>2, LevelFacts
  <2> QED BY <1>2, <2>3
<1>7. ListTypes'
  <2>1. tower'[n][v] \in Nodes \cup {Null} /\ tower'[p][v] \in Nodes \cup {Null}
    BY <1>1, <1>2, <1>6
  <2> QED BY <1>1, <2>1, SameListTypes
<1>8. /\ Nodes' = Nodes /\ (\A m : Has(m)' = Has(m)) /\ key' = key /\ height' = height
      /\ DOMAIN tower' = Nodes \cup {Sentinel}
      /\ \A m \in Nodes \cup {Sentinel} : DOMAIN tower'[m] = Has(m)
      /\ \A m \in Nodes \cup {Sentinel} : \A w \in Has(m) :
           ~(w = v /\ (m = n \/ m = p)) => tower'[m][w] = tower[m][w]
  BY <1>1, SameHas DEF SameNodes
<1>9. OnLevel(v)' = OnLevel(v) \cup {n}
  <2>1. ASSUME NEW x \in OnLevel(v)' PROVE x \in OnLevel(v) \cup {n}
    <3>1. PICK m \in Nodes \cup {Sentinel} : v \in Has(m) /\ tower'[m][v] = x /\ x # Null
      BY <1>7, <1>8, <2>1, OnLevelNext
    <3>2. m # n /\ m # p => tower[m][v] = x
      BY <1>8, <3>1
    <3>3. tower[m][v] = x => x \in OnLevel(v)
      BY <3>1, OnLevelHas
    <3> QED BY <1>1, <1>6, <3>1, <3>2, <3>3
  <2>2. ASSUME NEW x \in OnLevel(v) PROVE x \in OnLevel(v)'
    <3>1. PICK m \in OnLevel(v) \cup {Sentinel} : tower[m][v] = x
      BY <1>2
    <3>2. m # n /\ m \in Nodes \cup {Sentinel} /\ v \in Has(m) /\ x # Null
      BY <1>2, <1>3, <2>2
    <3>3. m # p => tower'[m][v] = x
      BY <1>8, <3>1, <3>2
    <3>4. m = p => tower'[n][v] = x
      BY <1>6, <3>1
    <3> QED BY <1>7, <1>8, <3>2, <3>3, <3>4, OnLevelNext
  <2>3. n \in OnLevel(v)'
    <3>1. p \in Nodes \cup {Sentinel} /\ v \in Has(p)
      BY <1>2, <1>4
    <3> QED BY <1>1, <1>3, <1>7, <1>8, <3>1, OnLevelNext
  <2> QED BY <2>1, <2>2, <2>3
<1>10. Ordered(OnLevel(v) \cup {n}, key, Succ(v)') /\ Reached(OnLevel(v) \cup {n}, Succ(v)')
  <2>1. \A m \in OnLevel(v) \cup {Sentinel} : m # n /\ m \in Nodes \cup {Sentinel} /\ m # Null
    BY <1>2, <1>3, NodeFacts
  <2>2. \A m \in OnLevel(v) \cup {Sentinel} \cup {n} : Succ(v)'[m] = tower'[m][v]
    <3> SUFFICES ASSUME NEW m \in OnLevel(v) \cup {Sentinel} \cup {n} PROVE Succ(v)'[m] = tower'[m][v]
      OBVIOUS
    <3>1. m \in DOMAIN tower' /\ v \in DOMAIN tower'[m]
      BY <1>2, <1>8
    <3> QED BY <3>1, SuccAt, OnLevelIs
  <2>3. \A m \in OnLevel(v) \cup {Sentinel} : m # p => Succ(v)'[m] = Succ(v)[m]
    BY <1>2, <1>8, <2>1, <2>2
  <2>4. Succ(v)'[p] = n /\ Succ(v)'[n] = s /\ Succ(v)[p] = s
    BY <1>1, <1>2, <1>4, <1>6, <2>2
  <2>5. Ordered(OnLevel(v), key, Succ(v)) /\ Reached(OnLevel(v), Succ(v))
    BY DEF LevelInv
  <2>6. \A m \in OnLevel(v) \cup {n} : key[m] \in SearchKeys /\ m # Null /\ m # Sentinel
    BY <1>2, <1>3, <1>5
  <2>7. \A m \in OnLevel(v) \cup {Sentinel} : Succ(v)[m] \in OnLevel(v) \cup {Null}
    BY <1>2
  <2>8. Ordered(OnLevel(v) \cup {n}, key, Succ(v)')
    BY <1>4, <2>3, <2>4, <2>5, <2>6, InsertOrdered
  <2>9. Reached(OnLevel(v) \cup {n}, Succ(v)')
    <3>1. s \in OnLevel(v) \cup {Null} /\ p \in OnLevel(v) \cup {Sentinel}
      BY <1>4
    <3>2. /\ n \notin OnLevel(v) /\ n # Sentinel /\ Sentinel \notin OnLevel(v)
          /\ Null \notin OnLevel(v) /\ n # Null /\ Reached(OnLevel(v), Succ(v))
      BY <1>2, <1>3, <2>5
    <3> QED BY <2>3, <2>4, <2>7, <3>1, <3>2, InsertReached
  <2> QED BY <2>8, <2>9
<1>11. \A w \in Levels : w # v => OnLevel(w)' = OnLevel(w)
  BY <1>1, <1>7, OtherLevels
<1>12. LevelInv'
  <2> SUFFICES ASSUME NEW w \in Levels
               PROVE  /\ Ordered(OnLevel(w)', key', Succ(w)') /\ Reached(OnLevel(w)', Succ(w)')
                      /\ \A x \in OnLevel(w)' : w < height'[x] /\ \A y \in 0 .. w : x \in OnLevel(y)'
    BY DEF LevelInv
  <2>1. Ordered(OnLevel(w)', key', Succ(w)') /\ Reached(OnLevel(w)', Succ(w)')
    BY <1>1, <1>7, <1>8, <1>9, <1>10, OtherLevels
  <2>2. \A y \in 0 .. w : y \in Levels
    BY HeightAssumption DEF Levels
  <2>3. \A x \in OnLevel(w) : w < height[x] /\ \A y \in 0 .. w : x \in OnLevel(y)
    BY DEF LevelInv
  <2>4. \A y \in Levels : OnLevel(y) \subseteq OnLevel(y)'
    BY <1>9, <1>11
  <2>5. v < height[n] /\ \A y \in 0 .. v : n \in OnLevel(y)'
    <3>1. v < height[n]
      BY <1>3, NodeFacts DEF Has
    <3>2. \A y \in 0 .. v : y \in Levels
      BY HeightAssumption DEF Levels
    <3> QED BY <1>9, <2>4, <3>1, <3>2
  <2> QED BY <1>8, <1>9, <1>11, <2>1, <2>2, <2>3, <2>4, <2>5
<1>13. OffInv'
  <2> SUFFICES ASSUME NEW w \in Levels, NEW m \in Nodes, w \in Has(m), tower'[m][w] # Null
               PROVE  Less(key[m], key[tower'[m][w]])
    BY <1>8 DEF OffInv
  <2>1. CASE w = v /\ m = n
    BY <1>6, <2>1
  <2>2. CASE w = v /\ m = p
    <3>1. p # Sentinel
      BY <2>2, NodeFacts
    <3> QED BY <1>1, <1>4, <2>2, <3>1
  <2>3. CASE ~(w = v /\ (m = n \/ m = p))
    <3>1. tower'[m][w] = tower[m][w]
      BY <1>8, <2>3
    <3> QED BY <3>1 DEF OffInv
  <2> QED BY <2>1, <2>2, <2>3
<1> QED BY <1>7, <1>9, <1>11, <1>12, <1>13

LEMMA RandomLevelType ==
  ASSUME NEW z \in Zeros
  PROVE  RandomLevel(z) \in 1 .. MAX_HEAD_HEIGHT
BY HeightAssumption DEF RandomLevel, Below

\* Nodes and levels only grow.
Grows ==
  /\ Nodes \subseteq Nodes' /\ max_level <= max_level'
  /\ \A m \in Nodes : key'[m] = key[m] /\ val'[m] = val[m] /\ height'[m] = height[m] /\ Has(m)' = Has(m)
  /\ \A v \in Levels : OnLevel(v) \subseteq OnLevel(v)'

\* n is the only node that a step may link.
OnlyLinks(n) == \A v \in Levels : OnLevel(v)' \subseteq OnLevel(v) \cup {n}

\* A step that leaves the pointers and the nodes alone.
LEMMA SameList ==
  ASSUME ListTypes, LevelInv, OffInv, UNCHANGED <<tower, key, val, height>>,
         max_level' \in 1 .. MAX_HEAD_HEIGHT, max_level <= max_level'
  PROVE  ListTypes' /\ LevelInv' /\ OffInv' /\ SameLevels /\ Grows /\ Nodes' = Nodes
<1>1. Nodes' = Nodes /\ allocated' = allocated /\ \A m : Has(m)' = Has(m)
  BY DEF Nodes, allocated, Has
<1>2. \A v : OnLevel(v)' = OnLevel(v) /\ Succ(v)' = Succ(v)
  BY DEF OnLevel, Succ, SuccOf
<1>3. ListTypes'
  BY <1>1 DEF ListTypes
<1>4. LevelInv'
  BY <1>2 DEF LevelInv
<1>5. OffInv'
  BY <1>1 DEF OffInv
<1> QED BY <1>1, <1>2, <1>3, <1>4, <1>5 DEF SameLevels, Grows

LEMMA LinkGrows ==
  ASSUME ListTypes, SameNodes, \A v \in Levels : OnLevel(v) \subseteq OnLevel(v)'
  PROVE  Grows /\ Nodes' = Nodes
<1>1. Nodes' = Nodes /\ allocated' = allocated /\ \A m : Has(m)' = Has(m)
  BY DEF Nodes, allocated, Has, SameNodes
<1>2. max_level \in Int
  BY DEF ListTypes
<1> QED BY <1>1, <1>2 DEF SameNodes, Grows

LEMMA AppendAt ==
  ASSUME NEW S, NEW q \in Seq(S), NEW x \in S
  PROVE  /\ Append(q, x) \in Seq(S) /\ Len(Append(q, x)) = Len(q) + 1
         /\ \A i \in 1 .. Len(q) : Append(q, x)[i] = q[i]
         /\ Append(q, x)[Len(q) + 1] = x
OBVIOUS

\* A new node n with key k, value x and h null pointers.
NewNode(n, k, x, h) ==
  /\ key' \in Seq(Key) /\ val' \in Seq(Thread) /\ height' \in Seq(1 .. MAX_HEAD_HEIGHT)
  /\ allocated' = n /\ Len(val') = n /\ Len(height') = n /\ max_level' = max_level
  /\ key'[n] = k /\ val'[n] = x /\ height'[n] = h
  /\ \A m \in Nodes : key'[m] = key[m] /\ val'[m] = val[m] /\ height'[m] = height[m]
  /\ Nodes' = Nodes \cup {n} /\ n \notin Nodes /\ n \in Node /\ n # Sentinel
  /\ DOMAIN tower' = Nodes' \cup {Sentinel} /\ tower'[n] = [v \in 0 .. h - 1 |-> Null]
  /\ \A m \in Nodes \cup {Sentinel} : tower'[m] = tower[m]

LEMMA AllocIs ==
  ASSUME ListTypes, allocated < MaxNodes, NEW n, n = allocated + 1,
         NEW k \in Key, NEW x \in Thread, NEW h \in 1 .. MAX_HEAD_HEIGHT,
         tower' = [m \in 0 .. n |-> IF m < n THEN tower[m] ELSE [v \in 0 .. h - 1 |-> Null]],
         key' = Append(key, k), val' = Append(val, x), height' = Append(height, h), max_level' = max_level
  PROVE  NewNode(n, k, x, h)
<1>1. /\ key \in Seq(Key) /\ val \in Seq(Thread) /\ height \in Seq(1 .. MAX_HEAD_HEIGHT)
      /\ Len(val) = allocated /\ Len(height) = allocated /\ Len(key) = allocated
      /\ max_level \in 1 .. MAX_HEAD_HEIGHT
  BY DEF ListTypes, allocated
<1>2. allocated \in Nat /\ n \in Nat /\ MaxNodes \in Nat
  BY NodeFacts, NodesAssumption
<1>3. key' \in Seq(Key) /\ allocated' = n /\ key'[n] = k /\ \A m \in 1 .. allocated : key'[m] = key[m]
  BY <1>1, AppendAt DEF allocated
<1>4. val' \in Seq(Thread) /\ Len(val') = n /\ val'[n] = x /\ \A m \in 1 .. allocated : val'[m] = val[m]
  BY <1>1, AppendAt
<1>5. /\ height' \in Seq(1 .. MAX_HEAD_HEIGHT) /\ Len(height') = n /\ height'[n] = h
      /\ \A m \in 1 .. allocated : height'[m] = height[m]
  BY <1>1, AppendAt
<1>6. Nodes' = Nodes \cup {n} /\ n \notin Nodes /\ n \in Node /\ n # Sentinel
  BY <1>2, <1>3 DEF Nodes, Node, Sentinel
<1>7. \A m \in Nodes : key'[m] = key[m] /\ val'[m] = val[m] /\ height'[m] = height[m]
  BY <1>3, <1>4, <1>5 DEF Nodes
<1>8. /\ DOMAIN tower' = Nodes' \cup {Sentinel} /\ tower'[n] = [v \in 0 .. h - 1 |-> Null]
      /\ \A m \in Nodes \cup {Sentinel} : tower'[m] = tower[m]
  <2>1. 0 .. n = Nodes \cup {n} \cup {Sentinel} /\ (\A m \in Nodes \cup {Sentinel} : m < n) /\ ~(n < n)
    BY <1>2 DEF Nodes, Sentinel
  <2>2. DOMAIN tower' = 0 .. n
    OBVIOUS
  <2>3. n \in 0 .. n /\ \A m \in Nodes \cup {Sentinel} : m \in 0 .. n
    BY <2>1
  <2>4. tower'[n] = [v \in 0 .. h - 1 |-> Null] /\ \A m \in Nodes \cup {Sentinel} : tower'[m] = tower[m]
    BY <2>1, <2>3
  <2> QED BY <1>6, <2>1, <2>2, <2>4
<1> QED BY <1>1, <1>3, <1>4, <1>5, <1>6, <1>7, <1>8 DEF NewNode

\* It is on no level yet.
LEMMA AllocList ==
  ASSUME ListTypes, LevelInv, OffInv, NEW n, NEW k \in Key, NEW x \in Thread, NEW h \in 1 .. MAX_HEAD_HEIGHT,
         NewNode(n, k, x, h)
  PROVE  ListTypes' /\ LevelInv' /\ OffInv' /\ SameLevels /\ Grows
<1>1. /\ key' \in Seq(Key) /\ val' \in Seq(Thread) /\ height' \in Seq(1 .. MAX_HEAD_HEIGHT)
      /\ allocated' = n /\ Len(val') = n /\ Len(height') = n /\ max_level' = max_level
      /\ height'[n] = h
  BY DEF NewNode
<1>5. \A m \in Nodes : key'[m] = key[m] /\ val'[m] = val[m] /\ height'[m] = height[m]
  BY DEF NewNode
<1>6. Nodes' = Nodes \cup {n} /\ n \notin Nodes /\ n \in Node /\ n # Sentinel
  BY DEF NewNode
<1>7. Has(n)' = 0 .. h - 1 /\ \A m \in Nodes \cup {Sentinel} : Has(m)' = Has(m)
  BY <1>1, <1>5, <1>6 DEF Has
<1>8. /\ DOMAIN tower' = Nodes' \cup {Sentinel} /\ tower'[n] = [v \in 0 .. h - 1 |-> Null]
      /\ \A m \in Nodes \cup {Sentinel} : tower'[m] = tower[m]
  BY DEF NewNode
<1>9. \A m \in Nodes \cup {Sentinel} : DOMAIN tower[m] = Has(m) /\ \A v \in Has(m) : tower[m][v] \in Nodes \cup {Null}
  BY DEF ListTypes
<1>10. \A m \in Nodes' \cup {Sentinel} : DOMAIN tower'[m] = Has(m)' /\ \A v \in Has(m)' : tower'[m][v] \in Nodes' \cup {Null}
  BY <1>6, <1>7, <1>8, <1>9
<1>11. ListTypes'
  <2>1. allocated' <= MaxNodes /\ max_level' \in 1 .. MAX_HEAD_HEIGHT
    BY <1>1, <1>6, NodesAssumption DEF ListTypes, Node
  <2> QED BY <1>1, <1>8, <1>10, <2>1 DEF ListTypes
<1>12. ASSUME NEW v \in Levels PROVE OnLevel(v)' = OnLevel(v)
  <2>1. \A m \in Nodes' \cup {Sentinel} : v \in Has(m)' /\ tower'[m][v] # Null =>
          m \in Nodes \cup {Sentinel} /\ v \in Has(m) /\ tower[m][v] = tower'[m][v]
    BY <1>6, <1>7, <1>8
  <2>2. \A m \in Nodes \cup {Sentinel} : v \in Has(m) =>
          m \in Nodes' \cup {Sentinel} /\ v \in Has(m)' /\ tower[m][v] = tower'[m][v]
    BY <1>6, <1>7, <1>8
  <2>3. ASSUME NEW y \in OnLevel(v)' PROVE y \in OnLevel(v)
    BY <1>11, <2>1, <2>3, OnLevelNext, OnLevelHas
  <2>4. ASSUME NEW y \in OnLevel(v) PROVE y \in OnLevel(v)'
    BY <1>11, <2>2, <2>4, OnLevelNext, OnLevelHas
  <2> QED BY <2>3, <2>4
<1>13. LevelInv'
  <2> SUFFICES ASSUME NEW v \in Levels
               PROVE  /\ Ordered(OnLevel(v)', key', Succ(v)') /\ Reached(OnLevel(v)', Succ(v)')
                      /\ \A y \in OnLevel(v)' : v < height'[y] /\ \A w \in 0 .. v : y \in OnLevel(w)'
    BY DEF LevelInv
  <2>1. /\ Ordered(OnLevel(v), key, Succ(v)) /\ Reached(OnLevel(v), Succ(v))
        /\ \A y \in OnLevel(v) : v < height[y] /\ \A w \in 0 .. v : y \in OnLevel(w)
    BY DEF LevelInv
  <2>2. /\ OnLevel(v) \subseteq Nodes
        /\ \A m \in OnLevel(v) \cup {Sentinel} : v \in Has(m) /\ Succ(v)[m] = tower[m][v]
    BY LevelFacts
  <2>3. \A m \in OnLevel(v) : key[m] = key'[m] /\ height'[m] = height[m]
    BY <1>5, <2>2
  <2>4. \A m \in OnLevel(v) \cup {Sentinel} : Succ(v)[m] = Succ(v)'[m]
    <3> SUFFICES ASSUME NEW m \in OnLevel(v) \cup {Sentinel} PROVE Succ(v)[m] = Succ(v)'[m]
      OBVIOUS
    <3>1. m \in Nodes \cup {Sentinel} /\ v \in Has(m)
      BY <2>2
    <3>2. m \in DOMAIN tower' /\ v \in DOMAIN tower'[m] /\ tower'[m] = tower[m]
      BY <1>6, <1>8, <1>9, <3>1
    <3>3. Succ(v)'[m] = tower'[m][v]
      BY <3>2, SuccAt, OnLevelIs
    <3> QED BY <2>2, <3>2, <3>3
  <2>5. Ordered(OnLevel(v), key', Succ(v)') /\ Reached(OnLevel(v), Succ(v)')
    <3> HIDE DEF Succ
    <3> QED BY <2>1, <2>3, <2>4, SameLevel
  <2>6. \A w \in 0 .. v : w \in Levels
    BY HeightAssumption DEF Levels
  <2> QED BY <1>12, <2>1, <2>3, <2>5, <2>6
<1>14. OffInv'
  <2> SUFFICES ASSUME NEW v \in Levels, NEW m \in Nodes', v \in Has(m)', tower'[m][v] # Null
               PROVE  Less(key'[m], key'[tower'[m][v]])
    BY DEF OffInv
  <2>1. m \in Nodes
    BY <1>6, <1>7, <1>8
  <2>2. v \in Has(m) /\ tower'[m][v] = tower[m][v] /\ tower[m][v] \in Nodes
    BY <1>7, <1>8, <1>9, <2>1
  <2> QED BY <1>5, <2>1, <2>2 DEF OffInv
<1>15. SameLevels /\ Grows
  <2>1. max_level <= max_level'
    BY <1>1 DEF ListTypes
  <2> QED BY <1>5, <1>6, <1>7, <1>12, <2>1 DEF SameLevels, Grows
<1> QED BY <1>11, <1>13, <1>14, <1>15

(***************************************************************************)
(* What a thread knows of the list stays true while the list grows.        *)
(***************************************************************************)
LEMMA SearchKept ==
  ASSUME ListTypes, LevelInv, Grows, NEW l, SearchOK(l)
  PROVE  SearchOK(l)'
<1>1. /\ \A v \in Levels : OnLevel(v) \subseteq OnLevel(v)' /\ OnLevel(v) \subseteq Nodes
      /\ \A m \in Nodes : key'[m] = key[m]
  BY LevelFacts DEF Grows
<1>2. 0 \in Levels
  BY NodeFacts
<1>3. \A v \in Levels : \A p : PredOK(l.key, v, p) => PredOK(l.key, v, p)'
  BY <1>1 DEF PredOK
<1>4. \A v \in Levels : \A s : SuccOK(l.key, v, s) => SuccOK(l.key, v, s)' /\ (s # Null => key'[s] = key[s])
  BY <1>1 DEF SuccOK
<1>5. \A v \in Levels : PredOK(l.key, v, l.preds[v])' /\ SuccOK(l.key, v, l.succs[v])'
  BY <1>3, <1>4 DEF SearchOK
<1>6. \A v \in Levels : l.succs[v] # Null /\ key'[l.succs[v]] = l.key => l.found # Null
  BY <1>4 DEF SearchOK
<1>7. l.found # Null => l.found \in OnLevel(0)' /\ key'[l.found] = l.key
  BY <1>1, <1>2 DEF SearchOK
<1>8. l.pc = "move" => l.level \in Levels /\ l.pred \in OnLevel(l.level)' /\ Less(key'[l.pred], l.key)
  BY <1>1 DEF SearchOK
<1>9. l.pc = "down" => l.level \in Levels \ {0} /\ PredOK(l.key, l.level, l.pred)'
  BY <1>3 DEF SearchOK
<1>10. l.pc = "skip" => l.level \in 1 .. MAX_HEAD_HEIGHT
  BY DEF SearchOK
<1> QED BY <1>5, <1>6, <1>7, <1>8, <1>9, <1>10 DEF SearchOK

LEMMA CursorKept ==
  ASSUME ListTypes, LevelInv, Grows, NEW l, NEW i, CursorOK(l, i)
  PROVE  CursorOK(l, i)'
<1>1. OnLevel(0) \subseteq OnLevel(0)' /\ \A m \in OnLevel(0) : key'[m] = key[m]
  BY NodeFacts, LevelFacts DEF Grows
<1>2. \A k : KeyOn(k) => KeyOn(k)'
  BY <1>1 DEF KeyOn
<1> QED BY <1>1, <1>2 DEF CursorOK

LEMMA PhaseKept ==
  ASSUME ListTypes, LevelInv, Grows, NEW n, OnlyLinks(n), NEW l, NEW t, PhaseOK(t, l), l.node # Null => l.node # n
  PROVE  PhaseOK(t, l)'
<1>1. ASSUME l.node # Null, BuiltOK(l, t) PROVE BuiltOK(l, t)'
  <2>1. l.node \in Nodes
    BY <1>1 DEF BuiltOK
  <2>2. /\ l.node \in Nodes' /\ key'[l.node] = key[l.node] /\ val'[l.node] = val[l.node]
        /\ height'[l.node] = height[l.node] /\ Has(l.node)' = Has(l.node) /\ Has(l.node) \subseteq Levels
    BY <2>1, NodeFacts DEF Grows
  <2>3. \A v \in Levels : l.node \in OnLevel(v)' <=> l.node \in OnLevel(v)
    BY <1>1 DEF Grows, OnlyLinks
  <2> QED BY <1>1, <2>2, <2>3 DEF BuiltOK
<1> QED BY <1>1 DEF PhaseOK, InsertOK

\* What holds of a thread still does when others make the list grow.
LEMMA ThreadKept ==
  ASSUME ListTypes, LevelInv, Grows, NEW n, OnlyLinks(n), NEW l, NEW t, NEW a, NEW i,
         ThreadOK(t, l, a, i), l.node # Null => l.node # n
  PROVE  ThreadOK(t, l, a, i)'
BY SearchKept, CursorKept, PhaseKept DEF ThreadOK, AnswerOK

(***************************************************************************)
(* A step of thread t, after which its locals are l, its answer a and its  *)
(* iterator i.                                                             *)
(***************************************************************************)
Moves(t, l, a, i) ==
  /\ LocTypes' /\ loc'[t] = l /\ answer'[t] = a /\ iter'[t] = i
  /\ \A u \in Thread : u # t => loc'[u] = loc[u] /\ answer'[u] = answer[u] /\ iter'[u] = iter[u]

LEMMA MovesIs ==
  ASSUME LocTypes, NEW t \in Thread, NEW l \in Locals, NEW a \in Answers \cup {Null}, NEW i \in Cursors,
         loc' = [loc EXCEPT ![t] = l], answer' = [answer EXCEPT ![t] = a], iter' = [iter EXCEPT ![t] = i]
  PROVE  Moves(t, l, a, i)
<1> HIDE DEF Locals, Answers, Cursors
<1> QED BY DEF LocTypes, Moves

\* The heights of the nodes, after the step of t.
HeightsKept(t, l) ==
  /\ \A n \in Nodes' \ Nodes : n = l.node
  /\ l.node # Null /\ (l.node \notin Nodes \/ loc[t].pc = "raise") =>
       l.pc = "raise" \/ height'[l.node] <= max_level'
  /\ loc[t].pc = "raise" => l.node = loc[t].node

\* A step in which one thread moves and at most its own node is linked.
LEMMA StepKept ==
  ASSUME IInv, NEW t \in Thread, NEW l, NEW a, NEW i, Moves(t, l, a, i),
         ListTypes', LevelInv', OffInv', Grows, OnlyLinks(l.node), ThreadOK(t, l, a, i)',
         l.node = loc[t].node \/ l.node = Null \/ (l.node \notin Nodes /\ loc[t].node = Null),
         loc[t].node \in OnLevel(0) /\ l.node # loc[t].node => \A v \in Has(loc[t].node) : loc[t].node \in OnLevel(v),
         HeightsKept(t, l)
  PROVE  IInv'
<1>1. /\ LocTypes' /\ loc'[t] = l /\ answer'[t] = a /\ iter'[t] = i
      /\ \A u \in Thread : u # t => loc'[u] = loc[u] /\ answer'[u] = answer[u] /\ iter'[u] = iter[u]
  BY DEF Moves
<1>2. ListTypes /\ LevelInv /\ ThreadInv /\ OwnerInv /\ HeightInv /\ TowerInv
  BY DEF IInv
<1>3. \A u \in Thread : loc[u].node # Null => loc[u].node \in Nodes
  <2> SUFFICES ASSUME NEW u \in Thread, loc[u].node # Null PROVE loc[u].node \in Nodes
    OBVIOUS
  <2>1. PhaseOK(u, loc[u]) /\ loc[u].call \in Calls \cup {Null}
    BY <1>2 DEF ThreadInv, ThreadOK, IInv, LocTypes, Locals
  <2> QED BY <2>1 DEF PhaseOK, GetOK, IterOK, InsertOK, BuiltOK, Calls
<1>4. \A u \in Thread : u # t /\ loc[u].node # Null => loc[u].node # l.node
  BY <1>2, <1>3 DEF OwnerInv
<1>5. ThreadInv'
  <2> SUFFICES ASSUME NEW u \in Thread PROVE ThreadOK(u, loc[u], answer[u], iter[u])'
    BY DEF ThreadInv
  <2>1. CASE u = t
    BY <1>1, <2>1
  <2>2. CASE u # t
    <3>1. PICK m, b, j : m = loc[u] /\ b = answer[u] /\ j = iter[u]
      OBVIOUS
    <3>2. ThreadOK(u, m, b, j) /\ (m.node # Null => m.node # l.node)
      BY <1>2, <1>4, <2>2, <3>1 DEF ThreadInv
    <3>3. ThreadOK(u, m, b, j)'
      BY <1>2, <3>2, ThreadKept
    <3>4. loc'[u] = m /\ answer'[u] = b /\ iter'[u] = j
      BY <1>1, <2>2, <3>1
    <3> QED BY <3>3, <3>4
  <2> QED BY <2>1, <2>2
<1>6. OwnerInv'
  <2> SUFFICES ASSUME NEW u \in Thread, NEW w \in Thread, loc'[u].node # Null, loc'[u].node = loc'[w].node
               PROVE  u = w
    BY DEF OwnerInv
  <2> QED BY <1>1, <1>2, <1>4 DEF OwnerInv
<1>7. HeightInv'
  <2> SUFFICES ASSUME NEW n \in Nodes'
               PROVE  height'[n] <= max_level' \/ \E u \in Thread : loc'[u].pc = "raise" /\ loc'[u].node = n
    BY DEF HeightInv, At
  <2>1. CASE n \notin Nodes
    <3>1. n = l.node /\ n # Null
      <4>1. allocated' \in Nat /\ allocated' <= MaxNodes
        BY DEF ListTypes, allocated
      <4>2. n # Null
        BY <4>1, NodesAssumption DEF Nodes
      <4> QED BY <2>1, <4>2 DEF HeightsKept
    <3> QED BY <1>1, <2>1, <3>1 DEF HeightsKept
  <2>2. CASE n \in Nodes
    <3>1. height'[n] = height[n] /\ height[n] \in Int /\ max_level <= max_level' /\ max_level \in Int /\ max_level' \in Int
      BY <1>2, <2>2, NodeFacts DEF Grows, ListTypes
    <3>2. CASE height[n] <= max_level
      BY <3>1, <3>2
    <3>3. CASE ~(height[n] <= max_level)
      <4>1. PICK u \in Thread : loc[u].pc = "raise" /\ loc[u].node = n
        BY <1>2, <2>2, <3>3 DEF HeightInv, At
      <4>2. CASE u # t
        BY <1>1, <4>1, <4>2
      <4>3. CASE u = t
        <5>1. l.node = n /\ n # Null
          BY <1>2, <2>2, <4>1, <4>3, NodeFacts DEF HeightsKept
        <5> QED BY <1>1, <4>1, <4>3, <5>1 DEF HeightsKept
      <4> QED BY <4>2, <4>3
    <3> QED BY <3>2, <3>3
  <2> QED BY <2>1, <2>2
<1>8. TowerInv'
  <2> SUFFICES ASSUME NEW n \in OnLevel(0)'
               PROVE  (\E u \in Thread : loc'[u].node = n) \/ \A v \in Has(n)' : n \in OnLevel(v)'
    BY DEF TowerInv
  <2>1. CASE n \notin OnLevel(0)
    <3>1. n = l.node
      BY <1>2, <2>1, NodeFacts DEF OnlyLinks
    <3> QED BY <1>1, <3>1
  <2>2. CASE n \in OnLevel(0)
    <3>1. n \in Nodes /\ Has(n)' = Has(n) /\ Has(n) \subseteq Levels /\ \A v \in Levels : OnLevel(v) \subseteq OnLevel(v)'
      BY <1>2, <2>2, NodeFacts, LevelFacts DEF Grows
    <3>2. CASE \A v \in Has(n) : n \in OnLevel(v)
      BY <3>1, <3>2
    <3>3. CASE ~\A v \in Has(n) : n \in OnLevel(v)
      <4>1. PICK u \in Thread : loc[u].node = n
        BY <1>2, <2>2, <3>3 DEF TowerInv
      <4>2. n # Null
        BY <1>2, <3>1, NodeFacts
      <4> QED BY <1>1, <2>2, <3>3, <4>1, <4>2
    <3> QED BY <3>2, <3>3
  <2> QED BY <2>1, <2>2
<1> QED BY <1>1, <1>5, <1>6, <1>7, <1>8 DEF IInv

(***************************************************************************)
(* The calls and the locals of a thread.                                   *)
(***************************************************************************)
LEMMA CallFacts ==
  /\ Null \notin InsertCalls /\ Null \notin GetCalls /\ Null \notin IterCalls /\ Null \notin Answers
  /\ \A c \in InsertCalls : /\ c.key \in Key /\ c.op \in {"insert", "insert_direct"}
                            /\ c \notin GetCalls /\ c \notin IterCalls
  /\ \A c \in GetCalls : /\ c.op = "get" /\ c.user \in User /\ c.seq \in Snapshot
                         /\ c \notin InsertCalls /\ c \notin IterCalls
  /\ \A c \in IterCalls : c.op = "iter" /\ c \notin InsertCalls /\ c \notin GetCalls
<1>1. Null \notin InsertCalls /\ Null \notin GetCalls /\ Null \notin IterCalls /\ Null \notin Answers
  BY NullAssumption
<1>2. \A c \in InsertCalls : c.key \in Key /\ c.op \in {"insert", "insert_direct"}
  BY DEF InsertCalls
<1>3. \A c \in GetCalls : c.op = "get" /\ c.user \in User /\ c.seq \in Snapshot
  BY DEF GetCalls
<1>4. \A c \in IterCalls : c.op = "iter"
  BY DEF IterCalls
<1> QED BY <1>1, <1>2, <1>3, <1>4

LEMMA EncodeType ==
  ASSUME NEW u \in User, NEW s \in Snapshot
  PROVE  Encode(u, s, SEEK_OP_SENTINEL) \in SearchKeys
<1>1. u \in Int /\ s * 256 + 255 \in Nat
  BY ReadAssumption
<1> QED BY <1>1 DEF Encode, pack_trailer, SEEK_OP_SENTINEL, SearchKeys

LEMMA LocalFacts ==
  ASSUME NEW l \in Locals
  PROVE  /\ l.pc \in Labels /\ l.call \in Calls \cup {Null} /\ l.key \in SearchKeys \cup {Null}
         /\ l.level \in 0 .. MAX_HEAD_HEIGHT /\ l.pred \in Node \cup {Sentinel}
         /\ l.preds \in [Levels -> Node \cup {Sentinel}] /\ l.succs \in [Levels -> Node \cup {Null}]
         /\ l.found \in Node \cup {Null} /\ l.after \in Afters /\ l.node \in Node \cup {Null}
         /\ l.seen \in Nat /\ l.up \in Nat
BY DEF Locals

LEMMA SearchingFacts ==
  ASSUME NEW l \in Locals, NEW t, PhaseOK(t, l), l.pc \in Searching
  PROVE  /\ l.key \in SearchKeys /\ l.after \in {"decide", "up", "return", "iter"}
         /\ l.call \in Calls /\ l.call # Null
         /\ l.call \in GetCalls => l.after = "return"
         /\ l.call \in IterCalls => l.after = "iter"
         /\ l.call \in InsertCalls => l.after \in {"decide", "up"} /\ l.key = l.call.key
<1>1. l.call \in Calls /\ l.call # Null
  BY LocalFacts DEF PhaseOK, Searching
<1>2. CASE l.call \in GetCalls
  <2>1. l.key = Encode(l.call.user, l.call.seq, SEEK_OP_SENTINEL) /\ l.after = "return"
    BY <1>2 DEF PhaseOK, GetOK
  <2>2. l.call.user \in User /\ l.call.seq \in Snapshot /\ l.call \notin IterCalls /\ l.call \notin InsertCalls
    BY <1>2, CallFacts
  <2> QED BY <1>1, <2>1, <2>2, EncodeType
<1>3. CASE l.call \in IterCalls
  BY <1>3, CallFacts, LocalFacts DEF PhaseOK, IterOK
<1>4. CASE l.call \in InsertCalls
  <2>1. InsertOK(l, t) /\ l.pc # "raise"
    BY <1>4 DEF PhaseOK, Searching
  <2>2. l.after \in {"decide", "up"} /\ l.key = l.call.key
    BY <1>4, <2>1, CallFacts DEF InsertOK, UnbuiltOK, BuiltOK
  <2> QED BY <1>1, <1>4, <2>2, CallFacts, KeyIsSearchKey
<1> QED BY <1>1, <1>2, <1>3, <1>4 DEF Calls

(***************************************************************************)
(* Searches.                                                               *)
(***************************************************************************)
\* s is the first node at the base whose key is not below k.
First(k, s) ==
  /\ s # Null => s \in OnLevel(0) /\ ~Less(key[s], k)
  /\ \A m \in OnLevel(0) : ~Less(key[m], k) => s # Null /\ ~Less(key[m], key[s])

\* l is followed by m in a search for l's key; what m knows holds.
Searches(l, m) ==
  /\ m \in Locals /\ m.call = l.call /\ m.key = l.key /\ m.node = l.node /\ m.after = l.after
  /\ m.up = l.up /\ m.seen = l.seen /\ m.pc \in Searching \cup {l.after}
  /\ l.found # Null => m.found # Null
  /\ SearchOK(m)
  /\ m.pc \notin Searching => First(l.key, m.succs[0])

LEMMA LoadedTypes ==
  ASSUME ListTypes, NEW l \in Locals, NEW p, NEW v \in Levels, tower[p][v] \in Node \cup {Null},
         p \in Node \cup {Sentinel}, l.after \in {"decide", "up", "return", "iter"}
  PROVE  LET m == Loaded(l, p, v) n == tower[p][v]
         IN  /\ m \in Locals /\ m.call = l.call /\ m.key = l.key /\ m.node = l.node /\ m.after = l.after
             /\ m.up = l.up /\ m.seen = l.seen /\ m.level = v
             /\ ~Stops(l, n) => /\ m.pc = "move" /\ m.pred = n /\ m.found = l.found
                                /\ m.preds = l.preds /\ m.succs = l.succs
             /\ Stops(l, n) => /\ m.pc = (IF v = 0 THEN l.after ELSE "down")
                               /\ m.pred = (IF v = 0 THEN Sentinel ELSE p)
                               /\ m.preds = [l.preds EXCEPT ![v] = p]
                               /\ m.succs = [l.succs EXCEPT ![v] = n]
                               /\ m.found = (IF n # Null /\ key[n] = l.key THEN n ELSE l.found)
<1> DEFINE n == tower[p][v]
<1>1. v \in 0 .. MAX_HEAD_HEIGHT /\ "move" \in Labels /\ "down" \in Labels /\ l.after \in Labels
  BY HeightAssumption DEF Levels, Labels, Searching
<1>2. CASE ~Stops(l, n)
  <2>1. n \in Node
    BY <1>2 DEF Stops
  <2> HIDE DEF n
  <2>2. Loaded(l, p, v) = [l EXCEPT !.pc = "move", !.level = v, !.pred = n]
    BY <1>2 DEF Loaded, n
  <2>3. /\ Loaded(l, p, v) \in Locals
        /\ Loaded(l, p, v).pc = "move" /\ Loaded(l, p, v).level = v /\ Loaded(l, p, v).pred = n
        /\ Loaded(l, p, v).preds = l.preds /\ Loaded(l, p, v).succs = l.succs /\ Loaded(l, p, v).found = l.found
        /\ Loaded(l, p, v).call = l.call /\ Loaded(l, p, v).key = l.key /\ Loaded(l, p, v).node = l.node
        /\ Loaded(l, p, v).after = l.after /\ Loaded(l, p, v).up = l.up /\ Loaded(l, p, v).seen = l.seen
    BY <1>1, <2>1, <2>2 DEF Locals
  <2> QED BY <1>2, <2>3 DEF n
<1>3. CASE Stops(l, n)
  <2> DEFINE f == IF n # Null /\ key[n] = l.key THEN n ELSE l.found
             ps == [l.preds EXCEPT ![v] = p]
             ss == [l.succs EXCEPT ![v] = n]
             c == IF v = 0 THEN l.after ELSE "down"
             d == IF v = 0 THEN Sentinel ELSE p
  <2>1. f \in Node \cup {Null} /\ c \in Labels /\ d \in Node \cup {Sentinel}
    BY <1>1, LocalFacts
  <2>2. ps \in [Levels -> Node \cup {Sentinel}] /\ ss \in [Levels -> Node \cup {Null}]
    BY LocalFacts
  <2>3. Loaded(l, p, v) = [l EXCEPT !.pc = c, !.level = v, !.pred = d, !.preds = ps, !.succs = ss, !.found = f]
    BY <1>3 DEF Loaded, Locals
  <2> HIDE DEF n, f, ps, ss, c, d
  <2>4. /\ Loaded(l, p, v) \in Locals
        /\ Loaded(l, p, v).pc = c /\ Loaded(l, p, v).level = v /\ Loaded(l, p, v).pred = d
        /\ Loaded(l, p, v).preds = ps /\ Loaded(l, p, v).succs = ss /\ Loaded(l, p, v).found = f
        /\ Loaded(l, p, v).call = l.call /\ Loaded(l, p, v).key = l.key /\ Loaded(l, p, v).node = l.node
        /\ Loaded(l, p, v).after = l.after /\ Loaded(l, p, v).up = l.up /\ Loaded(l, p, v).seen = l.seen
    BY <1>1, <2>1, <2>2, <2>3 DEF Locals
  <2> QED BY <1>3, <2>4 DEF f, ps, ss, c, d, n
<1> QED BY <1>2, <1>3

LEMMA FirstAfter ==
  ASSUME ListTypes, LevelInv, NEW k \in SearchKeys, NEW p, PredOK(k, 0, p), NEW n, n = tower[p][0],
         n # Null => ~Less(key[n], k)
  PROVE  First(k, n)
<1>1. /\ p \in OnLevel(0) \cup {Sentinel} /\ (p = Sentinel \/ Less(key[p], k))
      /\ OnLevel(0) \subseteq Nodes /\ 0 \in Levels /\ \A m \in Nodes : key[m] \in SearchKeys
  BY NodeFacts, LevelFacts DEF PredOK
<1>2. n \in OnLevel(0) \cup {Null} /\ Null \notin OnLevel(0)
  BY <1>1, LevelFacts
<1>3. ASSUME NEW m \in OnLevel(0), ~Less(key[m], k) PROVE n # Null /\ ~Less(key[m], key[n])
  <2>1. p = Sentinel \/ Less(key[p], key[m])
    BY <1>1, <1>3, LessMixed
  <2>2. n \in OnLevel(0) /\ (n = m \/ Less(key[n], key[m]))
    BY <1>1, <2>1, LevelFacts
  <2>3. key[n] \in SearchKeys /\ key[m] \in SearchKeys
    BY <1>1, <2>2
  <2> QED BY <1>2, <2>2, <2>3, LessOrder
<1> QED BY <1>2, <1>3 DEF First

\* The load that goes on along a level, or ends it.
LEMMA LoadedOK ==
  ASSUME ListTypes, LevelInv, NEW l \in Locals, NEW p, NEW v \in Levels, SearchOK(l), PredOK(l.key, v, p),
         l.key \in SearchKeys, l.after \in {"decide", "up", "return", "iter"}
  PROVE  Searches(l, Loaded(l, p, v))
<1> DEFINE n == tower[p][v]
<1>1. /\ p \in OnLevel(v) \cup {Sentinel} /\ n \in OnLevel(v) \cup {Null} /\ Null \notin OnLevel(v)
      /\ OnLevel(v) \subseteq Nodes /\ Nodes \subseteq Node /\ OnLevel(v) \subseteq OnLevel(0) /\ Sentinel # Null
  <2>1. \A x \in OnLevel(v) : x \in OnLevel(0)
    <3>1. 0 \in 0 .. v
      BY DEF Levels
    <3> QED BY <3>1, LevelFacts
  <2> QED BY <2>1, NodeFacts, LevelFacts DEF PredOK
<1>2. n \in Node \cup {Null} /\ p \in Node \cup {Sentinel}
  BY <1>1
<1> HIDE DEF n
<1>3. PICK m : m = Loaded(l, p, v)
  OBVIOUS
<1>4. /\ m \in Locals /\ m.call = l.call /\ m.key = l.key /\ m.node = l.node /\ m.after = l.after
      /\ m.up = l.up /\ m.seen = l.seen /\ m.level = v
      /\ ~Stops(l, n) => /\ m.pc = "move" /\ m.pred = n /\ m.found = l.found
                         /\ m.preds = l.preds /\ m.succs = l.succs
      /\ Stops(l, n) => /\ m.pc = (IF v = 0 THEN l.after ELSE "down")
                        /\ m.pred = (IF v = 0 THEN Sentinel ELSE p)
                        /\ m.preds = [l.preds EXCEPT ![v] = p]
                        /\ m.succs = [l.succs EXCEPT ![v] = n]
                        /\ m.found = (IF n # Null /\ key[n] = l.key THEN n ELSE l.found)
  BY <1>2, <1>3, LoadedTypes DEF n
<1>5. /\ \A w \in Levels : PredOK(l.key, w, l.preds[w]) /\ SuccOK(l.key, w, l.succs[w])
      /\ \A w \in Levels : l.succs[w] # Null /\ key[l.succs[w]] = l.key => l.found # Null
      /\ l.found # Null => l.found \in OnLevel(0) /\ key[l.found] = l.key
  BY DEF SearchOK
<1>6. CASE ~Stops(l, n)
  <2>1. n \in OnLevel(v) /\ Less(key[n], l.key)
    BY <1>1, <1>6 DEF Stops
  <2>2. SearchOK(m)
    BY <1>4, <1>5, <1>6, <2>1 DEF SearchOK
  <2> QED BY <1>3, <1>4, <1>6, <2>2 DEF Searches, Searching
<1>7. CASE Stops(l, n)
  <2>1. SuccOK(l.key, v, n)
    BY <1>1, <1>7 DEF Stops, SuccOK
  <2>2. \A w \in Levels : /\ m.preds[w] = (IF w = v THEN p ELSE l.preds[w])
                          /\ m.succs[w] = (IF w = v THEN n ELSE l.succs[w])
    BY <1>4, <1>7, LocalFacts
  <2>3. \A w \in Levels : PredOK(m.key, w, m.preds[w]) /\ SuccOK(m.key, w, m.succs[w])
    BY <1>4, <1>5, <2>1, <2>2
  <2>4. m.found # Null => m.found \in OnLevel(0) /\ key[m.found] = m.key
    BY <1>1, <1>4, <1>5, <1>7
  <2>5. \A w \in Levels : m.succs[w] # Null /\ key[m.succs[w]] = m.key => m.found # Null
    BY <1>4, <1>5, <1>7, <2>2
  <2>6. m.pc # "move" /\ m.pc # "skip" /\ (m.pc = "down" => v \in Levels \ {0} /\ PredOK(m.key, m.level, m.pred))
    BY <1>4, <1>7
  <2>7. SearchOK(m)
    BY <1>4, <2>3, <2>4, <2>5, <2>6 DEF SearchOK
  <2>8. m.pc \notin Searching => First(l.key, m.succs[0])
    <3> SUFFICES ASSUME m.pc \notin Searching PROVE First(l.key, m.succs[0])
      OBVIOUS
    <3>1. v = 0
      BY <1>4, <1>7 DEF Searching
    <3>2. m.succs[0] = n
      BY <2>2, <3>1
    <3>3. n # Null => ~Less(key[n], l.key)
      BY <1>7 DEF Stops
    <3> QED BY <3>1, <3>2, <3>3, FirstAfter DEF n
  <2>9. m.pc \in Searching \cup {l.after} /\ (l.found # Null => m.found # Null)
    BY <1>4, <1>7 DEF Searching
  <2> QED BY <1>3, <1>4, <2>7, <2>8, <2>9 DEF Searches
<1> QED BY <1>6, <1>7

LEMMA MaxLevelOK ==
  ASSUME ListTypes, NEW l \in Locals, SearchOK(l), l.pc = "max"
  PROVE  Searches(l, [l EXCEPT !.pc = "skip", !.level = max_level])
<1>1. max_level \in 1 .. MAX_HEAD_HEIGHT /\ max_level \in 0 .. MAX_HEAD_HEIGHT
  BY HeightAssumption DEF ListTypes
<1>2. PICK m : m = [l EXCEPT !.pc = "skip", !.level = max_level]
  OBVIOUS
<1>3. /\ m \in Locals /\ m.pc = "skip" /\ m.level = max_level /\ m.call = l.call /\ m.key = l.key
      /\ m.node = l.node /\ m.after = l.after /\ m.up = l.up /\ m.seen = l.seen /\ m.found = l.found
      /\ m.preds = l.preds /\ m.succs = l.succs
  BY <1>1, <1>2 DEF Locals, Labels, Searching
<1>4. SearchOK(m)
  BY <1>1, <1>3 DEF SearchOK
<1> QED BY <1>2, <1>3, <1>4 DEF Searches, Searching

\* A level at which the sentinel has no successor is empty.
LEMMA EmptyLevel ==
  ASSUME ListTypes, LevelInv, NEW v \in Levels, tower[Sentinel][v] = Null
  PROVE  OnLevel(v) = {}
BY LevelFacts

LEMMA SkippedOK ==
  ASSUME ListTypes, LevelInv, NEW l \in Locals, SearchOK(l), l.pc = "skip",
         l.after \in {"decide", "up", "return", "iter"}, tower[Sentinel][l.level - 1] = Null
  PROVE  Searches(l, [l EXCEPT !.level = l.level - 1, !.pc = IF l.level = 1 THEN l.after ELSE "skip"])
<1>1. l.level \in 1 .. MAX_HEAD_HEIGHT /\ l.level - 1 \in Levels /\ l.level - 1 \in 0 .. MAX_HEAD_HEIGHT
  BY HeightAssumption DEF SearchOK, Levels
<1>2. PICK c : c = IF l.level = 1 THEN l.after ELSE "skip"
  OBVIOUS
<1>3. c \in Labels /\ c # "move" /\ c # "down" /\ (c = "skip" => l.level # 1) /\ (c # "skip" => c = l.after /\ l.level = 1)
  BY <1>2 DEF Labels, Searching
<1>4. PICK m : m = [l EXCEPT !.level = l.level - 1, !.pc = c]
  OBVIOUS
<1>5. /\ m \in Locals /\ m.pc = c /\ m.level = l.level - 1 /\ m.call = l.call /\ m.key = l.key
      /\ m.node = l.node /\ m.after = l.after /\ m.up = l.up /\ m.seen = l.seen /\ m.found = l.found
      /\ m.preds = l.preds /\ m.succs = l.succs
  BY <1>1, <1>3, <1>4 DEF Locals
<1>6. SearchOK(m)
  <2>1. m.pc = "skip" => m.level \in 1 .. MAX_HEAD_HEIGHT
    BY <1>1, <1>3, <1>5, HeightAssumption
  <2> QED BY <1>3, <1>5, <2>1 DEF SearchOK
<1>7. m.pc \notin Searching => First(l.key, m.succs[0])
  <2> SUFFICES ASSUME m.pc \notin Searching PROVE First(l.key, m.succs[0])
    OBVIOUS
  <2>1. l.level = 1
    BY <1>3, <1>5 DEF Searching
  <2>2. OnLevel(0) = {} /\ 0 \in Levels
    BY <1>1, <2>1, EmptyLevel
  <2>3. SuccOK(l.key, 0, m.succs[0])
    BY <1>5, <2>2 DEF SearchOK
  <2> QED BY <2>2, <2>3 DEF First, SuccOK
<1>8. m.pc \in Searching \cup {l.after}
  BY <1>3, <1>5 DEF Searching
<1> QED BY <1>2, <1>4, <1>5, <1>6, <1>7, <1>8 DEF Searches

\* Every step of a search leads to locals that are right about the list.
LEMMA SearchStepIs ==
  ASSUME ListTypes, LevelInv, NEW t \in Thread, loc[t] \in Locals, PhaseOK(t, loc[t]),
         loc[t].pc # "iter" => SearchOK(loc[t]), SearchStep(t)
  PROVE  /\ loc[t].pc \in Searching /\ UNCHANGED listVars
         /\ \E m : Searches(loc[t], m) /\ loc' = [loc EXCEPT ![t] = m]
<1>1. PICK l \in Locals : l = loc[t]
  OBVIOUS
<1>2. l.pc \in Searching /\ UNCHANGED listVars
  BY <1>1 DEF SearchStep, LoadMaxLevel, SkipLevel, MoveRight, Descend, At, Searching
<1>3. SearchOK(l) /\ l.key \in SearchKeys /\ l.after \in {"decide", "up", "return", "iter"}
  BY <1>1, <1>2, SearchingFacts DEF Searching
<1>4. CASE LoadMaxLevel(t)
  <2>1. l.pc = "max" /\ loc' = [loc EXCEPT ![t] = [l EXCEPT !.pc = "skip", !.level = max_level]]
    BY <1>1, <1>4 DEF LoadMaxLevel, At, Set
  <2>2. Searches(l, [l EXCEPT !.pc = "skip", !.level = max_level])
    BY <1>3, <2>1, MaxLevelOK
  <2> QED BY <1>1, <1>2, <2>1, <2>2
<1>5. CASE SkipLevel(t)
  <2>1. l.pc = "skip"
    BY <1>1, <1>5 DEF SkipLevel, At
  <2>2. l.level - 1 \in Levels /\ PredOK(l.key, l.level - 1, Sentinel)
    BY <1>3, <2>1, HeightAssumption DEF SearchOK, Levels, PredOK
  <2>3. \/ loc' = [loc EXCEPT ![t] = Loaded(l, Sentinel, l.level - 1)]
        \/ /\ tower[Sentinel][l.level - 1] = Null
           /\ loc' = [loc EXCEPT ![t] = [l EXCEPT !.level = l.level - 1, !.pc = IF l.level = 1 THEN l.after ELSE "skip"]]
    BY <1>1, <1>5 DEF SkipLevel, Set
  <2>4. Searches(l, Loaded(l, Sentinel, l.level - 1))
    BY <1>3, <2>2, LoadedOK
  <2>5. tower[Sentinel][l.level - 1] = Null =>
          Searches(l, [l EXCEPT !.level = l.level - 1, !.pc = IF l.level = 1 THEN l.after ELSE "skip"])
    BY <1>3, <2>1, SkippedOK
  <2> QED BY <1>1, <1>2, <2>3, <2>4, <2>5
<1>6. CASE MoveRight(t)
  <2>1. l.pc = "move" /\ loc' = [loc EXCEPT ![t] = Loaded(l, l.pred, l.level)]
    BY <1>1, <1>6 DEF MoveRight, At, Set
  <2>2. Searches(l, Loaded(l, l.pred, l.level))
    BY <1>3, <2>1, LoadedOK DEF SearchOK, PredOK
  <2> QED BY <1>1, <1>2, <2>1, <2>2
<1>7. CASE Descend(t)
  <2>1. l.pc = "down" /\ loc' = [loc EXCEPT ![t] = Loaded(l, l.pred, l.level - 1)]
    BY <1>1, <1>7 DEF Descend, At, Set
  <2>2. l.level - 1 \in Levels /\ PredOK(l.key, l.level - 1, l.pred)
    <3>1. l.level \in Levels \ {0} /\ PredOK(l.key, l.level, l.pred)
      BY <1>3, <2>1 DEF SearchOK
    <3>2. l.level - 1 \in Levels /\ l.level - 1 \in 0 .. l.level /\ l.level \in Levels
      BY <3>1, HeightAssumption DEF Levels
    <3>3. \A x \in OnLevel(l.level) : x \in OnLevel(l.level - 1)
      BY <3>2, LevelFacts
    <3> QED BY <3>1, <3>2, <3>3 DEF PredOK
  <2>3. Searches(l, Loaded(l, l.pred, l.level - 1))
    BY <1>3, <2>2, LoadedOK
  <2> QED BY <1>1, <1>2, <2>1, <2>3
<1> QED BY <1>4, <1>5, <1>6, <1>7 DEF SearchStep

(***************************************************************************)
(* The answer a step of a call gives.                                      *)
(***************************************************************************)
LEMMA EffectIs ==
  ASSUME NEW t, NEW m, m.call \in Calls
  PROVE  /\ answer[t] # Null => Effect(t, m) = answer[t]
         /\ answer[t] = Null /\ m.call \in GetCalls =>
              Effect(t, m) = IF m.pc = "return" THEN MemReturn(m.succs[0], m.call.user) ELSE Null
         /\ answer[t] = Null /\ m.call \in InsertCalls =>
              Effect(t, m) = IF m.found # Null \/ m.pc = "up" THEN [op |-> "done"] ELSE Null
         /\ answer[t] = Null /\ m.call \in IterCalls => Effect(t, m) = Null
<1>1. /\ m.call \in GetCalls => m.call.op = "get"
      /\ m.call \in InsertCalls => m.call.op \in {"insert", "insert_direct"}
      /\ m.call \in IterCalls => m.call.op = "iter"
  BY CallFacts
<1>2. answer[t] # Null => Effect(t, m) = answer[t]
  BY DEF Effect
<1>3. answer[t] = Null /\ m.call.op = "get" =>
        Effect(t, m) = IF m.pc = "return" THEN MemReturn(m.succs[0], m.call.user) ELSE Null
  BY DEF Effect
<1>4. answer[t] = Null /\ m.call.op \in {"insert", "insert_direct"} =>
        Effect(t, m) = IF m.found # Null \/ m.pc = "up" THEN [op |-> "done"] ELSE Null
  BY DEF Effect, Abs!Done
<1>5. answer[t] = Null /\ m.call.op = "iter" => Effect(t, m) = Null
  BY DEF Effect
<1> QED BY <1>1, <1>2, <1>3, <1>4, <1>5

LEMMA AnswerIs ==
  /\ [op |-> "done"] \in Answers
  /\ \A x \in Thread \cup {Null} : Abs!Answer("Value", x) \in Answers
  /\ Abs!Answer("NotFound", Null) \in Answers /\ Abs!Answer("Deleted", Null) \in Answers
  /\ Abs!Answer("Merge", Null) \in Answers
BY DEF Answers, Abs!Answer

LEMMA MemReturnIs ==
  ASSUME ListTypes, NEW s, s # Null => s \in Nodes, NEW u
  PROVE  /\ s = Null => MemReturn(s, u) = Abs!Answer("NotFound", Null)
         /\ s # Null /\ key[s].user # u => MemReturn(s, u) = Abs!Answer("NotFound", Null)
         /\ s # Null /\ key[s].user = u /\ OpOf(key[s]) = Put => MemReturn(s, u) = Abs!Answer("Value", val[s])
         /\ s # Null /\ key[s].user = u /\ OpOf(key[s]) = Delete => MemReturn(s, u) = Abs!Answer("Deleted", Null)
         /\ s # Null /\ key[s].user = u /\ OpOf(key[s]) = Merge => MemReturn(s, u) = Abs!Answer("Merge", Null)
         /\ s # Null => OpOf(key[s]) \in {Put, Delete, Merge} /\ val[s] \in Thread
         /\ MemReturn(s, u) \in Answers
<1>1. s # Null => OpOf(key[s]) \in {Put, Delete, Merge} /\ val[s] \in Thread
  BY NodeFacts, KeyAssumption
<1>2. /\ s = Null => MemReturn(s, u) = Abs!Answer("NotFound", Null)
      /\ s # Null /\ key[s].user # u => MemReturn(s, u) = Abs!Answer("NotFound", Null)
  BY DEF MemReturn
<1>3. /\ s # Null /\ key[s].user = u /\ OpOf(key[s]) = Put => MemReturn(s, u) = Abs!Answer("Value", val[s])
      /\ s # Null /\ key[s].user = u /\ OpOf(key[s]) = Delete => MemReturn(s, u) = Abs!Answer("Deleted", Null)
      /\ s # Null /\ key[s].user = u /\ OpOf(key[s]) = Merge => MemReturn(s, u) = Abs!Answer("Merge", Null)
  BY DEF MemReturn, Put, Delete, Merge
<1> QED BY <1>1, <1>2, <1>3, AnswerIs

\* A thread that has its answer keeps it; otherwise it gets it when it takes effect.
LEMMA EffectOK ==
  ASSUME ListTypes, NEW t \in Thread, answer \in [Thread -> Answers \cup {Null}], NEW l, NEW m, l.call \in Calls, m.call = l.call,
         AnswerOK(l, answer[t]), m.call \in GetCalls => l.pc # "return",
         m.pc = "return" /\ m.succs[0] # Null => m.succs[0] \in Nodes,
         m.call \in InsertCalls /\ l.found # Null => m.found # Null \/ LinkPhase(m),
         m.call \in InsertCalls /\ LinkPhase(l) => LinkPhase(m),
         m.call \in InsertCalls /\ LinkPhase(m) => LinkPhase(l) \/ m.pc = "up"
  PROVE  Effect(t, m) \in Answers \cup {Null} /\ AnswerOK(m, Effect(t, m))
<1>1. /\ answer[t] # Null <=> \/ l.call \in GetCalls /\ l.pc = "return"
                              \/ l.call \in InsertCalls /\ (l.found # Null \/ LinkPhase(l))
      /\ answer[t] # Null /\ l.call \in InsertCalls => answer[t] = [op |-> "done"]
  BY DEF AnswerOK
<1>2. CASE m.call \in GetCalls
  <2>1. m.call \notin InsertCalls /\ answer[t] = Null
    BY <1>1, <1>2, CallFacts
  <2>2. Effect(t, m) = IF m.pc = "return" THEN MemReturn(m.succs[0], m.call.user) ELSE Null
    BY <1>2, <2>1, EffectIs
  <2>3. m.pc = "return" => Effect(t, m) \in Answers
    BY <2>2, MemReturnIs
  <2> QED BY <1>2, <2>1, <2>2, <2>3, CallFacts DEF AnswerOK
<1>3. CASE m.call \in InsertCalls
  <2>1. m.call \notin GetCalls
    BY <1>3, CallFacts
  <2>2. [op |-> "done"] \in Answers /\ [op |-> "done"] # Null
    BY AnswerIs, CallFacts
  <2>3. CASE answer[t] # Null
    <3>1. Effect(t, m) = [op |-> "done"]
      BY <1>1, <1>3, <2>3, EffectIs
    <3>2. m.found # Null \/ LinkPhase(m)
      BY <1>1, <1>3, <2>1, <2>3
    <3> QED BY <1>3, <2>2, <3>1, <3>2 DEF AnswerOK
  <2>4. CASE answer[t] = Null
    <3>1. ~LinkPhase(l) /\ l.found = Null
      BY <1>1, <1>3, <2>4
    <3>2. Effect(t, m) = IF m.found # Null \/ m.pc = "up" THEN [op |-> "done"] ELSE Null
      BY <1>3, <2>4, EffectIs
    <3>3. LinkPhase(m) <=> m.pc = "up"
      BY <1>3, <3>1 DEF LinkPhase
    <3> QED BY <1>3, <2>1, <2>2, <3>2, <3>3 DEF AnswerOK
  <2> QED BY <2>3, <2>4
<1>4. CASE m.call \in IterCalls
  <2>1. m.call \notin GetCalls /\ m.call \notin InsertCalls
    BY <1>4, CallFacts
  <2> QED BY <1>1, <1>4, <2>1, EffectIs DEF AnswerOK
<1> QED BY <1>2, <1>3, <1>4 DEF Calls

(***************************************************************************)
(* The steps of a call that leave the list alone.                          *)
(***************************************************************************)
LEMMA SearchThread ==
  ASSUME ListTypes, LevelInv, NEW t \in Thread, answer \in [Thread -> Answers \cup {Null}], NEW l \in Locals, NEW i,
         l.pc \in Searching, ThreadOK(t, l, answer[t], i), NEW m, Searches(l, m)
  PROVE  Effect(t, m) \in Answers \cup {Null} /\ ThreadOK(t, m, Effect(t, m), i)
<1>1. /\ m \in Locals /\ m.call = l.call /\ m.key = l.key /\ m.node = l.node /\ m.after = l.after
      /\ m.up = l.up /\ m.seen = l.seen /\ m.pc \in Searching \cup {l.after}
      /\ l.found # Null => m.found # Null
      /\ SearchOK(m)
      /\ m.pc \notin Searching => First(l.key, m.succs[0])
  BY DEF Searches
<1>2. PhaseOK(t, l) /\ AnswerOK(l, answer[t]) /\ CursorOK(l, i)
  BY DEF ThreadOK
<1>3. /\ l.key \in SearchKeys /\ l.after \in {"decide", "up", "return", "iter"}
      /\ l.call \in Calls /\ l.call # Null
      /\ l.call \in GetCalls => l.after = "return"
      /\ l.call \in IterCalls => l.after = "iter"
      /\ l.call \in InsertCalls => l.after \in {"decide", "up"} /\ l.key = l.call.key
  BY <1>2, SearchingFacts
<1>4. l.call \in InsertCalls => (LinkPhase(m) <=> LinkPhase(l))
  BY <1>1, <1>3 DEF LinkPhase, Searching
<1>5. PhaseOK(t, m)
  <2>1. l.call \in GetCalls => GetOK(m)
    BY <1>1, <1>2, <1>3 DEF PhaseOK, GetOK
  <2>2. l.call \in IterCalls => IterOK(m)
    BY <1>1, <1>2, <1>3 DEF PhaseOK, IterOK
  <2>3. l.call \in InsertCalls => InsertOK(m, t)
    <3> SUFFICES ASSUME l.call \in InsertCalls PROVE InsertOK(m, t)
      OBVIOUS
    <3>1. InsertOK(l, t) /\ m.pc \in Searching \cup {"decide", "up"} /\ l.after \in {"decide", "up"}
      BY <1>1, <1>2, <1>3 DEF PhaseOK
    <3>2. CASE l.node = Null
      <4>1. UnbuiltOK(l)
        BY <3>1, <3>2 DEF InsertOK
      <4>2. l.call.op = "insert" /\ l.after = "decide"
        BY <4>1 DEF UnbuiltOK
      <4>3. UnbuiltOK(m)
        BY <1>1, <4>1, <4>2 DEF UnbuiltOK, Searching
      <4> QED BY <1>1, <3>1, <3>2, <4>3 DEF InsertOK
    <3>3. CASE l.node # Null
      <4>1. BuiltOK(l, t) /\ l.pc # "raise" /\ m.pc # "raise" /\ m.pc # "panic"
        BY <3>1, <3>3 DEF InsertOK, Searching
      <4>2. BuiltOK(m, t)
        BY <1>1, <1>3, <1>4, <4>1 DEF BuiltOK
      <4> QED BY <1>1, <3>1, <3>3, <4>1, <4>2 DEF InsertOK
    <3> QED BY <3>2, <3>3
  <2> QED BY <1>1, <1>3, <2>1, <2>2, <2>3 DEF PhaseOK
<1>6. CursorOK(m, i)
  <2>1. /\ l.call \notin IterCalls => i = NoIter
        /\ \A k \in i.owed : KeyOn(k)
        /\ i.last = Null /\ \A k \in i.owed : ~Less(k, l.key)
    BY <1>2 DEF CursorOK
  <2>2. ASSUME m.pc = "iter", NEW k \in i.owed PROVE m.succs[0] # Null /\ ~Less(k, key[m.succs[0]])
    <3>1. First(l.key, m.succs[0])
      BY <1>1, <2>2 DEF Searching
    <3>2. PICK n \in OnLevel(0) : key[n] = k
      BY <2>1 DEF KeyOn
    <3> QED BY <2>1, <3>1, <3>2 DEF First
  <2>3. m.pc = "iter" /\ m.succs[0] # Null => m.succs[0] \in OnLevel(0)
    BY <1>1 DEF First, Searching
  <2> QED BY <1>1, <2>1, <2>2, <2>3 DEF CursorOK
<1>7. Effect(t, m) \in Answers \cup {Null} /\ AnswerOK(m, Effect(t, m))
  <2>1. m.pc = "return" /\ m.succs[0] # Null => m.succs[0] \in Nodes
    <3> SUFFICES ASSUME m.pc = "return", m.succs[0] # Null PROVE m.succs[0] \in Nodes
      OBVIOUS
    <3>1. m.succs[0] \in OnLevel(0)
      BY <1>1 DEF First, Searching
    <3> QED BY <3>1, NodeFacts, LevelFacts
  <2>2. l.pc # "return"
    BY DEF Searching
  <2> QED BY <1>1, <1>2, <1>3, <1>4, <2>1, <2>2, EffectOK
<1> QED BY <1>1, <1>5, <1>6, <1>7 DEF ThreadOK

\* Steps that leave the list alone keep the invariant if the thread knows no
\* more than is so, and lets go of its node only when it is linked.
LEMMA QuietStep ==
  ASSUME IInv, NEW t \in Thread, NEW l, NEW a, NEW i, Moves(t, l, a, i), UNCHANGED listVars,
         ThreadOK(t, l, a, i), l.node = loc[t].node \/ l.node = Null, loc[t].pc # "raise",
         loc[t].node \in OnLevel(0) /\ l.node # loc[t].node => \A v \in Has(loc[t].node) : loc[t].node \in OnLevel(v)
  PROVE  IInv'
<1>1. ListTypes /\ LevelInv /\ OffInv
  BY DEF IInv
<1>2. UNCHANGED <<tower, key, val, height>> /\ max_level' = max_level
      /\ max_level' \in 1 .. MAX_HEAD_HEIGHT /\ max_level <= max_level'
  BY <1>1 DEF listVars, ListTypes
<1>3. ListTypes' /\ LevelInv' /\ OffInv' /\ SameLevels /\ Grows /\ Nodes' = Nodes
  BY <1>1, <1>2, SameList
<1>4. OnlyLinks(Null) /\ OnlyLinks(l.node)
  BY <1>3 DEF SameLevels, OnlyLinks
<1>5. ThreadOK(t, l, a, i)'
  <2>1. PICK n : n # l.node /\ OnlyLinks(n)
    <3>1. \E n : n # l.node
      BY <1>1, NodeFacts
    <3> QED BY <1>3, <3>1 DEF SameLevels, OnlyLinks
  <2> QED BY <1>1, <1>3, <2>1, ThreadKept
<1>6. l.node # Null => l.node \in Nodes
  <2>1. PhaseOK(t, loc[t]) /\ loc[t].call \in Calls \cup {Null}
    BY DEF IInv, ThreadInv, ThreadOK, LocTypes, Locals
  <2> QED BY <2>1 DEF PhaseOK, GetOK, IterOK, InsertOK, BuiltOK, Calls
<1>7. HeightsKept(t, l)
  BY <1>3, <1>6 DEF HeightsKept
<1> QED BY <1>3, <1>4, <1>5, <1>7, StepKept

LEMMA StateFacts ==
  ASSUME IInv, NEW t \in Thread
  PROVE  /\ ListTypes /\ LocTypes /\ LevelInv /\ OffInv
         /\ loc[t] \in Locals /\ answer \in [Thread -> Answers \cup {Null}] /\ answer[t] \in Answers \cup {Null}
         /\ iter[t] \in Cursors /\ ThreadOK(t, loc[t], answer[t], iter[t])
         /\ (loc[t].pc # "iter" => SearchOK(loc[t])) /\ PhaseOK(t, loc[t])
         /\ AnswerOK(loc[t], answer[t]) /\ CursorOK(loc[t], iter[t])
         /\ loc[t].call \in Calls \cup {Null}
         /\ loc = [loc EXCEPT ![t] = loc[t]] /\ answer = [answer EXCEPT ![t] = answer[t]]
         /\ iter = [iter EXCEPT ![t] = iter[t]]
<1>1. ListTypes /\ LocTypes /\ LevelInv /\ OffInv /\ ThreadOK(t, loc[t], answer[t], iter[t])
  BY DEF IInv, ThreadInv
<1>2. /\ loc \in [Thread -> Locals] /\ answer \in [Thread -> Answers \cup {Null}] /\ iter \in [Thread -> Cursors]
  BY <1>1 DEF LocTypes
<1>3. loc[t].call \in Calls \cup {Null}
  BY <1>2, LocalFacts
<1> QED BY <1>1, <1>2, <1>3 DEF ThreadOK

LEMMA SearchKeeps ==
  ASSUME IInv, NEW t \in Thread, SearchStep(t), answer' = [answer EXCEPT ![t] = Effect(t, loc'[t])], iter' = iter
  PROVE  IInv'
<1>1. PICK m : /\ Searches(loc[t], m) /\ loc' = [loc EXCEPT ![t] = m]
               /\ loc[t].pc \in Searching /\ UNCHANGED listVars
  BY StateFacts, SearchStepIs
<1>2. loc'[t] = m /\ m \in Locals /\ m.node = loc[t].node
  BY <1>1, StateFacts DEF LocTypes, Searches
<1>3. Effect(t, m) \in Answers \cup {Null} /\ ThreadOK(t, m, Effect(t, m), iter[t])
  BY <1>1, StateFacts, SearchThread
<1>4. Moves(t, m, Effect(t, m), iter[t])
  BY <1>1, <1>2, <1>3, StateFacts, MovesIs
<1> QED BY <1>1, <1>2, <1>3, <1>4, QuietStep DEF Searching

LEMMA FreshFacts ==
  /\ Fresh \in Locals /\ NoIter \in Cursors
  /\ Fresh.pc = "idle" /\ Fresh.call = Null /\ Fresh.key = Null /\ Fresh.level = 0 /\ Fresh.pred = Sentinel
  /\ Fresh.preds = [l \in Levels |-> Sentinel] /\ Fresh.succs = [l \in Levels |-> Null]
  /\ Fresh.found = Null /\ Fresh.after = "" /\ Fresh.node = Null /\ Fresh.seen = 0 /\ Fresh.up = 1
  /\ NoIter.last = Null /\ NoIter.owed = {}
<1>1. "idle" \in Labels /\ "" \in Afters /\ 0 \in 0 .. MAX_HEAD_HEIGHT /\ 0 \in Nat /\ 1 \in Nat
  BY HeightAssumption DEF Labels, Afters
<1>2. /\ [l \in Levels |-> Sentinel] \in [Levels -> Node \cup {Sentinel}]
      /\ [l \in Levels |-> Null] \in [Levels -> Node \cup {Null}]
  OBVIOUS
<1>3. Fresh \in Locals
  BY <1>1, <1>2 DEF Fresh, Locals
<1>4. NoIter \in Cursors
  BY DEF NoIter, Cursors
<1> QED BY <1>3, <1>4 DEF Fresh, NoIter

LEMMA FreshThread ==
  ASSUME NEW t
  PROVE  ThreadOK(t, Fresh, Null, NoIter)
<1>1. SearchOK(Fresh)
  BY FreshFacts DEF SearchOK, PredOK, SuccOK
<1>2. PhaseOK(t, Fresh)
  BY FreshFacts, CallFacts DEF PhaseOK
<1>3. AnswerOK(Fresh, Null)
  BY FreshFacts, CallFacts DEF AnswerOK
<1>4. CursorOK(Fresh, NoIter)
  BY FreshFacts DEF CursorOK, Searching
<1> QED BY <1>1, <1>2, <1>3, <1>4 DEF ThreadOK

LEMMA ReturnKeeps ==
  ASSUME IInv, NEW t \in Thread, Return(t)
  PROVE  IInv'
<1>1. PICK l : l = loc[t]
  OBVIOUS
<1>2. /\ l.pc = "return" \/ (l.pc = "decide" /\ l.found # Null) \/ (l.pc = "up" /\ l.up = height[l.node])
      /\ loc' = [loc EXCEPT ![t] = Fresh] /\ answer' = [answer EXCEPT ![t] = Null] /\ UNCHANGED listVars /\ iter' = iter
  BY <1>1 DEF Return, Exists, LinkedUp, At, Set
<1>3. l \in Locals /\ PhaseOK(t, l) /\ CursorOK(l, iter[t]) /\ l.call \in Calls \cup {Null}
  BY <1>1, StateFacts
<1>4. l.call \in GetCalls \cup InsertCalls
  <2>1. l.call # Null
    BY <1>2, <1>3 DEF PhaseOK
  <2>2. l.call \notin IterCalls
    BY <1>2, <1>3 DEF PhaseOK, IterOK, Searching
  <2> QED BY <1>3, <2>1, <2>2 DEF Calls
<1>5. iter[t] = NoIter
  BY <1>3, <1>4, CallFacts DEF CursorOK
<1>6. Moves(t, Fresh, Null, NoIter)
  BY <1>2, <1>5, StateFacts, FreshFacts, MovesIs
<1>7. l.node \in OnLevel(0) => \A v \in Has(l.node) : l.node \in OnLevel(v)
  <2> SUFFICES ASSUME l.node \in OnLevel(0) PROVE \A v \in Has(l.node) : l.node \in OnLevel(v)
    OBVIOUS
  <2>1. l.node # Null /\ 0 \in Levels
    BY StateFacts, NodeFacts, LevelFacts
  <2>2. l.call \in InsertCalls /\ BuiltOK(l, t)
    BY <1>3, <1>4, <2>1 DEF PhaseOK, GetOK, InsertOK
  <2>3. LinkPhase(l)
    BY <2>1, <2>2 DEF BuiltOK
  <2>4. l.pc = "up" /\ l.up = height[l.node]
    BY <1>2, <2>3 DEF LinkPhase, Searching
  <2>5. l.node \in Nodes /\ \A v \in Has(l.node) : v < height[l.node] => l.node \in OnLevel(v)
    BY <2>2, <2>3, <2>4 DEF BuiltOK
  <2>6. \A v \in Has(l.node) : v < height[l.node]
    <3>1. l.node # Sentinel /\ height[l.node] \in Int
      BY <2>5, StateFacts, NodeFacts
    <3> QED BY <3>1 DEF Has
  <2> QED BY <2>5, <2>6
<1> QED BY <1>1, <1>2, <1>6, <1>7, FreshThread, FreshFacts, QuietStep

LEMMA IterEndKeeps ==
  ASSUME IInv, NEW t \in Thread, IterEnd(t)
  PROVE  IInv'
<1>1. PICK l : l = loc[t]
  OBVIOUS
<1>2. /\ l.pc = "iter" /\ loc' = [loc EXCEPT ![t] = Fresh] /\ answer' = answer /\ UNCHANGED listVars
      /\ iter' = [iter EXCEPT ![t] = NoIter]
  BY <1>1 DEF IterEnd, At, Set
<1>3. l \in Locals /\ PhaseOK(t, l) /\ AnswerOK(l, answer[t]) /\ l.call \in Calls \cup {Null}
  BY <1>1, StateFacts
<1>4. l.call \in IterCalls /\ l.node = Null
  BY <1>2, <1>3 DEF PhaseOK, GetOK, IterOK, InsertOK, Searching, Calls
<1>5. answer[t] = Null
  BY <1>3, <1>4, CallFacts DEF AnswerOK
<1>6. Moves(t, Fresh, Null, NoIter)
  BY <1>2, <1>5, StateFacts, FreshFacts, MovesIs
<1> QED BY <1>1, <1>2, <1>4, <1>6, FreshThread, FreshFacts, QuietStep

LEMMA IterNextKeeps ==
  ASSUME IInv, NEW t \in Thread, IterNext(t)
  PROVE  IInv'
<1>1. PICK l, i, c : l = loc[t] /\ i = iter[t] /\ c = l.succs[0]
  OBVIOUS
<1>2. PICK s, d : s = tower[c][0] /\ d = key[c]
  OBVIOUS
<1>3. PICK m, j : m = [l EXCEPT !.succs[0] = s] /\ j = [i EXCEPT !.owed = i.owed \ {d}, !.last = d]
  OBVIOUS
<1>4. /\ l.pc = "iter" /\ c # Null /\ loc' = [loc EXCEPT ![t] = m] /\ answer' = answer /\ UNCHANGED listVars
      /\ iter' = [iter EXCEPT ![t] = j]
  BY <1>1, <1>2, <1>3 DEF IterNext, At, Set, Current
<1>5. /\ ListTypes /\ LevelInv /\ l \in Locals /\ PhaseOK(t, l) /\ AnswerOK(l, answer[t]) /\ CursorOK(l, i)
      /\ l.call \in Calls \cup {Null} /\ i \in Cursors /\ 0 \in Levels /\ answer[t] \in Answers \cup {Null}
  BY <1>1, StateFacts, NodeFacts
<1>6. l.call \in IterCalls /\ l.node = Null
  BY <1>4, <1>5 DEF PhaseOK, GetOK, IterOK, InsertOK, Searching, Calls
<1>7. /\ \A k \in i.owed : KeyOn(k) /\ ~Less(k, d)
      /\ c \in OnLevel(0)
  BY <1>1, <1>2, <1>4, <1>5 DEF CursorOK
<1>8. /\ c \in Nodes /\ d \in Key /\ d \in SearchKeys /\ s \in OnLevel(0) \cup {Null} /\ Null \notin OnLevel(0)
      /\ OnLevel(0) \subseteq Nodes /\ Nodes \subseteq Node
  BY <1>2, <1>5, <1>7, NodeFacts, LevelFacts
<1>9. /\ m \in Locals /\ m.pc = l.pc /\ m.call = l.call /\ m.key = l.key /\ m.node = l.node
      /\ m.found = l.found /\ m.after = l.after /\ m.succs[0] = s
  <2>1. s \in Node \cup {Null}
    BY <1>8
  <2>2. m = [l EXCEPT !.succs = [l.succs EXCEPT ![0] = s]]
    BY <1>3 DEF Locals
  <2>3. PICK ss : ss = [l.succs EXCEPT ![0] = s]
    OBVIOUS
  <2>4. ss \in [Levels -> Node \cup {Null}] /\ ss[0] = s
    BY <1>5, <2>1, <2>3, LocalFacts
  <2> QED BY <1>5, <2>2, <2>3, <2>4 DEF Locals
<1>10. j \in Cursors /\ j.owed = i.owed \ {d} /\ j.last = d
  BY <1>3, <1>5, <1>8 DEF Cursors
<1>11. ASSUME NEW k \in i.owed, k # d PROVE s \in OnLevel(0) /\ ~Less(k, key[s])
  <2>1. PICK n \in OnLevel(0) : key[n] = k
    BY <1>7 DEF KeyOn
  <2>2. k \in SearchKeys
    BY <1>5, <1>8, <2>1, NodeFacts
  <2>3. Less(d, k)
    BY <1>7, <1>8, <1>11, <2>2, LessMixed
  <2>4. s \in OnLevel(0) /\ (s = n \/ Less(key[s], k))
    BY <1>2, <1>5, <1>7, <2>1, <2>3, LevelFacts
  <2>5. key[s] \in SearchKeys
    BY <1>5, <1>8, <2>4, NodeFacts
  <2> QED BY <2>1, <2>2, <2>4, <2>5, LessMixed, LessOrder
<1>12. s # Null => Less(d, key[s])
  <2>1. Ordered(OnLevel(0), key, Succ(0)) /\ Succ(0)[c] = s
    BY <1>2, <1>5, <1>7, LevelFacts DEF LevelInv
  <2> QED BY <1>2, <1>7, <2>1 DEF Ordered
<1>13. CursorOK(m, j)
  BY <1>4, <1>6, <1>7, <1>8, <1>9, <1>10, <1>11, <1>12 DEF CursorOK, Searching
<1>14. PhaseOK(t, m)
  BY <1>4, <1>6, <1>9, CallFacts DEF PhaseOK, IterOK, Searching
<1>15. AnswerOK(m, answer[t])
  BY <1>5, <1>9 DEF AnswerOK, LinkPhase
<1>16. ThreadOK(t, m, answer[t], j)
  BY <1>4, <1>9, <1>13, <1>14, <1>15 DEF ThreadOK
<1>17. Moves(t, m, answer[t], j)
  BY <1>4, <1>5, <1>9, <1>10, StateFacts, MovesIs
<1> QED BY <1>1, <1>4, <1>9, <1>16, <1>17, QuietStep

\* What a call starts with: a fresh context for a search.
LEMMA SearchForFacts ==
  ASSUME NEW l \in Locals, NEW k \in SearchKeys, NEW after \in Afters,
         NEW m, m = SearchFor(l, k, after)
  PROVE  /\ m \in Locals /\ m.pc = "max" /\ m.key = k /\ m.after = after /\ m.found = Null
         /\ m.call = l.call /\ m.node = l.node /\ m.up = l.up /\ m.seen = l.seen
         /\ \A v \in Levels : m.preds[v] = Sentinel /\ m.succs[v] = Null
<1>1. PICK ps, ss : ps = [v \in Levels |-> Sentinel] /\ ss = [v \in Levels |-> Null]
  OBVIOUS
<1>2. ps \in [Levels -> Node \cup {Sentinel}] /\ ss \in [Levels -> Node \cup {Null}]
  BY <1>1
<1>4. m = [l EXCEPT !.pc = "max", !.key = k, !.after = after, !.found = Null,
                    !.pred = Sentinel, !.preds = ps, !.succs = ss]
  BY <1>1 DEF SearchFor
<1>5. "max" \in Labels
  BY DEF Labels, Searching
<1>6. /\ m \in Locals /\ m.pc = "max" /\ m.key = k /\ m.after = after /\ m.found = Null
      /\ m.call = l.call /\ m.node = l.node /\ m.up = l.up /\ m.seen = l.seen
      /\ m.preds = ps /\ m.succs = ss
  BY <1>2, <1>4, <1>5 DEF Locals
<1> QED BY <1>1, <1>6

LEMMA SearchForOK ==
  ASSUME NEW l \in Locals, NEW k \in SearchKeys, NEW after \in Afters
  PROVE  SearchOK(SearchFor(l, k, after))
BY SearchForFacts DEF SearchOK, PredOK, SuccOK

LEMMA WithCall ==
  ASSUME NEW l \in Locals, NEW c \in Calls
  PROVE  LET m == [l EXCEPT !.call = c]
         IN  /\ m \in Locals /\ m.call = c /\ m.pc = l.pc /\ m.key = l.key /\ m.after = l.after /\ m.found = l.found
             /\ m.node = l.node /\ m.up = l.up /\ m.seen = l.seen /\ m.preds = l.preds /\ m.succs = l.succs
             /\ m.level = l.level /\ m.pred = l.pred
             /\ SearchOK(l) => SearchOK(m)
<1>1. PICK m : m = [l EXCEPT !.call = c]
  OBVIOUS
<1>2. /\ m \in Locals /\ m.call = c /\ m.pc = l.pc /\ m.key = l.key /\ m.after = l.after /\ m.found = l.found
      /\ m.node = l.node /\ m.up = l.up /\ m.seen = l.seen /\ m.preds = l.preds /\ m.succs = l.succs
      /\ m.level = l.level /\ m.pred = l.pred
  BY <1>1 DEF Locals
<1>3. SearchOK(l) => SearchOK(m)
  BY <1>2 DEF SearchOK
<1> QED BY <1>1, <1>2, <1>3

\* An idle thread has no answer, no node and no iterator.
LEMMA IdleFacts ==
  ASSUME IInv, NEW t \in Thread, At(t, "idle")
  PROVE  loc[t].call = Null /\ loc[t].node = Null /\ answer[t] = Null /\ iter[t] = NoIter
<1>1. PICK l : l = loc[t] /\ l.pc = "idle"
  BY DEF At
<1>2. PhaseOK(t, l) /\ AnswerOK(l, answer[t]) /\ CursorOK(l, iter[t]) /\ l.call \in Calls \cup {Null}
  BY <1>1, StateFacts
<1>3. l.call = Null /\ l.node = Null /\ l.found = Null
  BY <1>1, <1>2 DEF PhaseOK, GetOK, IterOK, InsertOK, Calls, Searching
<1> QED BY <1>1, <1>2, <1>3, CallFacts DEF AnswerOK, CursorOK

LEMMA StartKeeps ==
  ASSUME IInv, NEW t \in Thread, NEW c \in Calls, NEW l \in Locals, NEW i \in Cursors, Start(t, c, l),
         iter' = [iter EXCEPT ![t] = i], l.node = Null, ThreadOK(t, [l EXCEPT !.call = c], Null, i)
  PROVE  IInv'
<1>1. PICK m : m = [l EXCEPT !.call = c]
  OBVIOUS
<1>2. /\ At(t, "idle") /\ loc[t].pc = "idle" /\ loc' = [loc EXCEPT ![t] = m] /\ UNCHANGED listVars /\ answer' = answer
  BY <1>1 DEF Start, Set, At
<1>3. loc[t].node = Null /\ answer[t] = Null
  BY <1>2, IdleFacts
<1>4. m \in Locals /\ m.node = Null
  BY <1>1, WithCall
<1>5. Moves(t, m, Null, i)
  BY <1>2, <1>3, <1>4, StateFacts, MovesIs
<1> QED BY <1>1, <1>2, <1>3, <1>4, <1>5, QuietStep

LEMMA InsertKeeps ==
  ASSUME IInv, NEW t \in Thread, Insert(t)
  PROVE  IInv'
<1>1. PICK k \in Key : Start(t, [op |-> "insert", key |-> k], SearchFor(Fresh, k, "decide")) /\ iter' = iter
  BY DEF Insert
<1>2. PICK c, l, m : /\ c = [op |-> "insert", key |-> k] /\ l = SearchFor(Fresh, k, "decide")
                     /\ m = [l EXCEPT !.call = c]
  OBVIOUS
<1>3. c \in InsertCalls /\ c \in Calls /\ c.key = k /\ c.op = "insert" /\ c \notin GetCalls /\ c \notin IterCalls /\ c # Null
  BY <1>2, CallFacts DEF InsertCalls, Calls
<1>4. /\ l \in Locals /\ l.pc = "max" /\ l.key = k /\ l.after = "decide" /\ l.found = Null /\ l.node = Null /\ SearchOK(l)
  <2>1. Fresh \in Locals /\ Fresh.node = Null /\ k \in SearchKeys
    BY FreshFacts, KeyIsSearchKey
  <2>2. l = SearchFor(Fresh, k, "decide") /\ "decide" \in Afters
    BY <1>2 DEF Afters
  <2>3. /\ l \in Locals /\ l.pc = "max" /\ l.key = k /\ l.after = "decide" /\ l.found = Null
        /\ l.node = Fresh.node
    BY <2>1, <2>2, SearchForFacts
  <2>4. SearchOK(l)
    BY <2>1, <2>2, SearchForOK
  <2> QED BY <2>1, <2>3, <2>4
<1>5. /\ m.call = c /\ m.pc = "max" /\ m.key = k /\ m.after = "decide" /\ m.found = Null /\ m.node = Null /\ SearchOK(m)
  BY <1>2, <1>3, <1>4, WithCall
<1>6. PhaseOK(t, m)
  BY <1>3, <1>5 DEF PhaseOK, InsertOK, UnbuiltOK, Searching
<1>7. AnswerOK(m, Null) /\ CursorOK(m, NoIter)
  BY <1>3, <1>5, FreshFacts DEF AnswerOK, LinkPhase, CursorOK
<1>8. iter[t] = NoIter /\ iter' = [iter EXCEPT ![t] = NoIter]
  BY <1>1, StateFacts, IdleFacts DEF Start
<1>9. ThreadOK(t, m, Null, NoIter)
  BY <1>5, <1>6, <1>7 DEF ThreadOK
<1>10. Start(t, c, l)
  BY <1>1, <1>2
<1> QED BY <1>2, <1>3, <1>4, <1>8, <1>9, <1>10, FreshFacts, StartKeeps

LEMMA InsertDirectKeeps ==
  ASSUME IInv, NEW t \in Thread, InsertDirect(t)
  PROVE  IInv'
<1>1. PICK k \in Key : Start(t, [op |-> "insert_direct", key |-> k], [Fresh EXCEPT !.pc = "decide"]) /\ iter' = iter
  BY DEF InsertDirect
<1>2. PICK c, l, m : /\ c = [op |-> "insert_direct", key |-> k] /\ l = [Fresh EXCEPT !.pc = "decide"]
                     /\ m = [l EXCEPT !.call = c]
  OBVIOUS
<1>3. /\ c \in InsertCalls /\ c \in Calls /\ c.key = k /\ c.op = "insert_direct"
      /\ c \notin GetCalls /\ c \notin IterCalls /\ c # Null
  BY <1>2, CallFacts DEF InsertCalls, Calls
<1>4. /\ l \in Locals /\ l.pc = "decide" /\ l.key = Null /\ l.after = "" /\ l.found = Null /\ l.node = Null
      /\ l.preds = [v \in Levels |-> Sentinel] /\ l.succs = [v \in Levels |-> Null]
  BY <1>2, FreshFacts DEF Locals, Labels
<1>5. SearchOK(l)
  BY <1>4 DEF SearchOK, PredOK, SuccOK
<1>6. /\ m.call = c /\ m.pc = "decide" /\ m.key = Null /\ m.after = "" /\ m.found = Null /\ m.node = Null /\ SearchOK(m)
  <2>1. l \in Locals /\ l.pc = "decide" /\ l.key = Null /\ l.after = "" /\ l.found = Null /\ l.node = Null
    BY <1>4
  <2> QED BY <1>2, <1>3, <1>5, <2>1, WithCall
<1>7. PhaseOK(t, m)
  BY <1>3, <1>6 DEF PhaseOK, InsertOK, UnbuiltOK, Searching
<1>8. AnswerOK(m, Null) /\ CursorOK(m, NoIter)
  BY <1>3, <1>6, FreshFacts DEF AnswerOK, LinkPhase, CursorOK, Searching
<1>9. iter[t] = NoIter /\ iter' = [iter EXCEPT ![t] = NoIter]
  BY <1>1, StateFacts, IdleFacts DEF Start
<1>10. ThreadOK(t, m, Null, NoIter)
  BY <1>6, <1>7, <1>8 DEF ThreadOK
<1>11. Start(t, c, l)
  BY <1>1, <1>2
<1> QED BY <1>2, <1>3, <1>4, <1>9, <1>10, <1>11, FreshFacts, StartKeeps

LEMMA GetKeeps ==
  ASSUME IInv, NEW t \in Thread, Get(t)
  PROVE  IInv'
<1>1. PICK u \in User, s \in Snapshot :
        /\ Start(t, [op |-> "get", user |-> u, seq |-> s],
                 SearchFor(Fresh, Encode(u, s, SEEK_OP_SENTINEL), "return"))
        /\ iter' = iter
  BY DEF Get
<1>2. PICK k : k = Encode(u, s, SEEK_OP_SENTINEL) /\ k \in SearchKeys
  BY EncodeType
<1>3. PICK c, l, m : /\ c = [op |-> "get", user |-> u, seq |-> s] /\ l = SearchFor(Fresh, k, "return")
                     /\ m = [l EXCEPT !.call = c]
  OBVIOUS
<1>4. /\ c \in GetCalls /\ c \in Calls /\ c.user = u /\ c.seq = s
      /\ c \notin InsertCalls /\ c \notin IterCalls /\ c # Null
  BY <1>3, CallFacts DEF GetCalls, Calls
<1>5. /\ l \in Locals /\ l.pc = "max" /\ l.key = k /\ l.after = "return" /\ l.found = Null /\ l.node = Null /\ SearchOK(l)
  <2>1. Fresh \in Locals /\ Fresh.node = Null
    BY FreshFacts
  <2>2. l = SearchFor(Fresh, k, "return") /\ "return" \in Afters
    BY <1>3 DEF Afters
  <2>3. /\ l \in Locals /\ l.pc = "max" /\ l.key = k /\ l.after = "return" /\ l.found = Null
        /\ l.node = Fresh.node
    BY <1>2, <2>1, <2>2, SearchForFacts
  <2>4. SearchOK(l)
    BY <1>2, <2>1, <2>2, SearchForOK
  <2> QED BY <2>1, <2>3, <2>4
<1>6. /\ m.call = c /\ m.pc = "max" /\ m.key = k /\ m.after = "return" /\ m.found = Null /\ m.node = Null /\ SearchOK(m)
  BY <1>3, <1>4, <1>5, WithCall
<1>7. PhaseOK(t, m)
  BY <1>2, <1>4, <1>6 DEF PhaseOK, GetOK, Searching
<1>8. AnswerOK(m, Null) /\ CursorOK(m, NoIter)
  BY <1>4, <1>6, FreshFacts DEF AnswerOK, LinkPhase, CursorOK
<1>9. iter[t] = NoIter /\ iter' = [iter EXCEPT ![t] = NoIter]
  BY <1>1, StateFacts, IdleFacts DEF Start
<1>10. ThreadOK(t, m, Null, NoIter)
  BY <1>6, <1>7, <1>8 DEF ThreadOK
<1>11. Start(t, c, l)
  BY <1>1, <1>2, <1>3
<1> QED BY <1>3, <1>4, <1>5, <1>9, <1>10, <1>11, FreshFacts, StartKeeps

LEMMA KeysOf ==
  /\ \A x : x \in {e[1] : e \in Versions} <=> KeyOn(x)
  /\ \A k, x : x \in {e[1] : e \in {f \in Versions : ~Less(f[1], k)}} <=> KeyOn(x) /\ ~Less(x, k)
<1>1. \A e : e \in Versions <=> \E n \in OnLevel(0) : e = <<key[n], val[n]>>
  BY DEF Versions
<1>2. /\ \A n : <<key[n], val[n]>>[1] = key[n]
      /\ \A n \in OnLevel(0) : <<key[n], val[n]>> \in Versions
  BY <1>1
<1>3. ASSUME NEW x, KeyOn(x) PROVE \E e \in Versions : x = e[1]
  BY <1>2, <1>3 DEF KeyOn
<1>4. ASSUME NEW e \in Versions PROVE KeyOn(e[1])
  BY <1>1, <1>2 DEF KeyOn
<1> QED BY <1>3, <1>4

LEMMA KeysOnBase ==
  ASSUME ListTypes, LevelInv, NEW k, KeyOn(k)
  PROVE  k \in Key /\ k \in SearchKeys
BY NodeFacts, LevelFacts DEF KeyOn

LEMMA OwedTypes ==
  ASSUME NEW O \in SUBSET Key, NEW i, i = [NoIter EXCEPT !.owed = O]
  PROVE  i \in Cursors /\ i.owed = O /\ i.last = Null
BY DEF NoIter, Cursors

LEMMA IterFirstKeeps ==
  ASSUME IInv, NEW t \in Thread, IterFirst(t)
  PROVE  IInv'
<1>1. PICK O, s : O = {e[1] : e \in Versions} /\ s = tower[Sentinel][0]
  OBVIOUS
<1>2. PICK c, l, m, i : /\ c = [op |-> "iter"] /\ l = [Fresh EXCEPT !.pc = "iter", !.succs[0] = s]
                        /\ m = [l EXCEPT !.call = c] /\ i = [NoIter EXCEPT !.owed = O]
  OBVIOUS
<1>3. Start(t, c, l) /\ iter' = [iter EXCEPT ![t].owed = O]
  BY <1>1, <1>2 DEF IterFirst
<1>4. iter' = [iter EXCEPT ![t] = i]
  <2>1. iter[t] = NoIter
    BY <1>3, IdleFacts DEF Start
  <2> QED BY <1>2, <1>3, <2>1
<1>5. ListTypes /\ LevelInv /\ 0 \in Levels
  BY StateFacts, NodeFacts
<1>6. /\ s \in OnLevel(0) \cup {Null} /\ Null \notin OnLevel(0) /\ OnLevel(0) \subseteq Nodes /\ Nodes \subseteq Node
      /\ \A n \in OnLevel(0) : s \in OnLevel(0) /\ (s = n \/ Less(key[s], key[n]))
      /\ \A n \in OnLevel(0) : key[n] \in SearchKeys
  BY <1>1, <1>5, LevelFacts, NodeFacts
<1>7. O \in SUBSET Key /\ \A k \in O : KeyOn(k)
  BY <1>1, <1>5, KeysOf, KeysOnBase
<1>8. i \in Cursors /\ i.owed = O /\ i.last = Null
  BY <1>2, <1>7, OwedTypes
<1>9. c \in IterCalls /\ c \in Calls /\ c \notin GetCalls /\ c \notin InsertCalls /\ c # Null
  BY <1>2, CallFacts DEF IterCalls, Calls
<1>10. l \in Locals /\ l.pc = "iter" /\ l.node = Null /\ l.succs[0] = s
  <2>1. s \in Node \cup {Null}
    BY <1>6
  <2>2. l = [Fresh EXCEPT !.pc = "iter", !.succs = [Fresh.succs EXCEPT ![0] = s]]
    BY <1>2, FreshFacts
  <2>3. PICK ss : ss = [Fresh.succs EXCEPT ![0] = s]
    OBVIOUS
  <2>4. ss \in [Levels -> Node \cup {Null}] /\ ss[0] = s
    BY <1>5, <2>1, <2>3, FreshFacts
  <2>5. "iter" \in Labels /\ Fresh \in Locals /\ Fresh.node = Null
    BY FreshFacts DEF Labels
  <2> QED BY <2>2, <2>3, <2>4, <2>5 DEF Locals
<1>11. m.call = c /\ m.pc = "iter" /\ m.node = Null /\ m.succs[0] = s
  BY <1>2, <1>9, <1>10, WithCall
<1>12. ASSUME NEW k \in O PROVE s # Null /\ ~Less(k, key[s])
  <2>1. PICK n \in OnLevel(0) : key[n] = k
    BY <1>7 DEF KeyOn
  <2>2. s \in OnLevel(0) /\ (s = n \/ Less(key[s], k)) /\ key[s] \in SearchKeys /\ k \in SearchKeys
    BY <1>6, <2>1
  <2> QED BY <1>6, <2>1, <2>2, LessOrder
<1>13. CursorOK(m, i)
  BY <1>6, <1>7, <1>8, <1>9, <1>11, <1>12 DEF CursorOK, Searching
<1>14. PhaseOK(t, m) /\ AnswerOK(m, Null)
  BY <1>9, <1>11 DEF PhaseOK, IterOK, AnswerOK, Searching
<1>15. ThreadOK(t, m, Null, i)
  BY <1>11, <1>13, <1>14 DEF ThreadOK
<1>16. ThreadOK(t, [l EXCEPT !.call = c], Null, i)
  BY <1>2, <1>15
<1> QED BY <1>3, <1>4, <1>8, <1>9, <1>10, <1>16, StartKeeps

LEMMA IterFromKeeps ==
  ASSUME IInv, NEW t \in Thread, IterFrom(t)
  PROVE  IInv'
<1>1. PICK u \in User, s \in Snapshot :
        /\ Start(t, [op |-> "iter"], SearchFor(Fresh, Encode(u, s, SEEK_OP_SENTINEL), "iter"))
        /\ iter' = [iter EXCEPT ![t].owed =
                      {e[1] : e \in {f \in Versions : ~Less(f[1], Encode(u, s, SEEK_OP_SENTINEL))}}]
  BY DEF IterFrom
<1>2. PICK k : k = Encode(u, s, SEEK_OP_SENTINEL) /\ k \in SearchKeys
  BY EncodeType
<1>3. PICK O : O = {e[1] : e \in {f \in Versions : ~Less(f[1], k)}}
  OBVIOUS
<1>4. PICK c, l, m, i : /\ c = [op |-> "iter"] /\ l = SearchFor(Fresh, k, "iter")
                        /\ m = [l EXCEPT !.call = c] /\ i = [NoIter EXCEPT !.owed = O]
  OBVIOUS
<1>5. Start(t, c, l) /\ iter' = [iter EXCEPT ![t].owed = O]
  BY <1>1, <1>2, <1>3, <1>4
<1>6. iter' = [iter EXCEPT ![t] = i]
  <2>1. iter[t] = NoIter
    BY <1>5, IdleFacts DEF Start
  <2> QED BY <1>4, <1>5, <2>1
<1>7. O \in SUBSET Key /\ \A x \in O : KeyOn(x) /\ ~Less(x, k)
  BY <1>3, StateFacts, KeysOf, KeysOnBase
<1>8. i \in Cursors /\ i.owed = O /\ i.last = Null
  BY <1>4, <1>7, OwedTypes
<1>9. c \in IterCalls /\ c \in Calls /\ c \notin GetCalls /\ c \notin InsertCalls /\ c # Null
  BY <1>4, CallFacts DEF IterCalls, Calls
<1>10. /\ l \in Locals /\ l.pc = "max" /\ l.key = k /\ l.after = "iter" /\ l.found = Null /\ l.node = Null /\ SearchOK(l)
  <2>1. Fresh \in Locals /\ Fresh.node = Null
    BY FreshFacts
  <2>2. l = SearchFor(Fresh, k, "iter") /\ "iter" \in Afters
    BY <1>4 DEF Afters
  <2>3. /\ l \in Locals /\ l.pc = "max" /\ l.key = k /\ l.after = "iter" /\ l.found = Null
        /\ l.node = Fresh.node
    BY <1>2, <2>1, <2>2, SearchForFacts
  <2>4. SearchOK(l)
    BY <1>2, <2>1, <2>2, SearchForOK
  <2> QED BY <2>1, <2>3, <2>4
<1>11. /\ m.call = c /\ m.pc = "max" /\ m.key = k /\ m.after = "iter" /\ m.found = Null /\ m.node = Null /\ SearchOK(m)
  BY <1>4, <1>9, <1>10, WithCall
<1>13. CursorOK(m, i)
  BY <1>7, <1>8, <1>9, <1>11 DEF CursorOK
<1>14. PhaseOK(t, m) /\ AnswerOK(m, Null)
  BY <1>2, <1>9, <1>11 DEF PhaseOK, IterOK, AnswerOK, Searching
<1>15. ThreadOK(t, m, Null, i)
  BY <1>11, <1>13, <1>14 DEF ThreadOK
<1> QED BY <1>4, <1>5, <1>6, <1>8, <1>9, <1>10, <1>15, StartKeeps

(***************************************************************************)
(* Building a node.                                                        *)
(***************************************************************************)
\* l, with its node of height h built, goes on as m: it raises max_level, or
\* max_level is high enough and it searches or decides.
Readied(l, m, h) ==
  /\ m \in Locals /\ m.call = l.call /\ m.node = l.node /\ m.found = Null
  /\ \/ m.pc = "raise" /\ m.seen < h
     \/ m.pc \in {"decide", "max"} /\ (m.pc = "max" => m.after = "decide")
  /\ m.key = l.call.key \/ (m.pc = "raise" /\ l.call.op = "insert_direct")

LEMMA BuiltIs ==
  ASSUME NEW l \in Locals, l.call \in InsertCalls, l.found = Null, l.call.op = "insert" => l.key = l.call.key,
         SearchOK(l), l.pc \notin {"move", "down", "skip"}, NEW h, NEW m, m = Built([l EXCEPT !.seen = 0])
  PROVE  Readied(l, m, h) /\ SearchOK(m) /\ m.pc # "raise"
<1>1. PICK k : k = [l EXCEPT !.seen = 0]
  OBVIOUS
<1>2. /\ k \in Locals /\ k.call = l.call /\ k.node = l.node /\ k.found = Null /\ k.key = l.key /\ k.pc = l.pc
      /\ k.preds = l.preds /\ k.succs = l.succs /\ k.level = l.level
  BY <1>1 DEF Locals
<1>3. l.call.key \in SearchKeys /\ l.call.op \in {"insert", "insert_direct"}
  BY CallFacts, KeyIsSearchKey
<1>4. CASE l.call.op = "insert"
  <2>1. m = [k EXCEPT !.pc = "decide"]
    BY <1>1, <1>2, <1>4 DEF Built
  <2>2. /\ m \in Locals /\ m.call = l.call /\ m.node = l.node /\ m.found = Null /\ m.key = l.key
        /\ m.pc = "decide" /\ m.preds = l.preds /\ m.succs = l.succs
    BY <1>2, <2>1 DEF Locals, Labels
  <2>3. SearchOK(m)
    BY <2>2 DEF SearchOK
  <2> QED BY <1>4, <2>2, <2>3 DEF Readied
<1>5. CASE l.call.op # "insert"
  <2>1. m = SearchFor(k, l.call.key, "decide") /\ "decide" \in Afters
    BY <1>1, <1>2, <1>5 DEF Built, Afters
  <2>2. /\ m \in Locals /\ m.pc = "max" /\ m.key = l.call.key /\ m.after = "decide" /\ m.found = Null
        /\ m.call = k.call /\ m.node = k.node
    BY <1>2, <1>3, <2>1, SearchForFacts
  <2>3. SearchOK(m)
    BY <1>2, <1>3, <2>1, SearchForOK
  <2> QED BY <1>2, <2>2, <2>3 DEF Readied
<1> QED BY <1>4, <1>5

LEMMA RaiseIs ==
  ASSUME ListTypes, NEW l \in Locals, l.call \in InsertCalls, l.found = Null, l.call.op = "insert" => l.key = l.call.key,
         SearchOK(l), l.pc \notin {"move", "down", "skip"}, NEW h \in Nat, NEW m, m = Raise(l, h)
  PROVE  Readied(l, m, h) /\ SearchOK(m) /\ (m.pc = "raise" \/ h <= max_level)
<1>1. max_level \in Nat
  BY DEF ListTypes
<1>2. CASE h <= max_level
  BY <1>2, BuiltIs DEF Raise
<1>3. CASE ~(h <= max_level)
  <2>1. m = [l EXCEPT !.pc = "raise", !.seen = max_level]
    BY <1>3 DEF Raise
  <2>2. /\ m \in Locals /\ m.call = l.call /\ m.node = l.node /\ m.found = Null /\ m.key = l.key
        /\ m.pc = "raise" /\ m.preds = l.preds /\ m.succs = l.succs /\ m.seen = max_level
    BY <1>1, <2>1 DEF Locals, Labels
  <2>3. SearchOK(m)
    BY <2>2 DEF SearchOK
  <2>4. max_level < h
    BY <1>1, <1>3
  <2>5. l.call.op \in {"insert", "insert_direct"}
    BY CallFacts
  <2> QED BY <2>2, <2>3, <2>4, <2>5 DEF Readied
<1> QED BY <1>2, <1>3

\* The answer of an insert before it takes effect.
LEMMA NoEffect ==
  ASSUME NEW t, NEW m, m.call \in InsertCalls, answer[t] = Null, m.found = Null, ~LinkPhase(m)
  PROVE  Effect(t, m) = Null /\ AnswerOK(m, Null)
<1>1. m.call \in Calls /\ m.call \notin GetCalls /\ m.pc # "up"
  BY CallFacts DEF Calls, LinkPhase
<1> QED BY <1>1, EffectIs DEF AnswerOK

\* A step of an insert that links nothing and does not take effect.
Prepares(t) ==
  /\ loc[t].call \in InsertCalls /\ loc[t].pc # "panic" /\ answer[t] = Null /\ Grows /\ SameLevels
  /\ answer' = [answer EXCEPT ![t] = Null]
  /\ \E m : m.call = loc[t].call /\ loc' = [loc EXCEPT ![t] = m]

LEMMA BuildKeeps ==
  ASSUME IInv, NEW t \in Thread, NEW k, k = loc[t].call.key, AllocNode(t, k, t),
         answer' = [answer EXCEPT ![t] = Effect(t, loc'[t])], iter' = iter
  PROVE  IInv' /\ Prepares(t)
<1>1. PICK l : l = loc[t]
  OBVIOUS
<1>2. /\ ListTypes /\ LevelInv /\ OffInv /\ l \in Locals /\ SearchOK(l) /\ PhaseOK(t, l)
      /\ AnswerOK(l, answer[t]) /\ CursorOK(l, iter[t]) /\ l.call \in Calls \cup {Null}
      /\ l.pc = "decide" /\ l.found = Null /\ l.node = Null
  BY <1>1, StateFacts DEF AllocNode, MustBuild, At
<1>3. l.call \in InsertCalls /\ k \in Key /\ k = l.call.key /\ l.call \notin GetCalls /\ l.call \notin IterCalls /\ l.call # Null
  <2>1. l.call \in InsertCalls
    BY <1>2 DEF PhaseOK, GetOK, IterOK, Calls, Searching
  <2> QED BY <1>1, <2>1, CallFacts
<1>4. UnbuiltOK(l) /\ (l.call.op = "insert" => l.key = l.call.key)
  BY <1>2, <1>3 DEF PhaseOK, InsertOK, UnbuiltOK
<1>5. answer[t] = Null /\ iter[t] = NoIter
  BY <1>2, <1>3 DEF AnswerOK, LinkPhase, CursorOK, Searching
<1>6. Null \notin OnLevel(0)
  BY <1>2, NodeFacts, LevelFacts
<1>7. ASSUME NEW z \in Zeros, max_level' = Above(max_level, RandomLevel(z)),
             loc' = [loc EXCEPT ![t] = [loc[t] EXCEPT !.pc = "panic"]], UNCHANGED <<tower, key, val, height>>
      PROVE  IInv' /\ Prepares(t)
  <2>1. max_level' \in 1 .. MAX_HEAD_HEIGHT /\ max_level <= max_level'
    BY <1>2, <1>7, RandomLevelType DEF Above, ListTypes
  <2>2. ListTypes' /\ LevelInv' /\ OffInv' /\ SameLevels /\ Grows /\ Nodes' = Nodes
    BY <1>2, <1>7, <2>1, SameList
  <2>3. PICK m : m = [l EXCEPT !.pc = "panic"]
    OBVIOUS
  <2>4. /\ m \in Locals /\ m.call = l.call /\ m.node = Null /\ m.found = Null /\ m.key = l.key
        /\ m.pc = "panic" /\ m.preds = l.preds /\ m.succs = l.succs
    BY <1>2, <2>3 DEF Locals, Labels
  <2>5. SearchOK(m)
    BY <1>2, <2>4 DEF SearchOK
  <2>6. PhaseOK(t, m)
    BY <1>3, <1>4, <2>4 DEF PhaseOK, InsertOK, UnbuiltOK, Searching
  <2>7. ~LinkPhase(m)
    BY <2>4 DEF LinkPhase, Searching
  <2>8. Effect(t, m) = Null /\ AnswerOK(m, Null)
    BY <1>3, <1>5, <2>4, <2>7, NoEffect
  <2>9. CursorOK(m, NoIter)
    BY <2>4, FreshFacts DEF CursorOK, Searching
  <2>10. ThreadOK(t, m, Null, NoIter)
    BY <2>5, <2>6, <2>8, <2>9 DEF ThreadOK
  <2>11. loc' = [loc EXCEPT ![t] = m] /\ loc'[t] = m
    BY <1>1, <1>7, <2>3, StateFacts DEF LocTypes
  <2>12. Moves(t, m, Null, NoIter)
    BY <1>5, <2>4, <2>8, <2>11, StateFacts, FreshFacts, MovesIs
  <2>13. OnlyLinks(Null) /\ OnlyLinks(Sentinel)
    BY <2>2 DEF SameLevels, OnlyLinks
  <2>14. ThreadOK(t, m, Null, NoIter)'
    BY <1>2, <2>2, <2>4, <2>10, <2>13, ThreadKept
  <2>15. HeightsKept(t, m)
    BY <1>1, <1>2, <2>2, <2>4 DEF HeightsKept
  <2>16. IInv'
    BY <1>1, <1>2, <1>6, <2>2, <2>4, <2>12, <2>13, <2>14, <2>15, StepKept
  <2>17. answer' = [answer EXCEPT ![t] = Null]
    BY <2>8, <2>11
  <2>18. Prepares(t)
    BY <1>1, <1>2, <1>3, <1>5, <2>2, <2>4, <2>11, <2>17 DEF Prepares
  <2> QED BY <2>16, <2>18
<1>8. ASSUME NEW z \in Zeros, NEW n, n = allocated + 1, allocated < MaxNodes, NEW h, h = RandomLevel(z),
             tower' = [m \in 0 .. n |-> IF m < n THEN tower[m] ELSE [v \in 0 .. h - 1 |-> Null]],
             key' = Append(key, k), val' = Append(val, t), height' = Append(height, h), max_level' = max_level,
             loc' = [loc EXCEPT ![t] = Raise([loc[t] EXCEPT !.node = n], h)]
      PROVE  IInv' /\ Prepares(t)
  <2>1. h \in 1 .. MAX_HEAD_HEIGHT
    BY <1>8, RandomLevelType
  <2>2. NewNode(n, k, t, h)
    BY <1>2, <1>3, <1>8, <2>1, AllocIs
  <2>3. PICK b, m : b = [l EXCEPT !.node = n] /\ m = Raise(b, h)
    OBVIOUS
  <2>4. loc' = [loc EXCEPT ![t] = m] /\ loc'[t] = m
    BY <1>1, <1>8, <2>3, StateFacts DEF LocTypes
  <2>5. ListTypes' /\ LevelInv' /\ OffInv' /\ SameLevels /\ Grows
    BY <1>2, <1>3, <2>1, <2>2, AllocList
  <2>6. /\ Nodes' = Nodes \cup {n} /\ n \notin Nodes /\ n \in Node /\ key'[n] = k /\ val'[n] = t /\ height'[n] = h
        /\ max_level' = max_level
    BY <2>2 DEF NewNode
  <2>7. n # Null
    BY <2>6, NodesAssumption DEF Node
  <2>8. /\ b \in Locals /\ b.call = l.call /\ b.node = n /\ b.found = Null /\ b.key = l.key
        /\ b.pc = "decide" /\ b.preds = l.preds /\ b.succs = l.succs
    BY <1>2, <2>3, <2>6 DEF Locals
  <2>9. SearchOK(b)
    BY <1>2, <2>8 DEF SearchOK
  <2>10. Readied(b, m, h) /\ SearchOK(m) /\ (m.pc = "raise" \/ h <= max_level)
    <3>1. h \in Nat
      BY <2>1
    <3> QED BY <1>2, <1>3, <1>4, <2>3, <2>8, <2>9, <3>1, RaiseIs
  <2>11. /\ m \in Locals /\ m.call = l.call /\ m.node = n /\ m.found = Null
         /\ \/ m.pc = "raise" /\ m.seen < h
            \/ m.pc \in {"decide", "max"} /\ (m.pc = "max" => m.after = "decide")
         /\ m.key = l.call.key \/ (m.pc = "raise" /\ l.call.op = "insert_direct")
    BY <2>8, <2>10 DEF Readied
  <2>12. ~LinkPhase(m) /\ m.pc # "iter" /\ m.pc # "panic"
    BY <2>11 DEF LinkPhase, Searching
  <2>13. Effect(t, m) = Null /\ AnswerOK(m, Null)
    BY <1>3, <1>5, <2>11, <2>12, NoEffect
  <2>14. \A v \in Levels : n \notin OnLevel(v)'
    BY <1>2, <2>5, <2>6, LevelFacts DEF SameLevels
  <2>15. BuiltOK(m, t)'
    BY <1>3, <2>6, <2>11, <2>12, <2>14 DEF BuiltOK, Searching
  <2>16. PhaseOK(t, m)'
    BY <1>3, <2>7, <2>11, <2>12, <2>15 DEF PhaseOK, InsertOK, Searching
  <2>17. CursorOK(m, NoIter)'
    BY <2>12, FreshFacts DEF CursorOK
  <2>18. SearchOK(m)'
    BY <1>2, <2>5, <2>10, SearchKept
  <2>19. ThreadOK(t, m, Null, NoIter)'
    BY <2>13, <2>16, <2>17, <2>18 DEF ThreadOK, AnswerOK
  <2>20. Moves(t, m, Null, NoIter)
    BY <1>5, <2>4, <2>11, <2>13, StateFacts, FreshFacts, MovesIs
  <2>21. OnlyLinks(m.node) /\ HeightsKept(t, m)
    BY <1>1, <1>2, <2>5, <2>6, <2>10, <2>11 DEF SameLevels, OnlyLinks, HeightsKept
  <2>22. IInv'
    BY <1>1, <1>2, <1>6, <2>5, <2>6, <2>11, <2>19, <2>20, <2>21, StepKept
  <2>23. answer' = [answer EXCEPT ![t] = Null]
    BY <2>4, <2>13
  <2>24. loc[t].call \in InsertCalls /\ loc[t].pc # "panic" /\ m.call = loc[t].call
    BY <1>1, <1>2, <1>3, <2>11
  <2>25. Prepares(t)
    BY <1>5, <2>4, <2>5, <2>23, <2>24, Zenon DEF Prepares
  <2> QED BY <2>22, <2>25
<1>9. CASE /\ \E z \in Zeros : max_level' = Above(max_level, RandomLevel(z))
           /\ loc' = [loc EXCEPT ![t] = [loc[t] EXCEPT !.pc = "panic"]]
           /\ UNCHANGED <<tower, key, val, height>>
  BY <1>7, <1>9
<1>10. CASE /\ allocated < MaxNodes
            /\ \E z \in Zeros :
                 /\ tower' = [m \in 0 .. allocated + 1 |->
                                IF m < allocated + 1 THEN tower[m]
                                ELSE [v \in 0 .. RandomLevel(z) - 1 |-> Null]]
                 /\ key' = Append(key, k) /\ val' = Append(val, t)
                 /\ height' = Append(height, RandomLevel(z))
                 /\ loc' = [loc EXCEPT ![t] = Raise([loc[t] EXCEPT !.node = allocated + 1], RandomLevel(z))]
            /\ max_level' = max_level
  <2>1. PICK z \in Zeros :
          /\ tower' = [m \in 0 .. allocated + 1 |->
                         IF m < allocated + 1 THEN tower[m]
                         ELSE [v \in 0 .. RandomLevel(z) - 1 |-> Null]]
          /\ key' = Append(key, k) /\ val' = Append(val, t)
          /\ height' = Append(height, RandomLevel(z))
          /\ loc' = [loc EXCEPT ![t] = Raise([loc[t] EXCEPT !.node = allocated + 1], RandomLevel(z))]
    BY <1>10
  <2>2. PICK n, h : n = allocated + 1 /\ h = RandomLevel(z)
    OBVIOUS
  <2> QED BY <1>8, <1>10, <2>1, <2>2, Zenon
<1> QED BY <1>9, <1>10 DEF AllocNode, Set

LEMMA RaiseKeeps ==
  ASSUME IInv, NEW t \in Thread, RaiseLevel(t),
         answer' = [answer EXCEPT ![t] = Effect(t, loc'[t])], iter' = iter
  PROVE  IInv' /\ Prepares(t)
<1>1. PICK l, h : l = loc[t] /\ h = height[l.node]
  OBVIOUS
<1>2. /\ ListTypes /\ LevelInv /\ OffInv /\ l \in Locals /\ SearchOK(l) /\ PhaseOK(t, l)
      /\ AnswerOK(l, answer[t]) /\ CursorOK(l, iter[t]) /\ l.call \in Calls \cup {Null} /\ l.pc = "raise"
  BY <1>1, StateFacts DEF RaiseLevel, At
<1>3. l.call \in InsertCalls /\ l.call \notin GetCalls /\ l.call \notin IterCalls /\ l.call # Null
      /\ l.call.op \in {"insert", "insert_direct"}
  <2>1. l.call \in InsertCalls
    BY <1>2 DEF PhaseOK, GetOK, IterOK, Calls, Searching
  <2> QED BY <2>1, CallFacts
<1>4. l.node # Null /\ BuiltOK(l, t)
  BY <1>2, <1>3 DEF PhaseOK, InsertOK, UnbuiltOK, Searching
<1>5. /\ l.node \in Nodes /\ key[l.node] = l.call.key /\ val[l.node] = t /\ l.found = Null /\ l.seen < h
      /\ (l.call.op = "insert" => l.key = l.call.key) /\ \A v \in Levels : l.node \notin OnLevel(v)
  BY <1>1, <1>2, <1>4 DEF BuiltOK, LinkPhase, Searching
<1>6. h \in 1 .. MAX_HEAD_HEIGHT /\ h \in Nat /\ l.node # Sentinel
  BY <1>1, <1>2, <1>5, NodeFacts
<1>7. answer[t] = Null /\ iter[t] = NoIter
  BY <1>2, <1>3, <1>5 DEF AnswerOK, LinkPhase, CursorOK, Searching
<1>8. UNCHANGED <<tower, key, val, height>>
  BY DEF RaiseLevel
<1>9. PICK m : /\ loc' = [loc EXCEPT ![t] = m] /\ Readied(l, m, h) /\ SearchOK(m)
               /\ max_level' \in 1 .. MAX_HEAD_HEIGHT /\ max_level <= max_level'
               /\ m.pc = "raise" \/ h <= max_level'
  <2>1. CASE max_level = l.seen /\ max_level' = h /\ loc' = [loc EXCEPT ![t] = Built([l EXCEPT !.seen = 0])]
    <3>1. PICK m : m = Built([l EXCEPT !.seen = 0])
      OBVIOUS
    <3>2. Readied(l, m, h) /\ SearchOK(m)
      BY <1>2, <1>3, <1>5, <3>1, BuiltIs
    <3>3. max_level' \in 1 .. MAX_HEAD_HEIGHT /\ max_level <= max_level' /\ h <= max_level'
      BY <1>2, <1>5, <1>6, <2>1 DEF ListTypes
    <3> QED BY <2>1, <3>1, <3>2, <3>3
  <2>2. CASE max_level' = max_level /\ loc' = [loc EXCEPT ![t] = Raise(l, h)]
    <3>1. PICK m : m = Raise(l, h)
      OBVIOUS
    <3>2. Readied(l, m, h) /\ SearchOK(m) /\ (m.pc = "raise" \/ h <= max_level)
      BY <1>2, <1>3, <1>5, <1>6, <3>1, RaiseIs
    <3>3. max_level' \in 1 .. MAX_HEAD_HEIGHT /\ max_level <= max_level'
      BY <1>2, <2>2 DEF ListTypes
    <3> QED BY <2>2, <3>1, <3>2, <3>3
  <2> QED BY <1>1, <2>1, <2>2 DEF RaiseLevel, Set
<1>10. ListTypes' /\ LevelInv' /\ OffInv' /\ SameLevels /\ Grows /\ Nodes' = Nodes
  BY <1>2, <1>8, <1>9, SameList
<1>11. /\ m \in Locals /\ m.call = l.call /\ m.node = l.node /\ m.found = Null
       /\ \/ m.pc = "raise" /\ m.seen < h
          \/ m.pc \in {"decide", "max"} /\ (m.pc = "max" => m.after = "decide")
       /\ m.key = l.call.key \/ (m.pc = "raise" /\ l.call.op = "insert_direct")
  BY <1>9 DEF Readied
<1>12. loc'[t] = m
  BY <1>9, StateFacts DEF LocTypes
<1>13. ~LinkPhase(m) /\ m.pc # "iter" /\ m.pc # "panic"
  BY <1>11 DEF LinkPhase, Searching
<1>14. Effect(t, m) = Null /\ AnswerOK(m, Null)
  BY <1>3, <1>7, <1>11, <1>13, NoEffect
<1>15. BuiltOK(m, t)
  BY <1>1, <1>5, <1>11, <1>13 DEF BuiltOK, Searching
<1>16. PhaseOK(t, m)
  BY <1>3, <1>4, <1>11, <1>13, <1>15 DEF PhaseOK, InsertOK, Searching
<1>17. CursorOK(m, NoIter)
  BY <1>13, FreshFacts DEF CursorOK
<1>18. ThreadOK(t, m, Null, NoIter)
  BY <1>9, <1>14, <1>16, <1>17 DEF ThreadOK
<1>19. OnlyLinks(Sentinel) /\ OnlyLinks(m.node)
  BY <1>10 DEF SameLevels, OnlyLinks
<1>20. ThreadOK(t, m, Null, NoIter)'
  BY <1>2, <1>6, <1>10, <1>11, <1>18, <1>19, ThreadKept
<1>21. Moves(t, m, Null, NoIter)
  BY <1>7, <1>9, <1>11, <1>12, <1>14, StateFacts, FreshFacts, MovesIs
<1>22. HeightsKept(t, m)
  BY <1>1, <1>8, <1>9, <1>10, <1>11 DEF HeightsKept
<1>23. IInv'
  BY <1>1, <1>10, <1>11, <1>19, <1>20, <1>21, <1>22, StepKept
<1>24. answer' = [answer EXCEPT ![t] = Null]
  BY <1>12, <1>14
<1>25. loc[t].call \in InsertCalls /\ loc[t].pc # "panic" /\ m.call = loc[t].call
  BY <1>1, <1>2, <1>3, <1>11
<1>26. Prepares(t)
  BY <1>7, <1>9, <1>10, <1>24, <1>25, Zenon DEF Prepares
<1> QED BY <1>23, <1>26

(***************************************************************************)
(* Linking a node at level v, between the neighbours the search recorded.  *)
(***************************************************************************)
Linking(l, v) ==
  \/ l.pc = "decide" /\ l.found = Null /\ l.node # Null /\ v = 0
  \/ l.pc = "up" /\ l.up # height[l.node] /\ v = l.up

LEMMA LinkReady ==
  ASSUME ListTypes, LevelInv, NEW t, NEW l \in Locals, l.call \in Calls \cup {Null}, SearchOK(l), PhaseOK(t, l),
         NEW v, Linking(l, v), NEW p, p = l.preds[v], NEW s, s = l.succs[v]
  PROVE  /\ l.call \in InsertCalls /\ BuiltOK(l, t) /\ l.node # Null /\ l.node \in Nodes /\ v \in Levels
         /\ v \in Has(l.node) /\ l.node \notin OnLevel(v) /\ \A w \in 0 .. v : w # v => l.node \in OnLevel(w)
         /\ key[l.node] = l.key /\ l.key = l.call.key /\ PredOK(key[l.node], v, p)
         /\ s = Null \/ (s \in OnLevel(v) /\ Less(key[l.node], key[s]))
         /\ p # l.node /\ p \in Nodes \cup {Sentinel} /\ v \in Has(p)
<1>1. l.call \in InsertCalls
  BY DEF Linking, PhaseOK, GetOK, IterOK, Calls, Searching
<1>2. l.node # Null /\ BuiltOK(l, t)
  BY <1>1 DEF Linking, PhaseOK, InsertOK, UnbuiltOK, Searching
<1>3. l.node \in Nodes /\ key[l.node] = l.key /\ l.key = l.call.key
  BY <1>2 DEF BuiltOK, Linking
<1>4. /\ 0 \in Levels /\ 0 \in Has(l.node) /\ Has(l.node) \subseteq Levels /\ l.node # Sentinel
      /\ height[l.node] \in 1 .. MAX_HEAD_HEIGHT /\ l.key \in SearchKeys
  BY <1>3, NodeFacts
<1>5. /\ v \in Levels /\ v \in Has(l.node) /\ l.node \notin OnLevel(v)
      /\ \A w \in 0 .. v : w # v => l.node \in OnLevel(w)
  <2>1. CASE l.pc = "decide" /\ v = 0
    <3>1. ~LinkPhase(l)
      BY <2>1 DEF LinkPhase, Searching
    <3> QED BY <1>2, <1>4, <2>1, <3>1 DEF BuiltOK
  <2>2. CASE l.pc = "up" /\ l.up # height[l.node] /\ v = l.up
    <3>1. LinkPhase(l)
      BY <2>2 DEF LinkPhase
    <3>2. l.up \in 1 .. height[l.node] /\ \A w \in Has(l.node) : l.node \in OnLevel(w) <=> w < l.up
      BY <1>2, <3>1 DEF BuiltOK
    <3>3. v \in Has(l.node) /\ v \in Nat /\ \A w \in 0 .. v : w \in Has(l.node)
      BY <1>4, <2>2, <3>2 DEF Has
    <3> QED BY <1>4, <2>2, <3>2, <3>3
  <2> QED BY <2>1, <2>2 DEF Linking
<1>6. PredOK(l.key, v, p) /\ SuccOK(l.key, v, s) /\ (s # Null /\ key[s] = l.key => l.found # Null)
  BY <1>5 DEF SearchOK
<1>7. OnLevel(v) \subseteq Nodes /\ \A m \in OnLevel(v) \cup {Sentinel} : v \in Has(m)
  BY <1>5, LevelFacts
<1>8. p # l.node /\ p \in Nodes \cup {Sentinel} /\ v \in Has(p)
  BY <1>4, <1>5, <1>6, <1>7 DEF PredOK
<1>9. ASSUME s # Null PROVE s \in OnLevel(v) /\ Less(key[l.node], key[s])
  <2>1. s \in OnLevel(v) /\ ~Less(key[s], l.key) /\ key[s] \in SearchKeys
    BY <1>6, <1>7, <1>9, NodeFacts DEF SuccOK
  <2>2. key[s] # l.key
    <3> SUFFICES ASSUME key[s] = l.key PROVE FALSE
      OBVIOUS
    <3>1. l.found # Null
      BY <1>6, <1>9
    <3>2. l.pc = "up" /\ v = l.up
      BY <3>1 DEF Linking
    <3>3. l.up \in 1 .. height[l.node]
      BY <1>2, <3>2 DEF BuiltOK, LinkPhase
    <3>4. 0 \in 0 .. v /\ 0 # v
      BY <3>2, <3>3
    <3>5. l.node \in OnLevel(0) /\ s \in OnLevel(0)
      BY <1>5, <2>1, <3>4, LevelFacts
    <3>6. s = l.node
      BY <1>3, <1>4, <3>5, LevelFacts
    <3> QED BY <1>5, <2>1, <3>6
  <2> QED BY <1>3, <1>4, <2>1, <2>2, LessMixed
<1> QED BY <1>1, <1>2, <1>3, <1>5, <1>6, <1>8, <1>9

Upped(l, x) == [l EXCEPT !.pc = "up", !.up = x]

LEMMA UpLocals ==
  ASSUME NEW l \in Locals, NEW x \in Nat, NEW m, m = Upped(l, x)
  PROVE  /\ m \in Locals /\ m.pc = "up" /\ m.up = x /\ m.call = l.call /\ m.key = l.key /\ m.node = l.node
         /\ m.found = l.found /\ m.after = l.after /\ m.preds = l.preds /\ m.succs = l.succs
BY DEF Upped, Locals, Labels

\* Node n comes on level v, and nothing else does on any level.
LinksOn(n, v) == OnLevel(v)' = OnLevel(v) \cup {n} /\ \A w \in Levels : w # v => OnLevel(w)' = OnLevel(w)

\* The compare-and-swap succeeds: the node is on one more level.
LEMMA LinkKeeps ==
  ASSUME IInv, NEW t \in Thread, NEW l, l = loc[t], NEW v, Linking(l, v), NEW p, p = l.preds[v], NEW s, s = l.succs[v],
         tower[p][v] = s, tower' = Linked(l.node, p, s, v), SameNodes,
         NEW m, m = Upped(l, v + 1), loc' = [loc EXCEPT ![t] = m],
         answer' = [answer EXCEPT ![t] = Effect(t, m)], iter' = iter
  PROVE  IInv' /\ LinksOn(l.node, v)
<1>1. /\ ListTypes /\ LevelInv /\ OffInv /\ l \in Locals /\ PhaseOK(t, l) /\ SearchOK(l)
      /\ AnswerOK(l, answer[t]) /\ CursorOK(l, iter[t]) /\ l.call \in Calls \cup {Null}
      /\ l.pc \in {"decide", "up"}
  BY StateFacts DEF Linking
<1>2. /\ l.call \in InsertCalls /\ BuiltOK(l, t) /\ l.node # Null /\ l.node \in Nodes /\ v \in Levels
      /\ v \in Has(l.node) /\ l.node \notin OnLevel(v) /\ (\A w \in 0 .. v : w # v => l.node \in OnLevel(w))
      /\ key[l.node] = l.key /\ l.key = l.call.key /\ PredOK(key[l.node], v, p)
      /\ (s = Null \/ (s \in OnLevel(v) /\ Less(key[l.node], key[s])))
      /\ p # l.node /\ p \in Nodes \cup {Sentinel} /\ v \in Has(p)
  BY <1>1, LinkReady
<1>3. LinkedAt(l.node, p, s, v)
  BY <1>1, <1>2, LinkedIs
<1>4. /\ ListTypes' /\ LevelInv' /\ OffInv' /\ OnLevel(v)' = OnLevel(v) \cup {l.node}
      /\ \A w \in Levels : w # v => OnLevel(w)' = OnLevel(w)
  BY <1>1, <1>2, <1>3, LinkList
<1>5. Grows /\ Nodes' = Nodes
  <2>1. \A w \in Levels : OnLevel(w) \subseteq OnLevel(w)'
    BY <1>4
  <2> QED BY <1>1, <2>1, LinkGrows
<1>6. /\ v \in Nat /\ l.node # Sentinel /\ height[l.node] \in Nat /\ v < height[l.node] /\ Has(l.node) = 0 .. height[l.node] - 1
      /\ Has(l.node) \subseteq Levels
  BY <1>1, <1>2, NodeFacts DEF Has, Levels
<1>7. /\ m \in Locals /\ m.pc = "up" /\ m.up = v + 1 /\ m.call = l.call /\ m.key = l.key /\ m.node = l.node
      /\ m.found = l.found /\ m.after = l.after /\ m.preds = l.preds /\ m.succs = l.succs
  <2>1. v + 1 \in Nat
    BY <1>6
  <2> QED BY <1>1, <2>1, UpLocals
<1>8. SearchOK(m)'
  <2>1. SearchOK(m)
    BY <1>1, <1>7 DEF SearchOK
  <2> QED BY <1>1, <1>5, <2>1, SearchKept
<1>9. LinkPhase(m) /\ l.call \notin GetCalls /\ l.call \notin IterCalls /\ l.call # Null /\ l.call \in Calls
  BY <1>2, <1>7, CallFacts DEF LinkPhase, Calls
<1>10. BuiltOK(m, t)'
  <2>1. /\ l.node \in Nodes' /\ key'[l.node] = key[l.node] /\ val'[l.node] = val[l.node]
        /\ height'[l.node] = height[l.node] /\ Has(l.node)' = Has(l.node) /\ val[l.node] = t
    BY <1>2, <1>5 DEF Grows, BuiltOK
  <2>2. v + 1 \in 1 .. height[l.node]
    BY <1>6
  <2>3. \A w \in Has(l.node) : l.node \in OnLevel(w)' <=> w < v + 1
    <3> SUFFICES ASSUME NEW w \in Has(l.node) PROVE l.node \in OnLevel(w)' <=> w < v + 1
      OBVIOUS
    <3>1. w \in Nat /\ w \in Levels
      BY <1>6
    <3>2. CASE w = v
      BY <1>4, <1>6, <3>2
    <3>3. CASE w < v
      <4>1. l.node \in OnLevel(w)
        BY <1>2, <1>6, <3>1, <3>3
      <4> QED BY <1>4, <1>6, <3>1, <3>3, <4>1
    <3>4. CASE w > v
      <4>1. l.node \notin OnLevel(w)
        <5>1. v \in 0 .. w
          BY <1>6, <3>1, <3>4
        <5> QED BY <1>1, <1>2, <3>1, <5>1, LevelFacts
      <4> QED BY <1>4, <1>6, <3>1, <3>4, <4>1
    <3> QED BY <1>6, <3>1, <3>2, <3>3, <3>4
  <2> QED BY <1>2, <1>7, <1>9, <2>1, <2>2, <2>3 DEF BuiltOK, Searching
<1>11. PhaseOK(t, m)'
  BY <1>2, <1>7, <1>9, <1>10 DEF PhaseOK, InsertOK, Searching
<1>12. iter[t] = NoIter /\ CursorOK(m, NoIter)'
  BY <1>1, <1>7, <1>9, FreshFacts DEF CursorOK, Searching
<1>13. Effect(t, m) \in Answers \cup {Null} /\ AnswerOK(m, Effect(t, m))
  BY <1>1, <1>7, <1>9, StateFacts, EffectOK
<1>14. PICK a : a = Effect(t, m)
  OBVIOUS
<1>15. ThreadOK(t, m, a, NoIter)'
  BY <1>8, <1>11, <1>12, <1>13, <1>14 DEF ThreadOK, AnswerOK
<1>16. Moves(t, m, a, NoIter)
  BY <1>7, <1>12, <1>13, <1>14, StateFacts, FreshFacts, MovesIs
<1>17. OnlyLinks(m.node) /\ HeightsKept(t, m)
  BY <1>1, <1>2, <1>4, <1>5, <1>7 DEF OnlyLinks, HeightsKept
<1>18. IInv'
  BY <1>4, <1>5, <1>7, <1>15, <1>16, <1>17, StepKept
<1> QED BY <1>4, <1>18 DEF LinksOn

\* The compare-and-swap fails: the thread searches again.
LEMMA MissKeeps ==
  ASSUME IInv, NEW t \in Thread, NEW l, l = loc[t], NEW v, Linking(l, v), NEW s, s = l.succs[v],
         tower' = Missed(l.node, s, v), SameNodes,
         NEW m, m = SearchFor(l, l.call.key, l.pc), loc' = [loc EXCEPT ![t] = m],
         answer' = [answer EXCEPT ![t] = Effect(t, m)], iter' = iter
  PROVE  IInv' /\ SameLevels
<1>1. /\ ListTypes /\ LevelInv /\ OffInv /\ l \in Locals /\ PhaseOK(t, l) /\ SearchOK(l)
      /\ AnswerOK(l, answer[t]) /\ CursorOK(l, iter[t]) /\ l.call \in Calls \cup {Null}
      /\ l.pc \in {"decide", "up"}
  BY StateFacts DEF Linking
<1>2. /\ l.call \in InsertCalls /\ BuiltOK(l, t) /\ l.node # Null /\ l.node \in Nodes /\ v \in Levels
      /\ v \in Has(l.node) /\ l.node \notin OnLevel(v)
      /\ key[l.node] = l.key /\ l.key = l.call.key
      /\ (s = Null \/ (s \in OnLevel(v) /\ Less(key[l.node], key[s])))
  BY <1>1, LinkReady
<1>3. MissedAt(l.node, s, v)
  BY <1>1, <1>2, MissedIs
<1>4. ListTypes' /\ LevelInv' /\ OffInv' /\ SameLevels
  BY <1>1, <1>2, <1>3, MissList
<1>5. Grows /\ Nodes' = Nodes
  <2>1. \A w \in Levels : OnLevel(w) \subseteq OnLevel(w)'
    BY <1>4 DEF SameLevels
  <2> QED BY <1>1, <2>1, LinkGrows
<1>6. l.call.key \in SearchKeys /\ l.pc \in Afters /\ l.call.key = l.key
  BY <1>1, <1>2, NodeFacts DEF Afters
<1>7. /\ m \in Locals /\ m.pc = "max" /\ m.key = l.key /\ m.after = l.pc /\ m.found = Null
      /\ m.call = l.call /\ m.node = l.node /\ m.up = l.up
  BY <1>1, <1>6, SearchForFacts
<1>8. SearchOK(m)
  BY <1>1, <1>6, SearchForOK
<1>9. l.call \notin GetCalls /\ l.call \notin IterCalls /\ l.call # Null /\ l.call \in Calls
  BY <1>2, CallFacts DEF Calls
<1>10. LinkPhase(m) <=> LinkPhase(l)
  BY <1>1, <1>7 DEF LinkPhase, Searching
<1>11. BuiltOK(m, t)
  BY <1>1, <1>2, <1>7, <1>10 DEF BuiltOK, Searching
<1>12. PhaseOK(t, m)
  BY <1>2, <1>7, <1>9, <1>11 DEF PhaseOK, InsertOK, Searching
<1>13. iter[t] = NoIter /\ CursorOK(m, NoIter)
  BY <1>1, <1>7, <1>9, FreshFacts DEF CursorOK, Searching
<1>14. Effect(t, m) \in Answers \cup {Null} /\ AnswerOK(m, Effect(t, m))
  <2>1. l.found # Null => LinkPhase(l)
    BY <1>1 DEF Linking, LinkPhase
  <2> QED BY <1>1, <1>7, <1>9, <1>10, <2>1, StateFacts, EffectOK
<1>15. PICK a : a = Effect(t, m)
  OBVIOUS
<1>16. ThreadOK(t, m, a, NoIter)
  BY <1>8, <1>12, <1>13, <1>14, <1>15 DEF ThreadOK
<1>17. OnlyLinks(Sentinel) /\ OnlyLinks(m.node) /\ HeightsKept(t, m) /\ m.node # Sentinel
  BY <1>1, <1>2, <1>4, <1>5, <1>7, NodeFacts DEF OnlyLinks, HeightsKept, SameLevels
<1>18. ThreadOK(t, m, a, NoIter)'
  BY <1>1, <1>5, <1>16, <1>17, ThreadKept
<1>19. Moves(t, m, a, NoIter)
  BY <1>7, <1>13, <1>14, <1>15, StateFacts, FreshFacts, MovesIs
<1>20. IInv'
  BY <1>4, <1>5, <1>7, <1>17, <1>18, <1>19, StepKept
<1> QED BY <1>4, <1>20

\* What LinkBase and LinkUp do, at the level they link.
LEMMA LinkStepIs ==
  ASSUME NEW t \in Thread, LinkBase(t) \/ LinkUp(t), LocTypes
  PROVE  \E v, m :
           LET l == loc[t] p == l.preds[v] s == l.succs[v]
           IN  /\ Linking(l, v) /\ SameNodes /\ loc' = [loc EXCEPT ![t] = m] /\ loc'[t] = m
               /\ \/ /\ tower[p][v] = s /\ tower' = Linked(l.node, p, s, v)
                     /\ m = Upped(l, v + 1)
                  \/ /\ tower' = Missed(l.node, s, v) /\ m = SearchFor(l, l.call.key, l.pc)
<1>1. PICK l : l = loc[t]
  OBVIOUS
<1>2. l \in Locals /\ \A m : loc' = [loc EXCEPT ![t] = m] => loc'[t] = m
  BY <1>1 DEF LocTypes
<1>3. CASE LinkBase(t)
  <2>1. Linking(l, 0) /\ SameNodes /\ l.pc = "decide"
    BY <1>1, <1>3 DEF LinkBase, MustLink, At, Linking, SameNodes
  <2>2. CASE /\ tower[l.preds[0]][0] = l.succs[0] /\ tower' = Linked(l.node, l.preds[0], l.succs[0], 0)
             /\ loc' = [loc EXCEPT ![t] = [l EXCEPT !.pc = "up", !.up = 1]]
    <3>1. [l EXCEPT !.pc = "up", !.up = 1] = Upped(l, 0 + 1)
      BY DEF Upped
    <3> QED BY <1>1, <1>2, <2>1, <2>2, <3>1
  <2>3. CASE /\ tower' = Missed(l.node, l.succs[0], 0)
             /\ loc' = [loc EXCEPT ![t] = SearchFor(l, l.call.key, "decide")]
    BY <1>1, <1>2, <2>1, <2>3
  <2> QED BY <1>1, <1>3, <2>2, <2>3 DEF LinkBase, Set
<1>4. CASE LinkUp(t)
  <2>1. Linking(l, l.up) /\ SameNodes /\ l.pc = "up"
    BY <1>1, <1>4 DEF LinkUp, LinkedUp, At, Linking, SameNodes
  <2>2. CASE /\ tower[l.preds[l.up]][l.up] = l.succs[l.up]
             /\ tower' = Linked(l.node, l.preds[l.up], l.succs[l.up], l.up)
             /\ loc' = [loc EXCEPT ![t] = [l EXCEPT !.up = l.up + 1]]
    <3>1. [l EXCEPT !.up = l.up + 1] = Upped(l, l.up + 1)
      BY <1>2, <2>1 DEF Upped, Locals
    <3> QED BY <1>1, <1>2, <2>1, <2>2, <3>1
  <2>3. CASE /\ tower' = Missed(l.node, l.succs[l.up], l.up)
             /\ loc' = [loc EXCEPT ![t] = SearchFor(l, l.call.key, "up")]
    BY <1>1, <1>2, <2>1, <2>3
  <2> QED BY <1>1, <1>4, <2>2, <2>3 DEF LinkUp, Set
<1> QED BY <1>3, <1>4

LEMMA LinkStepKeeps ==
  ASSUME IInv, NEW t \in Thread, LinkBase(t) \/ LinkUp(t),
         answer' = [answer EXCEPT ![t] = Effect(t, loc'[t])], iter' = iter
  PROVE  IInv'
<1>1. PICK v, m :
        LET l == loc[t] p == l.preds[v] s == l.succs[v]
        IN  /\ Linking(l, v) /\ SameNodes /\ loc' = [loc EXCEPT ![t] = m] /\ loc'[t] = m
            /\ \/ /\ tower[p][v] = s /\ tower' = Linked(l.node, p, s, v)
                  /\ m = Upped(l, v + 1)
               \/ /\ tower' = Missed(l.node, s, v) /\ m = SearchFor(l, l.call.key, l.pc)
  BY StateFacts, LinkStepIs
<1>2. PICK l, p, s : l = loc[t] /\ p = l.preds[v] /\ s = l.succs[v]
  OBVIOUS
<1>3. /\ Linking(l, v) /\ SameNodes /\ loc' = [loc EXCEPT ![t] = m]
      /\ answer' = [answer EXCEPT ![t] = Effect(t, m)]
  BY <1>1, <1>2
<1>4. CASE tower[p][v] = s /\ tower' = Linked(l.node, p, s, v) /\ m = Upped(l, v + 1)
  BY <1>2, <1>3, <1>4, LinkKeeps
<1>5. CASE tower' = Missed(l.node, s, v) /\ m = SearchFor(l, l.call.key, l.pc)
  BY <1>2, <1>3, <1>5, MissKeeps
<1> QED BY <1>1, <1>2, <1>4, <1>5

(***************************************************************************)
(* The invariant.                                                          *)
(***************************************************************************)
LEMMA InitInv ==
  ASSUME Init
  PROVE  IInv
<1>1. /\ tower = [n \in {Sentinel} |-> [l \in Levels |-> Null]] /\ key = <<>> /\ val = <<>> /\ height = <<>>
      /\ max_level = 1 /\ loc = [t \in Thread |-> Fresh] /\ answer = [t \in Thread |-> Null]
      /\ iter = [t \in Thread |-> NoIter]
  BY DEF Init, InitList
<1>2. allocated = 0 /\ Nodes = {}
  BY <1>1 DEF allocated, Nodes
<1>3. ListTypes
  <2>1. DOMAIN tower = Nodes \cup {Sentinel} /\ tower[Sentinel] = [l \in Levels |-> Null]
    BY <1>1, <1>2
  <2>2. \A m \in Nodes \cup {Sentinel} : DOMAIN tower[m] = Has(m) /\ \A v \in Has(m) : tower[m][v] \in Nodes \cup {Null}
    BY <1>2, <2>1 DEF Has
  <2>3. /\ key \in Seq(Key) /\ val \in Seq(Thread) /\ height \in Seq(1 .. MAX_HEAD_HEIGHT)
        /\ Len(val) = 0 /\ Len(height) = 0 /\ 0 <= MaxNodes /\ max_level \in 1 .. MAX_HEAD_HEIGHT
    BY <1>1, NodesAssumption, HeightAssumption
  <2> QED BY <1>2, <2>1, <2>2, <2>3 DEF ListTypes
<1>4. LocTypes
  BY <1>1, FreshFacts DEF LocTypes
<1>5. \A v \in Levels : OnLevel(v) = {} /\ Succ(v)[Sentinel] = Null
  <2> SUFFICES ASSUME NEW v \in Levels PROVE OnLevel(v) = {} /\ Succ(v)[Sentinel] = Null
    OBVIOUS
  <2>1. DOMAIN tower = {Sentinel} /\ tower[Sentinel][v] = Null /\ v \in DOMAIN tower[Sentinel]
    BY <1>1
  <2> QED BY <2>1, SuccAt DEF OnLevel, Succ
<1>6. LevelInv
  BY <1>5 DEF LevelInv, Ordered, Reached
<1>7. OffInv /\ HeightInv
  BY <1>2 DEF OffInv, HeightInv
<1>8. TowerInv
  BY <1>3, <1>5, NodeFacts DEF TowerInv
<1>9. ThreadInv
  BY <1>1, FreshThread DEF ThreadInv
<1>10. OwnerInv
  BY <1>1, FreshFacts DEF OwnerInv
<1> QED BY <1>3, <1>4, <1>6, <1>7, <1>8, <1>9, <1>10 DEF IInv

LEMMA WorkKeeps ==
  ASSUME IInv, NEW t \in Thread, Work(t)
  PROVE  IInv'
<1>1. answer' = [answer EXCEPT ![t] = Effect(t, loc'[t])] /\ iter' = iter
  BY DEF Work
<1>2. CASE SearchStep(t)
  BY <1>1, <1>2, SearchKeeps
<1>3. CASE \E k \in Key : MustBuild(t) /\ k = loc[t].call.key /\ AllocNode(t, k, t)
  BY <1>1, <1>3, BuildKeeps
<1>4. CASE RaiseLevel(t)
  BY <1>1, <1>4, RaiseKeeps
<1>5. CASE LinkBase(t) \/ LinkUp(t)
  BY <1>1, <1>5, LinkStepKeeps
<1> QED BY <1>2, <1>3, <1>4, <1>5 DEF Work

LEMMA StutterKeeps ==
  ASSUME IInv, UNCHANGED vars
  PROVE  IInv'
<1>1. /\ tower' = tower /\ key' = key /\ val' = val /\ height' = height /\ max_level' = max_level
      /\ loc' = loc /\ answer' = answer /\ iter' = iter
  BY DEF vars, listVars
<1>2. ListTypes /\ LevelInv /\ OffInv /\ max_level' \in 1 .. MAX_HEAD_HEIGHT /\ max_level <= max_level'
  BY <1>1 DEF IInv, ListTypes
<1>3. ListTypes' /\ LevelInv' /\ OffInv' /\ SameLevels /\ Grows /\ Nodes' = Nodes
  BY <1>1, <1>2, SameList
<1>4. LocTypes' /\ ThreadInv' /\ OwnerInv'
  <2>1. LocTypes /\ ThreadInv /\ OwnerInv
    BY DEF IInv
  <2>2. ThreadInv'
    <3> SUFFICES ASSUME NEW u \in Thread PROVE ThreadOK(u, loc[u], answer[u], iter[u])'
      BY DEF ThreadInv
    <3>1. PICK m, b, j : m = loc[u] /\ b = answer[u] /\ j = iter[u]
      OBVIOUS
    <3>2. PICK n : n # m.node
      BY <1>2, NodeFacts
    <3>3. OnlyLinks(n)
      BY <1>3 DEF SameLevels, OnlyLinks
    <3>4. ThreadOK(u, m, b, j)'
      BY <1>2, <1>3, <2>1, <3>1, <3>2, <3>3, ThreadKept DEF ThreadInv
    <3> QED BY <1>1, <3>1, <3>4
  <2> QED BY <1>1, <2>1, <2>2 DEF LocTypes, OwnerInv
<1>5. HeightInv' /\ TowerInv'
  <2>1. HeightInv /\ TowerInv
    BY DEF IInv
  <2>2. HeightInv'
    BY <1>1, <1>3, <2>1 DEF HeightInv, At
  <2>3. \A v : OnLevel(v)' = OnLevel(v) /\ Has(v)' = Has(v)
    BY <1>1 DEF OnLevel, Has
  <2> QED BY <1>1, <2>1, <2>2, <2>3 DEF TowerInv
<1> QED BY <1>3, <1>4, <1>5 DEF IInv

\* Every action preserves the invariant.
LEMMA NextInv ==
  ASSUME IInv, [Next]_vars
  PROVE  IInv'
<1>1. Inserter \subseteq Thread /\ DirectInserter \subseteq Thread /\ Reader \subseteq Thread
  BY RolesAssumption
<1>2. CASE \E t \in Inserter : Insert(t)
  BY <1>1, <1>2, InsertKeeps
<1>3. CASE \E t \in DirectInserter : InsertDirect(t)
  BY <1>1, <1>3, InsertDirectKeeps
<1>4. CASE \E t \in Reader : Get(t) \/ IterFirst(t) \/ IterFrom(t)
  BY <1>1, <1>4, GetKeeps, IterFirstKeeps, IterFromKeeps
<1>5. CASE \E t \in Thread : Continue(t)
  BY <1>5, WorkKeeps, ReturnKeeps, IterNextKeeps, IterEndKeeps DEF Continue
<1>6. CASE UNCHANGED vars
  BY <1>6, StutterKeeps
<1> QED BY <1>2, <1>3, <1>4, <1>5, <1>6 DEF Next

\* The inductive invariant holds throughout.
THEOREM Invariance == Spec => []IInv
<1>1. Init => IInv
  BY InitInv
<1>2. IInv /\ [Next]_vars => IInv'
  BY NextInv
<1> QED BY <1>1, <1>2, PTL DEF Spec

(***************************************************************************)
(* The properties.                                                         *)
(***************************************************************************)
LEMMA TypeFollows == IInv => TypeOK
<1> SUFFICES ASSUME IInv PROVE TypeOK
  OBVIOUS
<1>1. ListTypes /\ LocTypes /\ HeightInv
  BY DEF IInv
<1>2. allocated \in Nat /\ Nodes \subseteq Node
  BY <1>1, NodeFacts
<1>3. DOMAIN tower = 0 .. allocated
  <2>1. Nodes \cup {Sentinel} = 0 .. allocated
    BY <1>2 DEF Nodes, Sentinel
  <2> QED BY <1>1, <2>1 DEF ListTypes
<1>4. \A n \in DOMAIN tower : \A v \in DOMAIN tower[n] : tower[n][v] \in Ptr
  BY <1>1, <1>2 DEF ListTypes, Ptr
<1>5. \A n \in Node : n <= allocated => height[n] <= max_level \/ \E t \in Thread :
         At(t, "raise") /\ loc[t].node = n
  <2>1. \A n \in Node : n <= allocated => n \in Nodes
    BY <1>2, NodesAssumption DEF Node, Nodes
  <2> QED BY <1>1, <2>1 DEF HeightInv
<1>6. \A t \in Thread : loc[t].level \in 0 .. MAX_HEAD_HEIGHT
  BY <1>1, LocalFacts DEF LocTypes
<1>7. /\ allocated <= MaxNodes /\ key \in Seq(Key) /\ Len(val) = allocated /\ Len(height) = allocated
      /\ max_level \in 1 .. MAX_HEAD_HEIGHT
  BY <1>1 DEF ListTypes
<1> QED BY <1>3, <1>4, <1>5, <1>6, <1>7 DEF TypeOK

\* Pointers lead to the sentinel, to allocated nodes or nowhere, and max_level is
\* never below the height of a node whose insert has finished raising it.
THEOREM TypeCorrect == Spec => []TypeOK
BY Invariance, TypeFollows, PTL

\* The nodes of a level are the ones a walk meets.
LEMMA LevelWalk ==
  ASSUME ListTypes, LevelInv, NEW v \in Levels
  PROVE  OnLevel(v) = Reachable(v)
<1>1. /\ OnLevel(v) \subseteq Nodes /\ Sentinel \notin OnLevel(v) /\ Null \notin OnLevel(v)
      /\ \A m \in OnLevel(v) \cup {Sentinel} : /\ v \in DOMAIN tower[m] /\ Succ(v)[m] = tower[m][v]
                                               /\ tower[m][v] \in OnLevel(v) \cup {Null}
  BY LevelFacts
<1>2. ASSUME NEW n \in OnLevel(v), NEW S \in SUBSET Nodes, LevelClosed(S, v) PROVE n \in S
  <2>1. Closed(S \cap OnLevel(v), Succ(v))
    BY <1>1, <1>2 DEF LevelClosed, Closed
  <2>2. Reached(OnLevel(v), Succ(v))
    BY DEF LevelInv
  <2> QED BY <2>1, <2>2 DEF Reached
<1>3. LevelClosed(OnLevel(v), v)
  BY <1>1 DEF LevelClosed
<1> QED BY <1>1, <1>2, <1>3 DEF Reachable, Nodes

LEMMA LevelsFollow == IInv => LevelsSorted
<1> SUFFICES ASSUME IInv PROVE LevelsSorted
  OBVIOUS
<1>1. ListTypes /\ LevelInv /\ OffInv
  BY DEF IInv
<1>2. ASSUME NEW n \in DOMAIN tower \ {Sentinel}, NEW v \in DOMAIN tower[n], tower[n][v] # Null
      PROVE  Less(key[n], key[tower[n][v]])
  <2>1. n \in Nodes /\ v \in Has(n) /\ v \in Levels
    BY <1>1, <1>2, NodeFacts DEF ListTypes
  <2> QED BY <1>1, <1>2, <2>1 DEF OffInv
<1>3. \A v \in Levels : OnLevel(v) = Reachable(v)
  BY <1>1, LevelWalk
<1>4. \A v \in Levels \ {0} : OnLevel(v) \subseteq OnLevel(v - 1)
  <2> SUFFICES ASSUME NEW v \in Levels \ {0} PROVE OnLevel(v) \subseteq OnLevel(v - 1)
    OBVIOUS
  <2>1. v - 1 \in 0 .. v
    BY HeightAssumption DEF Levels
  <2> QED BY <1>1, <2>1, LevelFacts
<1> QED BY <1>2, <1>3, <1>4 DEF LevelsSorted

\* Whatever compare-and-swaps of insert and insert_with race, every level is
\* sorted without duplicates, a walk from the sentinel meets every node on it, and
\* each level is contained in the one below.
THEOREM LevelsAlwaysSorted == Spec => []LevelsSorted
BY Invariance, LevelsFollow, PTL

LEMMA TowersFollow == IInv => TowersComplete
<1> SUFFICES ASSUME IInv PROVE TowersComplete
  OBVIOUS
<1>1. ListTypes /\ LevelInv /\ TowerInv
  BY DEF IInv
<1>2. \A n \in OnLevel(0) : Has(n) = 0 .. height[n] - 1
  BY <1>1, NodeFacts, LevelFacts DEF Has
<1> QED BY <1>1, <1>2 DEF TowerInv, TowersComplete

\* A node whose insert has returned is on every level of its tower: the loop that
\* links the levels above the base gives none of them up.
THEOREM TowersAlwaysComplete == Spec => []TowersComplete
BY Invariance, TowersFollow, PTL

LEMMA SnapshotFollows == IInv => IterSeesSnapshot
<1> SUFFICES ASSUME IInv, NEW t \in Thread, At(t, "iter")
             PROVE  IF Current(t) = Null THEN iter[t].owed = {}
                    ELSE iter[t].last # Null => Less(iter[t].last, key[Current(t)])
  BY DEF IterSeesSnapshot
<1>1. CursorOK(loc[t], iter[t]) /\ loc[t].pc = "iter" /\ Current(t) = loc[t].succs[0]
  BY StateFacts DEF At, Current
<1> QED BY <1>1 DEF CursorOK

\* An iterator returns ever larger keys, and when it ends it has returned every
\* key that was in the table when it was positioned, whatever is inserted in
\* between.
THEOREM IterAlwaysSeesSnapshot == Spec => []IterSeesSnapshot
BY Invariance, SnapshotFollows, PTL

(***************************************************************************)
(* The memtable implements the versioned map.                              *)
(***************************************************************************)
\* A step of the map, or none.
AbsStep == Abs!Next \/ UNCHANGED Abs!vars

\* The versions, by the nodes of the base level.
LEMMA VersionsAre ==
  \A e : e \in Versions <=> \E n \in OnLevel(0) : e = <<key[n], val[n]>>
BY DEF Versions

LEMMA VersionsNext ==
  \A e : e \in Versions' <=> \E n \in OnLevel(0)' : e = <<key'[n], val'[n]>>
BY DEF Versions

\* A sequence number is at most s when the trailer is at most that of (s, 255).
LEMMA TrailerOrder == \A x, s \in Nat : x \div 256 <= s <=> x <= s * 256 + 255
OBVIOUS

LEMMA SeekOrder ==
  ASSUME NEW u \in User, NEW s \in Snapshot, NEW k, k = Encode(u, s, SEEK_OP_SENTINEL), NEW x \in SearchKeys
  PROVE  /\ x.user = u /\ SeqOf(x) <= s <=> x.user = u /\ ~Less(x, k)
         /\ ~Less(x, k) => x.user >= u
<1>1. u \in Int /\ s \in Nat /\ x.user \in Int /\ x.trailer \in Nat
  BY ReadAssumption DEF SearchKeys
<1>2. k.user = u /\ k.trailer = s * 256 + 255
  BY DEF Encode, pack_trailer, SEEK_OP_SENTINEL
<1>3. SeqOf(x) <= s <=> x.trailer <= s * 256 + 255
  BY <1>1, TrailerOrder DEF SeqOf
<1> QED BY <1>1, <1>2, <1>3 DEF Less

\* The first version at or after the key a read seeks is the answer the map gives.
LEMMA ReadIsGet ==
  ASSUME ListTypes, LevelInv, NEW u \in User, NEW s \in Snapshot, NEW n,
         First(Encode(u, s, SEEK_OP_SENTINEL), n)
  PROVE  MemReturn(n, u) = Abs!Get(u, s)
<1>1. PICK k : k = Encode(u, s, SEEK_OP_SENTINEL) /\ k \in SearchKeys
  BY EncodeType
<1>2. OnLevel(0) \subseteq Nodes /\ \A x \in OnLevel(0) : key[x] \in SearchKeys /\ key[x].user \in Int /\ key[x].trailer \in Nat
  BY NodeFacts, LevelFacts DEF SearchKeys
<1>3. /\ \A x \in OnLevel(0) : key[x].user = u /\ SeqOf(key[x]) <= s <=> key[x].user = u /\ ~Less(key[x], k)
      /\ \A x \in OnLevel(0) : ~Less(key[x], k) => key[x].user >= u
  BY <1>1, <1>2, SeekOrder
<1>4. /\ n # Null => n \in OnLevel(0) /\ ~Less(key[n], k)
      /\ \A x \in OnLevel(0) : ~Less(key[x], k) => n # Null /\ ~Less(key[x], key[n])
  BY <1>1 DEF First
<1>5. u \in Int
  BY ReadAssumption
<1> DEFINE Seen == {e \in Versions : e[1].user = u /\ SeqOf(e[1]) <= s}
           New == {e \in Seen : \A f \in Seen : f[1].trailer <= e[1].trailer}
<1>6. Abs!Newest(u, s) = New
  BY DEF Abs!Newest, SeqOf, Abs!SeqOf
<1>7. \A e : e \in Seen <=> \E x \in OnLevel(0) : e = <<key[x], val[x]>> /\ key[x].user = u /\ ~Less(key[x], k)
  BY <1>3, VersionsAre
<1> HIDE DEF Seen
<1>8. CASE n = Null \/ (n # Null /\ key[n].user # u)
  <2>1. Seen = {}
    <3> SUFFICES ASSUME NEW e \in Seen PROVE FALSE
      OBVIOUS
    <3>1. PICK x \in OnLevel(0) : e = <<key[x], val[x]>> /\ key[x].user = u /\ ~Less(key[x], k)
      BY <1>7
    <3>2. n # Null /\ ~Less(key[x], key[n])
      BY <1>4, <3>1
    <3>3. key[n].user >= u /\ key[n].user # u /\ key[n].user \in Int
      BY <1>2, <1>3, <1>4, <1>8, <3>2
    <3> QED BY <1>5, <3>1, <3>2, <3>3 DEF Less
  <2>2. Abs!Newest(u, s) = {}
    BY <1>6, <2>1
  <2>3. Abs!Get(u, s) = Abs!Answer("NotFound", Null)
    BY <2>2 DEF Abs!Get
  <2> QED BY <1>2, <1>4, <1>8, <2>3, MemReturnIs
<1>9. CASE n # Null /\ key[n].user = u
  <2>1. n \in OnLevel(0) /\ ~Less(key[n], k) /\ n \in Nodes
    BY <1>2, <1>4, <1>9
  <2>2. PICK d : d = <<key[n], val[n]>>
    OBVIOUS
  <2>3. d = <<key[n], val[n]>> /\ d[1] = key[n] /\ d[2] = val[n]
    BY <2>2
  <2>4. d \in Seen
    BY <1>7, <1>9, <2>1, <2>3
  <2>5. ASSUME NEW x \in OnLevel(0), key[x].user = u, ~Less(key[x], k) PROVE key[x].trailer <= key[n].trailer
    <3>1. ~Less(key[x], key[n])
      BY <1>4, <2>5
    <3> QED BY <1>2, <1>9, <2>1, <2>5, <3>1 DEF Less
  <2>6. d \in New
    <3>1. \A f \in Seen : f[1].trailer <= d[1].trailer
      BY <1>7, <2>3, <2>5
    <3> QED BY <2>4, <3>1
  <2>7. ASSUME NEW e \in New PROVE e = d
    <3>1. PICK x \in OnLevel(0) : e = <<key[x], val[x]>> /\ key[x].user = u /\ ~Less(key[x], k)
      BY <1>7, <2>7
    <3>2. key[n].trailer <= key[x].trailer
      BY <2>3, <2>4, <2>7, <3>1
    <3>3. key[x].trailer = key[n].trailer
      BY <1>2, <2>1, <2>5, <3>1, <3>2
    <3>4. key[x] = key[n]
      BY <1>2, <1>9, <2>1, <3>1, <3>3 DEF SearchKeys
    <3>5. x = n
      BY <2>1, <3>1, <3>4, NodeFacts, LevelFacts
    <3> QED BY <2>3, <3>1, <3>5
  <2> HIDE DEF New
  <2>8. Abs!Newest(u, s) # {} /\ (CHOOSE e \in Abs!Newest(u, s) : TRUE) = d
    BY <1>6, <2>6, <2>7
  <2>9. Abs!Get(u, s) = Abs!ReadOf(d)
    BY <2>8 DEF Abs!Get
  <2>10. OpOf(key[n]) \in {Put, Delete, Merge}
    BY <1>9, <2>1, MemReturnIs
  <2>11. CASE OpOf(key[n]) = Put
    <3>1. Abs!ReadOf(d) = Abs!Answer("Value", val[n])
      BY <2>3, <2>11 DEF Abs!ReadOf, Abs!OpOf, OpOf, Abs!Put, Put, Abs!Delete, Abs!Merge
    <3> QED BY <1>9, <2>1, <2>9, <2>11, <3>1, MemReturnIs
  <2>12. CASE OpOf(key[n]) = Delete
    <3>1. Abs!ReadOf(d) = Abs!Answer("Deleted", Null)
      BY <2>3, <2>12 DEF Abs!ReadOf, Abs!OpOf, OpOf, Abs!Put, Delete, Abs!Delete, Abs!Merge
    <3> QED BY <1>9, <2>1, <2>9, <2>12, <3>1, MemReturnIs
  <2>13. CASE OpOf(key[n]) = Merge
    <3>1. Abs!ReadOf(d) = Abs!Answer("Merge", Null)
      BY <2>3, <2>13 DEF Abs!ReadOf, Abs!OpOf, OpOf, Abs!Put, Merge, Abs!Delete, Abs!Merge
    <3> QED BY <1>9, <2>1, <2>9, <2>13, <3>1, MemReturnIs
  <2> QED BY <2>10, <2>11, <2>12, <2>13
<1> QED BY <1>8, <1>9

\* Thread t moves on to the locals l and the answer a.
Sets(t, l, a) == loc' = [loc EXCEPT ![t] = l] /\ answer' = [answer EXCEPT ![t] = a]

\* In the map, the call of t goes from b to c.
Turns(t, b, c) == Pending[t] = b /\ Pending'[t] = c /\ Pending' = [Pending EXCEPT ![t] = c]

\* A step of one thread changes at most its own call.
LEMMA PendingMoves ==
  ASSUME LocTypes, NEW t \in Thread, NEW l, NEW a, Sets(t, l, a),
         NEW b, Calling(loc[t], answer[t]) = b, NEW c, Calling(l, a) = c
  PROVE  Turns(t, b, c)
<1>1. /\ loc'[t] = l /\ answer'[t] = a
      /\ \A u \in Thread : u # t => loc'[u] = loc[u] /\ answer'[u] = answer[u]
  BY DEF LocTypes, Sets
<1>2. Pending[t] = b
  BY DEF Pending
<1>3. Pending'[t] = c /\ \A u \in Thread : u # t => Pending'[u] = Pending[u]
  BY <1>1 DEF Pending
<1>4. Pending = [u \in Thread |-> Pending[u]] /\ Pending' = [u \in Thread |-> Pending'[u]]
  BY DEF Pending
<1>5. Pending' = [Pending EXCEPT ![t] = c]
  BY <1>3, <1>4
<1> QED BY <1>2, <1>3, <1>5 DEF Turns

\* The versions, when no node is linked at the base.
LEMMA SameVersions ==
  ASSUME ListTypes, LevelInv, Grows, OnLevel(0)' = OnLevel(0)
  PROVE  Versions' = Versions
<1>1. \A n \in OnLevel(0) : key'[n] = key[n] /\ val'[n] = val[n]
  BY NodeFacts, LevelFacts DEF Grows
<1>2. \A e : e \in Versions' <=> e \in Versions
  BY <1>1, VersionsAre, VersionsNext
<1> QED BY <1>2

\* The shape of a thread's call in the map.
LEMMA CallingIs ==
  ASSUME NEW l, NEW a, l.call \in Calls \cup {Null}
  PROVE  /\ a # Null => Calling(l, a) = a
         /\ a = Null /\ l.pc = "panic" => Calling(l, a) = [op |-> "panicked"]
         /\ a = Null /\ l.pc # "panic" /\ l.call \in IterCalls \cup {Null} => Calling(l, a) = Null
         /\ a = Null /\ l.pc # "panic" /\ l.call \in GetCalls => Calling(l, a) = l.call /\ l.call \in Abs!GetOps
         /\ a = Null /\ l.pc # "panic" /\ l.call \in InsertCalls =>
              Calling(l, a) = [op |-> "insert", key |-> l.call.key] /\ Calling(l, a) \in Abs!InsertOps
              /\ Calling(l, a).key = l.call.key /\ Calling(l, a) # Null
<1>1. a # Null => Calling(l, a) = a
  BY DEF Calling
<1>2. a = Null /\ l.pc = "panic" => Calling(l, a) = [op |-> "panicked"]
  BY DEF Calling
<1>3. a = Null /\ l.pc # "panic" /\ l.call \in IterCalls \cup {Null} => Calling(l, a) = Null
  BY CallFacts DEF Calling
<1>4. a = Null /\ l.pc # "panic" /\ l.call \in GetCalls => Calling(l, a) = l.call /\ l.call \in Abs!GetOps
  BY CallFacts DEF Calling, Abs!GetOps, GetCalls
<1>5. ASSUME a = Null, l.pc # "panic", l.call \in InsertCalls
      PROVE  /\ Calling(l, a) = [op |-> "insert", key |-> l.call.key] /\ Calling(l, a) \in Abs!InsertOps
             /\ Calling(l, a).key = l.call.key /\ Calling(l, a) # Null
  <2>1. l.call # Null /\ l.call.op # "iter" /\ l.call.op # "get" /\ l.call.key \in Key
    BY <1>5, CallFacts
  <2>2. Calling(l, a) = [op |-> "insert", key |-> l.call.key]
    BY <1>5, <2>1 DEF Calling
  <2>3. [op |-> "insert", key |-> l.call.key] \in InsertCalls
    BY <2>1 DEF InsertCalls
  <2> QED BY <2>1, <2>2, <2>3, CallFacts DEF Abs!InsertOps
<1> QED BY <1>1, <1>2, <1>3, <1>4, <1>5

\* An answer is no call.
LEMMA AnswerShape ==
  ASSUME NEW a \in Answers
  PROVE  a \notin Abs!InsertOps /\ a \notin Abs!GetOps /\ a # Null /\ a # Abs!Panicked
<1>1. a.op \in {"answer", "done"} /\ a # Null
  BY CallFacts DEF Answers
<1> QED BY <1>1 DEF Abs!InsertOps, Abs!GetOps, Abs!Panicked

\* A step that changes neither the versions nor the thread's call.
LEMMA StutterAbs ==
  ASSUME LocTypes, NEW t \in Thread, NEW l, NEW a, Sets(t, l, a),
         Versions' = Versions, Calling(l, a) = Calling(loc[t], answer[t])
  PROVE  AbsStep
<1>1. PICK b : b = Calling(l, a)
  OBVIOUS
<1>2. Turns(t, b, b)
  BY <1>1, PendingMoves
<1>3. Pending' = Pending
  BY <1>2 DEF Turns, Pending
<1> QED BY <1>3 DEF AbsStep, Abs!vars

\* A step that leaves the list alone.
LEMMA QuietVersions ==
  ASSUME IInv, UNCHANGED <<tower, key, val>>
  PROVE  Versions' = Versions
BY DEF Versions, OnLevel

\* A call that has its answer returns, in the map too.
LEMMA ReturnAbs ==
  ASSUME IInv, NEW t \in Thread, Return(t)
  PROVE  AbsStep
<1>1. PICK l : l = loc[t]
  OBVIOUS
<1>2. /\ l.pc = "return" \/ (l.pc = "decide" /\ l.found # Null) \/ (l.pc = "up" /\ l.up = height[l.node])
      /\ loc' = [loc EXCEPT ![t] = Fresh] /\ answer' = [answer EXCEPT ![t] = Null] /\ UNCHANGED listVars
  BY <1>1 DEF Return, Exists, LinkedUp, At, Set
<1>3. l.call \in Calls \cup {Null} /\ PhaseOK(t, l) /\ AnswerOK(l, answer[t]) /\ answer[t] \in Answers \cup {Null} /\ LocTypes
  BY <1>1, StateFacts
<1>4. answer[t] # Null
  BY <1>2, <1>3 DEF PhaseOK, GetOK, IterOK, InsertOK, AnswerOK, LinkPhase, Searching, Calls
<1>5. Turns(t, answer[t], Null)
  <2>1. Fresh.call = Null /\ Fresh.pc = "idle"
    BY FreshFacts
  <2>2. Calling(Fresh, Null) = Null
    BY <2>1, CallingIs
  <2>3. Calling(l, answer[t]) = answer[t]
    BY <1>3, <1>4, CallingIs
  <2>4. Calling(loc[t], answer[t]) = answer[t]
    BY <1>1, <2>3
  <2>5. Sets(t, Fresh, Null)
    BY <1>2 DEF Sets
  <2> QED BY <1>3, <2>2, <2>4, <2>5, PendingMoves
<1>6. Versions' = Versions
  BY <1>2, QuietVersions DEF listVars
<1>7. Abs!Return(t)
  BY <1>3, <1>4, <1>5, <1>6, AnswerShape DEF Abs!Return, Turns
<1> QED BY <1>4, <1>5, <1>7 DEF AbsStep, Abs!Next, Abs!Step, Turns

\* Iterators are not calls of the map.
LEMMA IterAbs ==
  ASSUME IInv, NEW t \in Thread, IterNext(t) \/ IterEnd(t)
  PROVE  AbsStep
<1>1. PICK l : l = loc[t] /\ l.pc = "iter"
  BY DEF IterNext, IterEnd, At
<1>2. l \in Locals /\ l.call \in Calls \cup {Null} /\ PhaseOK(t, l) /\ AnswerOK(l, answer[t]) /\ LocTypes
  BY <1>1, StateFacts
<1>3. l.call \in IterCalls
  BY <1>1, <1>2 DEF PhaseOK, GetOK, IterOK, InsertOK, Searching, Calls
<1>4. answer[t] = Null
  BY <1>2, <1>3, CallFacts DEF AnswerOK
<1>5. Calling(l, Null) = Null
  BY <1>1, <1>2, <1>3, CallingIs
<1>6. answer' = [answer EXCEPT ![t] = Null] /\ Versions' = Versions
  BY <1>4, StateFacts, QuietVersions DEF IterNext, IterEnd, listVars
<1>7. PICK m : loc' = [loc EXCEPT ![t] = m] /\ Calling(m, Null) = Null
  <2>1. CASE IterEnd(t)
    <3>1. Calling(Fresh, Null) = Null
      BY FreshFacts, CallingIs
    <3> QED BY <2>1, <3>1 DEF IterEnd, Set
  <2>2. CASE IterNext(t)
    <3>1. PICK m : m = [l EXCEPT !.succs[0] = tower[Current(t)][0]]
      OBVIOUS
    <3>2. m.call = l.call /\ m.pc = l.pc
      BY <1>2, <3>1 DEF Locals
    <3>3. Calling(m, Null) = Null
      BY <1>1, <1>2, <1>3, <3>2, CallingIs
    <3> QED BY <1>1, <2>2, <3>1, <3>3 DEF IterNext, Set
  <2> QED BY <2>1, <2>2
<1>8. Sets(t, m, Null)
  BY <1>6, <1>7 DEF Sets
<1> QED BY <1>1, <1>2, <1>4, <1>5, <1>6, <1>7, <1>8, StutterAbs

\* Building a node is no step of the map, but for the panic of a full arena.
LEMMA PreparesAbs ==
  ASSUME IInv, NEW t \in Thread, Prepares(t)
  PROVE  AbsStep
<1>1. /\ loc[t].call \in InsertCalls /\ loc[t].pc # "panic" /\ answer[t] = Null /\ Grows /\ SameLevels
      /\ answer' = [answer EXCEPT ![t] = Null]
  BY DEF Prepares
<1>2. PICK m : m.call = loc[t].call /\ loc' = [loc EXCEPT ![t] = m]
  BY DEF Prepares
<1>3. ListTypes /\ LocTypes /\ LevelInv /\ 0 \in Levels /\ loc[t].call \in Calls \cup {Null} /\ m.call \in Calls \cup {Null}
  BY <1>2, StateFacts, NodeFacts
<1>4. Versions' = Versions
  BY <1>1, <1>3, SameVersions DEF SameLevels
<1>5. Calling(loc[t], answer[t]) \in Abs!InsertOps /\ Calling(loc[t], answer[t]) = [op |-> "insert", key |-> loc[t].call.key]
  BY <1>1, <1>3, CallingIs
<1>6. Sets(t, m, Null)
  BY <1>1, <1>2 DEF Sets
<1>7. CASE m.pc = "panic"
  <2>1. Calling(m, Null) = Abs!Panicked
    BY <1>3, <1>7, CallingIs DEF Abs!Panicked
  <2>2. Turns(t, Calling(loc[t], answer[t]), Abs!Panicked)
    BY <1>3, <1>6, <2>1, PendingMoves
  <2>3. Abs!Panic(t)
    BY <1>4, <1>5, <2>2 DEF Abs!Panic, Turns
  <2>4. Pending'[t] # Pending[t]
    BY <1>5, <2>2 DEF Abs!Panicked, Abs!InsertOps, Turns
  <2> QED BY <2>3, <2>4 DEF AbsStep, Abs!Next, Abs!Step
<1>8. CASE m.pc # "panic"
  <2>1. Calling(m, Null) = [op |-> "insert", key |-> m.call.key]
    BY <1>1, <1>2, <1>3, <1>8, CallingIs
  <2>2. Calling(m, Null) = Calling(loc[t], answer[t])
    BY <1>2, <1>5, <2>1
  <2> QED BY <1>3, <1>4, <1>6, <2>2, StutterAbs
<1> QED BY <1>7, <1>8

\* A call begins: the map's call too, unless it is an iteration.
LEMMA StartAbs ==
  ASSUME IInv, NEW t \in Thread, NEW c \in Calls, NEW l \in Locals, l.pc # "panic", Start(t, c, l)
  PROVE  AbsStep
<1>1. PICK m : m = [l EXCEPT !.call = c]
  OBVIOUS
<1>2. /\ At(t, "idle") /\ loc' = [loc EXCEPT ![t] = m] /\ UNCHANGED <<tower, key, val>> /\ answer' = answer
      /\ loc[t].pc = "idle"
  BY <1>1 DEF Start, Set, At, listVars
<1>3. loc[t].call = Null /\ answer[t] = Null
  BY <1>2, IdleFacts
<1>4. m.call = c /\ m.pc # "panic" /\ m.call \in Calls \cup {Null}
  BY <1>1, WithCall
<1>5. LocTypes /\ Versions' = Versions /\ answer' = [answer EXCEPT ![t] = Null]
  BY <1>2, <1>3, StateFacts, QuietVersions
<1>6. Calling(loc[t], answer[t]) = Null
  BY <1>2, <1>3, CallingIs
<1>7. Sets(t, m, Null)
  BY <1>2, <1>5 DEF Sets
<1>8. CASE c \in IterCalls
  <2>1. Calling(m, Null) = Null
    BY <1>4, <1>8, CallingIs
  <2> QED BY <1>5, <1>6, <1>7, <2>1, StutterAbs
<1>9. CASE c \in InsertCalls \cup GetCalls
  <2>1. Calling(m, Null) \in Abs!InsertOps \cup Abs!GetOps /\ Calling(m, Null) # Null
    BY <1>4, <1>9, CallingIs, CallFacts
  <2>2. Turns(t, Null, Calling(m, Null))
    BY <1>5, <1>6, <1>7, PendingMoves
  <2>3. Abs!Call(t)
    BY <1>5, <2>1, <2>2 DEF Abs!Call, Turns
  <2> QED BY <2>1, <2>2, <2>3 DEF AbsStep, Abs!Next, Abs!Step, Turns
<1> QED BY <1>8, <1>9 DEF Calls

\* Inserts and reads begin.
LEMMA CallAbs ==
  ASSUME IInv, NEW t \in Thread, Insert(t) \/ InsertDirect(t) \/ Get(t)
  PROVE  AbsStep
<1>1. Fresh \in Locals
  BY FreshFacts
<1>2. CASE Insert(t)
  <2>1. PICK k \in Key : Start(t, [op |-> "insert", key |-> k], SearchFor(Fresh, k, "decide"))
    BY <1>2 DEF Insert
  <2>2. PICK c, l : c = [op |-> "insert", key |-> k] /\ l = SearchFor(Fresh, k, "decide")
    OBVIOUS
  <2>3. c \in Calls /\ "decide" \in Afters /\ k \in SearchKeys
    BY <2>2, KeyIsSearchKey DEF Calls, InsertCalls, Afters
  <2>4. l \in Locals /\ l.pc = "max"
    BY <1>1, <2>2, <2>3, SearchForFacts
  <2>5. Start(t, c, l)
    BY <2>1, <2>2
  <2> QED BY <2>3, <2>4, <2>5, StartAbs
<1>3. CASE InsertDirect(t)
  <2>1. PICK k \in Key : Start(t, [op |-> "insert_direct", key |-> k], [Fresh EXCEPT !.pc = "decide"])
    BY <1>3 DEF InsertDirect
  <2>2. PICK c, l : c = [op |-> "insert_direct", key |-> k] /\ l = [Fresh EXCEPT !.pc = "decide"]
    OBVIOUS
  <2>3. c \in Calls
    BY <2>2 DEF Calls, InsertCalls
  <2>4. l \in Locals /\ l.pc = "decide"
    BY <1>1, <2>2 DEF Locals, Labels
  <2>5. Start(t, c, l)
    BY <2>1, <2>2
  <2> QED BY <2>3, <2>4, <2>5, StartAbs
<1>4. CASE Get(t)
  <2>1. PICK u \in User, s \in Snapshot :
          Start(t, [op |-> "get", user |-> u, seq |-> s], SearchFor(Fresh, Encode(u, s, SEEK_OP_SENTINEL), "return"))
    BY <1>4 DEF Get
  <2>2. PICK k, c, l : /\ k = Encode(u, s, SEEK_OP_SENTINEL)
                       /\ c = [op |-> "get", user |-> u, seq |-> s] /\ l = SearchFor(Fresh, k, "return")
    OBVIOUS
  <2>3. c \in Calls /\ "return" \in Afters /\ k \in SearchKeys
    BY <2>2, EncodeType DEF Calls, GetCalls, Afters
  <2>4. l \in Locals /\ l.pc = "max"
    BY <1>1, <2>2, <2>3, SearchForFacts
  <2>5. Start(t, c, l)
    BY <2>1, <2>2
  <2> QED BY <2>3, <2>4, <2>5, StartAbs
<1> QED BY <1>2, <1>3, <1>4

\* Iterators are positioned.
LEMMA IterStartAbs ==
  ASSUME IInv, NEW t \in Thread, IterFirst(t) \/ IterFrom(t)
  PROVE  AbsStep
<1>1. Fresh \in Locals
  BY FreshFacts
<1>2. PICK c : c = [op |-> "iter"]
  OBVIOUS
<1>3. c = [op |-> "iter"] /\ c \in Calls
  BY <1>2 DEF Calls, IterCalls
<1>4. CASE IterFirst(t)
  <2>1. PICK s, l : s = tower[Sentinel][0] /\ l = [Fresh EXCEPT !.pc = "iter", !.succs[0] = s]
    OBVIOUS
  <2>2. Start(t, c, l)
    BY <1>3, <1>4, <2>1 DEF IterFirst
  <2>3. ListTypes /\ LevelInv /\ 0 \in Levels
    BY StateFacts, NodeFacts
  <2>4. s \in Node \cup {Null}
    BY <2>1, <2>3, LevelFacts, NodeFacts
  <2>5. PICK ss : ss = [Fresh.succs EXCEPT ![0] = s]
    OBVIOUS
  <2>6. Fresh.succs \in [Levels -> Node \cup {Null}]
    BY <1>1, LocalFacts
  <2>7. ss = [Fresh.succs EXCEPT ![0] = s] /\ ss \in [Levels -> Node \cup {Null}]
    BY <2>4, <2>5, <2>6
  <2>8. l = [Fresh EXCEPT !.pc = "iter", !.succs = ss]
    BY <1>1, <2>1, <2>7 DEF Locals
  <2>9. l \in Locals /\ l.pc = "iter"
    BY <1>1, <2>7, <2>8 DEF Locals, Labels
  <2> QED BY <1>3, <2>2, <2>9, StartAbs
<1>5. CASE IterFrom(t)
  <2>1. PICK u \in User, s \in Snapshot : Start(t, [op |-> "iter"], SearchFor(Fresh, Encode(u, s, SEEK_OP_SENTINEL), "iter"))
    BY <1>5 DEF IterFrom
  <2>2. PICK k, l : k = Encode(u, s, SEEK_OP_SENTINEL) /\ l = SearchFor(Fresh, k, "iter")
    OBVIOUS
  <2>3. "iter" \in Afters /\ k \in SearchKeys
    BY <2>2, EncodeType DEF Afters
  <2>4. l \in Locals /\ l.pc = "max"
    BY <1>1, <2>2, <2>3, SearchForFacts
  <2>5. Start(t, c, l)
    BY <1>3, <2>1, <2>2
  <2> QED BY <1>3, <2>4, <2>5, StartAbs
<1> QED BY <1>4, <1>5

\* An insert takes effect without a new version: its key is there.
LEMMA InsertPresentAbs ==
  ASSUME LocTypes, NEW t \in Thread, NEW b, b \in Abs!InsertOps, NEW n \in OnLevel(0), key[n] = b.key,
         Turns(t, b, [op |-> "done"]), Versions' = Versions
  PROVE  AbsStep
<1>1. PICK e : e = <<key[n], val[n]>>
  OBVIOUS
<1>2. e[1] = b.key /\ e \in Versions
  BY <1>1, VersionsAre
<1>3. Abs!Present(b.key)
  BY <1>2 DEF Abs!Present
<1>4. Abs!Insert(t)
  BY <1>3 DEF Abs!Insert, Abs!Done, Turns
<1>5. Pending'[t] # Pending[t]
  BY DEF Turns, Abs!InsertOps
<1> QED BY <1>4, <1>5 DEF AbsStep, Abs!Next, Abs!Step

\* An insert takes effect with a new version: its key is not there.
LEMMA InsertNewAbs ==
  ASSUME LocTypes, NEW t \in Thread, NEW b, b \in Abs!InsertOps, \A n \in OnLevel(0) : key[n] # b.key,
         Turns(t, b, [op |-> "done"]), Versions' = Versions \cup {<<b.key, t>>}
  PROVE  AbsStep
<1>1. ASSUME NEW e \in Versions PROVE e[1] # b.key
  <2>1. PICK n \in OnLevel(0) : e = <<key[n], val[n]>>
    BY VersionsAre
  <2> QED BY <2>1
<1>2. ~Abs!Present(b.key)
  BY <1>1 DEF Abs!Present
<1>3. Abs!Insert(t)
  BY <1>2 DEF Abs!Insert, Abs!Done, Turns
<1>4. Pending'[t] # Pending[t]
  BY DEF Turns, Abs!InsertOps
<1> QED BY <1>3, <1>4 DEF AbsStep, Abs!Next, Abs!Step

\* A read takes effect.
LEMMA ReadAbs ==
  ASSUME LocTypes, NEW t \in Thread, NEW b, b \in Abs!GetOps, NEW a \in Answers, a = Abs!Get(b.user, b.seq),
         Turns(t, b, a), Versions' = Versions
  PROVE  AbsStep
<1>1. Abs!Read(t)
  BY DEF Abs!Read, Turns
<1>2. Pending'[t] # Pending[t]
  BY AnswerShape DEF Turns
<1> QED BY <1>1, <1>2 DEF AbsStep, Abs!Next, Abs!Step

\* A load of a search: the last one of a get, and one that finds an insert's key, take effect.
LEMMA SearchAbs ==
  ASSUME IInv, NEW t \in Thread, SearchStep(t), answer' = [answer EXCEPT ![t] = Effect(t, loc'[t])]
  PROVE  AbsStep
<1>1. PICK m : /\ Searches(loc[t], m) /\ loc' = [loc EXCEPT ![t] = m]
               /\ loc[t].pc \in Searching /\ UNCHANGED listVars
  BY StateFacts, SearchStepIs
<1>2. loc'[t] = m
  BY <1>1, StateFacts DEF LocTypes
<1>3. PICK l, a, b : l = loc[t] /\ a = Effect(t, m) /\ b = Calling(loc[t], answer[t])
  OBVIOUS
<1>4. Sets(t, m, a)
  BY <1>1, <1>2, <1>3 DEF Sets
<1>5. /\ ListTypes /\ LocTypes /\ LevelInv /\ l \in Locals /\ PhaseOK(t, l) /\ AnswerOK(l, answer[t]) /\ Searches(l, m)
      /\ l.pc \in Searching
  BY <1>1, <1>3, StateFacts
<1>6. /\ l.call \in Calls /\ l.call # Null /\ l.after \in {"decide", "up", "return", "iter"}
      /\ l.call \in GetCalls => l.after = "return"
      /\ l.call \in InsertCalls => l.after \in {"decide", "up"} /\ l.key = l.call.key
  BY <1>5, SearchingFacts
<1>7. /\ m.call = l.call /\ m.key = l.key /\ m.pc \in Searching \cup {l.after} /\ SearchOK(m)
      /\ m.pc \notin Searching => First(l.key, m.succs[0])
  BY <1>5 DEF Searches
<1>8. l.pc # "panic" /\ m.pc # "panic" /\ l.call \in Calls \cup {Null} /\ m.call \in Calls \cup {Null} /\ m.call \in Calls
  BY <1>5, <1>6, <1>7 DEF Searching
<1>9. Versions' = Versions
  BY <1>1, QuietVersions DEF listVars
<1>10. ASSUME answer[t] = Null, a = Null PROVE AbsStep
  <2>1. Calling(m, Null) = Calling(l, Null)
    BY <1>7, <1>8 DEF Calling
  <2> QED BY <1>3, <1>4, <1>5, <1>9, <1>10, <2>1, StutterAbs
<1>11. CASE answer[t] # Null
  <2>1. a = answer[t]
    BY <1>3, <1>8, <1>11, EffectIs
  <2>2. Calling(m, a) = Calling(l, a)
    BY <1>8, <1>11, <2>1, CallingIs
  <2> QED BY <1>3, <1>4, <1>5, <1>9, <2>1, <2>2, StutterAbs
<1>12. CASE answer[t] = Null /\ l.call \in IterCalls
  BY <1>3, <1>7, <1>8, <1>10, <1>12, EffectIs
<1>13. CASE answer[t] = Null /\ l.call \in GetCalls /\ m.pc # "return"
  BY <1>3, <1>7, <1>8, <1>10, <1>13, EffectIs
<1>14. CASE answer[t] = Null /\ l.call \in GetCalls /\ m.pc = "return"
  <2>1. a = MemReturn(m.succs[0], l.call.user)
    BY <1>3, <1>7, <1>8, <1>14, EffectIs
  <2>2. l.key = Encode(l.call.user, l.call.seq, SEEK_OP_SENTINEL)
    BY <1>5, <1>14 DEF PhaseOK, GetOK
  <2>3. l.call.user \in User /\ l.call.seq \in Snapshot
    BY <1>14, CallFacts
  <2>4. First(Encode(l.call.user, l.call.seq, SEEK_OP_SENTINEL), m.succs[0])
    BY <1>7, <1>14, <2>2 DEF Searching
  <2>5. a = Abs!Get(l.call.user, l.call.seq)
    BY <1>5, <2>1, <2>3, <2>4, ReadIsGet
  <2>6. m.succs[0] # Null => m.succs[0] \in Nodes
    <3>1. 0 \in Levels
      BY <1>5, NodeFacts
    <3> QED BY <1>5, <2>4, <3>1, LevelFacts DEF First
  <2>7. a \in Answers /\ a # Null
    BY <1>5, <2>1, <2>6, MemReturnIs, CallFacts
  <2>8. b = l.call /\ b \in Abs!GetOps
    BY <1>3, <1>8, <1>14, CallingIs
  <2>9. Calling(m, a) = a
    BY <1>8, <2>7, CallingIs
  <2>10. Turns(t, b, a)
    BY <1>3, <1>4, <1>5, <2>9, PendingMoves
  <2> QED BY <1>5, <1>9, <2>5, <2>7, <2>8, <2>10, ReadAbs
<1>15. CASE answer[t] = Null /\ l.call \in InsertCalls
  <2>1. ~LinkPhase(l)
    BY <1>5, <1>15 DEF AnswerOK
  <2>2. m.pc # "up"
    BY <1>5, <1>7, <2>1 DEF LinkPhase, Searching
  <2>3. CASE m.found = Null
    BY <1>3, <1>7, <1>8, <1>10, <1>15, <2>2, <2>3, EffectIs
  <2>4. CASE m.found # Null
    <3>1. a = [op |-> "done"] /\ a # Null
      BY <1>3, <1>7, <1>8, <1>15, <2>4, EffectIs, AnswerIs, CallFacts
    <3>2. m.found \in OnLevel(0) /\ key[m.found] = l.call.key
      BY <1>6, <1>7, <1>15, <2>4 DEF SearchOK
    <3>3. b \in Abs!InsertOps /\ b.key = l.call.key
      BY <1>3, <1>8, <1>15, CallingIs
    <3>4. Calling(m, a) = a
      BY <1>8, <3>1, CallingIs
    <3>5. Turns(t, b, a)
      BY <1>3, <1>4, <1>5, <3>4, PendingMoves
    <3> QED BY <1>5, <1>9, <3>1, <3>2, <3>3, <3>5, InsertPresentAbs
  <2> QED BY <2>3, <2>4
<1> QED BY <1>6, <1>11, <1>12, <1>13, <1>14, <1>15 DEF Calls

\* The compare-and-swap that succeeds at the base is where an insert takes effect.
LEMMA LinkAbs ==
  ASSUME IInv, NEW t \in Thread, NEW l, l = loc[t], NEW v, Linking(l, v), SameNodes,
         NEW m, m = Upped(l, v + 1), Sets(t, m, Effect(t, m)), IInv', LinksOn(l.node, v)
  PROVE  AbsStep
<1>1. OnLevel(v)' = OnLevel(v) \cup {l.node} /\ \A w \in Levels : w # v => OnLevel(w)' = OnLevel(w)
  BY DEF LinksOn
<1>2. /\ ListTypes /\ LocTypes /\ LevelInv /\ l \in Locals /\ PhaseOK(t, l) /\ AnswerOK(l, answer[t])
      /\ l.call \in Calls \cup {Null} /\ 0 \in Levels /\ ListTypes' /\ LevelInv' /\ SearchOK(l)
  <2>1. l.pc # "iter"
    BY DEF Linking
  <2>2. ListTypes' /\ LevelInv'
    BY DEF IInv
  <2> QED BY <2>1, <2>2, StateFacts, NodeFacts
<1>3. /\ l.call \in InsertCalls /\ BuiltOK(l, t) /\ l.node \in Nodes /\ v \in Levels
      /\ l.node \notin OnLevel(v) /\ key[l.node] = l.key /\ l.key = l.call.key
  BY <1>2, LinkReady
<1>4. val[l.node] = t
  BY <1>3 DEF BuiltOK
<1>5. PICK a, b : a = Effect(t, m) /\ b = Calling(loc[t], answer[t])
  OBVIOUS
<1>6. Sets(t, m, a)
  BY <1>5
<1>7. m.pc = "up" /\ m.call = l.call /\ m.call \in Calls
  <2>1. v + 1 \in Nat
    BY <1>3 DEF Levels
  <2> QED BY <1>2, <1>3, <2>1, UpLocals DEF Calls
<1>8. key' = key /\ val' = val
  BY DEF SameNodes
<1>9. CASE answer[t] # Null
  <2>1. v # 0
    BY <1>2, <1>3, <1>9, CallFacts DEF AnswerOK, Linking, LinkPhase, Searching, BuiltOK
  <2>2. Versions' = Versions
    <3>1. OnLevel(0)' = OnLevel(0)
      BY <1>1, <1>2, <2>1
    <3>2. \A e : e \in Versions' <=> e \in Versions
      BY <1>8, <3>1, VersionsAre, VersionsNext
    <3> QED BY <3>2
  <2>3. a = answer[t]
    BY <1>5, <1>7, <1>9, EffectIs
  <2>4. Calling(m, a) = Calling(l, a)
    BY <1>2, <1>7, <1>9, <2>3, CallingIs
  <2> QED BY <1>2, <1>6, <2>2, <2>3, <2>4, StutterAbs
<1>10. CASE answer[t] = Null
  <2>1. l.pc # "up" /\ v = 0 /\ l.pc # "panic"
    BY <1>2, <1>3, <1>10 DEF AnswerOK, Linking, LinkPhase
  <2>2. a = [op |-> "done"] /\ a # Null
    BY <1>3, <1>5, <1>7, <1>10, EffectIs, AnswerIs, CallFacts
  <2>3. b \in Abs!InsertOps /\ b.key = l.call.key
    BY <1>2, <1>3, <1>5, <1>10, <2>1, CallingIs
  <2>4. Calling(m, a) = a
    BY <1>7, <2>2, CallingIs
  <2>5. Turns(t, b, a)
    BY <1>2, <1>5, <1>6, <2>4, PendingMoves
  <2>6. OnLevel(0)' = OnLevel(0) \cup {l.node}
    BY <1>1, <2>1
  <2>7. ASSUME NEW n \in OnLevel(0) PROVE key[n] # b.key
    <3>1. \A x, y \in OnLevel(0)' : key'[x] = key'[y] => x = y
      BY <1>2 DEF LevelInv, Ordered
    <3>2. n # l.node
      BY <1>3, <2>1
    <3> QED BY <1>3, <1>8, <2>3, <2>6, <3>1, <3>2
  <2>8. Versions' = Versions \cup {<<b.key, t>>}
    <3>1. <<key[l.node], val[l.node]>> = <<b.key, t>>
      BY <1>3, <1>4, <2>3
    <3>2. \A e : e \in Versions' <=> e \in Versions \/ e = <<b.key, t>>
      BY <1>8, <2>6, <3>1, VersionsAre, VersionsNext
    <3> QED BY <3>2
  <2> QED BY <1>2, <2>2, <2>3, <2>5, <2>7, <2>8, InsertNewAbs
<1> QED BY <1>9, <1>10

\* A compare-and-swap that fails changes nothing in the map.
LEMMA MissAbs ==
  ASSUME IInv, NEW t \in Thread, NEW l, l = loc[t], NEW v, Linking(l, v), SameNodes,
         NEW m, m = SearchFor(l, l.call.key, l.pc), Sets(t, m, Effect(t, m)), IInv', SameLevels
  PROVE  AbsStep
<1>1. /\ ListTypes /\ LocTypes /\ LevelInv /\ l \in Locals /\ PhaseOK(t, l) /\ AnswerOK(l, answer[t]) /\ SearchOK(l)
      /\ l.call \in Calls \cup {Null} /\ 0 \in Levels
  <2>1. l.pc # "iter"
    BY DEF Linking
  <2> QED BY <2>1, StateFacts, NodeFacts
<1>2. l.call \in InsertCalls /\ BuiltOK(l, t) /\ l.key = l.call.key /\ v \in Levels
  BY <1>1, LinkReady
<1>3. l.call.key \in SearchKeys /\ l.pc \in Afters /\ l.pc # "panic"
  BY <1>2, CallFacts, KeyIsSearchKey DEF Linking, Afters
<1>4. PICK k, c : k = l.call.key /\ c = l.pc
  OBVIOUS
<1>5. m.pc = "max" /\ m.call = l.call /\ m.found = Null /\ m.call \in Calls
  BY <1>1, <1>2, <1>3, <1>4, SearchForFacts DEF Calls
<1>6. PICK a : a = Effect(t, m)
  OBVIOUS
<1>7. Sets(t, m, a)
  BY <1>6
<1>8. Versions' = Versions
  <2>1. OnLevel(0)' = OnLevel(0) /\ key' = key /\ val' = val
    BY <1>1 DEF SameLevels, SameNodes
  <2>2. \A e : e \in Versions' <=> e \in Versions
    BY <2>1, VersionsAre, VersionsNext
  <2> QED BY <2>2
<1>9. CASE answer[t] # Null
  <2>1. a = answer[t]
    BY <1>5, <1>6, <1>9, EffectIs
  <2>2. Calling(m, a) = Calling(l, a)
    BY <1>1, <1>5, <1>9, <2>1, CallingIs
  <2> QED BY <1>1, <1>7, <1>8, <2>1, <2>2, StutterAbs
<1>10. CASE answer[t] = Null
  <2>1. a = Null
    BY <1>2, <1>5, <1>6, <1>10, EffectIs
  <2>2. Calling(m, Null) = Calling(l, Null)
    BY <1>3, <1>5 DEF Calling
  <2> QED BY <1>1, <1>7, <1>8, <1>10, <2>1, <2>2, StutterAbs
<1> QED BY <1>9, <1>10

\* Linking, at the base or above it.
LEMMA LinkStepAbs ==
  ASSUME IInv, NEW t \in Thread, LinkBase(t) \/ LinkUp(t),
         answer' = [answer EXCEPT ![t] = Effect(t, loc'[t])], iter' = iter
  PROVE  AbsStep
<1>1. PICK v, m :
        LET l == loc[t] p == l.preds[v] s == l.succs[v]
        IN  /\ Linking(l, v) /\ SameNodes /\ loc' = [loc EXCEPT ![t] = m] /\ loc'[t] = m
            /\ \/ /\ tower[p][v] = s /\ tower' = Linked(l.node, p, s, v)
                  /\ m = Upped(l, v + 1)
               \/ /\ tower' = Missed(l.node, s, v) /\ m = SearchFor(l, l.call.key, l.pc)
  BY StateFacts, LinkStepIs
<1>2. PICK l, p, s : l = loc[t] /\ p = l.preds[v] /\ s = l.succs[v]
  OBVIOUS
<1>3. /\ Linking(l, v) /\ SameNodes /\ loc' = [loc EXCEPT ![t] = m]
      /\ answer' = [answer EXCEPT ![t] = Effect(t, m)]
  BY <1>1, <1>2
<1>4. Sets(t, m, Effect(t, m))
  BY <1>3 DEF Sets
<1>5. CASE tower[p][v] = s /\ tower' = Linked(l.node, p, s, v) /\ m = Upped(l, v + 1)
  <2>1. IInv' /\ LinksOn(l.node, v)
    BY <1>2, <1>3, <1>5, LinkKeeps
  <2>2. l = loc[t] /\ Linking(l, v) /\ SameNodes /\ m = Upped(l, v + 1)
    BY <1>2, <1>3, <1>5
  <2> QED BY <1>4, <2>1, <2>2, LinkAbs
<1>6. CASE tower' = Missed(l.node, s, v) /\ m = SearchFor(l, l.call.key, l.pc)
  <2>1. IInv' /\ SameLevels
    BY <1>2, <1>3, <1>6, MissKeeps
  <2>2. l = loc[t] /\ Linking(l, v) /\ SameNodes /\ m = SearchFor(l, l.call.key, l.pc)
    BY <1>2, <1>3, <1>6
  <2> QED BY <1>4, <2>1, <2>2, MissAbs
<1> QED BY <1>1, <1>2, <1>5, <1>6

LEMMA WorkAbs ==
  ASSUME IInv, NEW t \in Thread, Work(t)
  PROVE  AbsStep
<1>1. answer' = [answer EXCEPT ![t] = Effect(t, loc'[t])] /\ iter' = iter
  BY DEF Work
<1>2. CASE SearchStep(t)
  BY <1>1, <1>2, SearchAbs
<1>3. CASE \E k \in Key : MustBuild(t) /\ k = loc[t].call.key /\ AllocNode(t, k, t)
  <2>1. Prepares(t)
    BY <1>1, <1>3, BuildKeeps
  <2> QED BY <2>1, PreparesAbs
<1>4. CASE RaiseLevel(t)
  <2>1. Prepares(t)
    BY <1>1, <1>4, RaiseKeeps
  <2> QED BY <2>1, PreparesAbs
<1>5. CASE LinkBase(t) \/ LinkUp(t)
  BY <1>1, <1>5, LinkStepAbs
<1> QED BY <1>2, <1>3, <1>4, <1>5 DEF Work

\* Every step of the memtable is a step of the map, or none.
LEMMA NextAbs ==
  ASSUME IInv, [Next]_vars
  PROVE  AbsStep
<1>1. Inserter \subseteq Thread /\ DirectInserter \subseteq Thread /\ Reader \subseteq Thread
  BY RolesAssumption
<1>2. CASE \E t \in Inserter : Insert(t)
  BY <1>1, <1>2, CallAbs
<1>3. CASE \E t \in DirectInserter : InsertDirect(t)
  BY <1>1, <1>3, CallAbs
<1>4. CASE \E t \in Reader : Get(t) \/ IterFirst(t) \/ IterFrom(t)
  BY <1>1, <1>4, CallAbs, IterStartAbs
<1>5. CASE \E t \in Thread : Continue(t)
  BY <1>5, WorkAbs, ReturnAbs, IterAbs DEF Continue
<1>6. CASE UNCHANGED vars
  <2>1. Versions' = Versions
    BY <1>6, QuietVersions DEF vars, listVars
  <2>2. Pending' = Pending
    BY <1>6 DEF vars, Pending
  <2> QED BY <2>1, <2>2 DEF AbsStep, Abs!vars
<1> QED BY <1>2, <1>3, <1>4, <1>5, <1>6 DEF Next

\* The empty table is the empty map.
LEMMA InitAbs ==
  ASSUME Init
  PROVE  Abs!Init
<1>1. IInv /\ loc = [t \in Thread |-> Fresh] /\ answer = [t \in Thread |-> Null]
  BY InitInv DEF Init, InitList
<1>2. OnLevel(0) = {}
  BY DEF Init, InitList, OnLevel
<1>3. Versions = {}
  BY <1>2 DEF Versions
<1>4. Fresh.call = Null /\ Fresh.pc = "idle"
  BY FreshFacts
<1>5. Calling(Fresh, Null) = Null
  BY <1>4, CallingIs
<1>6. Pending = [t \in Thread |-> Null]
  BY <1>1, <1>5 DEF Pending
<1> QED BY <1>3, <1>6 DEF Abs!Init

\* Memtable::insert, insert_direct and get are linearizable: seen through the
\* versions on the base level and the pending calls, every step of the memtable is
\* a step of the versioned map or none.  A get takes effect at the load that ends
\* its search at the base, an insert at the compare-and-swap at the base or at the
\* load that finds its key.
THEOREM Implements == Spec => ImplementsVersionedMap
<1>1. Init => Abs!Init
  BY InitAbs
<1>2. IInv /\ [Next]_vars => [Abs!Next]_(Abs!vars)
  BY NextAbs DEF AbsStep
<1> QED BY <1>1, <1>2, Invariance, PTL DEF Spec, ImplementsVersionedMap, Abs!Spec

================================================================================
