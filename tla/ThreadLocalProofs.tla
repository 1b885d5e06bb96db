--------------------------- MODULE ThreadLocalProofs ---------------------------
(***************************************************************************)
(* Theorems about the thread-local matrix, for any threads and any finite  *)
(* set of columns.                                                         *)
(***************************************************************************)
EXTENDS ThreadLocal, FiniteSetTheorems, TLAPS

(***************************************************************************)
(* The inductive invariant.                                                *)
(***************************************************************************)
Ids == 0 .. next_tls_id - 1
Labels == {"idle", "register", "grow", "cell", "panic"}
Calls == [op : Ops \cup {"none"}, col : Column \cup {Null}, pc : Labels]

Types ==
  /\ next \in [Row -> Row \cup {Null}] /\ prev \in [Row -> Row \cup {Null}]
  /\ registered \in [Thread -> BOOLEAN] /\ exited \subseteq Thread
  /\ entries \in [Thread -> Seq(Object \cup {Null})]
  /\ next_tls_id \in Nat /\ tls_id \in [Column -> Ids \cup {Null}]
  /\ free_list \in Seq(Ids) /\ handlers \subseteq Ids \X Column
  /\ dropped \subseteq Column /\ access \in [Thread -> Calls]
  /\ made \subseteq Object /\ unrefs \in [Object -> Seq(Column)]

\* The rows that are in use.
Members == {t \in Thread : registered[t]} \ exited

\* next and prev are inverse on the rows in use and the sentinel, and these
\* rows are what a walk visits.
RingInv ==
  /\ \A r \in Members \cup {Sentinel} :
       /\ next[r] \in Members \cup {Sentinel} /\ prev[r] \in Members \cup {Sentinel}
       /\ prev[next[r]] = r /\ next[prev[r]] = r
  /\ \A S \in SUBSET Thread : WalkClosed(S) => Members \subseteq S

\* An id belongs to one live column or is free once, the map has the handler
\* of the live column, and ids are taken for new columns only.
IdInv ==
  /\ \A c, d \in Column : c # d /\ Live(c) /\ Live(d) => tls_id[c] # tls_id[d]
  /\ \A c \in Column : Live(c) => \A i \in DOMAIN free_list : free_list[i] # tls_id[c]
  /\ \A i, j \in DOMAIN free_list : free_list[i] = free_list[j] => i = j
  /\ \A c \in Column : Live(c) => HandlerOf(tls_id[c]) = {c} \cap WithHandler
  /\ next_tls_id <= Cardinality({c \in Column : tls_id[c] # Null})

\* A call is on a live column by a thread that is still there; its row is in
\* the ring before it has a cell.
CallInv ==
  \A t \in Thread :
    /\ access[t].pc \in {"register", "grow", "cell"} =>
         access[t].col \in Column /\ Live(access[t].col) /\ t \notin exited
    /\ access[t].pc \in {"grow", "cell"} => registered[t]
    /\ access[t].pc = "cell" => HasCell(t, tls_id[access[t].col])

\* A cell holds what its thread made for the live column of its id, and only
\* rows in use hold anything.
CellInv ==
  \A t \in Thread :
    /\ Len(entries[t]) <= next_tls_id
    /\ \A i \in DOMAIN entries[t] :
         entries[t][i] # Null =>
           /\ entries[t][i][2] = t /\ t \in Members
           /\ Live(entries[t][i][1]) /\ tls_id[entries[t][i][1]] = i - 1

\* An object stays in its cell, untouched by handlers, until its column is
\* dropped or its thread exits, and has then met its column's handler once.
InCell(o) == HasCell(o[2], tls_id[o[1]]) /\ Cell(o[2], tls_id[o[1]]) = o
Gone(o) == o[1] \in dropped \/ o[2] \in exited
ObjectInv ==
  \A o \in Object :
    /\ o \in made => tls_id[o[1]] # Null
    /\ o \in made /\ ~Gone(o) => InCell(o)
    /\ unrefs[o] = IF o \in made /\ Gone(o) /\ o[1] \in WithHandler THEN <<o[1]>> ELSE <<>>
    /\ \A t \in Thread : \A i \in DOMAIN entries[t] : entries[t][i] = o => o \in made

IInv == Types /\ RingInv /\ IdInv /\ CallInv /\ CellInv /\ ObjectInv

(***************************************************************************)
(* Sequences.                                                              *)
(***************************************************************************)
LEMMA SeqOfNone == SetToSeq({}) = <<>>
<1>1. Cardinality({}) = 0 /\ 1 .. 0 = {}
  BY FS_EmptySet
<1>2. \E f \in [{} -> {}] : IsInjective(f)
  <2>1. [x \in {} |-> x] \in [{} -> {}] /\ IsInjective([x \in {} |-> x])
    BY DEF IsInjective
  <2> QED BY <2>1
<1>3. SetToSeq({}) \in [{} -> {}]
  BY <1>1, <1>2 DEF SetToSeq
<1>4. \A f \in [{} -> {}] : f = <<>>
  OBVIOUS
<1> QED BY <1>3, <1>4

LEMMA SeqOfOne ==
  ASSUME NEW x PROVE SetToSeq({x}) = <<x>>
<1>1. Cardinality({x}) = 1 /\ 1 .. 1 = {1}
  BY FS_Singleton
<1>2. \E f \in [{1} -> {x}] : IsInjective(f)
  <2>1. [i \in {1} |-> x] \in [{1} -> {x}] /\ IsInjective([i \in {1} |-> x])
    BY DEF IsInjective
  <2> QED BY <2>1
<1>3. SetToSeq({x}) \in [1 .. 1 -> {x}]
  BY <1>1, <1>2 DEF SetToSeq
<1>4. \A f \in [1 .. 1 -> {x}] : f = <<x>>
  OBVIOUS
<1> QED BY <1>3, <1>4

LEMMA SeqOfFunction ==
  ASSUME NEW S, NEW n \in Nat, NEW f \in [1 .. n -> S]
  PROVE  f \in Seq(S) /\ Len(f) = n /\ DOMAIN f = 1 .. n
OBVIOUS

\* A row that gets null cells up to the one for id.
Padded(e, id) == e \o [i \in 1 .. id + 1 - Len(e) |-> Null]

LEMMA Padding ==
  ASSUME NEW S, Null \in S, NEW e \in Seq(S), NEW id \in Nat, Len(e) <= id + 1
  PROVE  /\ Padded(e, id) \in Seq(S) /\ Len(Padded(e, id)) = id + 1
         /\ DOMAIN Padded(e, id) = 1 .. id + 1
         /\ \A i \in 1 .. id + 1 : Padded(e, id)[i] = IF i <= Len(e) THEN e[i] ELSE Null
<1> DEFINE k == id + 1 - Len(e)
           z == [i \in 1 .. k |-> Null]
           g == e \o z
<1>1. k \in Nat /\ Len(e) \in Nat /\ id + 1 = Len(e) + k
  OBVIOUS
<1>0. Padded(e, id) = g
  BY Zenon DEF Padded
<1> HIDE DEF k
<1>2. z \in Seq(S) /\ Len(z) = k /\ \A i \in 1 .. k : z[i] = Null
  BY <1>1
<1> HIDE DEF z
<1>3. g \in Seq(S) /\ Len(g) = Len(e) + k
  BY <1>2
<1>4. \A i \in 1 .. Len(e) + k : g[i] = IF i <= Len(e) THEN e[i] ELSE z[i - Len(e)]
  BY <1>1, <1>2
<1>5. \A i \in 1 .. Len(e) + k : ~(i <= Len(e)) => i - Len(e) \in 1 .. k
  BY <1>1
<1>6. \A i \in 1 .. id + 1 : g[i] = IF i <= Len(e) THEN e[i] ELSE Null
  BY <1>1, <1>2, <1>4, <1>5
<1>7. DOMAIN g = 1 .. id + 1
  BY <1>1, <1>3
<1> HIDE DEF g
<1> QED BY <1>0, <1>1, <1>3, <1>6, <1>7

LEMMA FrontAndLast ==
  ASSUME NEW S, NEW s \in Seq(S), s # <<>>
  PROVE  /\ Last(s) \in S /\ Front(s) \in Seq(S) /\ Len(s) \in DOMAIN s /\ Last(s) = s[Len(s)]
         /\ DOMAIN Front(s) = 1 .. Len(s) - 1 /\ DOMAIN s = 1 .. Len(s)
         /\ \A i \in DOMAIN Front(s) : i \in DOMAIN s /\ i # Len(s) /\ Front(s)[i] = s[i]
BY DEF Last, Front

LEMMA MoreIds ==
  ASSUME NEW n \in Nat, NEW m \in Nat, NEW i \in Nat, n <= m, i < m
  PROVE  0 .. n - 1 \subseteq 0 .. m - 1 /\ i \in 0 .. m - 1
OBVIOUS

(***************************************************************************)
(* What the parts of a step do.                                            *)
(***************************************************************************)
LEMMA NullIsNoObject == Null \notin Object /\ Null \notin Thread /\ Null # Sentinel /\ Sentinel \notin Thread
BY NamesAssumption DEF Object

LEMMA NoCallIsCall == NoCall \in Calls /\ [NoCall EXCEPT !.pc = "panic"] \in Calls
BY DEF NoCall, Calls, Labels

\* The call of t becomes v, those of the other threads stay.
Becomes(t, v) ==
  /\ access' \in [Thread -> Calls] /\ access'[t] = v
  /\ \A u \in Thread : u # t => access'[u] = access[u]

LEMMA AccessBecomes ==
  ASSUME Types, NEW t \in Thread, NEW v \in Calls, access' = [access EXCEPT ![t] = v]
  PROVE  Becomes(t, v)
BY DEF Types, Becomes

\* The call of t goes on at l.
Goes(t, l) ==
  /\ access' \in [Thread -> Calls] /\ access'[t].pc = l /\ access'[t].col = access[t].col
  /\ \A u \in Thread : u # t => access'[u] = access[u]

LEMMA GotoGoes ==
  ASSUME Types, NEW t \in Thread, NEW l \in Labels, Goto(t, l)
  PROVE  Goes(t, l)
<1>1. access[t] \in Calls
  BY DEF Types
<1>2. [access[t] EXCEPT !.pc = l] \in Calls
  BY <1>1 DEF Calls
<1>3. access' = [access EXCEPT ![t] = [access[t] EXCEPT !.pc = l]]
  BY DEF Types, Goto
<1>4. Becomes(t, [access[t] EXCEPT !.pc = l])
  BY <1>2, <1>3, AccessBecomes
<1>5. [access[t] EXCEPT !.pc = l].pc = l /\ [access[t] EXCEPT !.pc = l].col = access[t].col
  BY <1>1 DEF Calls
<1> QED BY <1>4, <1>5 DEF Becomes, Goes

LEMMA StartBecomes ==
  ASSUME Types, NEW t \in Thread, Start(t)
  PROVE  \E c \in Column, op \in Ops :
           Live(c) /\ Becomes(t, [op |-> op, col |-> c, pc |-> "register"])
<1>1. PICK c \in Column, op \in Ops :
        /\ Live(c)
        /\ access' = [access EXCEPT ![t] = [op |-> op, col |-> c, pc |-> "register"]]
  BY DEF Start
<1>2. [op |-> op, col |-> c, pc |-> "register"] \in Calls
  BY DEF Calls, Labels
<1>3. Becomes(t, [op |-> op, col |-> c, pc |-> "register"])
  BY <1>1, <1>2, AccessBecomes
<1> QED BY <1>1, <1>3

\* A call ends in NoCall or in a panic.
LEMMA CallEnds ==
  ASSUME Types, NEW t \in Thread, UseCell(t) \/ DropRow(t)
  PROVE  Becomes(t, NoCall) \/ Becomes(t, [NoCall EXCEPT !.pc = "panic"])
BY NoCallIsCall, AccessBecomes DEF UseCell, DropRow

LEMMA AccessStep ==
  ASSUME Types, [Next]_vars PROVE access' \in [Thread -> Calls]
<1>1. ASSUME NEW t \in Thread, Start(t) \/ UseCell(t) \/ DropRow(t) PROVE access' \in [Thread -> Calls]
  BY <1>1, StartBecomes, CallEnds DEF Becomes
<1>2. ASSUME NEW t \in Thread, EnsureRegistered(t) \/ Grow(t) PROVE access' \in [Thread -> Calls]
  BY <1>2, GotoGoes DEF Goes, EnsureRegistered, Grow, Labels
<1>3. CASE UNCHANGED access
  BY <1>3 DEF Types
<1> QED BY <1>1, <1>2, <1>3 DEF Next, NewWithHandler, RemoveColumn, vars

\* Emptying cells.
LEMMA EmptyEffect ==
  ASSUME Types, NEW cells, Empty(cells)
  PROVE  /\ entries' \in [Thread -> Seq(Object \cup {Null})]
         /\ \A t \in Thread : /\ Len(entries'[t]) = Len(entries[t])
                              /\ DOMAIN entries'[t] = DOMAIN entries[t]
         /\ \A t \in Thread : \A i \in DOMAIN entries[t] :
              entries'[t][i] = IF <<t, i - 1>> \in cells THEN Null ELSE entries[t][i]
<1> DEFINE row(t) == [i \in DOMAIN entries[t] |-> IF <<t, i - 1>> \in cells THEN Null ELSE entries[t][i]]
<1>1. ASSUME NEW t \in Thread
      PROVE  /\ row(t) \in Seq(Object \cup {Null}) /\ Len(row(t)) = Len(entries[t])
             /\ DOMAIN row(t) = DOMAIN entries[t]
  <2>1. entries[t] \in Seq(Object \cup {Null})
    BY DEF Types
  <2>2. DOMAIN entries[t] = 1 .. Len(entries[t]) /\ Len(entries[t]) \in Nat
    BY <2>1
  <2>3. \A i \in 1 .. Len(entries[t]) : row(t)[i] \in Object \cup {Null}
    BY <2>1, <2>2
  <2>4. row(t) \in [1 .. Len(entries[t]) -> Object \cup {Null}]
    BY <2>2, <2>3
  <2> HIDE DEF row
  <2> QED BY <2>2, <2>4, SeqOfFunction
<1>2. entries' = [t \in Thread |-> row(t)]
  BY DEF Empty
<1>3. \A t \in Thread : \A i \in DOMAIN entries[t] :
        row(t)[i] = IF <<t, i - 1>> \in cells THEN Null ELSE entries[t][i]
  OBVIOUS
<1>4. \A t \in Thread : entries'[t] = row(t)
  BY <1>2
<1> HIDE DEF row
<1> QED BY <1>1, <1>2, <1>3, <1>4

\* The id a new column gets.
NewId == IF free_list = <<>> THEN next_tls_id ELSE Last(free_list)

LEMMA NewIdFacts ==
  ASSUME Types, IdInv, NEW c \in Column, NewWithHandler(c)
  PROVE  /\ NewId \in Nat /\ NewId < next_tls_id' /\ NewId # Null
         /\ next_tls_id' \in Nat /\ next_tls_id <= next_tls_id' /\ free_list' \in Seq(Ids)
         /\ \A d \in Column : Live(d) => tls_id[d] # NewId
         /\ \A i \in DOMAIN free_list' : i \in DOMAIN free_list /\ free_list'[i] = free_list[i]
                                         /\ free_list'[i] # NewId
<1>0. next_tls_id \in Nat /\ free_list \in Seq(Ids) /\ tls_id \in [Column -> Ids \cup {Null}] /\ Null \notin Nat
  BY NamesAssumption DEF Types
<1>1. CASE free_list = <<>>
  <2>1. NewId = next_tls_id /\ next_tls_id' = next_tls_id + 1 /\ free_list' = <<>>
    BY <1>1 DEF NewId, NewWithHandler
  <2>2. \A d \in Column : tls_id[d] # NewId
    BY <1>0, <2>1 DEF Ids
  <2> QED BY <1>0, <2>1, <2>2
<1>2. CASE free_list # <<>>
  <2>1. NewId = Last(free_list) /\ next_tls_id' = next_tls_id /\ free_list' = Front(free_list)
    BY <1>2 DEF NewId, NewWithHandler
  <2>2. NewId \in Ids /\ free_list' \in Seq(Ids) /\ Len(free_list) \in DOMAIN free_list
        /\ NewId = free_list[Len(free_list)]
    BY <1>0, <1>2, <2>1, FrontAndLast
  <2>3. \A i \in DOMAIN free_list' : i \in DOMAIN free_list /\ free_list'[i] = free_list[i] /\ i # Len(free_list)
    BY <1>0, <1>2, <2>1, FrontAndLast
  <2>4. \A d \in Column : Live(d) => tls_id[d] # NewId
    BY <2>2 DEF IdInv
  <2>5. \A i \in DOMAIN free_list' : free_list'[i] # NewId
    BY <2>2, <2>3 DEF IdInv
  <2> QED BY <1>0, <2>1, <2>2, <2>3, <2>4, <2>5 DEF Ids
<1> QED BY <1>1, <1>2

(***************************************************************************)
(* Types.                                                                  *)
(***************************************************************************)
\* A row that grows keeps its cells, and the new ones are null.
LEMMA GrowEffect ==
  ASSUME Types, CallInv, NEW t \in Thread, Grow(t)
  PROVE  LET id == tls_id[access[t].col]
         IN  /\ id \in Ids /\ entries' \in [Thread -> Seq(Object \cup {Null})]
             /\ \A u \in Thread : u # t => entries'[u] = entries[u]
             /\ id < Len(entries'[t]) /\ Len(entries[t]) <= Len(entries'[t])
             /\ Len(entries'[t]) = Len(entries[t]) \/ Len(entries'[t]) = id + 1
             /\ \A i \in DOMAIN entries'[t] :
                  \/ i \in DOMAIN entries[t] /\ entries'[t][i] = entries[t][i]
                  \/ i \notin DOMAIN entries[t] /\ entries'[t][i] = Null
             /\ \A i \in DOMAIN entries[t] : i \in DOMAIN entries'[t] /\ entries'[t][i] = entries[t][i]
<1> DEFINE id == tls_id[access[t].col]
           e == entries[t]
<1>1. id \in Ids /\ id \in Nat /\ access[t].pc = "grow"
  BY DEF Grow, CallInv, Types, Live, Ids
<1>2. e \in Seq(Object \cup {Null}) /\ Len(e) \in Nat /\ DOMAIN e = 1 .. Len(e)
  BY DEF Types
<1>3. CASE HasCell(t, id)
  <2>1. entries' = entries
    BY <1>3 DEF Grow
  <2>2. entries' \in [Thread -> Seq(Object \cup {Null})]
    BY <2>1 DEF Types
  <2>3. id < Len(e)
    BY <1>3 DEF HasCell
  <2> QED BY <1>1, <1>2, <2>1, <2>2, <2>3
<1>4. CASE ~HasCell(t, id)
  <2> DEFINE f == Padded(e, id)
  <2>1. Len(e) <= id + 1 /\ id + 1 \in Nat
    BY <1>1, <1>2, <1>4 DEF HasCell
  <2>2. /\ f \in Seq(Object \cup {Null}) /\ Len(f) = id + 1 /\ DOMAIN f = 1 .. id + 1
        /\ \A i \in 1 .. id + 1 : f[i] = IF i <= Len(e) THEN e[i] ELSE Null
    <3> DEFINE S == Object \cup {Null}
    <3>1. Null \in S /\ e \in Seq(S) /\ id \in Nat /\ Len(e) <= id + 1
      BY <1>1, <1>2, <2>1
    <3> HIDE DEF S, e, id
    <3> QED BY <3>1, Padding DEF S
  <2>3. entries' = [entries EXCEPT ![t] = f]
    BY <1>4 DEF Grow, Padded
  <2> HIDE DEF f
  <2>4. entries'[t] = f /\ (\A u \in Thread : u # t => entries'[u] = entries[u])
        /\ entries' \in [Thread -> Seq(Object \cup {Null})]
    BY <2>2, <2>3 DEF Types
  <2>5. \A i \in 1 .. id + 1 : \/ i \in DOMAIN e /\ f[i] = e[i]
                               \/ i \notin DOMAIN e /\ f[i] = Null
    BY <1>2, <2>1, <2>2
  <2>6. \A i \in DOMAIN e : i \in DOMAIN f /\ f[i] = e[i]
    BY <1>1, <1>2, <2>1, <2>2
  <2>7. id < Len(f) /\ Len(e) <= Len(f)
    BY <1>1, <2>1, <2>2
  <2> QED BY <1>1, <2>2, <2>4, <2>5, <2>6, <2>7
<1> QED BY <1>3, <1>4

\* A cell that is filled gets the object of its column and thread.
Filled(t) ==
  LET c == access[t].col
      id == tls_id[c]
  IN  /\ Cell(t, id) = Null /\ made' = made \cup {<<c, t>>}
      /\ entries' \in [Thread -> Seq(Object \cup {Null})]
      /\ \A u \in Thread : DOMAIN entries'[u] = DOMAIN entries[u] /\ Len(entries'[u]) = Len(entries[u])
      /\ \A u \in Thread : \A i \in DOMAIN entries[u] :
           entries'[u][i] = IF u = t /\ i = id + 1 THEN <<c, t>> ELSE entries[u][i]

LEMMA UseCellEffect ==
  ASSUME Types, CallInv, NEW t \in Thread, UseCell(t)
  PROVE  /\ access[t].pc = "cell" /\ access[t].col \in Column /\ Live(access[t].col) /\ t \notin exited
         /\ registered[t] /\ tls_id[access[t].col] \in Ids /\ HasCell(t, tls_id[access[t].col])
         /\ UNCHANGED <<entries, made>> \/ Filled(t)
<1> DEFINE c == access[t].col
           id == tls_id[c]
<1>1. access[t].pc = "cell"
  BY DEF UseCell
<1>2. c \in Column /\ Live(c) /\ t \notin exited /\ registered[t] /\ HasCell(t, id)
  BY <1>1 DEF CallInv
<1>3. id \in Ids /\ id \in Nat
  BY <1>2 DEF Types, Live, Ids
<1>4. ASSUME Cell(t, id) = Null, made' = made \cup {<<c, t>>},
             entries' = [entries EXCEPT ![t][id + 1] = <<c, t>>]
      PROVE  Filled(t)
  <2>1. entries[t] \in Seq(Object \cup {Null}) /\ id + 1 \in DOMAIN entries[t] /\ <<c, t>> \in Object
    BY <1>2, <1>3 DEF Types, HasCell, Object
  <2> DEFINE f == [entries[t] EXCEPT ![id + 1] = <<c, t>>]
  <2>2. /\ f \in Seq(Object \cup {Null}) /\ DOMAIN f = DOMAIN entries[t] /\ Len(f) = Len(entries[t])
        /\ \A i \in DOMAIN entries[t] : f[i] = IF i = id + 1 THEN <<c, t>> ELSE entries[t][i]
    BY <2>1
  <2>3. entries' = [entries EXCEPT ![t] = f]
    BY <1>4
  <2> HIDE DEF f
  <2>4. entries'[t] = f /\ (\A u \in Thread : u # t => entries'[u] = entries[u])
        /\ entries' \in [Thread -> Seq(Object \cup {Null})]
    BY <2>2, <2>3 DEF Types
  <2> QED BY <1>4, <2>2, <2>4 DEF Filled
<1>5. \/ UNCHANGED <<entries, made>>
      \/ /\ Cell(t, id) = Null /\ made' = made \cup {<<c, t>>}
         /\ entries' = [entries EXCEPT ![t][id + 1] = <<c, t>>]
  BY DEF UseCell
<1> QED BY <1>1, <1>2, <1>3, <1>4, <1>5

\* The handlers called when cells of the matrix are emptied: that of its own
\* column for an object in one of them, none for the others.
LEMMA CalledOwn ==
  ASSUME Types, IdInv, CellInv, NEW cells, NEW o \in Object,
         \A y \in cells : \E t \in Thread : \E i \in DOMAIN entries[t] : y = <<t, i - 1>>
  PROVE  Called(o, cells) = IF InCell(o) /\ <<o[2], tls_id[o[1]]>> \in cells
                            THEN {o[1]} \cap WithHandler ELSE {}
<1>1. ASSUME NEW y \in cells, Cell(y[1], y[2]) = o
      PROVE  y = <<o[2], tls_id[o[1]]>> /\ InCell(o) /\ HandlerOf(y[2]) = {o[1]} \cap WithHandler
  <2>0. PICK t \in Thread : \E i \in DOMAIN entries[t] : y = <<t, i - 1>>
    OBVIOUS
  <2>1. PICK i \in DOMAIN entries[t] : y = <<t, i - 1>>
    BY <2>0
  <2>2. entries[t] \in Seq(Object \cup {Null}) /\ i \in Nat /\ i >= 1 /\ i <= Len(entries[t])
    BY DEF Types
  <2>3. entries[t][i] = o
    BY <1>1, <2>1, <2>2 DEF Cell
  <2>4. o[2] = t /\ o[1] \in Column /\ Live(o[1]) /\ tls_id[o[1]] = i - 1
    BY <2>3, NullIsNoObject DEF CellInv, Object
  <2>5. HandlerOf(i - 1) = {o[1]} \cap WithHandler
    BY <2>4 DEF IdInv
  <2>6. InCell(o)
    BY <2>2, <2>3, <2>4 DEF InCell, HasCell, Cell
  <2> QED BY <2>1, <2>4, <2>5, <2>6
<1>2. CASE InCell(o) /\ <<o[2], tls_id[o[1]]>> \in cells
  <2> DEFINE y == <<o[2], tls_id[o[1]]>>
  <2>1. Cell(y[1], y[2]) = o
    BY <1>2 DEF InCell
  <2>2. {x \in cells : Cell(x[1], x[2]) = o} = {y}
    BY <1>1, <1>2, <2>1
  <2>3. HandlerOf(y[2]) = {o[1]} \cap WithHandler
    BY <1>1, <1>2, <2>1
  <2> HIDE DEF y
  <2> QED BY <1>2, <2>2, <2>3 DEF Called, y
<1>3. CASE ~(InCell(o) /\ <<o[2], tls_id[o[1]]>> \in cells)
  <2>1. {x \in cells : Cell(x[1], x[2]) = o} = {}
    BY <1>1, <1>3
  <2> QED BY <1>3, <2>1 DEF Called
<1> QED BY <1>2, <1>3

\* The handlers an object has met, after cells have been emptied.
LEMMA EmptyCalls ==
  ASSUME Types, IdInv, CellInv, NEW cells, Empty(cells),
         \A y \in cells : \E t \in Thread : \E i \in DOMAIN entries[t] : y = <<t, i - 1>>
  PROVE  /\ unrefs' \in [Object -> Seq(Column)]
         /\ \A o \in Object :
              unrefs'[o] = IF InCell(o) /\ <<o[2], tls_id[o[1]]>> \in cells /\ o[1] \in WithHandler
                           THEN Append(unrefs[o], o[1]) ELSE unrefs[o]
<1>1. ASSUME NEW o \in Object
      PROVE  /\ unrefs[o] \o SetToSeq(Called(o, cells)) =
                  IF InCell(o) /\ <<o[2], tls_id[o[1]]>> \in cells /\ o[1] \in WithHandler
                  THEN Append(unrefs[o], o[1]) ELSE unrefs[o]
             /\ unrefs[o] \o SetToSeq(Called(o, cells)) \in Seq(Column)
  <2>1. unrefs[o] \in Seq(Column) /\ o[1] \in Column
    BY DEF Types, Object
  <2>2. CASE InCell(o) /\ <<o[2], tls_id[o[1]]>> \in cells /\ o[1] \in WithHandler
    <3>1. Called(o, cells) = {o[1]}
      BY <2>2, CalledOwn
    <3>2. SetToSeq(Called(o, cells)) = <<o[1]>>
      BY <3>1, SeqOfOne
    <3>3. unrefs[o] \o <<o[1]>> = Append(unrefs[o], o[1]) /\ Append(unrefs[o], o[1]) \in Seq(Column)
      BY <2>1
    <3> QED BY <2>2, <3>2, <3>3
  <2>3. CASE ~(InCell(o) /\ <<o[2], tls_id[o[1]]>> \in cells /\ o[1] \in WithHandler)
    <3>1. Called(o, cells) = {}
      BY <2>3, CalledOwn
    <3>2. SetToSeq(Called(o, cells)) = <<>>
      BY <3>1, SeqOfNone
    <3>3. unrefs[o] \o <<>> = unrefs[o]
      BY <2>1
    <3> QED BY <2>1, <2>3, <3>2, <3>3
  <2> QED BY <2>2, <2>3
<1>2. unrefs' = [o \in Object |-> unrefs[o] \o SetToSeq(Called(o, cells))]
  BY DEF Empty
<1> QED BY <1>1, <1>2


\* The cells a step empties are cells of the matrix.
ColumnCells(c) == {<<t, tls_id[c]>> : t \in {r \in Walked : HasCell(r, tls_id[c])}}
RowCells(t) == {<<t, i - 1>> : i \in DOMAIN entries[t]}

LEMMA CellsOfColumn ==
  ASSUME Types, NEW c \in Column, Live(c)
  PROVE  \A y \in ColumnCells(c) : \E t \in Thread : \E i \in DOMAIN entries[t] : y = <<t, i - 1>>
<1> SUFFICES ASSUME NEW y \in ColumnCells(c)
             PROVE  \E t \in Thread : \E i \in DOMAIN entries[t] : y = <<t, i - 1>>
  OBVIOUS
<1>1. PICK t \in Walked : HasCell(t, tls_id[c]) /\ y = <<t, tls_id[c]>>
  BY DEF ColumnCells
<1>2. t \in Thread
  BY DEF Walked
<1>3. tls_id[c] \in Nat /\ entries[t] \in Seq(Object \cup {Null})
  BY <1>2 DEF Types, Live, Ids
<1>4. tls_id[c] + 1 \in DOMAIN entries[t] /\ tls_id[c] = (tls_id[c] + 1) - 1
  BY <1>1, <1>3 DEF HasCell
<1> QED BY <1>1, <1>2, <1>4

LEMMA CellsOfRow ==
  ASSUME NEW t \in Thread
  PROVE  \A y \in RowCells(t) : \E u \in Thread : \E i \in DOMAIN entries[u] : y = <<u, i - 1>>
BY DEF RowCells

LEMMA RingTypes ==
  ASSUME Types, [Next]_vars
  PROVE  /\ next' \in [Row -> Row \cup {Null}] /\ prev' \in [Row -> Row \cup {Null}]
         /\ registered' \in [Thread -> BOOLEAN] /\ exited' \subseteq Thread
<1>1. ASSUME NEW t \in Thread, EnsureRegistered(t)
      PROVE  /\ next' \in [Row -> Row \cup {Null}] /\ prev' \in [Row -> Row \cup {Null}]
             /\ registered' \in [Thread -> BOOLEAN] /\ exited' \subseteq Thread
  <2>1. CASE registered[t]
    BY <1>1, <2>1 DEF EnsureRegistered, Types, ring
  <2>2. CASE ~registered[t]
    <3> DEFINE first == next[Sentinel]
    <3>1. /\ next' = [next EXCEPT ![t] = first, ![Sentinel] = t]
          /\ prev' = [prev EXCEPT ![t] = Sentinel, ![first] = t]
          /\ registered' = [registered EXCEPT ![t] = TRUE] /\ exited' = exited
      BY <1>1, <2>2 DEF EnsureRegistered
    <3>2. t \in Row /\ Sentinel \in Row /\ first \in Row \cup {Null}
      BY DEF Types, Row
    <3>3. registered' \in [Thread -> BOOLEAN] /\ exited' \subseteq Thread
      BY <3>1 DEF Types
    <3>4. next' \in [Row -> Row \cup {Null}]
      BY <3>1, <3>2 DEF Types
    <3> HIDE DEF first
    <3>5. prev' \in [Row -> Row \cup {Null}]
      BY <3>1, <3>2 DEF Types
    <3> QED BY <3>3, <3>4, <3>5
  <2> QED BY <2>1, <2>2
<1>2. ASSUME NEW t \in Thread, DropRow(t)
      PROVE  /\ next' \in [Row -> Row \cup {Null}] /\ prev' \in [Row -> Row \cup {Null}]
             /\ registered' \in [Thread -> BOOLEAN] /\ exited' \subseteq Thread
  BY <1>2 DEF DropRow, Types, ring, Row
<1>3. CASE UNCHANGED <<ring, exited>>
  BY <1>3 DEF ring, Types
<1> QED
  BY <1>1, <1>2, <1>3 DEF Next, vars, NewWithHandler, RemoveColumn, Start, Grow, UseCell

LEMMA CellTypes ==
  ASSUME Types, IdInv, CallInv, CellInv, [Next]_vars
  PROVE  /\ entries' \in [Thread -> Seq(Object \cup {Null})]
         /\ made' \subseteq Object /\ unrefs' \in [Object -> Seq(Column)]
<1>0. /\ entries \in [Thread -> Seq(Object \cup {Null})]
      /\ made \subseteq Object /\ unrefs \in [Object -> Seq(Column)]
  BY DEF Types
<1>1. ASSUME NEW c \in Column, RemoveColumn(c)
      PROVE  /\ entries' \in [Thread -> Seq(Object \cup {Null})]
             /\ made' \subseteq Object /\ unrefs' \in [Object -> Seq(Column)]
  <2>1. Live(c) /\ Empty(ColumnCells(c)) /\ made' = made
    BY <1>1 DEF RemoveColumn, ColumnCells
  <2> QED BY <1>0, <2>1, CellsOfColumn, EmptyEffect, EmptyCalls
<1>2. ASSUME NEW t \in Thread, DropRow(t)
      PROVE  /\ entries' \in [Thread -> Seq(Object \cup {Null})]
             /\ made' \subseteq Object /\ unrefs' \in [Object -> Seq(Column)]
  <2>1. Empty(RowCells(t)) /\ made' = made
    BY <1>2 DEF DropRow, RowCells
  <2> QED BY <1>0, <2>1, CellsOfRow, EmptyEffect, EmptyCalls
<1>3. ASSUME NEW t \in Thread, Grow(t)
      PROVE  /\ entries' \in [Thread -> Seq(Object \cup {Null})]
             /\ made' \subseteq Object /\ unrefs' \in [Object -> Seq(Column)]
  <2>1. UNCHANGED <<made, unrefs>>
    BY <1>3 DEF Grow
  <2>2. entries' \in [Thread -> Seq(Object \cup {Null})]
    BY <1>3, GrowEffect
  <2> QED BY <1>0, <2>1, <2>2
<1>4. ASSUME NEW t \in Thread, UseCell(t)
      PROVE  /\ entries' \in [Thread -> Seq(Object \cup {Null})]
             /\ made' \subseteq Object /\ unrefs' \in [Object -> Seq(Column)]
  <2>1. unrefs' = unrefs /\ (UNCHANGED <<entries, made>> \/ Filled(t)) /\ access[t].col \in Column
    BY <1>4, UseCellEffect DEF UseCell
  <2>2. <<access[t].col, t>> \in Object
    BY <2>1 DEF Object
  <2>3. Filled(t) => /\ made' = made \cup {<<access[t].col, t>>}
                     /\ entries' \in [Thread -> Seq(Object \cup {Null})]
    BY DEF Filled
  <2> QED BY <1>0, <2>1, <2>2, <2>3
<1>5. CASE UNCHANGED <<entries, made, unrefs>>
  BY <1>0, <1>5
<1> QED
  BY <1>1, <1>2, <1>3, <1>4, <1>5 DEF Next, vars, NewWithHandler, Start, EnsureRegistered

\* The ids, handlers and columns after the step of a new column.
Taken(c) ==
  /\ Ids \subseteq Ids' /\ NewId \in Ids' /\ tls_id[c] = Null
  /\ tls_id' \in [Column -> Ids' \cup {Null}] /\ tls_id'[c] = NewId
  /\ \A d \in Column : d # c => tls_id'[d] = tls_id[d]
  /\ handlers' = {h \in handlers : h[1] # NewId} \cup {<<NewId, d>> : d \in {c} \cap WithHandler}
  /\ handlers' \subseteq Ids' \X Column /\ dropped' = dropped

LEMMA NewTakes ==
  ASSUME Types, IdInv, NEW c \in Column, NewWithHandler(c)
  PROVE  Taken(c)
<1>0. next_tls_id \in Nat /\ tls_id \in [Column -> Ids \cup {Null}] /\ handlers \subseteq Ids \X Column
  BY DEF Types
<1>1. NewId \in Nat /\ NewId < next_tls_id' /\ next_tls_id' \in Nat /\ next_tls_id <= next_tls_id'
  BY NewIdFacts
<1>2. Ids \subseteq Ids' /\ NewId \in Ids'
  <2>1. 0 .. next_tls_id - 1 \subseteq 0 .. next_tls_id' - 1 /\ NewId \in 0 .. next_tls_id' - 1
    BY <1>0, <1>1, MoreIds
  <2> QED BY <2>1 DEF Ids
<1>3. /\ tls_id[c] = Null /\ tls_id' = [tls_id EXCEPT ![c] = NewId] /\ dropped' = dropped
      /\ handlers' = {h \in handlers : h[1] # NewId} \cup {<<NewId, d>> : d \in {c} \cap WithHandler}
  BY DEF NewWithHandler, NewId
<1>4. tls_id' \in [Column -> Ids' \cup {Null}] /\ tls_id'[c] = NewId
      /\ \A d \in Column : d # c => tls_id'[d] = tls_id[d]
  BY <1>0, <1>2, <1>3
<1>5. handlers' \subseteq Ids' \X Column
  BY <1>0, <1>2, <1>3
<1> QED BY <1>2, <1>3, <1>4, <1>5 DEF Taken

LEMMA MetaTypes ==
  ASSUME Types, IdInv, [Next]_vars
  PROVE  /\ next_tls_id' \in Nat /\ tls_id' \in [Column -> Ids' \cup {Null}]
         /\ free_list' \in Seq(Ids') /\ handlers' \subseteq Ids' \X Column
         /\ dropped' \subseteq Column
<1>0. /\ next_tls_id \in Nat /\ tls_id \in [Column -> Ids \cup {Null}]
      /\ free_list \in Seq(Ids) /\ handlers \subseteq Ids \X Column
      /\ dropped \subseteq Column
  BY DEF Types
<1>1. ASSUME NEW c \in Column, NewWithHandler(c)
      PROVE  /\ next_tls_id' \in Nat /\ tls_id' \in [Column -> Ids' \cup {Null}]
             /\ free_list' \in Seq(Ids') /\ handlers' \subseteq Ids' \X Column
             /\ dropped' \subseteq Column
  <2>1. next_tls_id' \in Nat /\ free_list' \in Seq(Ids)
    BY <1>1, NewIdFacts
  <2>2. Taken(c)
    BY <1>1, NewTakes
  <2>3. Ids \subseteq Ids' /\ tls_id' \in [Column -> Ids' \cup {Null}] /\ handlers' \subseteq Ids' \X Column
        /\ dropped' = dropped
    BY <2>2 DEF Taken
  <2>4. free_list' \in Seq(Ids')
    <3> HIDE DEF Ids
    <3> QED BY <2>1, <2>3
  <2> QED BY <1>0, <2>1, <2>3, <2>4
<1>2. ASSUME NEW c \in Column, RemoveColumn(c)
      PROVE  /\ next_tls_id' \in Nat /\ tls_id' \in [Column -> Ids' \cup {Null}]
             /\ free_list' \in Seq(Ids') /\ handlers' \subseteq Ids' \X Column
             /\ dropped' \subseteq Column
  <2>1. /\ next_tls_id' = next_tls_id /\ tls_id' = tls_id /\ handlers' \subseteq handlers
        /\ free_list' = Append(free_list, tls_id[c]) /\ dropped' = dropped \cup {c} /\ tls_id[c] # Null
    BY <1>2 DEF RemoveColumn, Live
  <2>2. Ids' = Ids /\ tls_id[c] \in Ids
    BY <1>0, <2>1 DEF Ids
  <2> QED BY <1>0, <2>1, <2>2
<1>3. CASE UNCHANGED meta
  <2>1. Ids' = Ids
    BY <1>3 DEF Ids, meta
  <2> QED BY <1>0, <1>3, <2>1 DEF meta
<1> QED
  BY <1>1, <1>2, <1>3 DEF Next, vars, Start, EnsureRegistered, Grow, UseCell, DropRow

LEMMA TypesStep ==
  ASSUME Types, IdInv, CallInv, CellInv, [Next]_vars
  PROVE  Types'
BY RingTypes, CellTypes, MetaTypes, AccessStep DEF Types

(***************************************************************************)
(* The ring.                                                               *)
(***************************************************************************)
\* n and p are inverse on the rows of M and the sentinel.
Linked(M, n, p) ==
  \A r \in M \cup {Sentinel} :
    /\ n[r] \in M \cup {Sentinel} /\ p[r] \in M \cup {Sentinel}
    /\ p[n[r]] = r /\ n[p[r]] = r

\* A set of rows that a walk along n does not leave, and the rows it reaches.
Closed(S, n) == \A r \in S \cup {Sentinel} : n[r] \in Thread => n[r] \in S
Reached(M, n) == \A S \in SUBSET Thread : Closed(S, n) => M \subseteq S

LEMMA RingParts == RingInv <=> Linked(Members, next, prev) /\ Reached(Members, next)
BY DEF RingInv, Linked, Reached, Closed, WalkClosed

\* A row linked in behind the sentinel.
LEMMA InsertFront ==
  ASSUME NEW M \in SUBSET Thread, NEW t \in Thread, t \notin M,
         NEW n, NEW p, Linked(M, n, p), Reached(M, n), NEW m, NEW q,
         m[t] = n[Sentinel], m[Sentinel] = t,
         \A r \in M : m[r] = n[r],
         q[t] = Sentinel, q[n[Sentinel]] = t,
         \A r \in M \cup {Sentinel} : r # n[Sentinel] => q[r] = p[r]
  PROVE  Linked(M \cup {t}, m, q) /\ Reached(M \cup {t}, m)
<1>0. Sentinel \notin Thread /\ Sentinel \notin M /\ t # Sentinel
  BY NamesAssumption
<1>1. n[Sentinel] \in M \cup {Sentinel} /\ p[n[Sentinel]] = Sentinel
  BY DEF Linked
<1>2. ASSUME NEW r \in M \cup {t} \cup {Sentinel}
      PROVE  /\ m[r] \in M \cup {t} \cup {Sentinel} /\ q[r] \in M \cup {t} \cup {Sentinel}
             /\ q[m[r]] = r /\ m[q[r]] = r
  <2>1. CASE r = t
    BY <1>0, <1>1, <2>1
  <2>2. CASE r \in M
    <3>1. m[r] = n[r] /\ n[r] \in M \cup {Sentinel} /\ p[n[r]] = r /\ n[p[r]] = r /\ p[r] \in M \cup {Sentinel}
      BY <2>2 DEF Linked
    <3>2. n[r] # n[Sentinel]
      BY <1>0, <1>1, <2>2, <3>1
    <3>3. q[m[r]] = r
      BY <3>1, <3>2
    <3>4. CASE r = n[Sentinel]
      BY <1>0, <3>1, <3>3, <3>4
    <3>5. CASE r # n[Sentinel]
      <4>1. q[r] = p[r] /\ p[r] # Sentinel
        BY <2>2, <3>1, <3>5
      <4> QED BY <3>1, <3>3, <4>1
    <3> QED BY <3>4, <3>5
  <2>3. CASE r = Sentinel
    <3>1. m[r] = t /\ q[m[r]] = r
      BY <2>3
    <3>2. p[r] \in M \cup {Sentinel} /\ n[p[r]] = r
      BY <2>3 DEF Linked
    <3>3. CASE r = n[Sentinel]
      BY <2>3, <3>1, <3>3
    <3>4. CASE r # n[Sentinel]
      <4>1. q[r] = p[r] /\ p[r] # Sentinel
        BY <2>3, <3>2, <3>4
      <4> QED BY <3>1, <3>2, <4>1
    <3> QED BY <3>3, <3>4
  <2> QED BY <2>1, <2>2, <2>3
<1>3. ASSUME NEW S \in SUBSET Thread, Closed(S, m)
      PROVE  M \cup {t} \subseteq S
  <2>1. t \in S
    BY <1>3 DEF Closed
  <2>2. n[Sentinel] \in Thread => n[Sentinel] \in S
    BY <1>3, <2>1 DEF Closed
  <2>3. Closed(S \cap M, n)
    <3> SUFFICES ASSUME NEW r \in (S \cap M) \cup {Sentinel}, n[r] \in Thread
                 PROVE  n[r] \in S \cap M
      BY DEF Closed
    <3>1. n[r] \in M
      BY <1>0 DEF Linked
    <3>2. CASE r = Sentinel
      BY <2>2, <3>1, <3>2
    <3>3. CASE r \in S \cap M
      BY <1>3, <3>1, <3>3 DEF Closed
    <3> QED BY <3>2, <3>3
  <2>4. M \subseteq S \cap M
    BY <2>3 DEF Reached
  <2> QED BY <2>1, <2>4
<1> QED BY <1>2, <1>3 DEF Linked, Reached

\* A row taken out.
LEMMA NoSelfLoop ==
  ASSUME NEW M \in SUBSET Thread, NEW t \in M, NEW n, NEW p, Linked(M, n, p), Reached(M, n)
  PROVE  p[t] # t /\ n[t] # t
<1>0. Sentinel \notin Thread
  BY NamesAssumption
<1>1. p[t] # t
  <2> SUFFICES ASSUME p[t] = t PROVE FALSE
    OBVIOUS
  <2>1. Closed(M \ {t}, n)
    <3> SUFFICES ASSUME NEW r \in (M \ {t}) \cup {Sentinel}, n[r] \in Thread
                 PROVE  n[r] \in M \ {t}
      BY DEF Closed
    <3>1. r # t /\ p[n[r]] = r /\ n[r] \in M \cup {Sentinel}
      BY <1>0 DEF Linked
    <3> QED BY <1>0, <3>1
  <2>2. M \ {t} \in SUBSET Thread
    OBVIOUS
  <2> QED BY <2>1, <2>2 DEF Reached
<1>2. p[n[t]] = t
  BY DEF Linked
<1> QED BY <1>1, <1>2

LEMMA TakeOut ==
  ASSUME NEW M \in SUBSET Thread, NEW t \in M,
         NEW n, NEW p, Linked(M, n, p), Reached(M, n), NEW m, NEW q,
         m[p[t]] = n[t], \A r \in M \cup {Sentinel} : r # t /\ r # p[t] => m[r] = n[r],
         q[n[t]] = p[t], \A r \in M \cup {Sentinel} : r # t /\ r # n[t] => q[r] = p[r]
  PROVE  Linked(M \ {t}, m, q) /\ Reached(M \ {t}, m)
<1>0. Sentinel \notin Thread /\ t \in Thread /\ t # Sentinel
  BY NamesAssumption
<1>1. /\ p[t] # t /\ n[t] # t
      /\ p[t] \in M \cup {Sentinel} /\ n[t] \in M \cup {Sentinel}
      /\ p[n[t]] = t /\ n[p[t]] = t
  BY NoSelfLoop DEF Linked
<1>2. ASSUME NEW r \in (M \ {t}) \cup {Sentinel}
      PROVE  /\ m[r] \in (M \ {t}) \cup {Sentinel} /\ q[r] \in (M \ {t}) \cup {Sentinel}
             /\ q[m[r]] = r /\ m[q[r]] = r
  <2>1. r # t /\ n[r] \in M \cup {Sentinel} /\ p[r] \in M \cup {Sentinel} /\ p[n[r]] = r /\ n[p[r]] = r
    BY <1>0 DEF Linked
  <2>2. m[r] \in (M \ {t}) \cup {Sentinel} /\ q[m[r]] = r
    <3>1. CASE r = p[t]
      BY <1>1, <3>1
    <3>2. CASE r # p[t]
      <4>1. m[r] = n[r] /\ n[r] # t /\ n[r] # n[t]
        BY <1>1, <2>1, <3>2
      <4> QED BY <2>1, <4>1
    <3> QED BY <3>1, <3>2
  <2>3. q[r] \in (M \ {t}) \cup {Sentinel} /\ m[q[r]] = r
    <3>1. CASE r = n[t]
      BY <1>1, <3>1
    <3>2. CASE r # n[t]
      <4>1. q[r] = p[r] /\ p[r] # t /\ p[r] # p[t]
        BY <1>1, <2>1, <3>2
      <4> QED BY <2>1, <4>1
    <3> QED BY <3>1, <3>2
  <2> QED BY <2>2, <2>3
<1>3. ASSUME NEW S \in SUBSET Thread, Closed(S, m)
      PROVE  M \ {t} \subseteq S
  <2>1. ASSUME NEW r \in (S \cap (M \ {t})) \cup {Sentinel}, n[r] \in Thread, r # p[t]
        PROVE  n[r] \in S \cap (M \ {t})
    <3>1. m[r] = n[r]
      BY <1>0, <2>1
    <3>2. n[r] \in M /\ n[r] # t
      BY <1>0, <1>1, <2>1 DEF Linked
    <3> QED BY <1>3, <2>1, <3>1, <3>2 DEF Closed
  <2>2. CASE p[t] \in S \cup {Sentinel}
    <3> DEFINE T == (S \cap (M \ {t})) \cup {t}
    <3>1. n[t] \in Thread => n[t] \in S \cap (M \ {t})
      BY <1>0, <1>1, <1>3, <2>2 DEF Closed
    <3>2. Closed(T, n)
      <4> SUFFICES ASSUME NEW r \in T \cup {Sentinel}, n[r] \in Thread
                   PROVE  n[r] \in T
        BY DEF Closed
      <4>1. CASE r = t
        BY <3>1, <4>1
      <4>2. CASE r # t /\ r = p[t]
        BY <1>1, <4>2
      <4>3. CASE r # t /\ r # p[t]
        BY <2>1, <4>3
      <4> QED BY <4>1, <4>2, <4>3
    <3>3. T \in SUBSET Thread
      BY <1>0
    <3>4. M \subseteq T
      BY <3>2, <3>3 DEF Reached
    <3> QED BY <3>4
  <2>3. CASE p[t] \notin S \cup {Sentinel}
    <3>1. Closed(S \cap (M \ {t}), n)
      BY <2>1, <2>3 DEF Closed
    <3>2. M \subseteq S \cap (M \ {t})
      BY <3>1 DEF Reached
    <3> QED BY <3>2
  <2> QED BY <2>2, <2>3
<1> QED BY <1>2, <1>3 DEF Linked, Reached

LEMMA RingStep ==
  ASSUME Types, RingInv, CallInv, [Next]_vars
  PROVE  RingInv'
<1>0. /\ Members \in SUBSET Thread /\ Members \subseteq Row /\ Sentinel \in Row /\ Sentinel \notin Thread
      /\ Linked(Members, next, prev) /\ Reached(Members, next)
  BY RingParts, NamesAssumption DEF Members, Row
<1>1. ASSUME NEW t \in Thread, EnsureRegistered(t), ~registered[t] PROVE RingInv'
  <2> DEFINE first == next[Sentinel]
  <2>1. t \notin exited /\ t \notin Members /\ Members' = Members \cup {t} /\ t \in Row /\ t # Sentinel
    BY <1>0, <1>1 DEF EnsureRegistered, CallInv, Members, Types, Row
  <2>2. first \in Members \cup {Sentinel} /\ first \in Row /\ first # t
    BY <1>0, <2>1 DEF Linked
  <2>3. /\ next' = [next EXCEPT ![t] = first, ![Sentinel] = t]
        /\ prev' = [prev EXCEPT ![t] = Sentinel, ![first] = t]
    BY <1>1 DEF EnsureRegistered
  <2>4. /\ next'[t] = first /\ next'[Sentinel] = t
        /\ \A r \in Row : r # t /\ r # Sentinel => next'[r] = next[r]
    BY <1>0, <2>1, <2>3 DEF Types
  <2> HIDE DEF first
  <2>5. /\ prev'[t] = Sentinel /\ prev'[first] = t
        /\ \A r \in Row : r # t /\ r # first => prev'[r] = prev[r]
    BY <2>1, <2>2, <2>3 DEF Types
  <2>6. /\ \A r \in Members : next'[r] = next[r]
        /\ \A r \in Members \cup {Sentinel} : r # first => prev'[r] = prev[r]
    BY <1>0, <2>1, <2>4, <2>5
  <2>7. Linked(Members \cup {t}, next', prev') /\ Reached(Members \cup {t}, next')
    <3> USE DEF first
    <3> HIDE DEF Members
    <3> QED BY <1>0, <2>1, <2>4, <2>5, <2>6, InsertFront
  <2> QED BY <2>1, <2>7, RingParts DEF RingInv, Linked, Reached, Closed, WalkClosed
<1>2. ASSUME NEW t \in Thread, DropRow(t), registered[t] PROVE RingInv'
  <2>1. t \in Members /\ Members' = Members \ {t} /\ t \in Row /\ t # Sentinel
    BY <1>0, <1>2 DEF DropRow, Members, Types, Row
  <2>2. prev[t] # t /\ next[t] # t
    BY <1>0, <2>1, NoSelfLoop
  <2>3. prev[t] \in Row /\ next[t] \in Row
    BY <1>0, <2>1 DEF Linked
  <2>4. /\ next' = [next EXCEPT ![prev[t]] = next[t], ![t] = Null]
        /\ prev' = [prev EXCEPT ![next[t]] = prev[t], ![t] = Null]
    BY <1>2 DEF DropRow
  <2>5. next'[prev[t]] = next[t] /\ \A r \in Row : r # t /\ r # prev[t] => next'[r] = next[r]
    BY <2>1, <2>2, <2>3, <2>4 DEF Types
  <2>6. prev'[next[t]] = prev[t] /\ \A r \in Row : r # t /\ r # next[t] => prev'[r] = prev[r]
    BY <2>1, <2>2, <2>3, <2>4 DEF Types
  <2>7. Linked(Members \ {t}, next', prev') /\ Reached(Members \ {t}, next')
    <3> HIDE DEF Members
    <3> QED BY <1>0, <2>1, <2>5, <2>6, TakeOut
  <2> QED BY <2>1, <2>7 DEF RingInv, Linked, Reached, Closed, WalkClosed
<1>3. ASSUME UNCHANGED <<next, prev>>, Members' = Members PROVE RingInv'
  BY <1>3 DEF RingInv, WalkClosed
<1>4. ASSUME NEW t \in Thread, DropRow(t), ~registered[t] PROVE RingInv'
  <2>1. UNCHANGED <<next, prev>> /\ Members' = Members
    BY <1>4 DEF DropRow, Members, ring
  <2> QED BY <1>3, <2>1
<1>5. ASSUME UNCHANGED <<ring, exited>> PROVE RingInv'
  <2>1. UNCHANGED <<next, prev>> /\ Members' = Members
    BY <1>5 DEF Members, ring
  <2> QED BY <1>3, <2>1
<1>6. ASSUME NEW t \in Thread, EnsureRegistered(t), registered[t] PROVE UNCHANGED <<ring, exited>>
  BY <1>6 DEF EnsureRegistered
<1>7. \/ UNCHANGED <<ring, exited>>
      \/ \E t \in Thread : EnsureRegistered(t) \/ DropRow(t)
  BY DEF Next, vars, NewWithHandler, RemoveColumn, Start, Grow, UseCell
<1> QED BY <1>1, <1>2, <1>4, <1>5, <1>6, <1>7

(***************************************************************************)
(* The ids.                                                                *)
(***************************************************************************)
LEMMA IdsAfterNew ==
  ASSUME Types, IdInv, NEW c \in Column, NewWithHandler(c)
  PROVE  IdInv'
<1>1. /\ Taken(c) /\ NewId # Null /\ next_tls_id' \in Nat
      /\ \A d \in Column : Live(d) => tls_id[d] # NewId
      /\ \A i \in DOMAIN free_list' : i \in DOMAIN free_list /\ free_list'[i] = free_list[i]
                                      /\ free_list'[i] # NewId
  BY NewTakes, NewIdFacts
<1>2. /\ tls_id[c] = Null /\ tls_id'[c] = NewId
      /\ \A d \in Column : d # c => tls_id'[d] = tls_id[d]
      /\ handlers' = {h \in handlers : h[1] # NewId} \cup {<<NewId, d>> : d \in {c} \cap WithHandler}
      /\ dropped' = dropped
  BY <1>1 DEF Taken
<1>3. \A d \in Column : d # c => (Live(d)' <=> Live(d))
  BY <1>2 DEF Live
<1>4. \A d, e \in Column : d # e /\ Live(d)' /\ Live(e)' => tls_id'[d] # tls_id'[e]
  BY <1>1, <1>2, <1>3 DEF IdInv
<1>5. \A d \in Column : Live(d)' => \A i \in DOMAIN free_list' : free_list'[i] # tls_id'[d]
  BY <1>1, <1>2, <1>3 DEF IdInv
<1>6. \A i, j \in DOMAIN free_list' : free_list'[i] = free_list'[j] => i = j
  BY <1>1 DEF IdInv
<1>7. ASSUME NEW d \in Column, Live(d)'
      PROVE  HandlerOf(tls_id[d])' = {d} \cap WithHandler
  <2>1. HandlerOf(tls_id[d])' = {h[2] : h \in {g \in handlers' : g[1] = tls_id'[d]}}
    BY DEF HandlerOf
  <2>2. CASE d = c
    <3>1. {g \in handlers' : g[1] = NewId} = {<<NewId, e>> : e \in {c} \cap WithHandler}
      BY <1>2
    <3>2. {h[2] : h \in {<<NewId, e>> : e \in {c} \cap WithHandler}} = {c} \cap WithHandler
      <4> DEFINE X == {c} \cap WithHandler
                 P == {<<NewId, e>> : e \in X}
      <4>1. (\A h \in P : h[2] \in X) /\ \A e \in X : <<NewId, e>> \in P /\ <<NewId, e>>[2] = e
        <5> HIDE DEF X
        <5> QED OBVIOUS
      <4> HIDE DEF P, X
      <4>2. {h[2] : h \in P} = X
        BY <4>1
      <4> QED BY <4>2 DEF P, X
    <3> QED BY <1>2, <2>1, <2>2, <3>1, <3>2
  <2>3. CASE d # c
    <3>1. Live(d) /\ tls_id'[d] = tls_id[d] /\ tls_id[d] # NewId
      BY <1>1, <1>2, <1>3, <1>7, <2>3
    <3>2. {g \in handlers' : g[1] = tls_id[d]} = {g \in handlers : g[1] = tls_id[d]}
      BY <1>2, <3>1
    <3>3. HandlerOf(tls_id[d])' = HandlerOf(tls_id[d])
      BY <2>1, <3>1, <3>2 DEF HandlerOf
    <3> QED BY <3>1, <3>3 DEF IdInv
  <2> QED BY <2>2, <2>3
<1>8. next_tls_id' <= Cardinality({d \in Column : tls_id'[d] # Null})
  <2> DEFINE old == {d \in Column : tls_id[d] # Null}
             new == {d \in Column : tls_id'[d] # Null}
  <2>1. new = old \cup {c} /\ c \notin old
    BY <1>1, <1>2
  <2>2. IsFiniteSet(old)
    BY ColumnAssumption, FS_Subset
  <2>3. Cardinality(new) = Cardinality(old) + 1 /\ Cardinality(old) \in Nat
    <3> HIDE DEF new, old
    <3> QED BY <2>1, <2>2, FS_AddElement, FS_CardinalityType
  <2>4. next_tls_id <= Cardinality(old) /\ next_tls_id \in Nat
    BY DEF IdInv, Types
  <2>5. next_tls_id' <= next_tls_id + 1
    BY <2>4 DEF NewWithHandler
  <2> HIDE DEF new, old
  <2>6. next_tls_id' <= Cardinality(new)
    BY <1>1, <2>3, <2>4, <2>5
  <2> QED BY <2>6 DEF new
<1> QED BY <1>4, <1>5, <1>6, <1>7, <1>8 DEF IdInv

LEMMA IdsAfterRemove ==
  ASSUME Types, IdInv, NEW c \in Column, RemoveColumn(c)
  PROVE  IdInv'
<1> DEFINE id == tls_id[c]
<1>1. /\ Live(c) /\ tls_id' = tls_id /\ next_tls_id' = next_tls_id /\ dropped' = dropped \cup {c}
      /\ free_list' = Append(free_list, id) /\ handlers' = {h \in handlers : h[1] # id}
  BY DEF RemoveColumn
<1>2. \A d \in Column : Live(d)' <=> Live(d) /\ d # c
  BY <1>1 DEF Live
<1>3. free_list \in Seq(Ids) /\ id \in Ids
  BY <1>1 DEF Types, Live
<1>4. \A i \in DOMAIN free_list' : \/ i \in DOMAIN free_list /\ free_list'[i] = free_list[i]
                                   \/ i = Len(free_list) + 1 /\ free_list'[i] = id
  BY <1>1, <1>3
<1>5. \A i \in DOMAIN free_list : free_list[i] # id
  BY <1>1 DEF IdInv
<1>6. \A d \in Column : Live(d)' => Live(d) /\ tls_id'[d] = tls_id[d] /\ tls_id[d] # id
  BY <1>1, <1>2 DEF IdInv
<1>7. \A d \in Column : Live(d)' => \A i \in DOMAIN free_list' : free_list'[i] # tls_id'[d]
  BY <1>4, <1>6 DEF IdInv
<1>8. \A i, j \in DOMAIN free_list' : free_list'[i] = free_list'[j] => i = j
  BY <1>4, <1>5 DEF IdInv
<1>9. ASSUME NEW d \in Column, Live(d)'
      PROVE  HandlerOf(tls_id[d])' = {d} \cap WithHandler
  <2>1. Live(d) /\ tls_id'[d] = tls_id[d] /\ tls_id[d] # id
    BY <1>6, <1>9
  <2>2. {g \in handlers' : g[1] = tls_id[d]} = {g \in handlers : g[1] = tls_id[d]}
    BY <1>1, <2>1
  <2>3. HandlerOf(tls_id[d])' = HandlerOf(tls_id[d])
    BY <2>1, <2>2 DEF HandlerOf
  <2> QED BY <2>1, <2>3 DEF IdInv
<1>10. \A d, e \in Column : d # e /\ Live(d)' /\ Live(e)' => tls_id'[d] # tls_id'[e]
  BY <1>6 DEF IdInv
<1>11. next_tls_id' <= Cardinality({d \in Column : tls_id'[d] # Null})
  BY <1>1 DEF IdInv
<1> QED BY <1>7, <1>8, <1>9, <1>10, <1>11 DEF IdInv

LEMMA IdStep ==
  ASSUME Types, IdInv, [Next]_vars
  PROVE  IdInv'
<1>1. ASSUME UNCHANGED meta PROVE IdInv'
  BY <1>1 DEF IdInv, meta, Live, HandlerOf
<1>2. UNCHANGED meta \/ \E c \in Column : NewWithHandler(c) \/ RemoveColumn(c)
  BY DEF Next, vars, Start, EnsureRegistered, Grow, UseCell, DropRow
<1> QED BY <1>1, <1>2, IdsAfterNew, IdsAfterRemove

(***************************************************************************)
(* The calls.                                                              *)
(***************************************************************************)
\* What CallInv says of one thread.
CallOK(t) ==
  /\ access[t].pc \in {"register", "grow", "cell"} =>
       access[t].col \in Column /\ Live(access[t].col) /\ t \notin exited
  /\ access[t].pc \in {"grow", "cell"} => registered[t]
  /\ access[t].pc = "cell" => HasCell(t, tls_id[access[t].col])

LEMMA CallParts == CallInv <=> \A t \in Thread : CallOK(t)
BY DEF CallInv, CallOK

\* A call another step leaves alone.
LEMMA CallKept ==
  ASSUME Types, Types', NEW t \in Thread, CallOK(t), access'[t] = access[t],
         t \in exited' => t \in exited, registered[t] => registered'[t],
         Len(entries[t]) <= Len(entries'[t]),
         \A c \in Column : c = access[t].col /\ Live(c) => Live(c)' /\ tls_id'[c] = tls_id[c]
  PROVE  CallOK(t)'
<1> DEFINE c == access[t].col
<1>1. CASE access[t].pc \in {"register", "grow", "cell"}
  <2>1. c \in Column /\ Live(c) /\ t \notin exited /\ Live(c)' /\ tls_id'[c] = tls_id[c]
    BY <1>1 DEF CallOK
  <2>2. tls_id[c] \in Nat /\ Len(entries[t]) \in Nat /\ Len(entries'[t]) \in Nat
    BY <2>1 DEF Types, Live, Ids
  <2>3. HasCell(t, tls_id[c]) => HasCell(t, tls_id[c])'
    BY <2>1, <2>2 DEF HasCell
  <2> QED BY <2>1, <2>3 DEF CallOK
<1>2. CASE access[t].pc \notin {"register", "grow", "cell"}
  BY <1>2 DEF CallOK
<1> QED BY <1>1, <1>2

LEMMA CallStep ==
  ASSUME Types, Types', IdInv, CallInv, CellInv, [Next]_vars
  PROVE  CallInv'
<1>0. \A t \in Thread : CallOK(t) /\ Len(entries[t]) \in Nat
  BY CallParts DEF Types
<1>1. ASSUME NEW c \in Column, NewWithHandler(c) PROVE CallInv'
  <2>1. /\ tls_id[c] = Null /\ \A d \in Column : d # c => tls_id'[d] = tls_id[d]
        /\ dropped' = dropped /\ UNCHANGED <<access, exited, registered, entries>>
    BY <1>1, NewTakes DEF Taken, NewWithHandler, ring
  <2>2. \A d \in Column : Live(d) => Live(d)' /\ tls_id'[d] = tls_id[d]
    BY <2>1 DEF Live
  <2>3. ASSUME NEW t \in Thread PROVE CallOK(t)'
    BY <1>0, <2>1, <2>2, CallKept
  <2> QED BY <2>3 DEF CallInv, CallOK
<1>2. ASSUME NEW c \in Column, RemoveColumn(c) PROVE CallInv'
  <2>1. /\ tls_id' = tls_id /\ dropped' = dropped \cup {c} /\ Empty(ColumnCells(c))
        /\ UNCHANGED <<access, exited, registered>> /\ \A t \in Thread : access[t].col # c
    BY <1>2 DEF RemoveColumn, ring, Quiesced, ColumnCells
  <2>2. \A d \in Column : d # c /\ Live(d) => Live(d)' /\ tls_id'[d] = tls_id[d]
    BY <2>1 DEF Live
  <2>3. \A t \in Thread : Len(entries'[t]) = Len(entries[t])
    BY <2>1, EmptyEffect
  <2>4. ASSUME NEW t \in Thread PROVE CallOK(t)'
    BY <1>0, <2>1, <2>2, <2>3, CallKept
  <2> QED BY <2>4 DEF CallInv, CallOK
<1>3. ASSUME UNCHANGED meta PROVE \A d \in Column : Live(d) => Live(d)' /\ tls_id'[d] = tls_id[d]
  BY <1>3 DEF meta, Live
<1>4. ASSUME NEW t \in Thread, Start(t) PROVE CallInv'
  <2>1. UNCHANGED <<exited, registered, entries, meta>> /\ t \notin exited
    BY <1>4 DEF Start, ring
  <2>2. PICK c \in Column : Live(c) /\ \E op \in Ops : Becomes(t, [op |-> op, col |-> c, pc |-> "register"])
    BY <1>4, StartBecomes
  <2>3. access'[t].pc = "register" /\ access'[t].col = c /\ \A u \in Thread : u # t => access'[u] = access[u]
    BY <2>2 DEF Becomes
  <2>4. CallOK(t)'
    BY <1>3, <2>1, <2>2, <2>3 DEF CallOK
  <2>5. ASSUME NEW u \in Thread, u # t PROVE CallOK(u)'
    BY <1>0, <1>3, <2>1, <2>3, <2>5, CallKept
  <2> QED BY <2>4, <2>5 DEF CallInv, CallOK
<1>5. ASSUME NEW t \in Thread, EnsureRegistered(t) PROVE CallInv'
  <2>1. UNCHANGED <<exited, entries, meta>> /\ access[t].pc = "register"
        /\ registered'[t] /\ \A u \in Thread : registered[u] => registered'[u]
    BY <1>5 DEF EnsureRegistered, ring, Types
  <2>2. Goes(t, "grow")
    BY <1>5, GotoGoes DEF EnsureRegistered, Labels
  <2>3. /\ access'[t].pc = "grow" /\ access'[t].col = access[t].col
        /\ \A u \in Thread : u # t => access'[u] = access[u]
    BY <2>2 DEF Goes
  <2>4. CallOK(t)'
    BY <1>0, <1>3, <2>1, <2>3 DEF CallOK
  <2>5. ASSUME NEW u \in Thread, u # t PROVE CallOK(u)'
    BY <1>0, <1>3, <2>1, <2>3, <2>5, CallKept
  <2> QED BY <2>4, <2>5 DEF CallInv, CallOK
<1>6. ASSUME NEW t \in Thread, Grow(t) PROVE CallInv'
  <2>1. UNCHANGED <<exited, registered, meta>> /\ access[t].pc = "grow"
    BY <1>6 DEF Grow, ring
  <2>2. Goes(t, "cell")
    BY <1>6, GotoGoes DEF Grow, Labels
  <2>3. /\ access'[t].pc = "cell" /\ access'[t].col = access[t].col
        /\ \A u \in Thread : u # t => access'[u] = access[u]
    BY <2>2 DEF Goes
  <2>4. tls_id[access[t].col] < Len(entries'[t]) /\ \A u \in Thread : u # t => entries'[u] = entries[u]
    BY <1>6, GrowEffect
  <2>5. CallOK(t)'
    BY <1>0, <1>3, <2>1, <2>3, <2>4 DEF CallOK, HasCell
  <2>6. ASSUME NEW u \in Thread, u # t PROVE CallOK(u)'
    BY <1>0, <1>3, <2>1, <2>3, <2>4, <2>6, CallKept
  <2> QED BY <2>5, <2>6 DEF CallInv, CallOK
<1>7. ASSUME NEW t \in Thread, UseCell(t) \/ DropRow(t),
             \A u \in Thread : u # t => (u \in exited' => u \in exited),
             \A u \in Thread : Len(entries'[u]) = Len(entries[u]), UNCHANGED <<registered, meta>>
      PROVE  CallInv'
  <2>1. access'[t].pc \in {"idle", "panic"} /\ \A u \in Thread : u # t => access'[u] = access[u]
    BY <1>7, CallEnds DEF Becomes, NoCall
  <2>2. CallOK(t)'
    BY <2>1 DEF CallOK
  <2>3. ASSUME NEW u \in Thread, u # t PROVE CallOK(u)'
    BY <1>0, <1>3, <1>7, <2>1, <2>3, CallKept
  <2> QED BY <2>2, <2>3 DEF CallInv, CallOK
<1>8. ASSUME NEW t \in Thread, UseCell(t) PROVE CallInv'
  <2>1. UNCHANGED <<registered, meta, exited>>
    BY <1>8 DEF UseCell, ring
  <2>2. \A u \in Thread : Len(entries'[u]) = Len(entries[u])
    BY <1>8, UseCellEffect DEF Filled
  <2> QED BY <1>7, <1>8, <2>1, <2>2
<1>9. ASSUME NEW t \in Thread, DropRow(t) PROVE CallInv'
  <2>1. UNCHANGED <<registered, meta>> /\ exited' = exited \cup {t} /\ Empty(RowCells(t))
    BY <1>9 DEF DropRow, ring, RowCells
  <2>2. \A u \in Thread : Len(entries'[u]) = Len(entries[u])
    BY <2>1, EmptyEffect
  <2> QED BY <1>7, <1>9, <2>1, <2>2
<1>10. ASSUME UNCHANGED vars PROVE CallInv'
  BY <1>10 DEF vars, ring, meta, CallInv, Live, HasCell
<1> QED BY <1>1, <1>2, <1>4, <1>5, <1>6, <1>8, <1>9, <1>10 DEF Next

(***************************************************************************)
(* The cells.                                                              *)
(***************************************************************************)
LEMMA WalkedMembers ==
  ASSUME RingInv PROVE Walked = Members
<1>1. Members \in SUBSET Thread /\ Sentinel \notin Thread
  BY NamesAssumption DEF Members
<1>2. WalkClosed(Members)
  BY <1>1 DEF WalkClosed, RingInv
<1>3. Walked \subseteq Members
  BY <1>1, <1>2 DEF Walked
<1>4. Members \subseteq Walked
  BY <1>1 DEF Walked, RingInv
<1> QED BY <1>3, <1>4

\* What CellInv says of one row.
RowOK(t) ==
  /\ Len(entries[t]) <= next_tls_id
  /\ \A i \in DOMAIN entries[t] :
       entries[t][i] # Null =>
         /\ entries[t][i][2] = t /\ t \in Members
         /\ Live(entries[t][i][1]) /\ tls_id[entries[t][i][1]] = i - 1

LEMMA RowParts == CellInv <=> \A t \in Thread : RowOK(t)
BY DEF CellInv, RowOK

\* The column of what a cell holds.
LEMMA HeldColumn ==
  ASSUME Types, NEW t \in Thread, NEW i \in DOMAIN entries[t], entries[t][i] # Null
  PROVE  entries[t][i] \in Object /\ entries[t][i][1] \in Column
BY DEF Types, Object

\* A row whose cells are kept or emptied.
LEMMA RowKept ==
  ASSUME Types, NEW t \in Thread, RowOK(t), Len(entries'[t]) <= next_tls_id',
         t \in Members => t \in Members',
         \A i \in DOMAIN entries'[t] :
           \/ entries'[t][i] = Null
           \/ /\ i \in DOMAIN entries[t] /\ entries'[t][i] = entries[t][i]
              /\ \A c \in Column : c = entries[t][i][1] /\ Live(c) => Live(c)' /\ tls_id'[c] = tls_id[c]
  PROVE  RowOK(t)'
<1> SUFFICES ASSUME NEW i \in DOMAIN entries'[t], entries'[t][i] # Null
             PROVE  /\ entries'[t][i][2] = t /\ t \in Members'
                    /\ Live(entries[t][i][1])' /\ tls_id'[entries'[t][i][1]] = i - 1
  BY DEF RowOK
<1>1. i \in DOMAIN entries[t] /\ entries'[t][i] = entries[t][i] /\ entries[t][i] # Null
  OBVIOUS
<1>2. entries[t][i][1] \in Column
  BY <1>1, HeldColumn
<1>3. entries[t][i][2] = t /\ t \in Members /\ Live(entries[t][i][1]) /\ tls_id[entries[t][i][1]] = i - 1
  BY <1>1 DEF RowOK
<1>4. Live(entries[t][i][1])' /\ tls_id'[entries[t][i][1]] = tls_id[entries[t][i][1]]
  BY <1>1, <1>2, <1>3 DEF Live
<1> QED BY <1>1, <1>3, <1>4

LEMMA CellStep ==
  ASSUME Types, RingInv, IdInv, CallInv, CellInv, [Next]_vars
  PROVE  CellInv'
<1>0. next_tls_id \in Nat /\ \A t \in Thread : RowOK(t) /\ Len(entries[t]) \in Nat /\ Len(entries[t]) <= next_tls_id
  BY RowParts DEF Types, RowOK
<1>1. ASSUME NEW c \in Column, NewWithHandler(c) PROVE CellInv'
  <2>1. /\ tls_id[c] = Null /\ \A d \in Column : d # c => tls_id'[d] = tls_id[d]
        /\ dropped' = dropped /\ UNCHANGED <<exited, registered, entries>>
    BY <1>1, NewTakes DEF Taken, NewWithHandler, ring
  <2>2. \A d \in Column : Live(d) => Live(d)' /\ tls_id'[d] = tls_id[d]
    BY <2>1 DEF Live
  <2>3. next_tls_id' \in Nat /\ next_tls_id <= next_tls_id' /\ Members' = Members
    BY <1>1, <2>1, NewIdFacts DEF Members
  <2>4. ASSUME NEW t \in Thread PROVE Len(entries'[t]) <= next_tls_id'
    BY <1>0, <2>1, <2>3
  <2>5. ASSUME NEW t \in Thread PROVE RowOK(t)'
    BY <1>0, <2>1, <2>2, <2>3, <2>4, RowKept
  <2> QED BY <2>5 DEF CellInv, RowOK
<1>2. ASSUME NEW c \in Column, RemoveColumn(c) PROVE CellInv'
  <2>1. /\ tls_id' = tls_id /\ dropped' = dropped \cup {c} /\ Empty(ColumnCells(c))
        /\ UNCHANGED <<exited, registered, next_tls_id>>
    BY <1>2 DEF RemoveColumn, ring, ColumnCells
  <2>2. \A d \in Column : d # c /\ Live(d) => Live(d)' /\ tls_id'[d] = tls_id[d]
    BY <2>1 DEF Live
  <2>3. Members' = Members
    BY <2>1 DEF Members
  <2>4. ASSUME NEW t \in Thread PROVE RowOK(t)'
    <3>1. Len(entries'[t]) = Len(entries[t]) /\ DOMAIN entries'[t] = DOMAIN entries[t]
      BY <2>1, EmptyEffect
    <3>2. ASSUME NEW i \in DOMAIN entries[t]
          PROVE  \/ entries'[t][i] = Null
                 \/ entries'[t][i] = entries[t][i] /\ entries[t][i][1] # c
      <4>1. entries'[t][i] = IF <<t, i - 1>> \in ColumnCells(c) THEN Null ELSE entries[t][i]
        BY <2>1, EmptyEffect
      <4>2. ASSUME entries[t][i] # Null, entries[t][i][1] = c PROVE <<t, i - 1>> \in ColumnCells(c)
        <5>1. t \in Members /\ tls_id[c] = i - 1
          BY <1>0, <4>2 DEF RowOK
        <5>2. i - 1 < Len(entries[t])
          BY DEF Types
        <5>3. t \in Walked /\ HasCell(t, tls_id[c])
          BY <5>1, <5>2, WalkedMembers DEF HasCell
        <5> QED BY <5>1, <5>3 DEF ColumnCells
      <4> QED BY <4>1, <4>2
    <3> QED BY <1>0, <2>1, <2>2, <2>3, <3>1, <3>2, RowKept
  <2> QED BY <2>4 DEF CellInv, RowOK
<1>3. ASSUME UNCHANGED meta
      PROVE next_tls_id' = next_tls_id /\ \A d \in Column : Live(d) => Live(d)' /\ tls_id'[d] = tls_id[d]
  BY <1>3 DEF meta, Live
<1>4. ASSUME UNCHANGED <<meta, entries, exited>>, \A t \in Thread : registered[t] => registered'[t] PROVE CellInv'
  <2>1. \A t \in Thread : t \in Members => t \in Members'
    BY <1>4 DEF Members
  <2>2. ASSUME NEW t \in Thread PROVE RowOK(t)'
    BY <1>0, <1>3, <1>4, <2>1, RowKept
  <2> QED BY <2>2 DEF CellInv, RowOK
<1>5. ASSUME NEW t \in Thread, Grow(t) PROVE CellInv'
  <2>1. UNCHANGED <<exited, registered, meta>> /\ Members' = Members
    BY <1>5 DEF Grow, ring, Members
  <2>2. ASSUME NEW u \in Thread, u # t PROVE RowOK(u)'
    <3>1. entries'[u] = entries[u]
      BY <1>5, <2>2, GrowEffect
    <3> QED BY <1>0, <1>3, <2>1, <3>1, RowKept
  <2>3. RowOK(t)'
    <3> DEFINE id == tls_id[access[t].col]
    <3>1. /\ Len(entries'[t]) = Len(entries[t]) \/ Len(entries'[t]) = id + 1
          /\ \A i \in DOMAIN entries'[t] :
               \/ i \in DOMAIN entries[t] /\ entries'[t][i] = entries[t][i]
               \/ i \notin DOMAIN entries[t] /\ entries'[t][i] = Null
      BY <1>5, GrowEffect
    <3>2. id \in Ids
      BY <1>5, GrowEffect
    <3> HIDE DEF id
    <3>3. Len(entries'[t]) <= next_tls_id
      BY <1>0, <3>1, <3>2 DEF Ids
    <3> QED BY <1>0, <1>3, <2>1, <3>1, <3>3, RowKept
  <2> QED BY <2>2, <2>3 DEF CellInv, RowOK
<1>6. ASSUME NEW t \in Thread, UseCell(t) PROVE CellInv'
  <2>1. UNCHANGED <<exited, registered, meta>> /\ Members' = Members
    BY <1>6 DEF UseCell, ring, Members
  <2>2. CASE UNCHANGED <<entries, made>>
    BY <1>4, <2>1, <2>2
  <2>3. CASE Filled(t)
    <3>0. PICK c \in Column : c = access[t].col
      BY <1>6, UseCellEffect
    <3> DEFINE id == tls_id[c]
    <3>1. c \in Column /\ Live(c) /\ t \in Members /\ id \in Nat
      BY <1>6, <3>0, UseCellEffect DEF Members, Ids
    <3>2. \A u \in Thread : DOMAIN entries'[u] = DOMAIN entries[u] /\ Len(entries'[u]) = Len(entries[u])
      BY <2>3 DEF Filled
    <3>3. \A u \in Thread : \A i \in DOMAIN entries[u] :
            entries'[u][i] = IF u = t /\ i = id + 1 THEN <<c, t>> ELSE entries[u][i]
      BY <2>3, <3>0 DEF Filled
    <3>4. ASSUME NEW u \in Thread, u # t PROVE RowOK(u)'
      BY <1>0, <1>3, <2>1, <3>2, <3>3, <3>4, RowKept
    <3>5. RowOK(t)'
      <4> SUFFICES ASSUME NEW i \in DOMAIN entries'[t], entries'[t][i] # Null
                   PROVE  /\ entries'[t][i][2] = t /\ t \in Members'
                          /\ Live(entries[t][i][1])' /\ tls_id'[entries'[t][i][1]] = i - 1
        BY <1>0, <1>3, <2>1, <3>2 DEF RowOK
      <4>1. CASE i = id + 1
        <5>1. entries'[t][i] = <<c, t>> /\ i - 1 = id
          BY <3>1, <3>2, <3>3, <4>1
        <5>2. Live(c)' /\ tls_id'[c] = id
          BY <1>3, <2>1, <3>1
        <5> HIDE DEF id
        <5> QED BY <2>1, <3>1, <5>1, <5>2 DEF Live
      <4>2. CASE i # id + 1
        <5>1. i \in DOMAIN entries[t] /\ entries'[t][i] = entries[t][i] /\ entries[t][i] # Null
          BY <3>2, <3>3, <4>2
        <5>2. entries[t][i][1] \in Column
          BY <5>1, HeldColumn
        <5>3. entries[t][i][2] = t /\ t \in Members /\ Live(entries[t][i][1]) /\ tls_id[entries[t][i][1]] = i - 1
          BY <1>0, <5>1 DEF RowOK
        <5>4. tls_id' = tls_id /\ dropped' = dropped
          BY <2>1 DEF meta
        <5> QED BY <2>1, <5>1, <5>3, <5>4 DEF Live
      <4> QED BY <4>1, <4>2
    <3> QED BY <3>4, <3>5 DEF CellInv, RowOK
  <2> QED BY <1>6, <2>2, <2>3, UseCellEffect
<1>7. ASSUME NEW t \in Thread, DropRow(t) PROVE CellInv'
  <2>1. UNCHANGED <<registered, meta>> /\ exited' = exited \cup {t} /\ Empty(RowCells(t))
    BY <1>7 DEF DropRow, ring, RowCells
  <2>2. ASSUME NEW u \in Thread PROVE RowOK(u)'
    <3>1. Len(entries'[u]) = Len(entries[u]) /\ DOMAIN entries'[u] = DOMAIN entries[u]
      BY <2>1, EmptyEffect
    <3>2. \A i \in DOMAIN entries[u] :
            entries'[u][i] = IF <<u, i - 1>> \in RowCells(t) THEN Null ELSE entries[u][i]
      BY <2>1, EmptyEffect
    <3>3. CASE u = t
      <4>1. \A i \in DOMAIN entries'[u] : entries'[u][i] = Null
        BY <3>1, <3>2, <3>3 DEF RowCells
      <4> QED BY <1>0, <1>3, <2>1, <3>1, <4>1 DEF RowOK
    <3>4. CASE u # t
      <4>1. u \in Members => u \in Members'
        BY <2>1, <3>4 DEF Members
      <4>2. \A i \in DOMAIN entries'[u] : \/ entries'[u][i] = Null
                                          \/ i \in DOMAIN entries[u] /\ entries'[u][i] = entries[u][i]
        BY <3>1, <3>2
      <4> QED BY <1>0, <1>3, <2>1, <3>1, <4>1, <4>2, RowKept
    <3> QED BY <3>3, <3>4
  <2> QED BY <2>2 DEF CellInv, RowOK
<1>8. ASSUME NEW t \in Thread, Start(t) PROVE CellInv'
  BY <1>4, <1>8 DEF Start, ring
<1>9. ASSUME NEW t \in Thread, EnsureRegistered(t) PROVE CellInv'
  <2>1. UNCHANGED <<meta, entries, exited>> /\ \A u \in Thread : registered[u] => registered'[u]
    BY <1>9 DEF EnsureRegistered, ring, Types
  <2> QED BY <1>4, <2>1
<1>10. ASSUME UNCHANGED vars PROVE CellInv'
  BY <1>4, <1>10 DEF vars, ring
<1> QED BY <1>1, <1>2, <1>5, <1>6, <1>7, <1>8, <1>9, <1>10 DEF Next

(***************************************************************************)
(* The objects.                                                            *)
(***************************************************************************)
\* What ObjectInv says of one object.
ObjectOK(o) ==
  /\ o \in made => tls_id[o[1]] # Null
  /\ o \in made /\ ~Gone(o) => InCell(o)
  /\ unrefs[o] = IF o \in made /\ Gone(o) /\ o[1] \in WithHandler THEN <<o[1]>> ELSE <<>>
  /\ \A t \in Thread : \A i \in DOMAIN entries[t] : entries[t][i] = o => o \in made

LEMMA ObjectParts == ObjectInv <=> \A o \in Object : ObjectOK(o)
BY DEF ObjectInv, ObjectOK

LEMMA ObjectPair ==
  ASSUME NEW o \in Object
  PROVE  o[1] \in Column /\ o[2] \in Thread /\ o = <<o[1], o[2]>> /\ o # Null
BY NullIsNoObject DEF Object

\* An object in a cell is in use.
LEMMA HeldObject ==
  ASSUME Types, CellInv, ObjectInv, NEW o \in Object, NEW t \in Thread, NEW i \in DOMAIN entries[t],
         entries[t][i] = o
  PROVE  o \in made /\ ~Gone(o) /\ o[2] = t /\ t \in Members /\ Live(o[1]) /\ tls_id[o[1]] = i - 1
<1>1. o \in made /\ o # Null
  BY ObjectPair DEF ObjectInv
<1>2. o[2] = t /\ t \in Members /\ Live(o[1]) /\ tls_id[o[1]] = i - 1
  BY <1>1 DEF CellInv
<1> QED BY <1>1, <1>2 DEF Gone, Live, Members

\* Its cell, for an object in use.
LEMMA CellOfObject ==
  ASSUME Types, CellInv, ObjectInv, NEW o \in Object, o \in made, ~Gone(o)
  PROVE  /\ tls_id[o[1]] \in Nat /\ Live(o[1]) /\ o[2] \in Members /\ InCell(o)
         /\ tls_id[o[1]] + 1 \in DOMAIN entries[o[2]] /\ entries[o[2]][tls_id[o[1]] + 1] = o
<1>1. tls_id[o[1]] # Null /\ InCell(o) /\ o[1] \in Column /\ o[2] \in Thread
  BY ObjectPair DEF ObjectInv
<1>2. tls_id[o[1]] \in Nat /\ Live(o[1])
  BY <1>1 DEF Types, Ids, Gone, Live
<1>3. entries[o[2]] \in Seq(Object \cup {Null})
  BY <1>1 DEF Types
<1>4. tls_id[o[1]] + 1 \in DOMAIN entries[o[2]]
  BY <1>1, <1>2, <1>3 DEF InCell, HasCell
<1>5. entries[o[2]][tls_id[o[1]] + 1] = o
  BY <1>1 DEF InCell, Cell
<1>6. o[2] \in Members
  BY <1>1, <1>4, <1>5, HeldObject
<1> QED BY <1>1, <1>2, <1>4, <1>5, <1>6

\* Emptying exactly the cells of the objects that go.
LEMMA ObjectsEmptied ==
  ASSUME Types, IdInv, CellInv, ObjectInv, NEW cells, Empty(cells),
         \A y \in cells : \E t \in Thread : \E i \in DOMAIN entries[t] : y = <<t, i - 1>>,
         made' = made, tls_id' = tls_id, \A o \in Object : Gone(o) => Gone(o)',
         \A o \in Object : o \in made /\ ~Gone(o) => (Gone(o)' <=> <<o[2], tls_id[o[1]]>> \in cells)
  PROVE  ObjectInv'
<1> SUFFICES ASSUME NEW o \in Object PROVE ObjectOK(o)'
  BY DEF ObjectInv, ObjectOK
<1> DEFINE y == <<o[2], tls_id[o[1]]>>
<1>1. unrefs'[o] = IF InCell(o) /\ y \in cells /\ o[1] \in WithHandler
                   THEN Append(unrefs[o], o[1]) ELSE unrefs[o]
  BY EmptyCalls
<1>2. /\ \A t \in Thread : DOMAIN entries'[t] = DOMAIN entries[t] /\ Len(entries'[t]) = Len(entries[t])
      /\ \A t \in Thread : \A i \in DOMAIN entries[t] :
           entries'[t][i] = IF <<t, i - 1>> \in cells THEN Null ELSE entries[t][i]
  BY EmptyEffect
<1>3. \A t \in Thread : \A i \in DOMAIN entries'[t] : entries'[t][i] = o => o \in made'
  BY <1>2, ObjectPair DEF ObjectInv
<1>4. /\ o \in made => tls_id[o[1]] # Null
      /\ unrefs[o] = IF o \in made /\ Gone(o) /\ o[1] \in WithHandler THEN <<o[1]>> ELSE <<>>
  BY DEF ObjectInv
<1>5. CASE o \in made /\ ~Gone(o)
  <2>1. /\ tls_id[o[1]] \in Nat /\ InCell(o) /\ o[2] \in Thread
        /\ tls_id[o[1]] + 1 \in DOMAIN entries[o[2]] /\ entries[o[2]][tls_id[o[1]] + 1] = o
    BY <1>5, CellOfObject, ObjectPair
  <2>2. unrefs[o] = <<>>
    BY <1>4, <1>5
  <2>3. CASE y \in cells
    <3>1. Gone(o)'
      BY <1>5, <2>3
    <3>2. Append(<<>>, o[1]) = <<o[1]>>
      OBVIOUS
    <3>3. unrefs'[o] = IF o[1] \in WithHandler THEN <<o[1]>> ELSE <<>>
      BY <1>1, <2>1, <2>2, <2>3, <3>2
    <3> QED BY <1>3, <1>4, <1>5, <3>1, <3>3 DEF ObjectOK
  <2>4. CASE y \notin cells
    <3>1. ~Gone(o)'
      BY <1>5, <2>4
    <3>2. unrefs'[o] = <<>>
      BY <1>1, <2>2, <2>4
    <3>3. (tls_id[o[1]] + 1) - 1 = tls_id[o[1]]
      BY <2>1
    <3>4. entries'[o[2]][tls_id[o[1]] + 1] = o
      BY <1>2, <2>1, <2>4, <3>3
    <3>5. InCell(o)'
      BY <1>2, <2>1, <3>4 DEF InCell, HasCell, Cell
    <3> QED BY <1>3, <1>4, <1>5, <3>1, <3>2, <3>5 DEF ObjectOK
  <2> QED BY <2>3, <2>4
<1>6. CASE ~(o \in made /\ ~Gone(o))
  <2>1. ~(InCell(o) /\ y \in cells)
    <3> SUFFICES ASSUME InCell(o), y \in cells PROVE FALSE
      OBVIOUS
    <3>1. PICK t \in Thread : \E i \in DOMAIN entries[t] : y = <<t, i - 1>>
      OBVIOUS
    <3>2. PICK i \in DOMAIN entries[t] : y = <<t, i - 1>>
      BY <3>1
    <3>3. i \in Nat /\ o[2] = t /\ tls_id[o[1]] = i - 1
      BY <3>2 DEF Types
    <3>4. entries[t][i] = o
      BY <3>3 DEF InCell, Cell
    <3> QED BY <1>6, <3>4, HeldObject
  <2>2. unrefs'[o] = unrefs[o]
    BY <1>1, <2>1
  <2>3. Gone(o) => Gone(o)'
    OBVIOUS
  <2> QED BY <1>3, <1>4, <1>6, <2>2, <2>3 DEF ObjectOK
<1> QED BY <1>5, <1>6

LEMMA ObjectsAfterRemove ==
  ASSUME Types, RingInv, IdInv, CellInv, ObjectInv, NEW c \in Column, RemoveColumn(c)
  PROVE  ObjectInv'
<1>1. /\ tls_id' = tls_id /\ dropped' = dropped \cup {c} /\ exited' = exited /\ made' = made
      /\ Live(c) /\ Empty(ColumnCells(c))
  BY DEF RemoveColumn, ColumnCells
<1>2. \A o \in Object : Gone(o) => Gone(o)'
  BY <1>1 DEF Gone
<1>3. ASSUME NEW o \in Object, o \in made, ~Gone(o)
      PROVE  Gone(o)' <=> <<o[2], tls_id[o[1]]>> \in ColumnCells(c)
  <2>1. /\ Live(o[1]) /\ o[1] \in Column /\ o[2] \in Members /\ InCell(o)
    BY <1>3, CellOfObject, ObjectPair
  <2>2. Gone(o)' <=> o[1] = c
    BY <1>1, <1>3 DEF Gone
  <2>3. ASSUME o[1] = c PROVE <<o[2], tls_id[o[1]]>> \in ColumnCells(c)
    BY <2>1, <2>3, WalkedMembers DEF ColumnCells, InCell
  <2>4. ASSUME <<o[2], tls_id[o[1]]>> \in ColumnCells(c) PROVE o[1] = c
    <3>1. tls_id[o[1]] = tls_id[c]
      BY <2>4 DEF ColumnCells
    <3> QED BY <1>1, <2>1, <3>1 DEF IdInv
  <2> QED BY <2>2, <2>3, <2>4
<1> QED BY <1>1, <1>2, <1>3, CellsOfColumn, ObjectsEmptied

LEMMA ObjectsAfterExit ==
  ASSUME Types, IdInv, CellInv, ObjectInv, NEW t \in Thread, DropRow(t)
  PROVE  ObjectInv'
<1>1. /\ tls_id' = tls_id /\ dropped' = dropped /\ exited' = exited \cup {t} /\ made' = made
      /\ Empty(RowCells(t))
  BY DEF DropRow, RowCells, meta
<1>2. \A o \in Object : Gone(o) => Gone(o)'
  BY <1>1 DEF Gone
<1>3. ASSUME NEW o \in Object, o \in made, ~Gone(o)
      PROVE  Gone(o)' <=> <<o[2], tls_id[o[1]]>> \in RowCells(t)
  <2>1. tls_id[o[1]] \in Nat /\ tls_id[o[1]] + 1 \in DOMAIN entries[o[2]]
    BY <1>3, CellOfObject
  <2>2. Gone(o)' <=> o[2] = t
    BY <1>1, <1>3 DEF Gone
  <2>3. ASSUME o[2] = t PROVE <<o[2], tls_id[o[1]]>> \in RowCells(t)
    <3>1. tls_id[o[1]] = (tls_id[o[1]] + 1) - 1
      BY <2>1
    <3> QED BY <2>1, <2>3, <3>1 DEF RowCells
  <2>4. ASSUME <<o[2], tls_id[o[1]]>> \in RowCells(t) PROVE o[2] = t
    BY <2>4 DEF RowCells
  <2> QED BY <2>2, <2>3, <2>4
<1> QED BY <1>1, <1>2, <1>3, CellsOfRow, ObjectsEmptied

LEMMA ObjectStep ==
  ASSUME Types, RingInv, IdInv, CallInv, CellInv, ObjectInv, [Next]_vars
  PROVE  ObjectInv'
<1>0. \A o \in Object : ObjectOK(o)
  BY ObjectParts
<1>1. ASSUME NEW c \in Column, NewWithHandler(c) PROVE ObjectInv'
  <2>1. /\ tls_id[c] = Null /\ tls_id'[c] = NewId /\ \A d \in Column : d # c => tls_id'[d] = tls_id[d]
        /\ dropped' = dropped /\ UNCHANGED <<exited, entries, made, unrefs>>
    BY <1>1, NewTakes DEF Taken, NewWithHandler
  <2>2. ASSUME NEW o \in Object PROVE ObjectOK(o)'
    <3>1. Gone(o)' <=> Gone(o)
      BY <2>1 DEF Gone
    <3>2. o \in made => tls_id'[o[1]] = tls_id[o[1]]
      BY <1>0, <2>1, ObjectPair DEF ObjectOK
    <3>3. o \in made => (InCell(o)' <=> InCell(o))
      BY <2>1, <3>2 DEF InCell, HasCell, Cell
    <3> QED BY <1>0, <2>1, <3>1, <3>2, <3>3 DEF ObjectOK
  <2> QED BY <2>2 DEF ObjectInv, ObjectOK
<1>2. ASSUME NEW t \in Thread, Grow(t) PROVE ObjectInv'
  <2>1. UNCHANGED <<meta, exited, made, unrefs>>
    BY <1>2 DEF Grow
  <2>2. /\ \A u \in Thread : u # t => entries'[u] = entries[u]
        /\ \A i \in DOMAIN entries'[t] :
             \/ i \in DOMAIN entries[t] /\ entries'[t][i] = entries[t][i]
             \/ i \notin DOMAIN entries[t] /\ entries'[t][i] = Null
        /\ \A i \in DOMAIN entries[t] : i \in DOMAIN entries'[t] /\ entries'[t][i] = entries[t][i]
        /\ entries' \in [Thread -> Seq(Object \cup {Null})]
    BY <1>2, GrowEffect
  <2>3. \A u \in Thread : \A i \in DOMAIN entries[u] : i \in DOMAIN entries'[u] /\ entries'[u][i] = entries[u][i]
    BY <2>2
  <2>4. ASSUME NEW o \in Object PROVE ObjectOK(o)'
    <3>1. (Gone(o)' <=> Gone(o)) /\ tls_id' = tls_id
      BY <2>1 DEF Gone, meta
    <3>2. ASSUME o \in made, ~Gone(o) PROVE InCell(o)'
      <4>1. /\ tls_id[o[1]] \in Nat /\ o[2] \in Thread
            /\ tls_id[o[1]] + 1 \in DOMAIN entries[o[2]] /\ entries[o[2]][tls_id[o[1]] + 1] = o
        BY <3>2, CellOfObject, ObjectPair
      <4>2. tls_id[o[1]] + 1 \in DOMAIN entries'[o[2]] /\ entries'[o[2]][tls_id[o[1]] + 1] = o
        BY <2>3, <4>1
      <4>3. tls_id[o[1]] < Len(entries'[o[2]])
        BY <2>2, <4>1, <4>2
      <4> QED BY <3>1, <4>2, <4>3 DEF InCell, HasCell, Cell
    <3>3. \A u \in Thread : \A i \in DOMAIN entries'[u] : entries'[u][i] = o => o \in made
      <4> SUFFICES ASSUME NEW u \in Thread, NEW i \in DOMAIN entries'[u], entries'[u][i] = o
                   PROVE  o \in made
        OBVIOUS
      <4>1. i \in DOMAIN entries[u] /\ entries[u][i] = o
        BY <2>2, ObjectPair
      <4> QED BY <4>1 DEF ObjectInv
    <3> QED BY <1>0, <2>1, <3>1, <3>2, <3>3 DEF ObjectOK
  <2> QED BY <2>4 DEF ObjectInv, ObjectOK
<1>3. ASSUME UNCHANGED <<meta, entries, exited, made, unrefs>> PROVE ObjectInv'
  BY <1>3 DEF ObjectInv, meta, Gone, InCell, HasCell, Cell
<1>4. ASSUME NEW t \in Thread, UseCell(t) PROVE ObjectInv'
  <2>1. UNCHANGED <<meta, exited, unrefs>>
    BY <1>4 DEF UseCell
  <2>2. CASE UNCHANGED <<entries, made>>
    BY <1>3, <2>1, <2>2
  <2>3. CASE Filled(t)
    <3>1. PICK c \in Column : c = access[t].col
      BY <1>4, UseCellEffect
    <3> DEFINE id == tls_id[c]
    <3>2. Live(c) /\ t \notin exited /\ id \in Nat /\ HasCell(t, id)
      BY <1>4, <3>1, UseCellEffect DEF Ids
    <3>3. /\ entries[t][id + 1] = Null /\ made' = made \cup {<<c, t>>} /\ <<c, t>> \in Object
          /\ \A u \in Thread : DOMAIN entries'[u] = DOMAIN entries[u] /\ Len(entries'[u]) = Len(entries[u])
          /\ \A u \in Thread : \A i \in DOMAIN entries[u] :
               entries'[u][i] = IF u = t /\ i = id + 1 THEN <<c, t>> ELSE entries[u][i]
      BY <2>3, <3>1 DEF Filled, Cell, Object
    <3>4. id + 1 \in DOMAIN entries[t]
      BY <3>2 DEF HasCell, Types
    <3>5. tls_id' = tls_id /\ dropped' = dropped
      BY <2>1 DEF meta
    <3>6. ASSUME NEW o \in Object PROVE ObjectOK(o)'
      <4>1. Gone(o)' <=> Gone(o)
        BY <2>1, <3>5 DEF Gone
      <4>2. \A u \in Thread : \A i \in DOMAIN entries'[u] : entries'[u][i] = o => o \in made'
        <5> SUFFICES ASSUME NEW u \in Thread, NEW i \in DOMAIN entries'[u], entries'[u][i] = o
                     PROVE  o \in made'
          OBVIOUS
        <5>1. i \in DOMAIN entries[u] /\ (entries[u][i] = o \/ o = <<c, t>>)
          BY <3>3
        <5> QED BY <3>3, <5>1 DEF ObjectInv
      <4>3. CASE o = <<c, t>>
        <5>1. o[1] = c /\ o[2] = t /\ o \in made' /\ ~Gone(o) /\ tls_id[o[1]] # Null
          BY <3>2, <3>3, <4>3 DEF Gone, Live
        <5>2. unrefs'[o] = <<>>
          BY <1>0, <2>1, <5>1 DEF ObjectOK
        <5>3. InCell(o)'
          BY <3>2, <3>3, <3>4, <3>5, <4>3, <5>1 DEF InCell, HasCell, Cell
        <5> QED BY <3>5, <4>1, <4>2, <5>1, <5>2, <5>3 DEF ObjectOK
      <4>4. CASE o # <<c, t>>
        <5>1. o \in made' <=> o \in made
          BY <3>3, <4>4
        <5>2. ASSUME o \in made, ~Gone(o) PROVE InCell(o)'
          <6>1. /\ tls_id[o[1]] \in Nat /\ InCell(o) /\ o[2] \in Thread
                /\ tls_id[o[1]] + 1 \in DOMAIN entries[o[2]] /\ entries[o[2]][tls_id[o[1]] + 1] = o
            BY <5>2, CellOfObject, ObjectPair
          <6>2. entries'[o[2]][tls_id[o[1]] + 1] = o
            BY <3>3, <6>1, ObjectPair
          <6> QED BY <3>3, <3>5, <6>1, <6>2 DEF InCell, HasCell, Cell
        <5> QED BY <1>0, <2>1, <3>5, <4>1, <4>2, <5>1, <5>2 DEF ObjectOK
      <4> QED BY <4>3, <4>4
    <3> QED BY <3>6 DEF ObjectInv, ObjectOK
  <2> QED BY <1>4, <2>2, <2>3, UseCellEffect
<1>5. ASSUME NEW t \in Thread, Start(t) \/ EnsureRegistered(t) PROVE ObjectInv'
  BY <1>3, <1>5 DEF Start, EnsureRegistered
<1>6. ASSUME UNCHANGED vars PROVE ObjectInv'
  BY <1>3, <1>6 DEF vars
<1> QED BY <1>1, <1>2, <1>4, <1>5, <1>6, ObjectsAfterRemove, ObjectsAfterExit DEF Next

(***************************************************************************)
(* The theorems.                                                           *)
(***************************************************************************)
LEMMA Initially == Init => IInv
<1> SUFFICES ASSUME Init PROVE IInv
  OBVIOUS
<1>1. /\ next = [r \in Row |-> IF r = Sentinel THEN Sentinel ELSE Null] /\ prev = next
      /\ registered = [t \in Thread |-> FALSE] /\ entries = [t \in Thread |-> <<>>]
      /\ free_list = <<>> /\ next_tls_id = 0 /\ handlers = {} /\ tls_id = [c \in Column |-> Null]
      /\ dropped = {} /\ exited = {} /\ access = [t \in Thread |-> NoCall]
      /\ made = {} /\ unrefs = [o \in Object |-> <<>>]
  BY DEF Init
<1>2. Types
  <2>1. next \in [Row -> Row \cup {Null}] /\ prev \in [Row -> Row \cup {Null}]
    BY <1>1 DEF Row
  <2>2. access \in [Thread -> Calls]
    BY <1>1, NoCallIsCall
  <2>3. entries \in [Thread -> Seq(Object \cup {Null})] /\ unrefs \in [Object -> Seq(Column)]
    BY <1>1
  <2>4. /\ registered \in [Thread -> BOOLEAN] /\ exited \subseteq Thread
        /\ next_tls_id \in Nat /\ tls_id \in [Column -> Ids \cup {Null}]
        /\ free_list \in Seq(Ids) /\ handlers \subseteq Ids \X Column
        /\ dropped \subseteq Column /\ made \subseteq Object
    BY <1>1
  <2> QED BY <2>1, <2>2, <2>3, <2>4 DEF Types
<1>3. Members = {} /\ next[Sentinel] = Sentinel /\ prev[Sentinel] = Sentinel
  BY <1>1 DEF Members, Row
<1>4. RingInv
  BY <1>3 DEF RingInv
<1>5. \A c \in Column : ~Live(c)
  BY <1>1 DEF Live
<1>6. IdInv
  <2>1. {c \in Column : tls_id[c] # Null} = {}
    BY <1>1
  <2>2. Cardinality({}) = 0 /\ next_tls_id <= 0
    BY <1>1, FS_EmptySet
  <2>3. next_tls_id <= Cardinality({c \in Column : tls_id[c] # Null})
    BY <2>1, <2>2
  <2> QED BY <1>1, <1>5, <2>3 DEF IdInv
<1>7. CallInv
  BY <1>1 DEF CallInv, NoCall
<1>8. CellInv
  BY <1>1 DEF CellInv
<1>9. ObjectInv
  BY <1>1 DEF ObjectInv
<1> QED BY <1>2, <1>4, <1>6, <1>7, <1>8, <1>9 DEF IInv

\* The inductive invariant, from which the properties of the module follow.
THEOREM Invariance == Spec => []IInv
<1>1. ASSUME IInv, [Next]_vars PROVE IInv'
  <2>1. Types /\ RingInv /\ IdInv /\ CallInv /\ CellInv /\ ObjectInv
    BY <1>1 DEF IInv
  <2>2. Types'
    BY <1>1, <2>1, TypesStep
  <2>3. RingInv' /\ IdInv' /\ CellInv' /\ ObjectInv'
    BY <1>1, <2>1, RingStep, IdStep, CellStep, ObjectStep
  <2>4. CallInv'
    BY <1>1, <2>1, <2>2, CallStep
  <2> QED BY <2>2, <2>3, <2>4 DEF IInv
<1> QED BY <1>1, Initially, PTL DEF Spec

LEMMA InvType == IInv => TypeOK
<1> SUFFICES ASSUME IInv PROVE TypeOK
  OBVIOUS
<1>1. Types /\ IdInv /\ CellInv
  BY DEF IInv
<1>2. next_tls_id \in Nat /\ Ids = 0 .. next_tls_id - 1 /\ free_list \in Seq(Ids)
  BY <1>1 DEF Types, Ids
<1>3. ToSet(free_list) \subseteq Ids
  BY <1>2 DEF ToSet
<1>4. next_tls_id <= Cardinality(Column)
  <2> DEFINE taken == {c \in Column : tls_id[c] # Null}
  <2>1. taken \subseteq Column /\ next_tls_id <= Cardinality(taken)
    BY <1>1 DEF IdInv
  <2>2. Cardinality(taken) <= Cardinality(Column) /\ Cardinality(taken) \in Nat /\ Cardinality(Column) \in Nat
    <3> HIDE DEF taken
    <3> QED BY <2>1, ColumnAssumption, FS_Subset, FS_CardinalityType
  <2> HIDE DEF taken
  <2> QED BY <1>2, <2>1, <2>2
<1>5. \A t \in Thread : entries[t] \in Seq(Object \cup {Null}) /\ Len(entries[t]) <= next_tls_id
  BY <1>1 DEF Types, CellInv
<1>6. \A c \in Column : tls_id[c] \in Ids \cup {Null}
  BY <1>1 DEF Types
<1>7. /\ next \in [Row -> Row \cup {Null}] /\ prev \in [Row -> Row \cup {Null}]
      /\ registered \in [Thread -> BOOLEAN] /\ handlers \subseteq Ids \X Column
      /\ dropped \subseteq Column /\ exited \subseteq Thread
  BY <1>1 DEF Types
<1> QED BY <1>2, <1>3, <1>4, <1>5, <1>6, <1>7 DEF TypeOK

LEMMA InvRing == IInv => RingComplete
<1> SUFFICES ASSUME IInv PROVE RingComplete
  OBVIOUS
<1>1. RingInv /\ Walked = Members
  BY WalkedMembers DEF IInv
<1> QED BY <1>1 DEF RingComplete, RingInv, Members

LEMMA InvCells == IInv => CellsMatchColumns
<1> SUFFICES ASSUME IInv PROVE CellsMatchColumns
  OBVIOUS
<1>1. Types /\ IdInv /\ CellInv
  BY DEF IInv
<1>2. \A c \in Column : Live(c) => tls_id[c] \notin ToSet(free_list)
  BY <1>1 DEF IdInv, Types, ToSet
<1> QED BY <1>1, <1>2 DEF CellsMatchColumns, IdInv, CellInv

LEMMA InvReclaimed == IInv => ReclaimedOnce
<1> SUFFICES ASSUME IInv, NEW o \in made
             PROVE  /\ Len(unrefs[o]) <= 1
                    /\ \A h \in Range(unrefs[o]) : h = o[1]
                    /\ (\A t \in Thread : o \notin Range(entries[t])) /\ o[1] \in WithHandler
                         => unrefs[o] # <<>>
  BY DEF ReclaimedOnce
<1>1. Types /\ CellInv /\ ObjectInv
  BY DEF IInv
<1>2. o \in Object
  BY <1>1 DEF Types
<1>3. unrefs[o] = IF Gone(o) /\ o[1] \in WithHandler THEN <<o[1]>> ELSE <<>>
  BY <1>1, <1>2 DEF ObjectInv
<1>4. Len(unrefs[o]) <= 1 /\ \A h \in Range(unrefs[o]) : h = o[1]
  BY <1>3 DEF Range
<1>5. ASSUME \A t \in Thread : o \notin Range(entries[t]) PROVE Gone(o)
  <2> SUFFICES ASSUME ~Gone(o) PROVE FALSE
    OBVIOUS
  <2>1. o[2] \in Thread /\ tls_id[o[1]] + 1 \in DOMAIN entries[o[2]] /\ entries[o[2]][tls_id[o[1]] + 1] = o
    BY <1>1, <1>2, CellOfObject, ObjectPair
  <2> QED BY <1>5, <2>1 DEF Range
<1>6. <<o[1]>> # <<>>
  OBVIOUS
<1> QED BY <1>3, <1>4, <1>5, <1>6

\* Every id in use, free or with a handler has been handed out, no row is longer
\* than the ids handed out, and there are never more ids than columns were
\* created.
THEOREM TypeCorrect == Spec => []TypeOK
BY Invariance, InvType, PTL

\* Whatever threads come and go, the ring has exactly the rows of the registered
\* threads that have not exited, so that remove_column visits every row that
\* may hold an object of its column.
THEOREM RingAlwaysComplete == Spec => []RingComplete
BY Invariance, InvRing, PTL

\* A tls_id is never shared between live columns, and a cell never holds what
\* was made for an earlier owner of its id.
THEOREM CellsAlwaysMatch == Spec => []CellsMatchColumns
BY Invariance, InvCells, PTL

\* Every object is reclaimed at most once, by the handler of its own column, and
\* none leaves its cell without it.
THEOREM AlwaysReclaimedOnce == Spec => []ReclaimedOnce
BY Invariance, InvReclaimed, PTL

================================================================================
