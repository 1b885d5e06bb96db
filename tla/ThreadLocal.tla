------------------------------ MODULE ThreadLocal ------------------------------
(***************************************************************************)
(* The thread-local matrix of crates/engine/src/thread_local_storage.      *)
(* Every thread that has used it owns a row, linked into a ring; every     *)
(* ThreadLocalPtr owns a column, identified by a tls_id that is reused     *)
(* after the column is dropped.  A cell holds the object a subsystem made  *)
(* for one thread, or null.                                                *)
(*                                                                         *)
(* One mutex guards the ring, the ids, the handlers and the length of the  *)
(* rows: a critical section is one step.  A thread reads and writes cells  *)
(* of its own row without it; the owner of a column has stopped all access *)
(* to that column before it drops it, as the code demands of it.           *)
(***************************************************************************)
EXTENDS Integers, Sequences, SequencesExt, FiniteSets

CONSTANTS Thread,       \* threads
          Column,       \* ThreadLocalPtr instances, each created once
          WithHandler,  \* the columns created with an unref handler
          Null,         \* the null pointer, no id
          Sentinel      \* ThreadMetaGlobal.head

ASSUME NamesAssumption == /\ WithHandler \subseteq Column
                          /\ Null \notin Thread \cup {Sentinel}
                          /\ Sentinel \notin Thread
                          /\ Null \notin Nat /\ Null \notin Column \X Thread
ASSUME ColumnAssumption == IsFiniteSet(Column)

VARIABLES
  next, prev,    \* the ring of rows
  registered,    \* ThreadData.registered
  entries,       \* entries[t]: the cells of t's row
  free_list,     \* tls_id_free_list
  next_tls_id,   \* the ids handed out so far
  handlers,      \* unref_handler_map: the ids with a handler, and whose it is
  tls_id,        \* tls_id[c]: the id of column c, Null before it exists
  dropped,       \* columns dropped
  exited,        \* threads that have exited
  access,        \* access[t]: the call t is making on a column, and its step
  made, unrefs   \* history: objects made, and the handlers called on each

ring == <<next, prev, registered>>
meta == <<free_list, next_tls_id, handlers, tls_id, dropped>>
vars == <<ring, entries, meta, exited, access, made, unrefs>>

Row == Thread \cup {Sentinel}
NoCall == [op |-> "none", col |-> Null, pc |-> "idle"]
Ops == {"get", "get_or_init", "init"}

\* The object a subsystem makes for thread t in column c.
Object == Column \X Thread

Init ==
  /\ next = [r \in Row |-> IF r = Sentinel THEN Sentinel ELSE Null]
  /\ prev = next
  /\ registered = [t \in Thread |-> FALSE]
  /\ entries = [t \in Thread |-> <<>>]
  /\ free_list = <<>> /\ next_tls_id = 0 /\ handlers = {}
  /\ tls_id = [c \in Column |-> Null]
  /\ dropped = {} /\ exited = {}
  /\ access = [t \in Thread |-> NoCall]
  /\ made = {} /\ unrefs = [o \in Object |-> <<>>]

\* Ids count from 0, cells of a row from 1.
Cell(t, id) == entries[t][id + 1]
HasCell(t, id) == id < Len(entries[t])

-----------------------------------------------------------------------------
(* Columns                                                                 *)

\* Mutant: a fresh id is handed out without being counted.
NewWithHandlerUncounted(c) ==
  /\ tls_id[c] = Null
  /\ LET id == IF free_list = <<>> THEN next_tls_id ELSE Last(free_list)
     IN /\ tls_id' = [tls_id EXCEPT ![c] = id]
        /\ handlers' = {h \in handlers : h[1] # id}
                       \cup {<<id, d>> : d \in {c} \cap WithHandler}
  /\ free_list' = IF free_list = <<>> THEN <<>> ELSE Front(free_list)
  /\ UNCHANGED <<ring, entries, next_tls_id, dropped, exited, access, made, unrefs>>

\* new_with_handler pops a free id or takes the next, and enters the handler or
\* removes what the id's last owner left.
NewWithHandler(c) ==
  /\ tls_id[c] = Null
  /\ LET id == IF free_list = <<>> THEN next_tls_id ELSE Last(free_list)
     IN /\ tls_id' = [tls_id EXCEPT ![c] = id]
        /\ handlers' = {h \in handlers : h[1] # id}
                       \cup {<<id, d>> : d \in {c} \cap WithHandler}
  /\ free_list' = IF free_list = <<>> THEN <<>> ELSE Front(free_list)
  /\ next_tls_id' = IF free_list = <<>> THEN next_tls_id + 1 ELSE next_tls_id
  /\ UNCHANGED <<ring, entries, dropped, exited, access, made, unrefs>>

Live(c) == tls_id[c] # Null /\ c \notin dropped

\* The owner's obligation before it drops the column.
Quiesced(c) == \A t \in Thread : access[t].col # c

\* The rows a walk of the ring from the sentinel visits: the least set that has
\* the first row and the successor of each of its members.
WalkClosed(S) == \A r \in S \cup {Sentinel} : next[r] \in Thread => next[r] \in S

Walked == {t \in Thread : \A S \in SUBSET Thread : WalkClosed(S) => t \in S}

\* The handlers the map has for an id: at most one.
HandlerOf(id) == {h[2] : h \in {g \in handlers : g[1] = id}}

\* The handlers called on an object when the cells <<row, id>> are emptied.
Called(o, cells) ==
  UNION {HandlerOf(x[2]) : x \in {y \in cells : Cell(y[1], y[2]) = o}}

\* Mutant: a cell whose id has a handler is not emptied.
EmptyKeeps(cells) ==
  /\ entries' = [t \in Thread |-> [i \in DOMAIN entries[t] |->
                   IF <<t, i - 1>> \in cells /\ HandlerOf(i - 1) = {}
                   THEN Null ELSE entries[t][i]]]
  /\ unrefs' = [o \in Object |-> unrefs[o] \o SetToSeq(Called(o, cells))]

\* Each cell is swapped with null, and the handler of its id, if there is one,
\* is called on what was there.
Empty(cells) ==
  /\ entries' = [t \in Thread |-> [i \in DOMAIN entries[t] |->
                   IF <<t, i - 1>> \in cells THEN Null ELSE entries[t][i]]]
  /\ unrefs' = [o \in Object |-> unrefs[o] \o SetToSeq(Called(o, cells))]

\* Mutant: the handler leaves the map before the walk looks it up.
RemoveColumnLate(c) ==
  LET id == tls_id[c]
  IN /\ Live(c) /\ Quiesced(c)
     /\ entries' = [t \in Thread |->
                      IF t \in Walked /\ HasCell(t, id)
                      THEN [entries[t] EXCEPT ![id + 1] = Null] ELSE entries[t]]
     /\ handlers' = {h \in handlers : h[1] # id}
     /\ free_list' = Append(free_list, id)
     /\ dropped' = dropped \cup {c}
     /\ UNCHANGED <<ring, next_tls_id, tls_id, exited, access, made, unrefs>>

\* remove_column empties the column's cell in every row of the ring, takes the
\* handler out of the map and returns the id.
RemoveColumn(c) ==
  LET id == tls_id[c]
  IN /\ Live(c) /\ Quiesced(c)
     /\ Empty({<<t, id>> : t \in {r \in Walked : HasCell(r, id)}})
     /\ handlers' = {h \in handlers : h[1] # id}
     /\ free_list' = Append(free_list, id)
     /\ dropped' = dropped \cup {c}
     /\ UNCHANGED <<ring, next_tls_id, tls_id, exited, access, made>>

-----------------------------------------------------------------------------
(* Access by a thread: with_tlp_ptr around get, get_or_init(_mut) or init   *)

Start(t) ==
  /\ t \notin exited /\ access[t] = NoCall
  /\ \E c \in Column, op \in Ops :
       /\ Live(c)
       /\ access' = [access EXCEPT ![t] = [op |-> op, col |-> c, pc |-> "register"]]
  /\ UNCHANGED <<ring, entries, meta, exited, made, unrefs>>

Goto(t, label) == access' = [access EXCEPT ![t].pc = label]

\* Mutant: the old first row keeps the sentinel as its predecessor.
EnsureRegisteredNoPrev(t) ==
  /\ access[t].pc = "register"
  /\ IF registered[t] THEN UNCHANGED ring
     ELSE /\ next' = [next EXCEPT ![t] = next[Sentinel], ![Sentinel] = t]
          /\ prev' = [prev EXCEPT ![t] = Sentinel]
          /\ registered' = [registered EXCEPT ![t] = TRUE]
  /\ Goto(t, "grow")
  /\ UNCHANGED <<entries, meta, exited, made, unrefs>>

\* ensure_registered links the row behind the sentinel, once.
EnsureRegistered(t) ==
  /\ access[t].pc = "register"
  /\ IF registered[t] THEN UNCHANGED ring
     ELSE LET first == next[Sentinel]
          IN /\ next' = [next EXCEPT ![t] = first, ![Sentinel] = t]
             /\ prev' = [prev EXCEPT ![t] = Sentinel, ![first] = t]
             /\ registered' = [registered EXCEPT ![t] = TRUE]
  /\ Goto(t, "grow")
  /\ UNCHANGED <<entries, meta, exited, made, unrefs>>

\* The row grows, with null cells, until it has one for the id.
Grow(t) ==
  LET id == tls_id[access[t].col]
  IN /\ access[t].pc = "grow"
     /\ entries' = IF HasCell(t, id) THEN entries
                   ELSE [entries EXCEPT ![t] =
                           @ \o [i \in 1 .. id + 1 - Len(@) |-> Null]]
     /\ Goto(t, "cell")
     /\ UNCHANGED <<ring, meta, exited, made, unrefs>>

\* The closure on the cell: get reads it, get_or_init fills it when it is null,
\* init fills a cell its contract says is null.  On any other cell the debug
\* assertion of init stops the thread; a release build, which has no such check,
\* would overwrite the object, and is outside that contract.
UseCell(t) ==
  LET c == access[t].col
      id == tls_id[c]
      empty == Cell(t, id) = Null
  IN /\ access[t].pc = "cell"
     /\ \/ /\ access[t].op \in {"get_or_init", "init"} /\ empty
           /\ entries' = [entries EXCEPT ![t][id + 1] = <<c, t>>]
           /\ made' = made \cup {<<c, t>>}
           /\ access' = [access EXCEPT ![t] = NoCall]
        \/ /\ access[t].op # "init" /\ (empty => access[t].op = "get")
           /\ access' = [access EXCEPT ![t] = NoCall]
           /\ UNCHANGED <<entries, made>>
        \/ /\ access[t].op = "init" /\ ~empty
           /\ access' = [access EXCEPT ![t] = [NoCall EXCEPT !.pc = "panic"]]
           /\ UNCHANGED <<entries, made>>
     /\ UNCHANGED <<ring, meta, exited, unrefs>>

-----------------------------------------------------------------------------
(* Thread exit                                                             *)

\* ThreadData::drop: drop_row unlinks the row, forgets its neighbours and empties
\* its cells.  A thread that never used the matrix has no row to drop.
DropRow(t) ==
  /\ access[t].pc \in {"idle", "panic"} /\ t \notin exited
  /\ exited' = exited \cup {t}
  /\ access' = [access EXCEPT ![t] = NoCall]
  /\ IF registered[t]
     THEN /\ next' = [next EXCEPT ![prev[t]] = next[t], ![t] = Null]
          /\ prev' = [prev EXCEPT ![next[t]] = prev[t], ![t] = Null]
          /\ UNCHANGED registered
     ELSE UNCHANGED ring
  /\ Empty({<<t, i - 1>> : i \in DOMAIN entries[t]})
  /\ UNCHANGED <<meta, made>>

Next ==
  \/ \E c \in Column : NewWithHandler(c) \/ RemoveColumn(c)
  \/ \E t \in Thread :
       Start(t) \/ EnsureRegistered(t) \/ Grow(t) \/ UseCell(t) \/ DropRow(t)

Spec == Init /\ [][Next]_vars

-----------------------------------------------------------------------------
(* Properties                                                              *)

\* Ids in use, free, or with a handler have been handed out, and no row is longer
\* than the ids handed out: with_tlp_ptr grows a row only as far as its column.
TypeOK ==
  /\ next \in [Row -> Row \cup {Null}] /\ prev \in [Row -> Row \cup {Null}]
  /\ registered \in [Thread -> BOOLEAN]
  /\ \A t \in Thread : entries[t] \in Seq(Object \cup {Null})
                       /\ Len(entries[t]) <= next_tls_id
  /\ \A c \in Column : tls_id[c] \in (0 .. next_tls_id - 1) \cup {Null}
  /\ ToSet(free_list) \subseteq 0 .. next_tls_id - 1
  /\ next_tls_id <= Cardinality(Column)
  /\ handlers \subseteq (0 .. next_tls_id - 1) \X Column
  /\ dropped \subseteq Column /\ exited \subseteq Thread

\* The ring holds exactly the rows of the registered threads, and prev undoes
\* next, whatever threads came and went: remove_column visits every row that
\* may hold an object of its column and no row of a thread that has gone.
RingComplete ==
  /\ Walked = {t \in Thread : registered[t]} \ exited
  /\ \A r \in Walked \cup {Sentinel} : prev[next[r]] = r

\* A tls_id is never shared: live columns have different ids, a free id belongs
\* to none of them, and what a cell holds was made for the column that owns
\* the id now, never for an earlier one (it would be used as the wrong type).
CellsMatchColumns ==
  /\ \A c, d \in Column : c # d /\ Live(c) /\ Live(d) => tls_id[c] # tls_id[d]
  /\ \A c \in Column : Live(c) => tls_id[c] \notin ToSet(free_list)
  /\ \A t \in Thread : \A i \in DOMAIN entries[t] :
       entries[t][i] # Null =>
         /\ entries[t][i][2] = t
         /\ Live(entries[t][i][1]) /\ tls_id[entries[t][i][1]] = i - 1

\* Every object is reclaimed at most once, by the handler of its own column;
\* one that is in no cell any more was reclaimed, if its column has a handler.
ReclaimedOnce ==
  \A o \in made :
    /\ Len(unrefs[o]) <= 1
    /\ \A h \in Range(unrefs[o]) : h = o[1]
    /\ (\A t \in Thread : o \notin Range(entries[t])) /\ o[1] \in WithHandler
         => unrefs[o] # <<>>
================================================================================
