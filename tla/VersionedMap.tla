------------------------------ MODULE VersionedMap ------------------------------
(***************************************************************************)
(* What a memtable promises: a set of versions that only grows, where an   *)
(* insert of a key that is already there changes nothing, and a read of a  *)
(* user key at a sequence number answers with the newest version no newer  *)
(* than that.  Every call takes effect at one instant between its start    *)
(* and its return.                                                         *)
(***************************************************************************)
EXTENDS InternalKey

CONSTANTS Client,  \* the threads that call
          Key,     \* the internal keys that may be inserted
          User, Snapshot,  \* the user keys and sequence numbers read
          None     \* no call in progress

VARIABLES
  map,   \* the versions: pairs of an internal key and a value (its inserter)
  call   \* call[c]: the call of client c, or its answer once it took effect

vars == <<map, call>>

InsertOps == [op : {"insert"}, key : Key]
GetOps == [op : {"get"}, user : User, seq : Snapshot]

Done == [op |-> "done"]
Panicked == [op |-> "panicked"]
Answer(kind, val) == [op |-> "answer", kind |-> kind, val |-> val]

Present(k) == \E e \in map : e[1] = k

\* The newest version of user u at or below seq s, and what a read makes of it.
Newest(u, s) ==
  LET seen == {e \in map : e[1].user = u /\ SeqOf(e[1]) <= s}
  IN {e \in seen : \A f \in seen : f[1].trailer <= e[1].trailer}

ReadOf(e) ==
  CASE OpOf(e[1]) = Put -> Answer("Value", e[2])
    [] OpOf(e[1]) = Delete -> Answer("Deleted", None)
    [] OpOf(e[1]) = Merge -> Answer("Merge", None)

Get(u, s) == IF Newest(u, s) = {} THEN Answer("NotFound", None)
             ELSE ReadOf(CHOOSE e \in Newest(u, s) : TRUE)

Init == map = {} /\ call = [c \in Client |-> None]

Call(c) ==
  /\ call[c] = None
  /\ call'[c] \in InsertOps \cup GetOps
  /\ call' = [call EXCEPT ![c] = call'[c]]
  /\ UNCHANGED map

Insert(c) ==
  /\ call[c] \in InsertOps
  /\ map' = IF Present(call[c].key) THEN map
            ELSE map \cup {<<call[c].key, c>>}
  /\ call' = [call EXCEPT ![c] = Done]

Read(c) ==
  /\ call[c] \in GetOps
  /\ call' = [call EXCEPT ![c] = Get(call[c].user, call[c].seq)]
  /\ UNCHANGED map

\* A call that took effect returns.
Return(c) ==
  /\ call[c] \notin InsertOps \cup GetOps \cup {None, Panicked}
  /\ call' = [call EXCEPT ![c] = None]
  /\ UNCHANGED map

\* An insert that finds no memory panics without effect.
Panic(c) ==
  /\ call[c] \in InsertOps
  /\ call' = [call EXCEPT ![c] = Panicked]
  /\ UNCHANGED map

\* In every step the call of one client moves on.
Step(c) == Call(c) \/ Insert(c) \/ Read(c) \/ Return(c) \/ Panic(c)

Next == \E c \in Client : call'[c] # call[c] /\ Step(c)

Spec == Init /\ [][Next]_vars
================================================================================
