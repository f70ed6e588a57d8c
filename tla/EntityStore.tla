----------------------------- MODULE EntityStore -----------------------------
(***************************************************************************)
(* What the back-office services share: a table is a function from the ids  *)
(* of its rows, a request is one handler cut at its awaits (one statement   *)
(* per action, as in BookingService), and an edit is TypeORM's save() of an *)
(* entity that was loaded a while ago: it selects the row again (a soft-    *)
(* deleted one too), compares, and updates the columns that differ.         *)
(*                                                                         *)
(* Nothing in the code keeps two requests apart.  KeptApart names the pairs *)
(* of operations a property needs kept apart; {} is the code as it is.      *)
(***************************************************************************)
EXTENDS Integers, FiniteSets

CONSTANTS
  Tasks,      \* requests one service may be working on at a time
  KeptApart,  \* {op1, op2}: op1 and op2 do not run at the same time
  Null        \* no row, no id, no value

ASSUME StoreAssumption == IsFiniteSet(Tasks)
-----------------------------------------------------------------------------
(* Tables *)

IsTable(table, Ids, Row) == DOMAIN table \subseteq Ids /\ table \in [DOMAIN table -> Row]
\* The serial key: the least id not given out yet
NextIds(Ids, given) == {i \in Ids \ given : \A j \in Ids \ given : i <= j}
Put(table, id, row) ==
  [i \in DOMAIN table \cup {id} |-> IF i = id THEN row ELSE table[i]]
Drop(table, ids) == [i \in DOMAIN table \ ids |-> table[i]]
-----------------------------------------------------------------------------
(* Requests *)

Idle == [pc |-> "idle", op |-> "none", id |-> Null, mem |-> Null, diff |-> {}]

\* mem is the entity in memory, diff the columns its save will write
Requests(Stages, Operations, Ids, Row) ==
  [pc : Stages \cup {"idle"}, op : Operations \cup {"none"}, id : Ids \cup {Null},
   mem : Row \cup {Null}, diff : SUBSET {"start", "end", "active", "deleted",
     "name", "image", "email", "role", "password", "first_login", "marked", "type"}]

MayStart(req, t, op) ==
  /\ req[t].pc = "idle"
  /\ \A other \in Tasks \ {t} :
       req[other].pc # "idle" => {op, req[other].op} \notin KeptApart

\* Bound: an id is kept for every insert under way, so that none waits for one
HasRoom(table, Ids, req, creating) ==
  Cardinality({t \in Tasks : req[t].op \in creating}) < Cardinality(Ids \ DOMAIN table)

\* The handler that loaded a row and assigned to it is about to save it
Saving(op, id, mem) == [Idle EXCEPT !.pc = "load", !.op = op, !.id = id, !.mem = mem]
Inserting(op, mem) == [Idle EXCEPT !.pc = "insert", !.op = op, !.mem = mem]
-----------------------------------------------------------------------------
(* save() *)

Changed(mem, row) == {c \in DOMAIN row : mem[c] # row[c]}
Saved(row, mem, columns) ==
  [c \in DOMAIN row |-> IF c \in columns THEN mem[c] ELSE row[c]]

\* The SELECT of save() ...
Selected(q, row) == [q EXCEPT !.pc = "flush", !.diff = Changed(q.mem, row)]
\* ... and its UPDATE
Flushed(q, row) == Saved(row, q.mem, q.diff)
=============================================================================
