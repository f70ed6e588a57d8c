------------------------------- MODULE RoomAdmin -------------------------------
(***************************************************************************)
(* room.service.ts and type_room.service.ts: rooms, their types and        *)
(* addRoom, the one handler whose transaction its statements run in.  Its   *)
(* writes (tx) are seen by nobody before the commit, and a row it wrote is  *)
(* locked till then; but it reads the rooms it renames on another           *)
(* connection.  Any number of addRooms overlap, of one type as well; of     *)
(* those that wait for each other's locks the database aborts one.          *)
(***************************************************************************)
EXTENDS EntityStore, Sequences

CONSTANTS
  HotelRooms,  \* ids of the rows table room may get
  Kinds,       \* ids of the rows table type_room may get
  Labels,      \* names of rooms and of types
  Lists        \* the room_names clients send to addRoom

RoomRow == [name : Labels, marked : BOOLEAN, type : Kinds \cup {Null}]
KindRow == [name : Labels]
RoomOps == {"createRoom", "updateRoom", "addRoom", "createType", "updateType", "removeType"}

\* What addRoom has of its type and its list: entries still to do, rooms the
\* type had and those not met yet, rows written and rows deleted; and, of the
\* past only, whether no other addRoom of its type has overlapped with it
Entries == Seq([id : HotelRooms \cup {Null}, name : Labels])
Written == UNION {[ids -> RoomRow] : ids \in SUBSET HotelRooms}
Transactions == [type : Kinds, list : Lists, todo : Entries, had : SUBSET HotelRooms,
                 ids : SUBSET HotelRooms, put : Written, gone : SUBSET HotelRooms,
                 alone : BOOLEAN]

ASSUME RoomAdminAssumption ==
  /\ HotelRooms \subseteq Nat /\ IsFiniteSet(HotelRooms) /\ IsFiniteSet(Kinds)
  /\ Null \notin HotelRooms \cup Kinds \cup Transactions
  /\ Lists \subseteq Entries

VARIABLES
  room,       \* table room
  type_room,  \* table type_room
  booked,     \* rooms some booked_room row points to
  room_ids,   \* ids the serial key has given out
  room_req,   \* what the service is doing
  tx          \* the transaction of each addRoom, or Null

room_vars == <<room, type_room, booked, room_ids, room_req, tx>>

RoomAdminType ==
  /\ IsTable(room, HotelRooms, RoomRow) /\ IsTable(type_room, Kinds, KindRow)
  /\ booked \subseteq room_ids /\ DOMAIN room \subseteq room_ids /\ room_ids \subseteq HotelRooms
  /\ room_req \in [Tasks -> Requests({"insert", "load", "flush", "entry", "write"},
                                     RoomOps, HotelRooms \cup Kinds, RoomRow \cup KindRow)]
  /\ tx \in [Tasks -> Transactions \cup {Null}]

RoomAdminInit ==
  /\ room = [i \in {} |-> Null] /\ type_room = [i \in {} |-> Null]
  /\ booked = {} /\ room_ids = {} /\ tx = [t \in Tasks |-> Null]
  /\ room_req = [t \in Tasks |-> Idle]

LOCAL Become(t, q) == room_req' = [room_req EXCEPT ![t] = q]
-----------------------------------------------------------------------------
(* What the database enforces: unique names, foreign keys, row locks *)

NamedAs(name, id) == \E i \in DOMAIN room \ {id} : room[i].name = name
RoomsOf(k) == {i \in DOMAIN room : room[i].type = k}
\* Rows, names and types that the transactions of these requests lock
Open == {t \in Tasks : tx[t] # Null}
Locked(ts) == UNION {DOMAIN tx[t].put \cup tx[t].gone : t \in ts}
LockedNames(ts) ==
  {room[i].name : i \in Locked(ts) \cap DOMAIN room}
    \cup UNION {{tx[t].put[i].name : i \in DOMAIN tx[t].put} : t \in ts}
LockedTypes ==
  UNION {{tx[t].put[i].type : i \in DOMAIN tx[t].put \ DOMAIN room} : t \in Open}
-----------------------------------------------------------------------------
(* Bookings, as far as table room shows them *)

MayMark == \A t \in Tasks : room_req[t].pc # "idle" => {"mark", room_req[t].op} \notin KeptApart

Mark(i) ==
  /\ MayMark /\ i \notin Locked(Open)
  /\ room' = [room EXCEPT ![i].marked = TRUE] /\ booked' = booked \cup {i}
  /\ UNCHANGED <<type_room, room_ids, room_req, tx>>

Unmark(i) ==
  /\ MayMark /\ i \notin Locked(Open)
  /\ room' = [room EXCEPT ![i].marked = FALSE]
  /\ UNCHANGED <<type_room, booked, room_ids, room_req, tx>>
-----------------------------------------------------------------------------
(* room.service.ts *)

\* create: the type it was asked for is looked up and forgotten
CreateRoom(t) ==
  /\ MayStart(room_req, t, "createRoom")
  /\ \E name \in Labels :
       /\ ~NamedAs(name, Null)
       /\ Become(t, Inserting("createRoom", [name |-> name, marked |-> FALSE, type |-> Null]))
  /\ UNCHANGED <<room, type_room, booked, room_ids, tx>>

\* Bound: a room whose id is not left is not inserted
InsertRoom(t) ==
  /\ room_req[t].pc = "insert" /\ room_req[t].op = "createRoom"
  /\ LET row == room_req[t].mem IN
     /\ row.name \notin LockedNames(Open)
     /\ IF NamedAs(row.name, Null) \/ room_ids = HotelRooms THEN UNCHANGED <<room, room_ids>>
        ELSE \E i \in NextIds(HotelRooms, room_ids) :
               room' = Put(room, i, row) /\ room_ids' = room_ids \cup {i}
  /\ Become(t, Idle)
  /\ UNCHANGED <<type_room, booked, tx>>

UpdateRoom(t, i) ==
  /\ MayStart(room_req, t, "updateRoom")
  /\ \E name \in Labels :
       Become(t, Saving("updateRoom", i, [room[i] EXCEPT !.name = name]))
  /\ UNCHANGED <<room, type_room, booked, room_ids, tx>>

\* save() never writes the type, which is not loaded - unless the row is gone
\* when it looks for it: then the entity is inserted, of no type
SelectedRoom(q, table) ==
  IF q.id \in DOMAIN table THEN [Selected(q, table[q.id]) EXCEPT !.diff = @ \ {"type"}]
  ELSE [q EXCEPT !.pc = "flush", !.mem.type = Null, !.diff = DOMAIN q.mem]
Inserts(q) == "type" \in q.diff

\* The row it writes, if any: an INSERT finds no row of the id, an UPDATE one
WritesRow(q, table) == q.diff # {} /\ Inserts(q) = (q.id \notin DOMAIN table)
RowOf(q, table) == IF Inserts(q) THEN q.mem ELSE Flushed(q, table[q.id])

\* ... and waits for who has locked its row or its name
MayFlush(q, ts) ==
  /\ q.diff # {} => q.id \notin Locked(ts)
  /\ "name" \in q.diff => q.mem.name \notin LockedNames(ts)

LoadRoom(t) ==
  /\ room_req[t].pc = "load" /\ room_req[t].op = "updateRoom"
  /\ Become(t, SelectedRoom(room_req[t], room))
  /\ UNCHANGED <<room, type_room, booked, room_ids, tx>>

FlushRoom(t) ==
  /\ room_req[t].pc = "flush" /\ room_req[t].op = "updateRoom"
  /\ LET q == room_req[t] IN
     /\ MayFlush(q, Open)
     /\ room' = IF WritesRow(q, room) /\ ~NamedAs(RowOf(q, room).name, q.id)
                THEN Put(room, q.id, RowOf(q, room)) ELSE room
  /\ Become(t, Idle)
  /\ UNCHANGED <<type_room, booked, room_ids, tx>>
-----------------------------------------------------------------------------
(* type_room.service.ts: types *)

InsertType(t) ==
  /\ MayStart(room_req, t, "createType")
  /\ \E k \in Kinds \ DOMAIN type_room, name \in Labels :
       /\ \A other \in DOMAIN type_room : type_room[other].name # name
       /\ type_room' = Put(type_room, k, [name |-> name])
  /\ UNCHANGED <<room, booked, room_ids, room_req, tx>>

\* update assigns every column; what it loaded only says that the row exists
UpdateType(t, k) ==
  /\ MayStart(room_req, t, "updateType")
  /\ \E name \in Labels : Become(t, [Saving("updateType", k, [name |-> name]) EXCEPT !.pc = "write"])
  /\ UNCHANGED <<room, type_room, booked, room_ids, tx>>

RemoveType(t, k) ==
  /\ MayStart(room_req, t, "removeType")
  /\ Become(t, [Saving("removeType", k, Null) EXCEPT !.pc = "write"])
  /\ UNCHANGED <<room, type_room, booked, room_ids, tx>>

\* A type with rooms is not deleted, and one that is getting a room only when
\* that is decided; a deleted one that is updated comes back
WriteType(t) ==
  /\ room_req[t].pc = "write"
  /\ LET q == room_req[t]
         taken == \E k \in DOMAIN type_room \ {q.id} : type_room[k].name = q.mem.name
     IN /\ q.op = "removeType" => q.id \notin LockedTypes
        /\ type_room' =
             CASE q.op = "removeType" /\ RoomsOf(q.id) = {} -> Drop(type_room, {q.id})
               [] q.op = "updateType" /\ ~taken -> Put(type_room, q.id, q.mem)
               [] OTHER -> type_room
  /\ Become(t, Idle)
  /\ UNCHANGED <<room, booked, room_ids, tx>>
-----------------------------------------------------------------------------
(* type_room.service.ts: addRoom *)

\* From here on the two of a type are not alone
Rivals(k) == {t \in Open : tx[t].type = k}
Meets(x, k) == [x EXCEPT !.alone = @ /\ x.type # k]

AddRoom(t, k) ==
  /\ MayStart(room_req, t, "addRoom")
  /\ \E list \in Lists :
       tx' = [u \in Tasks |->
                CASE u = t -> [type |-> k, list |-> list, todo |-> list, had |-> RoomsOf(k),
                               ids |-> RoomsOf(k), put |-> [i \in {} |-> Null], gone |-> {},
                               alone |-> Rivals(k) = {}]
                  [] u \in Open \ {t} -> Meets(tx[u], k)
                  [] OTHER -> Null]
  /\ Become(t, [Saving("addRoom", k, Null) EXCEPT !.pc = "entry"])
  /\ UNCHANGED <<room, type_room, booked, room_ids>>

\* The rows as a transaction sees them: its own, and what is committed
Seen(t) == [i \in (DOMAIN room \cup DOMAIN tx[t].put) \ tx[t].gone |->
              IF i \in DOMAIN tx[t].put THEN tx[t].put[i] ELSE room[i]]
Duplicate(t, name, id) == \E i \in DOMAIN Seen(t) \ {id} : Seen(t)[i].name = name
Others(t) == Open \ {t}
LOCAL Has(t, x) == tx' = [tx EXCEPT ![t] = x]

\* catch: rolled back, answered, released
Rollback(t) == tx' = [tx EXCEPT ![t] = Null] /\ Become(t, Idle)

AtEntry(t) == room_req[t].pc = "entry" /\ tx[t].todo # <<>>
AtEnd(t) == room_req[t].pc = "entry" /\ tx[t].todo = <<>>

\* An entry without id is inserted ...
AddEntry(t) ==
  /\ AtEntry(t) /\ Head(tx[t].todo).id = Null
  /\ LET x == tx[t]
         row == [name |-> Head(x.todo).name, marked |-> FALSE, type |-> x.type]
     IN /\ row.name \notin LockedNames(Others(t))
        /\ IF Duplicate(t, row.name, Null) \/ x.type \notin DOMAIN type_room
              \/ room_ids = HotelRooms
           THEN Rollback(t) /\ UNCHANGED room_ids
           ELSE \E i \in NextIds(HotelRooms, room_ids) :
                  /\ Has(t, [x EXCEPT !.todo = Tail(@), !.put = Put(@, i, row)])
                  /\ room_ids' = room_ids \cup {i}
                  /\ UNCHANGED room_req
  /\ UNCHANGED <<room, type_room, booked>>

\* Mutant: the room is built from the entry, its mark with it
ReadEntryMutant(t) ==
  /\ AtEntry(t) /\ Head(tx[t].todo).id # Null
  /\ LET x == tx[t]
         e == Head(x.todo)
     IN IF e.id \notin x.ids THEN Has(t, [x EXCEPT !.todo = Tail(@)]) /\ UNCHANGED room_req
        ELSE /\ Has(t, [x EXCEPT !.todo = Tail(@), !.ids = @ \ {e.id}])
             /\ Become(t, [room_req[t] EXCEPT !.pc = "load", !.id = e.id,
                             !.mem = [name |-> e.name, marked |-> FALSE, type |-> x.type]])
  /\ UNCHANGED <<room, type_room, booked, room_ids>>

\* ... one with the id of a room of the type is read, outside the transaction,
\* and saved if the name is new; any other id is passed over
ReadEntry(t) ==
  /\ AtEntry(t) /\ Head(tx[t].todo).id # Null
  /\ LET x == tx[t]
         e == Head(x.todo)
         next == [x EXCEPT !.todo = Tail(@), !.ids = @ \ {e.id}]
     IN CASE e.id \notin x.ids -> Has(t, [x EXCEPT !.todo = Tail(@)]) /\ UNCHANGED room_req
          [] e.id \in x.ids /\ e.id \notin DOMAIN room -> Rollback(t)
          [] e.id \in x.ids /\ e.id \in DOMAIN room /\ room[e.id].name = e.name ->
               Has(t, next) /\ UNCHANGED room_req
          [] OTHER -> /\ Has(t, next)
                      /\ Become(t, [room_req[t] EXCEPT !.pc = "load", !.id = e.id,
                                      !.mem = [room[e.id] EXCEPT !.name = e.name]])
  /\ UNCHANGED <<room, type_room, booked, room_ids>>

LoadEntry(t) ==
  /\ room_req[t].pc = "load" /\ room_req[t].op = "addRoom"
  /\ Become(t, SelectedRoom(room_req[t], Seen(t)))
  /\ UNCHANGED <<room, type_room, booked, room_ids, tx>>

\* An insert fails if the row is back, and either if the name is taken
FlushEntry(t) ==
  /\ room_req[t].pc = "flush" /\ room_req[t].op = "addRoom"
  /\ LET q == room_req[t]
         writes == WritesRow(q, Seen(t))
     IN /\ MayFlush(q, Others(t))
        /\ IF \/ Inserts(q) /\ ~writes
              \/ writes /\ Duplicate(t, RowOf(q, Seen(t)).name, q.id)
           THEN Rollback(t)
           ELSE /\ IF writes THEN Has(t, [tx[t] EXCEPT !.put = Put(@, q.id, RowOf(q, Seen(t)))])
                            ELSE UNCHANGED tx
                /\ Become(t, [q EXCEPT !.pc = "entry", !.mem = Null, !.diff = {}])
  /\ UNCHANGED <<room, type_room, booked, room_ids>>

\* Mutant: the rooms that are not in the list stay
DeleteRoomMutant(t) ==
  /\ AtEnd(t)
  /\ tx[t].ids # {} /\ Has(t, [tx[t] EXCEPT !.ids = {}])
  /\ UNCHANGED <<room, type_room, booked, room_ids, room_req>>

\* Then the rooms of the type that the list does not name are deleted, unless a
\* booking points to one
DeleteRoom(t) ==
  /\ AtEnd(t)
  /\ \E i \in tx[t].ids :
       /\ i \notin Locked(Others(t))
       /\ IF i \in booked THEN Rollback(t)
          ELSE /\ Has(t, [tx[t] EXCEPT !.ids = @ \ {i}, !.gone = @ \cup ({i} \cap DOMAIN room)])
               /\ UNCHANGED room_req
  /\ UNCHANGED <<room, type_room, booked, room_ids>>

CommitRooms(t) ==
  /\ AtEnd(t) /\ tx[t].ids = {}
  /\ room' = Seen(t) /\ Rollback(t)
  /\ UNCHANGED <<type_room, booked, room_ids>>

\* A statement fails (one of two that wait for each other as well) or the process
\* dies, and the transaction with it
AbortRooms(t) ==
  /\ room_req[t].pc # "idle"
  /\ Rollback(t)
  /\ UNCHANGED <<room, type_room, booked, room_ids>>

RoomAdminNext ==
  \/ \E i \in DOMAIN room : Mark(i) \/ Unmark(i)
  \/ \E t \in Tasks :
       \/ CreateRoom(t) \/ InsertRoom(t) \/ LoadRoom(t) \/ FlushRoom(t)
       \/ \E i \in DOMAIN room : UpdateRoom(t, i)
       \/ InsertType(t) \/ WriteType(t)
       \/ \E k \in DOMAIN type_room : UpdateType(t, k) \/ RemoveType(t, k) \/ AddRoom(t, k)
       \/ AddEntry(t) \/ ReadEntry(t) \/ LoadEntry(t) \/ FlushEntry(t)
       \/ DeleteRoom(t) \/ CommitRooms(t) \/ AbortRooms(t)

RoomAdminSpec == RoomAdminInit /\ [][RoomAdminNext]_room_vars
-----------------------------------------------------------------------------
\* The entries of a list that count: those of new rooms, and the first of each
\* room the type had
Wanted(x) ==
  {n \in DOMAIN x.list :
     \/ x.list[n].id = Null
     \/ x.list[n].id \in x.had /\ \A m \in 1 .. n - 1 : x.list[m].id # x.list[n].id}

\* With renames kept apart from it and no other addRoom of the type meanwhile:
\* when addRoom commits, the type has the rooms of the list and no others, under
\* the names of the list; a room it knew is still itself, and an entry with the
\* id of another type's room, or of a room named before, is passed over.  (Two
\* that overlap on one type leave rooms that are in neither list.)
ListBecomesRooms ==
  [][\A t \in Tasks : LET x == tx[t] IN
       x # Null /\ tx'[t] = Null /\ room' # room /\ x.alone =>
         LET now == {i \in DOMAIN room' : room'[i].type = x.type}
         IN /\ {room'[i].name : i \in now} = {x.list[n].name : n \in Wanted(x)}
            /\ \A n \in Wanted(x) :
                 LET e == x.list[n] IN e.id # Null => e.id \in now /\ room'[e.id].name = e.name
    ]_room_vars
=============================================================================
