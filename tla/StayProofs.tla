------------------------------ MODULE StayProofs ------------------------------
(***************************************************************************)
(* What a customer gets and gives back, proved for every number of          *)
(* requests, bookings and rooms: a payment link stands for as many          *)
(* different rooms as were asked for; between requests that did not fail,   *)
(* the mark of a room says whether a live booking holds it; a checkout ends *)
(* with the services on a bill; and a room is booked twice for a day only   *)
(* because of a third booking.                                              *)
(*                                                                         *)
(* Each has an invariant of its own on top of RoomProofs'.  The rooms that  *)
(* a create has attached, is at and has still to go through are together    *)
(* as many as its booking's quantity (LinkInv).  A marked room is held by a *)
(* live booking, or some handler owes it: it is about to attach it or has   *)
(* it still to release (ExactInv).  A checkout knows the services of its    *)
(* booking until it has added them up (ServiceInv).  Whoever lives in a     *)
(* room that a create has taken shares no day with its stay, or a third     *)
(* booking of the room lies apart from it (DoubleInv).                      *)
(***************************************************************************)
EXTENDS RoomProofs, FiniteSetTheorems

-----------------------------------------------------------------------------
(* Counting rooms *)

\* Rows of one query are of different rooms.
LEMMA RoomsOfAQuery ==
  ASSUME NEW n, NEW rows \in SUBSET {RoomRow(r, n) : r \in Rooms}, n \in {1, 2}
  PROVE  /\ IsFiniteSet(rows) /\ IsFiniteSet(RoomsIn(rows))
         /\ Cardinality(RoomsIn(rows)) = Cardinality(rows)
<1>1. \A c \in rows : c \in RoomRows /\ c.room \in Rooms /\ c = RoomRow(c.room, n)
  BY DEF RoomRow, RoomRows
<1>2. RoomsIn(rows) = {c.room : c \in rows}
  BY <1>1 DEF RoomsIn
<1>3. IsFiniteSet(RoomsIn(rows))
  <2>1. RoomsIn(rows) \in SUBSET Rooms
    BY <1>1, <1>2
  <2> QED BY <2>1, FS_Subset, ConstantsAssumption
<1> DEFINE f == [c \in rows |-> c.room]
<1>4. f \in Injection(rows, RoomsIn(rows)) /\ f \in Surjection(rows, RoomsIn(rows))
  BY <1>1, <1>2 DEF Injection, Surjection, IsInjective
<1> HIDE DEF f
<1> QED BY <1>3, <1>4, FS_Injection

\* Only the rows of rooms count.
LEMMA SameRooms ==
  ASSUME NEW rows, NEW more, rows \cap RoomRows = more \cap RoomRows
  PROVE  RoomsIn(rows) = RoomsIn(more)
BY DEF RoomsIn

\* Rows of both queries count together if no room is offered by both.
LEMMA RoomsOfBothQueries ==
  ASSUME NEW todo \in SUBSET {RoomRow(r, 1) : r \in Rooms},
         NEW more \in SUBSET {RoomRow(r, 2) : r \in Rooms},
         RoomsIn(todo) \cap RoomsIn(more) = {}
  PROVE  /\ Cardinality(todo) \in Nat /\ Cardinality(more) \in Nat
         /\ Cardinality(RoomsIn(todo \cup more)) = Cardinality(todo) + Cardinality(more)
<1>1. /\ IsFiniteSet(todo) /\ IsFiniteSet(RoomsIn(todo))
      /\ Cardinality(RoomsIn(todo)) = Cardinality(todo)
  BY RoomsOfAQuery
<1>2. /\ IsFiniteSet(more) /\ IsFiniteSet(RoomsIn(more))
      /\ Cardinality(RoomsIn(more)) = Cardinality(more)
  BY RoomsOfAQuery
<1>3. RoomsIn(todo \cup more) = RoomsIn(todo) \cup RoomsIn(more)
  BY DEF RoomsIn
<1>4. Cardinality(todo) \in Nat /\ Cardinality(more) \in Nat
  BY <1>1, <1>2, FS_CardinalityType
<1>5. Cardinality(RoomsIn(todo) \cup RoomsIn(more))
        = Cardinality(RoomsIn(todo)) + Cardinality(RoomsIn(more)) - 0
  BY <1>1, <1>2, FS_Union, FS_EmptySet
<1>6. Cardinality(RoomsIn(todo \cup more)) = Cardinality(todo) + Cardinality(more) - 0
  BY <1>1, <1>2, <1>3, <1>5
<1> QED BY <1>4, <1>6
-----------------------------------------------------------------------------
(* A payment link stands for the rooms asked for *)

\* What is true of a request q
LinkReqOK(q) ==
  /\ q.pc \in (Asking \cup Making) \ {"book"} => q.cur = {}
  /\ q.pc = "shared" => q.todo = {RoomRow(r, 1) : r \in FreeRooms(q.type)}
  /\ q.pc \in {"customer", "insert"} /\ ~Caught(q) =>
       Cardinality(RoomsIn(q.todo)) = q.row.quantity
  /\ q.pc \in Making =>
       /\ ~order[q.id].handed
       /\ Cardinality(RoomsIn(link[q.id] \cup q.cur \cup q.todo)) = booking[q.id].quantity
  /\ q.pc = "reply" => q.todo = {}

LinkInv == LinkHasItsRooms /\ \A s \in Slots : LinkReqOK(req[s])

\* What most steps do to the columns it reads
Kept ==
  /\ next_id' = next_id
  /\ \A b \in Ids : /\ link'[b] \cap RoomRows = link[b] \cap RoomRows
                    /\ booking'[b].quantity = booking[b].quantity
                    /\ order'[b].handed = order[b].handed

\* Nothing is asked of who makes no booking.
LEMMA NoMaker == \A q : q.pc \notin Asking \cup Making => LinkReqOK(q)
BY DEF LinkReqOK, Asking, Making

\* While one request takes a step, no other makes a booking.
LEMMA OthersMakeNothing ==
  ASSUME MakersAlone, RoomInv, NEW s \in Slots, req[s].pc # "idle" \/ \E op : MayBegin(s, op),
         NEW t \in Slots, t # s
  PROVE  req[t].pc \notin Asking \cup Making
<1>1. CASE req[t].pc = "idle"
  BY <1>1 DEF Asking, Making
<1>2. CASE req[t].pc # "idle"
  BY <1>2, OthersAreNot DEF RoomInv, RoomReqOK, MakingLive, Creating
<1> QED BY <1>1, <1>2

\* So only the one that takes the step matters.
LEMMA LinkStep ==
  ASSUME MakersAlone, TypeOK, RoomInv, NEW s \in Slots, NEW q, Become(s, q),
         req[s].pc # "idle" \/ \E op : MayBegin(s, op), LinkReqOK(q)', LinkHasItsRooms'
  PROVE  LinkInv'
<1>1. \A t \in Slots : req'[t] = IF t = s THEN q ELSE req[t]
  BY DEF Become, TypeOK
<1>2. ASSUME NEW t \in Slots PROVE LinkReqOK(req[t])'
  <2>1. CASE t # s
    <3>1. req'[t].pc \notin Asking \cup Making
      BY <1>1, <2>1, OthersMakeNothing
    <3> QED BY <3>1 DEF LinkReqOK, Asking, Making
  <2>2. CASE t = s
    BY <1>1, <2>2 DEF LinkReqOK
  <2> QED BY <2>1, <2>2
<1> QED BY <1>2 DEF LinkInv

\* A step that keeps the columns keeps the promise.
LEMMA KeptLinks ==
  ASSUME LinkHasItsRooms, Kept
  PROVE  LinkHasItsRooms'
<1> SUFFICES ASSUME NEW b \in Booked, order'[b].handed
             PROVE  Cardinality(RoomsIn(link'[b])) = booking'[b].quantity
  BY DEF LinkHasItsRooms, Kept, Booked
<1>1. RoomsIn(link'[b]) = RoomsIn(link[b])
  BY SameRooms DEF Kept, Booked
<1> QED BY <1>1 DEF LinkHasItsRooms, Kept, Booked

\* So a step that keeps the columns needs its own request to be all right.
LEMMA KeptStep ==
  ASSUME MakersAlone, TypeOK, RoomInv, LinkInv, NEW s \in Slots, NEW q, Become(s, q),
         req[s].pc # "idle" \/ \E op : MayBegin(s, op), LinkReqOK(q)', Kept
  PROVE  LinkInv'
BY LinkStep, KeptLinks DEF LinkInv

\* A step that leaves the tables alone keeps the columns.
LEMMA TablesKept == UNCHANGED tables => Kept
BY DEF tables, Kept

\* The server starts with no link.
LEMMA LinkInit == Init => LinkInv
<1> SUFFICES ASSUME Init PROVE LinkInv
  OBVIOUS
<1>1. \A s \in Slots : LinkReqOK(req[s])
  BY NoMaker DEF Init, Idle, Asking, Making
<1>2. LinkHasItsRooms
  BY DEF Init, TablesInit, LinkHasItsRooms, Booked
<1> QED BY <1>1, <1>2 DEF LinkInv
\* _prepare takes as many rooms as are asked for, or all the free ones.
LEMMA LinkPrepare ==
  ASSUME MakersAlone, TypeOK, RoomInv, LinkInv, NEW s \in Slots, Create(s) \/ CmsCreate(s)
  PROVE  LinkInv'
<1>1. PICK op \in Creating, user \in Users, state \in {"Init", "AdminInit"} :
        Prepare(s, op, user, state)
  BY DEF Create, CmsCreate, Creating, Users
<1>2. PICK t \in RoomTypes, stay \in Stays, quantity \in 1 .. MaxQuantity, pay \in Payments :
        LET free == {RoomRow(r, 1) : r \in FreeRooms(t)}
            asked == [Idle EXCEPT !.op = op, !.type = t, !.pay = pay,
                                  !.row = NewRow(user, state, stay, quantity)]
        IN IF Cardinality(free) < quantity
           THEN Become(s, [asked EXCEPT !.pc = "shared", !.todo = free])
           ELSE \E take \in SUBSET free :
                  /\ Cardinality(take) = quantity
                  /\ Become(s, Prepared([asked EXCEPT !.todo = take]))
  BY <1>1 DEF Prepare
<1> DEFINE free == {RoomRow(r, 1) : r \in FreeRooms(t)}
           new == NewRow(user, state, stay, quantity)
           asked == [Idle EXCEPT !.op = op, !.type = t, !.pay = pay, !.row = new]
<1>3. MayBegin(s, op) /\ UNCHANGED tables /\ Kept
  BY <1>1, TablesKept DEF Prepare
<1>4. CASE Become(s, [asked EXCEPT !.pc = "shared", !.todo = free])
  <2>1. PICK p : p = [asked EXCEPT !.pc = "shared", !.todo = free]
    OBVIOUS
  <2>2. p.pc = "shared" /\ p.cur = {} /\ p.type = t /\ p.todo = free
    BY <2>1 DEF Idle
  <2>3. FreeRooms(t)' = FreeRooms(t)
    BY <1>3 DEF tables, FreeRooms
  <2>4. LinkReqOK(p)'
    BY <2>2, <2>3 DEF LinkReqOK, Making
  <2> QED BY <1>3, <1>4, <2>1, <2>4, KeptStep
<1>5. ASSUME NEW take \in SUBSET free, Cardinality(take) = quantity,
             Become(s, Prepared([asked EXCEPT !.todo = take]))
      PROVE  LinkInv'
  <2>1. PICK p : p = Prepared([asked EXCEPT !.todo = take])
    OBVIOUS
  <2>2. p.pc \in {"insert", "customer"} /\ p.cur = {} /\ p.row = new /\ p.todo = take
    BY <2>1 DEF Idle, Prepared
  <2>3. new.quantity = quantity
    BY DEF NewRow
  <2>4. Cardinality(RoomsIn(take)) = quantity
    <3>1. take \in SUBSET {RoomRow(r, 1) : r \in Rooms}
      BY DEF FreeRooms
    <3> QED BY <1>5, <3>1, RoomsOfAQuery
  <2> HIDE DEF new
  <2>5. LinkReqOK(p)'
    BY <2>2, <2>3, <2>4 DEF LinkReqOK, Making
  <2> QED BY <1>3, <1>5, <2>1, <2>5, KeptStep
<1> QED BY <1>2, <1>4, <1>5

\* What is missing comes from the second query, whose rooms are marked.
LEMMA LinkPrepareShared ==
  ASSUME MakersAlone, TypeOK, RoomInv, LinkInv, NEW s \in Slots, PrepareShared(s)
  PROVE  LinkInv'
<1> DEFINE q == req[s]
           free == FreeRooms(q.type)
           others == SharedRooms(q.type, q.row.stay)
           shared == {RoomRow(r, 2) : r \in others}
           missing == q.row.quantity - Cardinality(q.todo)
<1>1. q.pc = "shared" /\ q \in RequestRecord /\ q.row.quantity \in Nat /\ Kept
  BY TablesKept, ConstantsAssumption DEF PrepareShared, TypeOK, Request, RequestRecord, Row
<1>2. \/ Become(s, Idle)
      \/ \E more \in SUBSET shared : /\ Cardinality(more) = missing
                                     /\ Become(s, Prepared([q EXCEPT !.todo = @ \cup more]))
  BY DEF PrepareShared
<1>3. q.cur = {} /\ q.todo = {RoomRow(r, 1) : r \in free}
  BY <1>1 DEF LinkInv, LinkReqOK, Asking
<1>4. free \in SUBSET Rooms /\ others \in SUBSET Rooms /\ free \cap others = {}
  BY DEF FreeRooms, SharedRooms
<1>5. CASE Become(s, Idle)
  BY <1>1, <1>5, KeptStep DEF LinkReqOK, Idle, Making, Asking
<1>6. ASSUME NEW more \in SUBSET shared, Cardinality(more) = missing,
             Become(s, Prepared([q EXCEPT !.todo = @ \cup more]))
      PROVE  LinkInv'
  <2>1. PICK p : p = Prepared([q EXCEPT !.todo = @ \cup more])
    OBVIOUS
  <2>2. /\ p.pc \in {"insert", "customer"} /\ p.cur = {} /\ p.row = q.row
        /\ p.todo = q.todo \cup more
    BY <1>1, <1>3, <2>1 DEF Prepared, RequestRecord
  <2>3. /\ Cardinality(q.todo) \in Nat /\ Cardinality(more) \in Nat
        /\ Cardinality(RoomsIn(q.todo \cup more)) = Cardinality(q.todo) + Cardinality(more)
    <3>1. PICK todo : todo = q.todo
      OBVIOUS
    <3>2. /\ todo \in SUBSET {RoomRow(r, 1) : r \in Rooms}
          /\ more \in SUBSET {RoomRow(r, 2) : r \in Rooms}
      BY <1>3, <1>4, <3>1
    <3>3. RoomsIn(todo) \subseteq free /\ RoomsIn(more) \subseteq others
      BY <1>3, <3>1 DEF RoomsIn, RoomRow
    <3> HIDE DEF q, free, others
    <3>4. RoomsIn(todo) \cap RoomsIn(more) = {}
      BY <1>4, <3>3
    <3> QED BY <3>1, <3>2, <3>4, RoomsOfBothQueries
  <2> HIDE DEF q
  <2>4. Cardinality(RoomsIn(p.todo)) = p.row.quantity
    BY <1>1, <1>6, <2>2, <2>3
  <2>5. LinkReqOK(p)'
    BY <2>2, <2>4 DEF LinkReqOK, Making
  <2> QED BY <1>1, <1>6, <2>1, <2>5, KeptStep DEF q
<1> QED BY <1>2, <1>5, <1>6

\* Finding the customer changes nothing of that.
LEMMA LinkFindCustomer ==
  ASSUME MakersAlone, TypeOK, RoomInv, LinkInv, NEW s \in Slots, FindCustomer(s)
  PROVE  LinkInv'
<1> DEFINE q == req[s]
<1>1. q.pc = "customer" /\ q \in RequestRecord /\ LinkReqOK(q)
  BY DEF FindCustomer, TypeOK, Request, LinkInv
<1>2. PICK p : p = [q EXCEPT !.pc = "insert"]
  OBVIOUS
<1>3. p.pc = "insert" /\ p.op = q.op /\ p.cur = q.cur /\ p.row = q.row /\ p.todo = q.todo
  BY <1>1, <1>2 DEF RequestRecord
<1>4. Become(s, p) /\ Kept
  BY <1>2 DEF FindCustomer, Kept
<1> HIDE DEF q
<1>5. LinkReqOK(p)'
  BY <1>1, <1>3 DEF LinkReqOK, Caught, Asking, Making
<1> QED BY <1>1, <1>4, <1>5, KeptStep DEF q

\* The new booking asks for the rooms that were taken, and has none yet.
LEMMA LinkInsertBooking ==
  ASSUME MakersAlone, TypeOK, PaymentInv, RoomInv, LinkInv, NEW s \in Slots, InsertBooking(s)
  PROVE  LinkInv'
<1> DEFINE q == req[s]
<1>1. q.pc = "insert" /\ q \in RequestRecord /\ LinkReqOK(q) /\ q.todo \subseteq RoomRows
  BY DEF InsertBooking, TypeOK, Request, LinkInv, RoomInv, RoomReqOK, Asking
<1>2. PICK id : id = next_id
  OBVIOUS
<1>3. PICK p : p = IF Caught(q) THEN Idle ELSE [q EXCEPT !.pc = "bill", !.id = id]
  OBVIOUS
<1>4. /\ Become(s, p) /\ next_id' = id + 1 /\ id \in Ids \ Booked
      /\ booking' = [booking EXCEPT ![id] = q.row]
      /\ link' = link /\ order' = order
  BY <1>2, <1>3 DEF InsertBooking, TypeOK, TablesType, Ids, Booked
<1>5. Booked' = Booked \cup {id} /\ booking'[id] = q.row
        /\ \A b \in Booked : booking'[b] = booking[b]
  BY <1>2, <1>4 DEF Booked, Ids, TypeOK, TablesType
<1>6. link[id] \cap RoomRows = {} /\ ~order[id].handed
  BY <1>4 DEF RoomInv, PaymentInv, TablesOK
<1>7. LinkHasItsRooms'
  BY <1>4, <1>5, <1>6 DEF LinkInv, LinkHasItsRooms
<1>8. CASE Caught(q)
  <2>1. p.pc \notin Asking \cup Making
    BY <1>3, <1>8 DEF Idle, Asking, Making
  <2>2. LinkReqOK(p)'
    BY <2>1 DEF LinkReqOK, Asking, Making
  <2> QED BY <1>1, <1>4, <1>7, <2>2, LinkStep
<1>9. CASE ~Caught(q)
  <2>1. p.pc = "bill" /\ p.id = id /\ p.cur = {} /\ p.todo = q.todo
    BY <1>1, <1>3, <1>9 DEF RequestRecord, LinkReqOK, Asking
  <2>2. Cardinality(RoomsIn(q.todo)) = q.row.quantity
    BY <1>1, <1>9 DEF LinkReqOK
  <2>3. RoomsIn(link[id] \cup {} \cup q.todo) = RoomsIn(q.todo)
    BY <1>6, SameRooms
  <2> HIDE DEF q
  <2>4. LinkReqOK(p)'
    BY <1>4, <1>5, <1>6, <2>1, <2>2, <2>3 DEF LinkReqOK
  <2> QED BY <1>1, <1>4, <1>7, <2>4, LinkStep DEF q
<1> QED BY <1>8, <1>9
\* The bill of a booking is no room of it.
LEMMA LinkCreateBill ==
  ASSUME MakersAlone, TypeOK, PaymentInv, RoomInv, LinkInv, NEW s \in Slots, CreateBill(s)
  PROVE  LinkInv'
<1> DEFINE q == req[s]
<1>1. /\ RoomReqOK(q) /\ LinkReqOK(q) /\ q \in RequestRecord /\ q.pc = "bill" /\ q.id \in Ids
  BY OnBooked DEF CreateBill, BeforeInsert, RoomInv, LinkInv
<1>2. link'[q.id] = link[q.id] \cup {BillRow(0)}
  BY <1>1 DEF CreateBill, TypeOK, TablesType
<1>3. \A b \in Ids : link'[b] \cap RoomRows = link[b] \cap RoomRows
  BY <1>1, ChildKinds DEF CreateBill, TypeOK, TablesType
<1>4. Kept /\ booking' = booking
  BY <1>3 DEF Kept, CreateBill, keys
<1>5. PICK p : Become(s, p) /\ p \in {Loop(q), Thrown(q)}
  BY DEF CreateBill
<1>6. CASE p = Loop(q)
  <2>1. /\ p.pc = (IF q.todo = {} THEN "reply" ELSE "mark") /\ p.cur = q.cur
        /\ p.todo = q.todo /\ p.id = q.id
    BY <1>1, <1>6 DEF Loop, RequestRecord
  <2>2. RoomsIn(link'[q.id] \cup q.cur \cup q.todo) = RoomsIn(link[q.id] \cup q.cur \cup q.todo)
    BY <1>2, ChildKinds, SameRooms
  <2> HIDE DEF q
  <2>3. LinkReqOK(p)'
    BY <1>1, <1>4, <2>1, <2>2 DEF LinkReqOK, Making, Asking, Kept
  <2> QED BY <1>1, <1>4, <1>5, <2>3, KeptStep DEF q
<1>7. CASE p = Thrown(q)
  <2>1. p.pc \in {"load", "idle"}
    BY <1>1, <1>7, ConstantsAssumption DEF Thrown, RequestRecord, Ids, NoId, Idle
  <2>2. LinkReqOK(p)'
    BY <2>1 DEF LinkReqOK, Asking, Making
  <2> QED BY <1>1, <1>4, <1>5, <2>2, KeptStep
<1> QED BY <1>5, <1>6, <1>7

\* A room the loop is at comes from those still to go through ...
LEMMA LinkMarkRoom ==
  ASSUME MakersAlone, TypeOK, PaymentInv, RoomInv, LinkInv, NEW s \in Slots, MarkRoom(s)
  PROVE  LinkInv'
<1> DEFINE q == req[s]
<1>1. LinkReqOK(q) /\ q \in RequestRecord /\ q.pc = "mark" /\ q.id \in Ids
  BY OnBooked DEF MarkRoom, BeforeInsert, LinkInv
<1>2. PICK c \in q.todo : Become(s, [q EXCEPT !.pc = "book", !.todo = @ \ {c}, !.cur = {c}])
  BY DEF MarkRoom
<1>3. PICK p : p = [q EXCEPT !.pc = "book", !.todo = @ \ {c}, !.cur = {c}]
  OBVIOUS
<1>4. /\ p.pc = "book" /\ p.id = q.id /\ p.todo = q.todo \ {c} /\ p.cur = {c}
  BY <1>1, <1>3 DEF RequestRecord
<1>5. UNCHANGED <<booking, link>> /\ Kept
  BY DEF MarkRoom, Kept, keys
<1>6. link[q.id] \cup p.cur \cup p.todo = link[q.id] \cup q.cur \cup q.todo
  BY <1>1, <1>4 DEF LinkReqOK, Making
<1> HIDE DEF q
<1>7. LinkReqOK(p)'
  BY <1>1, <1>4, <1>5, <1>6 DEF LinkReqOK, Making, Asking, Kept
<1> QED BY <1>1, <1>2, <1>3, <1>5, <1>7, KeptStep DEF q

\* ... and goes to those of the booking, of which no link is out yet.
LEMMA LinkBookRoom ==
  ASSUME MakersAlone, TypeOK, PaymentInv, RoomInv, LinkInv, NEW s \in Slots, BookRoom(s)
  PROVE  LinkInv'
<1> DEFINE q == req[s]
<1>1. /\ LinkReqOK(q) /\ q \in RequestRecord /\ q.pc = "book" /\ q.id \in Ids
      /\ ~order[q.id].handed
  BY OnBooked DEF BookRoom, BeforeInsert, LinkInv, LinkReqOK, Making
<1>2. PICK p : p = Loop([q EXCEPT !.cur = {}])
  OBVIOUS
<1>3. /\ p.pc = (IF q.todo = {} THEN "reply" ELSE "mark") /\ p.id = q.id
      /\ p.todo = q.todo /\ p.cur = {}
  BY <1>1, <1>2 DEF RequestRecord, Loop
<1>4. /\ UNCHANGED <<booking, next_id, order>>
      /\ \A b \in Ids : link'[b] = IF b = q.id THEN link[b] \cup q.cur ELSE link[b]
  BY <1>1 DEF BookRoom, keys, TypeOK, TablesType
<1>5. link'[q.id] \cup p.cur \cup p.todo = link[q.id] \cup q.cur \cup q.todo
  BY <1>1, <1>3, <1>4
<1>6. LinkHasItsRooms'
  BY <1>1, <1>4 DEF LinkInv, LinkHasItsRooms, Booked
<1> HIDE DEF q
<1>7. LinkReqOK(p)'
  BY <1>1, <1>3, <1>4, <1>5 DEF LinkReqOK, Making, Asking
<1>8. Become(s, p)
  BY <1>2 DEF BookRoom, q
<1> QED BY <1>1, <1>6, <1>7, <1>8, LinkStep DEF q

\* The link is handed out when the loop is through.
LEMMA LinkReply ==
  ASSUME MakersAlone, TypeOK, PaymentInv, RoomInv, LinkInv, NEW s \in Slots, Reply(s)
  PROVE  LinkInv'
<1> DEFINE q == req[s]
<1>1. LinkReqOK(q) /\ q.pc = "reply" /\ q.id \in Ids
  BY OnBooked DEF Reply, BeforeInsert, LinkInv
<1>2. Cardinality(RoomsIn(link[q.id])) = booking[q.id].quantity
  <2>1. link[q.id] \cup q.cur \cup q.todo = link[q.id]
    BY <1>1 DEF LinkReqOK, Making
  <2> QED BY <1>1, <2>1 DEF LinkReqOK, Making
<1>3. UNCHANGED <<booking, next_id, link>> /\ \A b \in Ids : b # q.id => order'[b] = order[b]
  BY <1>1 DEF Reply, keys, TypeOK, TablesType
<1>4. LinkHasItsRooms'
  BY <1>2, <1>3 DEF LinkInv, LinkHasItsRooms, Booked
<1>5. Become(s, Idle) /\ LinkReqOK(Idle)'
  BY DEF Reply, LinkReqOK, Idle, Asking, Making
<1> QED BY <1>1, <1>4, <1>5, LinkStep

\* What fails leaves no create where it counts rooms.
LEMMA LinkFail ==
  ASSUME MakersAlone, TypeOK, PaymentInv, RoomInv, LinkInv, NEW s \in Slots, Fail(s)
  PROVE  LinkInv'
<1> DEFINE q == req[s]
<1>1. q.pc # "idle" /\ q \in RequestRecord /\ Kept
  BY TablesKept DEF Fail, Throw, Abort, FailOne, TypeOK, Request
<1>2. PICK p : Become(s, p) /\ p = req'[s]
  BY DEF Fail, Throw, Abort, FailOne, Become, TypeOK
<1>3. LinkReqOK(p)'
  <2>1. CASE Throw(s)
    <3>1. p = Thrown(q)
      BY <1>2, <2>1 DEF Throw, Become, TypeOK
    <3>2. CASE q.op # "create"
      BY <3>1, <3>2 DEF Thrown, LinkReqOK, Idle, Asking, Making
    <3>3. CASE q.op = "create"
      <4>1. /\ p.pc \in {"insert", "load"} /\ p.cur = {} /\ p.op = "create" /\ p.row.is_cancel
        BY <1>1, <3>1, <3>3 DEF Thrown, RequestRecord, Row
      <4> QED BY <4>1 DEF LinkReqOK, Caught, Making
    <3> QED BY <3>2, <3>3
  <2>2. CASE Abort(s)
    BY <1>2, <2>2 DEF Abort, Become, TypeOK, LinkReqOK, Idle, Asking, Making
  <2>3. CASE FailOne(s)
    <3>1. PICK c : p = Rest([q EXCEPT !.todo = @ \ {c}, !.cur = @ \ {c}])
      BY <1>2, <2>3 DEF FailOne, Become, TypeOK
    <3>2. p.pc \notin Asking \cup Making
      BY <1>1, <2>3, <3>1 DEF Rest, FailOne, Idle, RequestRecord, Asking, Making
    <3> QED BY <3>2 DEF LinkReqOK, Asking, Making
  <2> QED BY <2>1, <2>2, <2>3 DEF Fail
<1> QED BY <1>1, <1>2, <1>3, KeptStep
\* The actions of the handlers that make no booking
Other(s) ==
  \/ SaveLoad(s) \/ SaveFlush(s) \/ FulfilBills(s) \/ ChargeServices(s)
  \/ CheckRoom(s) \/ ReleaseRoom(s) \/ InsertUsage(s)
  \/ BillLoad(s) \/ BillFlush(s) \/ SetState(s)

OnBooking(s, b) ==
  Checkin(s, b) \/ Cancel(s, b) \/ Checkout(s, b) \/ AddService(s, b) \/ ResponseVnpay(s, b)

\* What a handler that works on a booking b starts with
Begun(p, b) ==
  /\ p.id = b /\ p.op \notin Creating
  /\ p.pc \in {"load", "adding", "bill_load"}
  /\ p.op \in {"cancel", "checkout"} => p.rows = link[b]
  /\ p.op \in {"checkin", "addService"} => p.rows = {}
  /\ p.op \in {"cancel", "checkout", "checkin"} <=> p.pc = "load"
  /\ p.pc = "adding" => p.op = "addService"
  /\ p.pc = "bill_load" => p.rows \cup p.gone \cup p.back \subseteq {BillRow(0)}

\* They begin so.
LEMMA BeginsWith ==
  ASSUME NEW s \in Slots, NEW b, OnBooking(s, b)
  PROVE  /\ UNCHANGED <<booking, next_id, link, charged, is_booking>>
         /\ \E op : MayBegin(s, op)
         /\ \E p : Become(s, p) /\ Begun(p, b) /\ MayBegin(s, p.op)
<1>1. /\ UNCHANGED <<booking, next_id, link, charged, is_booking>>
      /\ \E op : MayBegin(s, op)
  BY DEF OnBooking, Checkin, Cancel, Checkout, AddService, ResponseVnpay, tables, keys, bills
<1>2. CASE Checkin(s, b)
  <2>1. PICK row : Become(s, [Idle EXCEPT !.pc = "load", !.op = "checkin", !.id = b,
                                          !.row = row])
    BY <1>2 DEF Checkin
  <2>2. PICK p : p = [Idle EXCEPT !.pc = "load", !.op = "checkin", !.id = b, !.row = row]
    OBVIOUS
  <2>3. p.pc = "load" /\ p.op = "checkin" /\ p.id = b /\ p.rows = {}
    BY <2>2 DEF Idle
  <2>4. Begun(p, b)
    BY <2>3 DEF Begun, Creating
  <2>5. MayBegin(s, p.op)
    BY <1>2, <2>3 DEF Checkin
  <2> QED BY <1>1, <2>1, <2>2, <2>4, <2>5
<1>3. CASE Cancel(s, b)
  <2>1. PICK row : Become(s, [Idle EXCEPT !.pc = "load", !.op = "cancel", !.id = b,
                                          !.row = row, !.rows = link[b]])
    <3> DEFINE row == [booking[b] EXCEPT !.state = "Reject", !.is_cancel = TRUE]
    <3>1. Become(s, [Idle EXCEPT !.pc = "load", !.op = "cancel", !.id = b, !.row = row,
                                 !.rows = link[b]])
      BY <1>3 DEF Cancel
    <3> HIDE DEF row
    <3> QED BY <3>1
  <2>2. PICK p : p = [Idle EXCEPT !.pc = "load", !.op = "cancel", !.id = b, !.row = row,
                             !.rows = link[b]]
    OBVIOUS
  <2>3. p.pc = "load" /\ p.op = "cancel" /\ p.id = b /\ p.rows = link[b]
    BY <2>2 DEF Idle
  <2>4. Begun(p, b)
    BY <2>3 DEF Begun, Creating
  <2>5. MayBegin(s, p.op)
    BY <1>3, <2>3 DEF Cancel
  <2> QED BY <1>1, <2>1, <2>2, <2>4, <2>5
<1>4. CASE Checkout(s, b)
  <2>1. PICK row, cms :
          Become(s, [Idle EXCEPT !.pc = "load", !.op = "checkout", !.id = b, !.row = row,
                                 !.rows = link[b], !.is_cms = cms])
    <3> DEFINE row == [booking[b] EXCEPT !.state = "Done", !.is_checked_out = TRUE]
               cms == booking[b].state = "AdminInit"
    <3>1. Become(s, [Idle EXCEPT !.pc = "load", !.op = "checkout", !.id = b, !.row = row,
                                 !.rows = link[b], !.is_cms = cms])
      BY <1>4 DEF Checkout
    <3> HIDE DEF row, cms
    <3> QED BY <3>1
  <2>2. PICK p : p = [Idle EXCEPT !.pc = "load", !.op = "checkout", !.id = b, !.row = row,
                             !.rows = link[b], !.is_cms = cms]
    OBVIOUS
  <2>3. p.pc = "load" /\ p.op = "checkout" /\ p.id = b /\ p.rows = link[b]
    BY <2>2 DEF Idle
  <2>4. Begun(p, b)
    BY <2>3 DEF Begun, Creating
  <2>5. MayBegin(s, p.op)
    BY <1>4, <2>3 DEF Checkout
  <2> QED BY <1>1, <2>1, <2>2, <2>4, <2>5
<1>5. CASE AddService(s, b)
  <2>1. PICK todo : Become(s, [Idle EXCEPT !.pc = "adding", !.op = "addService", !.id = b,
                                           !.todo = todo])
    BY <1>5 DEF AddService
  <2>2. PICK p : p = [Idle EXCEPT !.pc = "adding", !.op = "addService", !.id = b, !.todo = todo]
    OBVIOUS
  <2>3. p.pc = "adding" /\ p.op = "addService" /\ p.id = b /\ p.rows = {}
    BY <2>2 DEF Idle
  <2>4. Begun(p, b)
    BY <2>3 DEF Begun, Creating
  <2>5. MayBegin(s, p.op)
    BY <1>5, <2>3 DEF AddService
  <2> QED BY <1>1, <2>1, <2>2, <2>4, <2>5
<1>6. CASE ResponseVnpay(s, b)
  <2>1. PICK rows, code :
          /\ rows \subseteq {BillRow(0)}
          /\ Become(s, [Idle EXCEPT !.pc = "bill_load", !.op = "response_vnpay", !.id = b,
                                    !.code = code, !.rows = rows])
    BY <1>6 DEF ResponseVnpay
  <2>2. PICK p : p = [Idle EXCEPT !.pc = "bill_load", !.op = "response_vnpay", !.id = b,
                                  !.code = code, !.rows = rows]
    OBVIOUS
  <2>3. /\ p.pc = "bill_load" /\ p.op = "response_vnpay" /\ p.id = b
        /\ p.rows = rows /\ p.gone = {} /\ p.back = {}
    BY <2>2 DEF Idle
  <2>4. Begun(p, b)
    BY <2>1, <2>3 DEF Begun, Creating
  <2>5. MayBegin(s, p.op)
    BY <1>6, <2>3 DEF ResponseVnpay
  <2> QED BY <1>1, <2>1, <2>2, <2>4, <2>5
<1> QED BY <1>1, <1>2, <1>3, <1>4, <1>5, <1>6 DEF OnBooking

\* And hand out no link.
LEMMA BeginsKept ==
  ASSUME TypeOK, NEW s \in Slots, NEW b \in Booked, OnBooking(s, b)
  PROVE  Kept
<1>1. \A c \in Ids : order'[c].handed = order[c].handed
  <2>1. CASE ResponseVnpay(s, b)
    BY <2>1 DEF ResponseVnpay, TypeOK, TablesType, Order
  <2>2. CASE ~ResponseVnpay(s, b)
    BY <2>2 DEF OnBooking, Checkin, Cancel, Checkout, AddService, tables
  <2> QED BY <2>1, <2>2
<1> QED BY <1>1, BeginsWith DEF Kept

\* No other handler's next step makes a booking ...
LEMMA OthersGoOn ==
  ASSUME TypeOK, NEW s \in Slots, Other(s)
  PROVE  /\ req[s].pc # "idle"
         /\ \E p : /\ Become(s, p) /\ p.pc \notin Asking \cup Making \cup {"load"}
                   /\ p.pc = "flush" => req[s].pc = "load"
<1> DEFINE q == req[s]
           Elsewhere(p) == /\ p.pc \notin Asking \cup Making \cup {"load"}
                           /\ p.pc = "flush" => q.pc = "load"
<1>1. q \in RequestRecord
  BY DEF TypeOK, Request
<1>2. \A n : Rest(n).pc \in {n.pc, "idle"}
  BY DEF Rest, Idle
<1>3. CASE SaveFlush(s)
  <2>1. PICK old \in RequestRecord : old = q
    BY <1>1
  <2>2. PICK p : p = Saved([old EXCEPT !.diff = {}, !.gone = {}, !.back = {}])
    OBVIOUS
  <2>3. p = Idle \/ p.pc \in {"release", "fulfil", "charge"}
    BY <2>2, SavedRequest
  <2>4. Elsewhere(p)
    BY <2>3 DEF Idle, Asking, Making
  <2>5. Become(s, p) /\ q.pc # "idle"
    BY <1>3, <2>1, <2>2 DEF SaveFlush
  <2> QED BY <2>4, <2>5
<1>5. ASSUME NEW n, Become(s, Rest(n)), n.pc \in {"release", "adding"}
      PROVE  \E p : Become(s, p) /\ Elsewhere(p)
  <2>1. Elsewhere(Rest(n))
    BY <1>2, <1>5 DEF Asking, Making
  <2> QED BY <1>5, <2>1
<1>6. CASE ChargeServices(s)
  <2>1. PICK n : n = [q EXCEPT !.pc = "release", !.todo = q.rows \cap RoomRows]
    OBVIOUS
  <2>2. n.pc = "release"
    BY <1>1, <2>1 DEF RequestRecord
  <2>3. Become(s, Rest(n)) /\ q.pc # "idle"
    BY <1>6, <2>1 DEF ChargeServices, Releasing
  <2> QED BY <1>5, <2>2, <2>3
<1>7. CASE CheckRoom(s)
  <2>1. PICK c : LET n == [q EXCEPT !.todo = @ \ {c}] IN
          Become(s, Rest(IF HeldByLive(c.room) THEN n ELSE [n EXCEPT !.cur = @ \cup {c}]))
    BY <1>7 DEF CheckRoom
  <2> DEFINE n == [q EXCEPT !.todo = @ \ {c}]
  <2>2. PICK p : p = IF HeldByLive(c.room) THEN n ELSE [n EXCEPT !.cur = @ \cup {c}]
    OBVIOUS
  <2>3. p.pc = "release" /\ q.pc # "idle"
    BY <1>1, <1>7, <2>2 DEF CheckRoom, RequestRecord
  <2>4. Become(s, Rest(p))
    BY <2>1, <2>2
  <2> QED BY <1>5, <2>3, <2>4
<1>8. CASE ReleaseRoom(s)
  <2>1. PICK c, n : n = [q EXCEPT !.cur = @ \ {c}] /\ Become(s, Rest(n))
    BY <1>8 DEF ReleaseRoom
  <2>2. n.pc = "release" /\ q.pc # "idle"
    BY <1>1, <1>8, <2>1 DEF ReleaseRoom, RequestRecord
  <2> QED BY <1>5, <2>1, <2>2
<1>9. CASE InsertUsage(s)
  <2>1. PICK c, n : n = [q EXCEPT !.todo = @ \ {c}] /\ Become(s, Rest(n))
    BY <1>9 DEF InsertUsage
  <2>2. n.pc = "adding" /\ q.pc # "idle"
    BY <1>1, <1>9, <2>1 DEF InsertUsage, RequestRecord
  <2> QED BY <1>5, <2>1, <2>2
<1>10. CASE SaveLoad(s) \/ BillLoad(s)
  <2>0. PICK pc \in {"flush", "bill_flush"} : \E diff, gone, back :
          /\ Become(s, [q EXCEPT !.pc = pc, !.diff = diff, !.gone = gone, !.back = back])
          /\ pc = "flush" => q.pc = "load"
    BY <1>10 DEF SaveLoad, BillLoad
  <2>1. PICK diff, gone, back :
          /\ Become(s, [q EXCEPT !.pc = pc, !.diff = diff, !.gone = gone, !.back = back])
          /\ pc = "flush" => q.pc = "load"
    BY <2>0
  <2>2. PICK p : p = [q EXCEPT !.pc = pc, !.diff = diff, !.gone = gone, !.back = back]
    OBVIOUS
  <2>3. p.pc = pc
    BY <1>1, <2>2 DEF RequestRecord
  <2> QED BY <1>10, <2>1, <2>2, <2>3 DEF Asking, Making, SaveLoad, BillLoad
<1>11. CASE FulfilBills(s)
  <2>1. PICK p : p = [q EXCEPT !.pc = "charge"]
    OBVIOUS
  <2>2. p.pc = "charge"
    BY <1>1, <2>1 DEF RequestRecord
  <2> QED BY <1>11, <2>1, <2>2 DEF Asking, Making, FulfilBills
<1>12. CASE BillFlush(s) \/ SetState(s)
  <2>1. PICK p : p = [q EXCEPT !.pc = "set_state", !.diff = {}, !.gone = {}, !.back = {}]
    OBVIOUS
  <2>2. p.pc = "set_state" /\ Idle.pc = "idle"
    BY <1>1, <2>1 DEF Idle, RequestRecord
  <2>3. Become(s, Idle) \/ Become(s, p)
    BY <1>12, <2>1 DEF BillFlush, SetState
  <2> QED BY <1>12, <2>2, <2>3 DEF Asking, Making, BillFlush, SetState
<1> QED BY <1>3, <1>6, <1>7, <1>8, <1>9, <1>10, <1>11, <1>12 DEF Other

\* response_vnpay writes the state of the booking and nothing else.
LEMMA StateOnly ==
  ASSUME TypeOK, PaymentInv, NEW s \in Slots, SetState(s)
  PROVE  \A b \in Ids : /\ booking'[b].quantity = booking[b].quantity
                        /\ booking'[b].stay = booking[b].stay
                        /\ booking'[b].is_checked_out = booking[b].is_checked_out
                        /\ booking'[b].is_cancel = booking[b].is_cancel
<1> DEFINE q == req[s]
<1>1. PICK state : booking' = [booking EXCEPT ![q.id] = [booking[q.id] EXCEPT !.state = state]]
  BY DEF SetState
<1>2. \A row \in Row : /\ [row EXCEPT !.state = state].quantity = row.quantity
                       /\ [row EXCEPT !.state = state].stay = row.stay
                       /\ [row EXCEPT !.state = state].is_checked_out = row.is_checked_out
                       /\ [row EXCEPT !.state = state].is_cancel = row.is_cancel
  BY DEF Row
<1>3. \A b \in Ids : booking[b] \in Row
  BY DEF TypeOK, TablesType
<1>4. q.id \in Ids
  BY OnBooked DEF SetState, BeforeInsert
<1>5. \A b \in Ids : booking'[b] = IF b = q.id THEN [booking[b] EXCEPT !.state = state]
                                   ELSE booking[b]
  BY <1>1, <1>4 DEF TypeOK, TablesType
<1> TAKE b \in Ids
<1>6. CASE b = q.id
  BY <1>2, <1>3, <1>5, <1>6
<1>7. CASE b # q.id
  BY <1>5, <1>7
<1> QED BY <1>6, <1>7

\* ... and none attaches a room, changes a quantity or hands out a link.
LEMMA OthersKeep ==
  ASSUME MakersAlone, TypeOK, PaymentInv, RoomInv, NEW s \in Slots, Other(s)
  PROVE  Kept
<1> DEFINE q == req[s]
<1>2. CASE SaveLoad(s) \/ CheckRoom(s) \/ BillLoad(s)
  BY <1>2, TablesKept DEF SaveLoad, CheckRoom, BillLoad
<1>3. CASE FulfilBills(s) \/ ReleaseRoom(s)
  BY <1>3 DEF FulfilBills, ReleaseRoom, Kept, keys
<1>4. CASE SaveFlush(s)
  <2>1. q.id \in Ids /\ booking[q.id] \in Row
    BY <1>4, OnBooked DEF SaveFlush, BeforeInsert, TypeOK, TablesType
  <2>2. /\ next_id' = next_id /\ order' = order
        /\ \A b \in Ids : link'[b] \cap RoomRows = link[b] \cap RoomRows
        /\ \A b \in Ids : b # q.id => booking'[b] = booking[b]
        /\ booking'[q.id] = Written(booking[q.id], q.row, q.diff)
    BY <1>4, FlushLife DEF SaveFlush, keys
  <2>3. booking'[q.id].quantity = booking[q.id].quantity
    BY <2>1, <2>2, WrittenColumns
  <2> QED BY <2>2, <2>3 DEF Kept
<1>5. CASE ChargeServices(s)
  <2>1. q.id \in Ids
    BY <1>5, OnBooked DEF ChargeServices, BeforeInsert
  <2>2. \A b \in Ids : link'[b] \cap RoomRows = link[b] \cap RoomRows
    BY <1>5, <2>1, ChildKinds DEF ChargeServices, TypeOK, TablesType
  <2> QED BY <1>5, <2>2 DEF ChargeServices, Kept, keys
<1>6. CASE InsertUsage(s)
  <2>1. q.id \in Ids /\ q.todo \subseteq UsedRows
    BY <1>6, OnBooked DEF InsertUsage, BeforeInsert, RoomInv, RoomReqOK
  <2>2. \A b \in Ids : link'[b] \cap RoomRows = link[b] \cap RoomRows
    BY <1>6, <2>1, ChildKinds DEF InsertUsage, TypeOK, TablesType
  <2> QED BY <1>6, <2>2 DEF InsertUsage, Kept, keys
<1>7. CASE BillFlush(s)
  <2>1. q.id \in Ids /\ q.gone \cup q.back \subseteq {BillRow(0)}
    BY <1>7, OnBooked DEF BillFlush, BeforeInsert, RoomInv, RoomReqOK, Calling
  <2>2. \A b \in Ids : link'[b] \cap RoomRows = link[b] \cap RoomRows
    BY <1>7, <2>1, ChildKinds DEF BillFlush, Relinked, TypeOK, TablesType
  <2> QED BY <1>7, <2>2 DEF BillFlush, Kept, keys
<1>8. CASE SetState(s)
  BY <1>8, StateOnly DEF SetState, Kept, keys
<1> QED BY <1>2, <1>3, <1>4, <1>5, <1>6, <1>7, <1>8 DEF Other

\* So what makes no booking keeps the promise.
LEMMA LinkOther ==
  ASSUME MakersAlone, TypeOK, PaymentInv, RoomInv, LinkInv, NEW s \in Slots,
         Other(s) \/ \E b \in Booked : OnBooking(s, b)
  PROVE  LinkInv'
<1>1. /\ req[s].pc # "idle" \/ \E op : MayBegin(s, op)
      /\ Kept
      /\ \E p : Become(s, p) /\ p.pc \notin Asking \cup Making
  <2>1. CASE Other(s)
    BY <2>1, OthersGoOn, OthersKeep
  <2>2. CASE \E b \in Booked : OnBooking(s, b)
    <3>1. \A pc \in {"load", "adding", "bill_load"} : pc \notin Asking \cup Making
      BY DEF Asking, Making
    <3> QED BY <2>2, <3>1, BeginsWith, BeginsKept DEF Begun
  <2> QED BY <2>1, <2>2
<1>2. PICK p : Become(s, p) /\ p.pc \notin Asking \cup Making
  BY <1>1
<1>3. LinkReqOK(p)'
  BY <1>2 DEF LinkReqOK, Asking, Making
<1> QED BY <1>1, <1>2, <1>3, KeptStep

\* Every step keeps what a link stands for.
LEMMA LinkNext ==
  MakersAlone /\ TypeOK /\ PaymentInv /\ RoomInv /\ LinkInv /\ [Next]_vars => LinkInv'
<1> SUFFICES ASSUME MakersAlone, TypeOK, PaymentInv, RoomInv, LinkInv, [Next]_vars
             PROVE  LinkInv'
  OBVIOUS
<1>1. ASSUME NEW s \in Slots, Begin(s) PROVE LinkInv'
  BY <1>1, LinkPrepare, LinkOther DEF Begin, OnBooking
<1>2. ASSUME NEW s \in Slots, Continue(s) PROVE LinkInv'
  BY <1>2, LinkPrepareShared, LinkFindCustomer, LinkInsertBooking, LinkCreateBill,
     LinkMarkRoom, LinkBookRoom, LinkReply, LinkOther
  DEF Continue, Other
<1>3. ASSUME NEW s \in Slots, Fail(s) PROVE LinkInv'
  BY <1>3, LinkFail
<1>4. CASE UNCHANGED vars
  BY <1>4 DEF vars, LinkInv, LinkHasItsRooms, LinkReqOK, FreeRooms, Booked
<1> QED BY <1>1, <1>2, <1>3, <1>4 DEF Next

\* When the handlers that make a booking live run alone, whoever holds a payment
\* link holds as many different rooms as were asked for, whatever happens to the
\* booking later.
THEOREM LinksHaveTheirRooms == MakersAlone /\ Spec => []LinkHasItsRooms
<1>1. LinkInv => LinkHasItsRooms
  BY DEF LinkInv
<1>2. SUFFICES ASSUME MakersAlone PROVE Spec => []LinkHasItsRooms
  OBVIOUS
<1>3. Spec => []TypeOK /\ []PaymentInv /\ []RoomInv
  BY <1>2, TypeCorrect, PaymentsConsistent, RoomsConsistent
<1>4. TypeOK /\ PaymentInv /\ RoomInv /\ LinkInv /\ [Next]_vars => LinkInv'
  BY <1>2, LinkNext
<1> QED BY <1>1, <1>3, <1>4, LinkInit, PTL DEF Spec
-----------------------------------------------------------------------------
(* Between requests that did not fail, the marks are exact *)

\* The marked rooms that a request answers for: to be attached, or to be released
Owed(q) ==
  CASE q.pc = "book" -> RoomsIn(q.cur)
    [] q.pc \in {"fulfil", "charge"} -> RoomsIn(q.rows)
    [] q.pc = "release" -> RoomsIn(q.todo \cup q.cur)
    [] OTHER -> {}

\* What is true of a request q
ExactReqOK(q) ==
  /\ q.pc \in Asking => ~q.row.is_checked_out /\ ~q.row.is_cancel
  /\ q.pc \in Making => Live(q.id)
  /\ q.pc = "bill" \/ (q.op = "create" /\ q.pc \in Saves) => link[q.id] \cap RoomRows = {}

ExactInv ==
  /\ \A r \in Rooms : is_booking[r] => HeldByLive(r) \/ \E s \in Slots : r \in Owed(req[s])
  /\ \A s \in Slots : ExactReqOK(req[s])

\* A step accounts for the marked rooms if they are held, owed by the request it
\* goes on with, or were marked before and neither held nor owed by this one.
Accounted(s, q) ==
  \A r \in Rooms :
    is_booking'[r] => \/ HeldByLive(r)' \/ r \in Owed(q)
                      \/ is_booking[r] /\ ~HeldByLive(r) /\ r \notin Owed(req[s])

\* No live booking gets a room, loses one or ends, and no mark changes.
SameLives ==
  /\ next_id' = next_id /\ is_booking' = is_booking
  /\ \A b \in Ids : /\ link'[b] \cap RoomRows = link[b] \cap RoomRows
                    /\ booking'[b].is_checked_out = booking[b].is_checked_out
                    /\ booking'[b].is_cancel = booking[b].is_cancel

\* A step that leaves the tables alone does neither.
LEMMA TablesSame == UNCHANGED tables => SameLives
BY DEF tables, SameLives

\* Only the request that takes the step matters.
LEMMA ExactStep ==
  ASSUME MakersAlone, TypeOK, RoomInv, ExactInv, NEW s \in Slots, NEW q, Become(s, q),
         req[s].pc # "idle" \/ \E op : MayBegin(s, op), ExactReqOK(q)', Accounted(s, q)
  PROVE  ExactInv'
<1>1. \A t \in Slots : req'[t] = IF t = s THEN q ELSE req[t]
  BY DEF Become, TypeOK
<1>2. ASSUME NEW t \in Slots PROVE ExactReqOK(req[t])'
  <2>1. CASE t # s
    <3>1. req'[t].pc \notin Asking \cup Making /\ req'[t] = req[t]
      BY <1>1, <2>1, OthersMakeNothing
    <3>2. ~(req[t].op = "create" /\ req[t].pc \in Saves)
      BY <2>1, OthersAreNot DEF RoomInv, MakingLive, Saves
    <3> QED BY <3>1, <3>2 DEF ExactReqOK, Making
  <2>2. CASE t = s
    BY <1>1, <2>2 DEF ExactReqOK, Live
  <2> QED BY <2>1, <2>2
<1>3. ASSUME NEW r \in Rooms, is_booking'[r]
      PROVE  HeldByLive(r)' \/ \E t \in Slots : r \in Owed(req'[t])
  <2>1. CASE HeldByLive(r)'
    BY <2>1
  <2>2. CASE r \in Owed(q)
    BY <1>1, <2>2
  <2>3. CASE is_booking[r] /\ ~HeldByLive(r) /\ r \notin Owed(req[s])
    <3>1. PICK t \in Slots : r \in Owed(req[t])
      BY <2>3 DEF ExactInv
    <3> QED BY <1>1, <2>3, <3>1
  <2> QED BY <1>3, <2>1, <2>2, <2>3 DEF Accounted
<1>4. (\A r \in Rooms : is_booking[r] => HeldByLive(r) \/ \E t \in Slots : r \in Owed(req[t]))'
  BY <1>3 DEF Owed
<1> QED BY <1>2, <1>4 DEF ExactInv

\* Then the same rooms are held.
LEMMA SameHolders == SameLives => \A r : HeldByLive(r)' <=> HeldByLive(r)
<1> SUFFICES ASSUME SameLives PROVE \A r : HeldByLive(r)' <=> HeldByLive(r)
  OBVIOUS
<1>1. Booked' = Booked
  BY DEF SameLives, Booked
<1>2. \A r : \A b \in Ids : /\ Holds(b, r)' <=> Holds(b, r)
                            /\ Live(b)' <=> Live(b)
  BY DEF SameLives, Holds, Live
<1> QED BY <1>1, <1>2 DEF HeldByLive, Booked

\* So it is enough to owe what one owed.
LEMMA SameStep ==
  ASSUME MakersAlone, TypeOK, RoomInv, ExactInv, NEW s \in Slots, NEW q, Become(s, q),
         req[s].pc # "idle" \/ \E op : MayBegin(s, op), ExactReqOK(q)', SameLives,
         \A r \in Rooms : r \in Owed(req[s]) => r \in Owed(q) \/ HeldByLive(r)
  PROVE  ExactInv'
<1>1. Accounted(s, q)
  BY SameHolders DEF Accounted, SameLives
<1> QED BY <1>1, ExactStep

\* What nobody is at
LEMMA OwesNothing ==
  /\ \A q : q.pc \notin {"book", "fulfil", "charge", "release"} => Owed(q) = {}
  /\ \A q : q.pc = "book" => Owed(q) = RoomsIn(q.cur)
  /\ \A q : q.pc \in {"fulfil", "charge"} => Owed(q) = RoomsIn(q.rows)
  /\ \A q : q.pc = "release" => Owed(q) = RoomsIn(q.todo \cup q.cur)
BY DEF Owed

\* A Promise.all that is over owes nothing.
LEMMA OwedRest == \A q : q.pc = "release" => Owed(Rest(q)) = RoomsIn(q.todo \cup q.cur)
<1> TAKE q
<1> SUFFICES ASSUME q.pc = "release" PROVE Owed(Rest(q)) = RoomsIn(q.todo \cup q.cur)
  OBVIOUS
<1>1. CASE q.todo = {} /\ q.cur = {}
  <2>1. RoomsIn(q.todo \cup q.cur) = {}
    BY <1>1 DEF RoomsIn
  <2>2. Rest(q).pc = "idle"
    BY <1>1 DEF Rest, Idle
  <2> QED BY <2>1, <2>2, OwesNothing
<1>2. CASE ~(q.todo = {} /\ q.cur = {})
  BY <1>2, OwesNothing DEF Rest
<1> QED BY <1>1, <1>2

\* The server starts with no mark.
LEMMA ExactInit == Init => ExactInv
<1> SUFFICES ASSUME Init PROVE ExactInv
  OBVIOUS
<1>1. \A s \in Slots : ExactReqOK(req[s])
  BY DEF Init, Idle, ExactReqOK, Asking, Making, Saves
<1>2. \A r \in Rooms : ~is_booking[r]
  BY DEF Init, TablesInit
<1> QED BY <1>1, <1>2 DEF ExactInv
\* Before its insert, the entity of a create is neither checked out nor cancelled.
LEMMA ExactAsk ==
  ASSUME MakersAlone, TypeOK, RoomInv, ExactInv, NEW s \in Slots, NEW q, Become(s, q),
         req[s].pc # "idle" \/ \E op : MayBegin(s, op), UNCHANGED <<booking, next_id, link, is_booking>>,
         req[s].pc \in Asking \cup {"idle"}, q.pc \in Asking \cup {"idle"},
         q.pc # "idle" => ~q.row.is_checked_out /\ ~q.row.is_cancel
  PROVE  ExactInv'
<1>1. SameLives
  BY DEF SameLives
<1>2. ExactReqOK(q)'
  BY DEF ExactReqOK, Asking, Making, Saves
<1>3. Owed(req[s]) = {}
  BY OwesNothing DEF Asking
<1> QED BY <1>1, <1>2, <1>3, SameStep

\* _prepare's first query marks nothing.
LEMMA ExactPrepare ==
  ASSUME MakersAlone, TypeOK, RoomInv, ExactInv, NEW s \in Slots, Create(s) \/ CmsCreate(s)
  PROVE  ExactInv'
<1>1. PICK op, user, state : Prepare(s, op, user, state)
  BY DEF Create, CmsCreate
<1>2. PICK t, stay, quantity, pay :
        LET free == {RoomRow(r, 1) : r \in FreeRooms(t)}
            asked == [Idle EXCEPT !.op = op, !.type = t, !.pay = pay,
                                  !.row = NewRow(user, state, stay, quantity)]
        IN \/ Become(s, [asked EXCEPT !.pc = "shared", !.todo = free])
           \/ \E take : Become(s, Prepared([asked EXCEPT !.todo = take]))
  BY <1>1 DEF Prepare
<1> DEFINE free == {RoomRow(r, 1) : r \in FreeRooms(t)}
           new == NewRow(user, state, stay, quantity)
           asked == [Idle EXCEPT !.op = op, !.type = t, !.pay = pay, !.row = new]
<1>3. UNCHANGED tables /\ MayBegin(s, op) /\ req[s].pc = "idle"
  BY <1>1 DEF Prepare, MayBegin
<1>4. ~new.is_checked_out /\ ~new.is_cancel
  BY DEF NewRow
<1> HIDE DEF new
<1>5. CASE Become(s, [asked EXCEPT !.pc = "shared", !.todo = free])
  <2>1. PICK p : p = [asked EXCEPT !.pc = "shared", !.todo = free]
    OBVIOUS
  <2>2. p.pc = "shared" /\ p.row = new
    BY <2>1 DEF Idle
  <2> QED BY <1>3, <1>4, <1>5, <2>1, <2>2, ExactAsk DEF tables, Asking
<1>6. ASSUME NEW take, Become(s, Prepared([asked EXCEPT !.todo = take])) PROVE ExactInv'
  <2>1. PICK p : p = Prepared([asked EXCEPT !.todo = take])
    OBVIOUS
  <2>2. p.pc \in {"insert", "customer"} /\ p.row = new
    BY <2>1 DEF Idle, Prepared
  <2> QED BY <1>3, <1>4, <1>6, <2>1, <2>2, ExactAsk DEF tables, Asking
<1> QED BY <1>2, <1>5, <1>6 DEF new

\* Neither does its second query, nor finding the customer.
LEMMA ExactAsking ==
  ASSUME MakersAlone, TypeOK, RoomInv, ExactInv, NEW s \in Slots,
         PrepareShared(s) \/ FindCustomer(s)
  PROVE  ExactInv'
<1> DEFINE q == req[s]
<1>1. q \in RequestRecord /\ q.pc \in {"shared", "customer"} /\ ExactReqOK(q)
  BY DEF PrepareShared, FindCustomer, TypeOK, Request, ExactInv
<1>2. UNCHANGED <<booking, next_id, link, is_booking>>
  BY DEF PrepareShared, FindCustomer, tables
<1>3. q.pc \in Asking /\ ~q.row.is_checked_out /\ ~q.row.is_cancel
  BY <1>1 DEF ExactReqOK, Asking
<1>4. ASSUME NEW p, Become(s, p), p.pc \in {"insert", "customer"}, p.row = q.row
      PROVE  ExactInv'
  BY <1>1, <1>2, <1>3, <1>4, ExactAsk DEF Asking
<1>5. CASE Become(s, Idle)
  <2>1. Idle.pc = "idle"
    BY DEF Idle
  <2> HIDE DEF Idle
  <2> QED BY <1>1, <1>2, <1>3, <1>5, <2>1, ExactAsk
<1>6. CASE \E more : Become(s, Prepared([q EXCEPT !.todo = @ \cup more]))
  <2>1. PICK more, p : p = Prepared([q EXCEPT !.todo = @ \cup more]) /\ Become(s, p)
    BY <1>6
  <2>2. p.pc \in {"insert", "customer"} /\ p.row = q.row
    BY <1>1, <2>1 DEF Prepared, RequestRecord
  <2> QED BY <1>4, <2>1, <2>2
<1>7. CASE Become(s, [q EXCEPT !.pc = "insert"])
  <2>1. PICK p : p = [q EXCEPT !.pc = "insert"]
    OBVIOUS
  <2>2. p.pc = "insert" /\ p.row = q.row
    BY <1>1, <2>1 DEF RequestRecord
  <2> QED BY <1>4, <1>7, <2>1, <2>2
<1> QED BY <1>5, <1>6, <1>7 DEF PrepareShared, FindCustomer

\* A booking begins live, and with no room.
LEMMA ExactInsertBooking ==
  ASSUME MakersAlone, TypeOK, RoomInv, ExactInv, NEW s \in Slots, InsertBooking(s)
  PROVE  ExactInv'
<1> DEFINE q == req[s]
<1>1. q.pc = "insert" /\ q \in RequestRecord /\ ExactReqOK(q)
  BY DEF InsertBooking, TypeOK, Request, ExactInv
<1>2. ~q.row.is_checked_out /\ ~q.row.is_cancel /\ ~Caught(q)
  BY <1>1 DEF ExactReqOK, Asking, Caught
<1>3. PICK id : id = next_id
  OBVIOUS
<1>4. PICK p : p = [q EXCEPT !.pc = "bill", !.id = id]
  OBVIOUS
<1>5. /\ Become(s, p) /\ next_id' = id + 1 /\ id \in Ids \ Booked
      /\ booking' = [booking EXCEPT ![id] = q.row]
      /\ link' = link /\ is_booking' = is_booking
  BY <1>2, <1>3, <1>4 DEF InsertBooking, bills, TypeOK, TablesType, Ids, Booked
<1>6. p.pc = "bill" /\ p.id = id /\ p.op = q.op
  BY <1>1, <1>4 DEF RequestRecord
<1>7. Booked' = Booked \cup {id} /\ booking'[id] = q.row
        /\ \A b \in Booked : booking'[b] = booking[b]
  BY <1>3, <1>5 DEF Booked, Ids, TypeOK, TablesType
<1>8. link'[id] \cap RoomRows = {}
  BY <1>5 DEF RoomInv
<1>9. ExactReqOK(p)'
  BY <1>2, <1>6, <1>7, <1>8 DEF ExactReqOK, Asking, Making, Saves, Live
<1>10. \A r : HeldByLive(r) => HeldByLive(r)'
  BY <1>5, <1>7 DEF HeldByLive, Live, Holds
<1>11. Owed(q) = {}
  BY <1>1, OwesNothing
<1>12. Accounted(s, p)
  BY <1>5, <1>10, <1>11 DEF Accounted
<1> QED BY <1>1, <1>5, <1>9, <1>12, ExactStep

\* A bill is no room; a create that throws here has attached none.
LEMMA ExactCreateBill ==
  ASSUME MakersAlone, TypeOK, PaymentInv, RoomInv, ExactInv, NEW s \in Slots, CreateBill(s)
  PROVE  ExactInv'
<1> DEFINE q == req[s]
<1>1. /\ RoomReqOK(q) /\ ExactReqOK(q) /\ q \in RequestRecord /\ q.pc = "bill" /\ q.id \in Ids
      /\ q.id # NoId
  BY OnBooked DEF CreateBill, BeforeInsert, RoomInv, ExactInv
<1>2. \A b \in Ids : link'[b] \cap RoomRows = link[b] \cap RoomRows
  BY <1>1, ChildKinds DEF CreateBill, TypeOK, TablesType
<1>3. SameLives /\ booking' = booking
  BY <1>2 DEF SameLives, CreateBill, keys
<1>4. PICK p : Become(s, p) /\ p \in {Loop(q), Thrown(q)}
  BY DEF CreateBill
<1>5. p.pc \in {"mark", "reply", "load", "idle"} /\ (p.pc # "idle" => p.id = q.id)
  <2>1. Loop(q).pc \in {"mark", "reply"} /\ Loop(q).id = q.id
    BY <1>1 DEF Loop, RequestRecord
  <2>2. CASE q.op # "create"
    BY <1>4, <2>1, <2>2 DEF Thrown, Idle
  <2>3. CASE q.op = "create"
    <3>1. Thrown(q).pc = "load" /\ Thrown(q).id = q.id
      BY <1>1, <2>3 DEF Thrown, RequestRecord
    <3> QED BY <1>4, <2>1, <3>1
  <2> QED BY <2>2, <2>3
<1>6. Live(q.id) /\ link[q.id] \cap RoomRows = {}
  BY <1>1 DEF ExactReqOK, Making
<1> HIDE DEF q
<1>7. ExactReqOK(p)'
  BY <1>1, <1>2, <1>3, <1>5, <1>6 DEF ExactReqOK, Asking, Making, Saves, Live
<1>8. Owed(q) = {}
  BY <1>1, OwesNothing
<1> QED BY <1>1, <1>3, <1>4, <1>7, <1>8, SameStep DEF q

\* Who marks a room answers for it ...
LEMMA ExactMarkRoom ==
  ASSUME MakersAlone, TypeOK, PaymentInv, RoomInv, ExactInv, NEW s \in Slots, MarkRoom(s)
  PROVE  ExactInv'
<1> DEFINE q == req[s]
<1>1. /\ RoomReqOK(q) /\ ExactReqOK(q) /\ q \in RequestRecord /\ q.pc = "mark"
  BY OnBooked DEF MarkRoom, BeforeInsert, RoomInv, ExactInv
<1>2. PICK c \in q.todo : /\ is_booking' = [is_booking EXCEPT ![c.room] = TRUE]
                          /\ Become(s, [q EXCEPT !.pc = "book", !.todo = @ \ {c}, !.cur = {c}])
  BY DEF MarkRoom
<1>3. PICK p : p = [q EXCEPT !.pc = "book", !.todo = @ \ {c}, !.cur = {c}]
  OBVIOUS
<1>4. p.pc = "book" /\ p.id = q.id /\ p.cur = {c} /\ c \in RoomRows
  BY <1>1, <1>3 DEF RequestRecord, RoomReqOK, Making
<1>5. UNCHANGED <<booking, next_id, link>>
  BY DEF MarkRoom, keys
<1>6. c.room \in Owed(p)
  BY <1>4, OwesNothing DEF RoomsIn
<1>7. \A r : HeldByLive(r)' <=> HeldByLive(r)
  BY <1>5 DEF HeldByLive, Booked, Live, Holds
<1>8. Accounted(s, p)
  <2>1. \A r \in Rooms : r # c.room => is_booking'[r] = is_booking[r]
    BY <1>2 DEF TypeOK, TablesType
  <2>2. Owed(q) = {}
    BY <1>1, OwesNothing
  <2> QED BY <1>6, <1>7, <2>1, <2>2 DEF Accounted
<1>9. Live(q.id)
  BY <1>1 DEF ExactReqOK, Making
<1> HIDE DEF q
<1>10. ExactReqOK(p)'
  BY <1>4, <1>5, <1>9 DEF ExactReqOK, Asking, Making, Saves, Live
<1> QED BY <1>1, <1>2, <1>3, <1>8, <1>10, ExactStep DEF q

\* ... until a live booking holds it.
LEMMA ExactBookRoom ==
  ASSUME MakersAlone, TypeOK, PaymentInv, RoomInv, ExactInv, NEW s \in Slots, BookRoom(s)
  PROVE  ExactInv'
<1> DEFINE q == req[s]
<1>1. /\ ExactReqOK(q) /\ q \in RequestRecord /\ q.pc = "book" /\ q.id \in Booked
      /\ q.id \in Ids
  BY OnBooked DEF BookRoom, BeforeInsert, ExactInv
<1>2. PICK p : p = Loop([q EXCEPT !.cur = {}])
  OBVIOUS
<1>3. p.pc \in {"mark", "reply"} /\ p.id = q.id /\ p.op = q.op
  BY <1>1, <1>2 DEF RequestRecord, Loop
<1>4. /\ UNCHANGED <<booking, next_id, is_booking>> /\ Become(s, p)
      /\ \A b \in Ids : link'[b] = IF b = q.id THEN link[b] \cup q.cur ELSE link[b]
  BY <1>1, <1>2 DEF BookRoom, keys, TypeOK, TablesType
<1>5. Live(q.id)
  BY <1>1 DEF ExactReqOK, Making
<1>6. \A r \in Owed(q) : HeldByLive(r)'
  <2> SUFFICES ASSUME NEW r \in RoomsIn(q.cur) PROVE HeldByLive(r)'
    BY <1>1, OwesNothing
  <2>1. PICK c \in q.cur : c \in RoomRows /\ c.room = r
    BY DEF RoomsIn
  <2>2. PICK id : id = q.id
    OBVIOUS
  <2>3. Live(id)' /\ id \in Booked' /\ c \in link'[id]
    BY <1>1, <1>4, <1>5, <2>1, <2>2 DEF Live, Booked
  <2> QED BY <2>1, <2>3 DEF HeldByLive, Holds
<1>7. \A r : HeldByLive(r) => HeldByLive(r)'
  BY <1>4 DEF HeldByLive, Booked, Live, Holds
<1>8. Accounted(s, p)
  BY <1>4, <1>6, <1>7 DEF Accounted
<1> HIDE DEF q
<1>9. ExactReqOK(p)'
  BY <1>3, <1>4, <1>5 DEF ExactReqOK, Asking, Making, Saves, Live
<1> QED BY <1>1, <1>4, <1>8, <1>9, ExactStep DEF q

\* The answer of a create, whose rooms are attached by now, changes none.
LEMMA ExactReply ==
  ASSUME MakersAlone, TypeOK, RoomInv, ExactInv, NEW s \in Slots, Reply(s)
  PROVE  ExactInv'
<1>1. SameLives /\ Become(s, Idle) /\ req[s].pc = "reply"
  BY DEF Reply, SameLives, keys
<1>2. ExactReqOK(Idle)'
  BY DEF ExactReqOK, Idle, Asking, Making, Saves
<1>3. Owed(req[s]) = {}
  BY <1>1, OwesNothing
<1> QED BY <1>1, <1>2, <1>3, SameStep
\* Of the other handlers' steps, only a save ends a booking and only a release
\* takes a mark off.
LEMMA OthersSame ==
  ASSUME MakersAlone, TypeOK, PaymentInv, RoomInv, NEW s \in Slots, Other(s),
         ~SaveFlush(s), ~ReleaseRoom(s)
  PROVE  SameLives
<1>1. Kept
  BY OthersKeep
<1>2. CASE SetState(s)
  BY <1>1, <1>2, StateOnly DEF SetState, SameLives, Kept, keys
<1>3. CASE ~SetState(s)
  <2>1. booking' = booking /\ is_booking' = is_booking
    BY <1>3 DEF Other, SaveLoad, FulfilBills, ChargeServices, CheckRoom, InsertUsage, BillLoad,
                BillFlush, tables
  <2> QED BY <1>1, <2>1 DEF SameLives, Kept
<1> QED BY <1>2, <1>3

\* A handler that starts with a booking answers for no room yet.
LEMMA ExactOnBooking ==
  ASSUME MakersAlone, TypeOK, RoomInv, ExactInv, NEW s \in Slots, NEW b \in Booked,
         OnBooking(s, b)
  PROVE  ExactInv'
<1>1. PICK p : Become(s, p) /\ Begun(p, b)
  BY BeginsWith
<1>2. SameLives /\ \E op : MayBegin(s, op)
  BY BeginsWith DEF SameLives
<1>3. ExactReqOK(p)'
  BY <1>1 DEF Begun, ExactReqOK, Asking, Making, Saves, Creating
<1>4. Owed(req[s]) = {}
  BY <1>2, OwesNothing DEF MayBegin
<1> QED BY <1>1, <1>2, <1>3, <1>4, SameStep

\* Nor does one that adds services or writes down what a callback says.
LEMMA ExactElsewhere ==
  ASSUME MakersAlone, TypeOK, PaymentInv, RoomInv, ExactInv, NEW s \in Slots,
         InsertUsage(s) \/ BillLoad(s) \/ BillFlush(s) \/ SetState(s)
  PROVE  ExactInv'
<1>1. req[s].pc \in {"adding", "bill_load", "bill_flush", "set_state"}
  BY DEF InsertUsage, BillLoad, BillFlush, SetState
<1>2. Other(s) /\ ~SaveFlush(s) /\ ~ReleaseRoom(s)
  BY <1>1 DEF Other, SaveFlush, ReleaseRoom
<1>3. PICK p : /\ Become(s, p) /\ p.pc \notin Asking \cup Making \cup {"load"}
               /\ p.pc = "flush" => req[s].pc = "load"
  BY <1>2, OthersGoOn
<1>4. ExactReqOK(p)'
  BY <1>1, <1>3 DEF ExactReqOK, Asking, Making, Saves
<1>5. Owed(req[s]) = {}
  BY <1>1, OwesNothing
<1> QED BY <1>1, <1>2, <1>3, <1>4, <1>5, OthersSame, SameStep

\* The SELECT of a save changes nothing.
LEMMA ExactSaveLoad ==
  ASSUME MakersAlone, TypeOK, PaymentInv, RoomInv, ExactInv, NEW s \in Slots, SaveLoad(s)
  PROVE  ExactInv'
<1> DEFINE q == req[s]
<1>1. ExactReqOK(q) /\ q \in RequestRecord /\ q.pc = "load"
  BY DEF SaveLoad, TypeOK, Request, ExactInv
<1>2. PICK diff, gone, back :
        Become(s, [q EXCEPT !.pc = "flush", !.diff = diff, !.gone = gone, !.back = back])
  BY DEF SaveLoad
<1>3. PICK p : p = [q EXCEPT !.pc = "flush", !.diff = diff, !.gone = gone, !.back = back]
  OBVIOUS
<1>4. p.pc = "flush" /\ p.op = q.op /\ p.id = q.id
  BY <1>1, <1>3 DEF RequestRecord
<1>5. SameLives /\ link' = link
  BY TablesSame DEF SaveLoad, tables
<1>6. q.op = "create" => link[q.id] \cap RoomRows = {}
  BY <1>1 DEF ExactReqOK, Saves
<1>7. Owed(q) = {}
  BY <1>1, OwesNothing
<1> HIDE DEF q
<1>8. ExactReqOK(p)'
  BY <1>4, <1>5, <1>6 DEF ExactReqOK, Asking, Making, Saves
<1> QED BY <1>1, <1>2, <1>3, <1>5, <1>7, <1>8, SameStep DEF q

\* A save that ends a booking leaves its rooms to the handler.
LEMMA ExactSaveFlush ==
  ASSUME MakersAlone, TypeOK, PaymentInv, RoomInv, ExactInv, NEW s \in Slots, SaveFlush(s)
  PROVE  ExactInv'
<1> DEFINE q == req[s]
<1>1. /\ RoomReqOK(q) /\ ExactReqOK(q) /\ q \in RequestRecord /\ q.pc = "flush" /\ q.id \in Ids
      /\ q.op \in {"create", "checkin", "cancel", "checkout"}
  BY OnBooked DEF SaveFlush, BeforeInsert, RoomInv, RoomReqOK, Saves, ExactInv
<1>2. PICK old \in RequestRecord : old = q
  BY <1>1
<1>3. PICK p : p = Saved([old EXCEPT !.diff = {}, !.gone = {}, !.back = {}])
  OBVIOUS
<1>4. Become(s, p)
  BY <1>2, <1>3 DEF SaveFlush
<1>5. \/ p = Idle /\ q.op # "checkout" /\ (q.op = "cancel" => q.rows \cap RoomRows = {})
      \/ /\ q.op = "cancel" /\ p.pc = "release" /\ p.todo = q.rows \cap RoomRows
      \/ /\ q.op = "checkout" /\ p.pc \in {"fulfil", "charge"} /\ p.rows = q.rows
  BY <1>2, <1>3, SavedRequest
<1>6. /\ UNCHANGED <<next_id, is_booking>>
      /\ \A b \in Ids : link'[b] \cap RoomRows = link[b] \cap RoomRows
      /\ \A b \in Ids : b # q.id => booking'[b] = booking[b]
      /\ q.op = "checkin" => /\ booking'[q.id].is_cancel = booking[q.id].is_cancel
                             /\ booking'[q.id].is_checked_out = booking[q.id].is_checked_out
  BY FlushLife
<1>7. Owed(q) = {}
  BY <1>1, OwesNothing
<1>8. ExactReqOK(p)'
  <2>1. p.pc \in {"idle", "release", "fulfil", "charge"}
    BY <1>5 DEF Idle
  <2> QED BY <2>1 DEF ExactReqOK, Asking, Making, Saves
<1>9. \A r \in RoomsIn(link[q.id]) : q.op \in {"cancel", "checkout"} => r \in Owed(p)
  <2> SUFFICES ASSUME NEW r \in RoomsIn(link[q.id]), q.op \in {"cancel", "checkout"}
               PROVE  r \in Owed(p)
    OBVIOUS
  <2>1. q.rows \cap RoomRows = link[q.id] \cap RoomRows
    BY <1>1 DEF RoomReqOK, Saves
  <2>2. r \in RoomsIn(q.rows) /\ RoomsIn(q.rows) = RoomsIn(q.rows \cap RoomRows)
    BY <2>1 DEF RoomsIn
  <2>3. CASE p = Idle
    BY <1>5, <2>2, <2>3 DEF Idle, RoomsIn
  <2>4. CASE p.pc = "release" /\ p.todo = q.rows \cap RoomRows
    <3>1. r \in RoomsIn(p.todo \cup p.cur)
      BY <2>2, <2>4 DEF RoomsIn
    <3> QED BY <2>4, <3>1, OwesNothing
  <2>5. CASE p.pc \in {"fulfil", "charge"} /\ p.rows = q.rows
    BY <2>2, <2>5, OwesNothing
  <2> QED BY <1>5, <2>3, <2>4, <2>5
<1>10. q.op = "create" => RoomsIn(link[q.id]) = {}
  BY <1>1 DEF ExactReqOK, Saves, RoomsIn
<1>11. ASSUME NEW r, HeldByLive(r) PROVE HeldByLive(r)' \/ r \in Owed(p)
  <2>1. PICK b \in Booked : Live(b) /\ Holds(b, r)
    BY <1>11 DEF HeldByLive
  <2>2. b \in Booked' /\ b \in Ids /\ Holds(b, r)'
    BY <1>6, <2>1 DEF Booked, Holds
  <2>3. CASE Live(b)'
    BY <2>2, <2>3 DEF HeldByLive
  <2>4. CASE ~Live(b)'
    <3>1. b = q.id /\ q.op # "checkin"
      BY <1>6, <2>1, <2>2, <2>4 DEF Live
    <3>2. r \in RoomsIn(link[q.id])
      BY <2>1, <3>1 DEF Holds, RoomsIn
    <3> QED BY <1>1, <1>9, <1>10, <3>1, <3>2
  <2> QED BY <2>3, <2>4
<1>12. Accounted(s, p)
  BY <1>6, <1>7, <1>11 DEF Accounted
<1> QED BY <1>1, <1>4, <1>8, <1>12, ExactStep
\* Past its save, a checkout answers for the rooms of the booking ...
LEMMA ExactCharge ==
  ASSUME MakersAlone, TypeOK, PaymentInv, RoomInv, ExactInv, NEW s \in Slots,
         FulfilBills(s) \/ ChargeServices(s)
  PROVE  ExactInv'
<1> DEFINE q == req[s]
<1>1. q \in RequestRecord /\ q.pc \in {"fulfil", "charge"} /\ Owed(q) = RoomsIn(q.rows)
  BY OwesNothing DEF FulfilBills, ChargeServices, TypeOK, Request
<1>2. SameLives /\ q.pc # "idle"
  <2>1. Other(s) /\ ~SaveFlush(s) /\ ~ReleaseRoom(s)
    BY <1>1 DEF Other, SaveFlush, ReleaseRoom
  <2> QED BY <1>1, <2>1, OthersSame
<1>3. CASE FulfilBills(s)
  <2>1. PICK p : p = [q EXCEPT !.pc = "charge"]
    OBVIOUS
  <2>2. p.pc = "charge" /\ p.rows = q.rows
    BY <1>1, <2>1 DEF RequestRecord
  <2>3. Owed(p) = Owed(q)
    BY <1>1, <2>2, OwesNothing
  <2>4. ExactReqOK(p)'
    BY <2>2 DEF ExactReqOK, Asking, Making, Saves
  <2>5. Become(s, p)
    BY <1>3, <2>1 DEF FulfilBills
  <2> QED BY <1>2, <2>3, <2>4, <2>5, SameStep
<1>4. CASE ChargeServices(s)
  <2>1. PICK n : n = [q EXCEPT !.pc = "release", !.todo = q.rows \cap RoomRows]
    OBVIOUS
  <2>2. n.pc = "release" /\ n.todo = q.rows \cap RoomRows
    BY <1>1, <2>1 DEF RequestRecord
  <2>3. PICK p : p = Rest(n)
    OBVIOUS
  <2>4. \A r \in Owed(q) : r \in Owed(p)
    BY <1>1, <2>2, <2>3, OwedRest DEF RoomsIn
  <2>5. p.pc \in {"idle", "release"}
    BY <2>2, <2>3 DEF Rest, Idle
  <2>6. ExactReqOK(p)'
    BY <2>5 DEF ExactReqOK, Asking, Making, Saves
  <2>7. Become(s, p)
    BY <1>4, <2>1, <2>3 DEF ChargeServices, Releasing
  <2> QED BY <1>2, <2>4, <2>6, <2>7, SameStep
<1> QED BY <1>3, <1>4

\* ... down to those that another live booking is in ...
LEMMA ExactCheckRoom ==
  ASSUME MakersAlone, TypeOK, PaymentInv, RoomInv, ExactInv, NEW s \in Slots, CheckRoom(s)
  PROVE  ExactInv'
<1> DEFINE q == req[s]
<1>1. q \in RequestRecord /\ q.pc = "release" /\ Owed(q) = RoomsIn(q.todo \cup q.cur)
  BY OwesNothing DEF CheckRoom, TypeOK, Request
<1>2. PICK c \in q.todo :
        LET n == [q EXCEPT !.todo = @ \ {c}] IN
        Become(s, Rest(IF HeldByLive(c.room) THEN n ELSE [n EXCEPT !.cur = @ \cup {c}]))
  BY DEF CheckRoom
<1> DEFINE m == [q EXCEPT !.todo = @ \ {c}]
<1>3. PICK n : n = IF HeldByLive(c.room) THEN m ELSE [m EXCEPT !.cur = @ \cup {c}]
  OBVIOUS
<1>4. /\ n.pc = "release" /\ n.todo = q.todo \ {c}
      /\ n.cur = IF HeldByLive(c.room) THEN q.cur ELSE q.cur \cup {c}
  BY <1>1, <1>3 DEF RequestRecord
<1>5. PICK p : p = Rest(n)
  OBVIOUS
<1>6. \A r \in Owed(q) : r \in Owed(p) \/ HeldByLive(r)
  <2>1. \A d \in q.todo \cup q.cur : d \in n.todo \cup n.cur \/ HeldByLive(d.room)
    BY <1>4
  <2>2. Owed(p) = RoomsIn(n.todo \cup n.cur)
    BY <1>4, <1>5, OwedRest
  <2> QED BY <1>1, <2>1, <2>2 DEF RoomsIn
<1>7. p.pc \in {"idle", "release"}
  BY <1>4, <1>5 DEF Rest, Idle
<1>8. ExactReqOK(p)'
  BY <1>7 DEF ExactReqOK, Asking, Making, Saves
<1>9. Become(s, p) /\ SameLives
  BY <1>2, <1>3, <1>5, TablesSame DEF CheckRoom
<1> QED BY <1>1, <1>6, <1>8, <1>9, SameStep

\* ... and the others' marks it takes off.
LEMMA ExactReleaseRoom ==
  ASSUME MakersAlone, TypeOK, PaymentInv, RoomInv, ExactInv, NEW s \in Slots, ReleaseRoom(s)
  PROVE  ExactInv'
<1> DEFINE q == req[s]
<1>1. q \in RequestRecord /\ q.pc = "release" /\ Owed(q) = RoomsIn(q.todo \cup q.cur)
  BY OwesNothing DEF ReleaseRoom, TypeOK, Request
<1>2. PICK c \in q.cur : /\ is_booking' = [is_booking EXCEPT ![c.room] = FALSE]
                         /\ Become(s, Rest([q EXCEPT !.cur = @ \ {c}]))
  BY DEF ReleaseRoom
<1>3. PICK n : n = [q EXCEPT !.cur = @ \ {c}]
  OBVIOUS
<1>4. n.pc = "release" /\ n.todo = q.todo /\ n.cur = q.cur \ {c}
  BY <1>1, <1>3 DEF RequestRecord
<1>5. PICK p : p = Rest(n)
  OBVIOUS
<1>6. \A r \in Owed(q) : r \in Owed(p) \/ r = c.room
  <2>1. Owed(p) = RoomsIn(n.todo \cup n.cur)
    BY <1>4, <1>5, OwedRest
  <2> QED BY <1>1, <1>4, <2>1 DEF RoomsIn
<1>7. \A r \in Rooms : is_booking'[r] => r # c.room /\ is_booking[r]
  BY <1>2 DEF TypeOK, TablesType
<1>8. \A r : HeldByLive(r)' <=> HeldByLive(r)
  BY DEF ReleaseRoom, keys, HeldByLive, Booked, Live, Holds
<1>9. Accounted(s, p)
  BY <1>6, <1>7, <1>8 DEF Accounted
<1>10. p.pc \in {"idle", "release"}
  BY <1>4, <1>5 DEF Rest, Idle
<1>11. ExactReqOK(p)'
  BY <1>10 DEF ExactReqOK, Asking, Making, Saves
<1>12. Become(s, p)
  BY <1>2, <1>3, <1>5
<1> QED BY <1>1, <1>9, <1>11, <1>12, ExactStep

\* Every step keeps the marks accounted for, if none fails.
LEMMA ExactNext ==
  MakersAlone /\ ~Faults /\ TypeOK /\ PaymentInv /\ RoomInv /\ ExactInv /\ [Next]_vars
    => ExactInv'
<1> SUFFICES ASSUME MakersAlone, ~Faults, TypeOK, PaymentInv, RoomInv, ExactInv, [Next]_vars
             PROVE  ExactInv'
  OBVIOUS
<1>1. ASSUME NEW s \in Slots, Begin(s) PROVE ExactInv'
  BY <1>1, ExactPrepare, ExactOnBooking DEF Begin, OnBooking
<1>2. ASSUME NEW s \in Slots, Continue(s) PROVE ExactInv'
  BY <1>2, ExactAsking, ExactInsertBooking, ExactCreateBill, ExactMarkRoom, ExactBookRoom,
     ExactReply, ExactSaveLoad, ExactSaveFlush, ExactCharge, ExactCheckRoom, ExactReleaseRoom,
     ExactElsewhere
  DEF Continue
<1>3. ASSUME NEW s \in Slots, Fail(s) PROVE ExactInv'
  BY <1>3 DEF Fail, Throw, Abort, FailOne
<1>4. CASE UNCHANGED vars
  BY <1>4 DEF vars, ExactInv, ExactReqOK, HeldByLive, Live, Holds, Booked
<1> QED BY <1>1, <1>2, <1>3, <1>4 DEF Next

\* When the handlers that make a booking live run alone and no statement fails,
\* the mark of a room says, whenever no request is in progress, exactly whether
\* a live booking holds it.
THEOREM RoomFlagsExact == MakersAlone /\ ~Faults /\ Spec => []RoomFlagExact
<1>1. RoomInv /\ ExactInv => RoomFlagExact
  <2> SUFFICES ASSUME LiveRoomsMarked, ExactInv, \A s \in Slots : req[s].pc = "idle",
                      NEW r \in Rooms
               PROVE  is_booking[r] <=> HeldByLive(r)
    BY DEF RoomInv, RoomFlagExact
  <2>1. \A s \in Slots : Owed(req[s]) = {}
    BY OwesNothing
  <2> QED BY <2>1 DEF ExactInv, LiveRoomsMarked, HeldByLive
<1>2. SUFFICES ASSUME MakersAlone, ~Faults PROVE Spec => []RoomFlagExact
  OBVIOUS
<1>3. Spec => []TypeOK /\ []PaymentInv /\ []RoomInv
  BY <1>2, TypeCorrect, PaymentsConsistent, RoomsConsistent
<1>4. TypeOK /\ PaymentInv /\ RoomInv /\ ExactInv /\ [Next]_vars => ExactInv'
  BY <1>2, ExactNext
<1> QED BY <1>1, <1>3, <1>4, ExactInit, PTL DEF Spec
-----------------------------------------------------------------------------
(* A checkout ends with the services on a bill *)

\* The handler that adds services is kept apart from whatever else there is
AddsAlone == \A s, t \in Slots : s # t => "addService" \in Exclusive

LoneAdd ==
  \A s, t \in Slots :
    s # t /\ req[s].pc # "idle" /\ req[s].op = "addService" => req[t].pc = "idle"

\* What is true of a request q
ServiceReqOK(q) ==
  /\ q.pc = "adding" => q.op = "addService"
  /\ q.op = "checkout" => q.pc \in Saves \cup {"fulfil", "charge", "release"}
  /\ q.pc \in Asking \cup Making => (q.todo \cup q.cur) \cap UsedRows = {}
  /\ q.pc \in Saves \cup {"fulfil", "charge"} /\ q.op \in {"cancel", "checkout"} =>
       q.rows \cap UsedRows = link[q.id] \cap UsedRows
  /\ q.pc = "flush" => (q.gone \cup q.back) \cap UsedRows = {}
  /\ q.pc \in Calling => q.rows \cup q.gone \cup q.back \subseteq {BillRow(0)}
  /\ q.pc = "release" /\ q.op = "checkout" => UsagesIn(link[q.id]) \subseteq charged[q.id]

ServiceInv == LoneAdd /\ \A s \in Slots : ServiceReqOK(req[s])

\* What every step does but that of addService: the services attached stay, and
\* what is charged stays charged
ServicesKept ==
  \A b \in Ids : link'[b] \cap UsedRows = link[b] \cap UsedRows /\ charged[b] \subseteq charged'[b]

\* A request s that goes on with p does not end a checkout with a service unbilled
BilledBy(s, p) ==
  req[s].op = "checkout" /\ p.pc = "idle"
    => UsagesIn(link'[req[s].id]) \subseteq charged'[req[s].id]

Billed == \A s \in Slots : BilledBy(s, req'[s])

\* Nothing is asked of a slot with no request.
LEMMA IdleServices == ServiceReqOK(Idle)
BY DEF ServiceReqOK, Idle, Asking, Making, Saves, Calling

\* A step keeps addService alone ...
LEMMA LoneAddStep ==
  ASSUME AddsAlone, TypeOK, LoneAdd, NEW s \in Slots, NEW p, Become(s, p), Follows(s, p)
  PROVE  LoneAdd'
<1>1. \A t \in Slots : req'[t] = IF t = s THEN p ELSE req[t]
  BY DEF Become, TypeOK
<1>2. CASE p.pc = "idle"
  BY <1>1, <1>2 DEF LoneAdd
<1>3. CASE req[s].pc # "idle" /\ p.op = req[s].op
  BY <1>1, <1>3 DEF LoneAdd
<1>4. CASE MayBegin(s, p.op)
  BY <1>1, <1>4 DEF LoneAdd, MayBegin, AddsAlone
<1> QED BY <1>2, <1>3, <1>4 DEF Follows

\* ... and, if it keeps the services, what a request knows of them.
LEMMA KnownServices ==
  ASSUME ServicesKept, NEW q \in Request, ServiceReqOK(q)
  PROVE  ServiceReqOK(q)'
<1>1. CASE q.id \in Ids
  <2>1. link'[q.id] \cap UsedRows = link[q.id] \cap UsedRows /\ charged[q.id] \subseteq charged'[q.id]
    BY <1>1 DEF ServicesKept
  <2>2. UsagesIn(link'[q.id]) = UsagesIn(link[q.id])
    BY <2>1 DEF UsagesIn
  <2> QED BY <2>1, <2>2 DEF ServiceReqOK
<1>2. CASE q.id \notin Ids
  <2>1. q.pc \in BeforeInsert
    BY <1>2, ConstantsAssumption DEF Request, RequestRecord, Ids, NoId
  <2> QED BY <2>1 DEF ServiceReqOK, BeforeInsert, Saves, Calling, Asking, Making
<1> QED BY <1>1, <1>2

\* So only the request that takes the step matters.
LEMMA ServiceStep ==
  ASSUME AddsAlone, TypeOK, ServiceInv, NEW s \in Slots, NEW p, Become(s, p), Follows(s, p),
         ServiceReqOK(p)', ServicesKept, BilledBy(s, p)
  PROVE  ServiceInv' /\ Billed
<1>1. \A t \in Slots : req'[t] = IF t = s THEN p ELSE req[t]
  BY DEF Become, TypeOK
<1>2. ASSUME NEW t \in Slots PROVE ServiceReqOK(req[t])'
  <2>1. CASE t = s
    BY <1>1, <2>1 DEF ServiceReqOK
  <2>2. CASE t # s
    <3>1. PICK q : q = req[t]
      OBVIOUS
    <3>2. q \in Request /\ ServiceReqOK(q) /\ req'[t] = q
      BY <1>1, <2>2, <3>1 DEF TypeOK, ServiceInv
    <3>3. ServiceReqOK(q)'
      BY <3>2, KnownServices
    <3> QED BY <3>2, <3>3 DEF ServiceReqOK
  <2> QED BY <2>1, <2>2
<1>3. ASSUME NEW t \in Slots PROVE BilledBy(t, req'[t])
  <2>1. CASE t = s
    BY <1>1, <2>1
  <2>2. CASE t # s
    BY <1>1, <2>2 DEF BilledBy, ServiceInv, ServiceReqOK, Saves
  <2> QED BY <2>1, <2>2
<1>4. LoneAdd'
  BY LoneAddStep DEF ServiceInv
<1> QED BY <1>2, <1>3, <1>4 DEF ServiceInv, Billed

\* Whoever starts, or goes on, without being a checkout ends none.
LEMMA ServiceAside ==
  ASSUME AddsAlone, TypeOK, ServiceInv, NEW s \in Slots, NEW p, Become(s, p), Follows(s, p),
         ServiceReqOK(p)', ServicesKept,
         req[s].pc \notin Saves \cup {"fulfil", "charge", "release"}
  PROVE  ServiceInv' /\ Billed
<1>1. req[s].op # "checkout"
  BY DEF ServiceInv, ServiceReqOK
<1> QED BY <1>1, ServiceStep DEF BilledBy

\* Many steps leave the tables of the services alone.
LEMMA SameServices == UNCHANGED <<link, charged>> => ServicesKept
BY DEF ServicesKept

\* The server starts with no request.
LEMMA ServiceInit == Init => ServiceInv
<1> SUFFICES ASSUME Init PROVE ServiceInv
  OBVIOUS
<1>1. \A s \in Slots : req[s] = Idle
  BY DEF Init
<1>2. Idle.pc = "idle"
  BY DEF Idle
<1> QED BY <1>1, <1>2, IdleServices DEF ServiceInv, LoneAdd

\* _prepare deals with rows of rooms.
LEMMA ServicePrepare ==
  ASSUME AddsAlone, TypeOK, ServiceInv, NEW s \in Slots, Create(s) \/ CmsCreate(s)
  PROVE  ServiceInv' /\ Billed
<1>0. PICK op \in Creating : \E user, state : Prepare(s, op, user, state)
  BY DEF Create, CmsCreate, Creating
<1>1. PICK user, state : Prepare(s, op, user, state)
  BY <1>0
<1>2. PICK t, row, pay :
        LET free == {RoomRow(r, 1) : r \in FreeRooms(t)}
            asked == [Idle EXCEPT !.op = op, !.type = t, !.pay = pay, !.row = row]
        IN \/ Become(s, [asked EXCEPT !.pc = "shared", !.todo = free])
           \/ \E take \in SUBSET free : Become(s, Prepared([asked EXCEPT !.todo = take]))
  BY <1>1 DEF Prepare
<1> DEFINE free == {RoomRow(r, 1) : r \in FreeRooms(t)}
           asked == [Idle EXCEPT !.op = op, !.type = t, !.pay = pay, !.row = row]
<1>3. UNCHANGED tables /\ MayBegin(s, op) /\ req[s].pc = "idle"
  BY <1>1 DEF Prepare, MayBegin
<1>4. \E p : /\ Become(s, p) /\ p.op = op /\ p.pc \in Asking
             /\ (p.todo \cup p.cur) \subseteq free
  <2>1. CASE Become(s, [asked EXCEPT !.pc = "shared", !.todo = free])
    <3>1. PICK p : p = [asked EXCEPT !.pc = "shared", !.todo = free]
      OBVIOUS
    <3>2. p.pc = "shared" /\ p.op = op /\ p.todo = free /\ p.cur = {}
      BY <3>1 DEF Idle
    <3> QED BY <2>1, <3>1, <3>2 DEF Asking
  <2>2. ASSUME NEW take \in SUBSET free, Become(s, Prepared([asked EXCEPT !.todo = take]))
        PROVE  \E p : /\ Become(s, p) /\ p.op = op /\ p.pc \in Asking
                      /\ (p.todo \cup p.cur) \subseteq free
    <3>1. PICK p : p = Prepared([asked EXCEPT !.todo = take])
      OBVIOUS
    <3>2. p.pc \in {"insert", "customer"} /\ p.op = op /\ p.todo = take /\ p.cur = {}
      BY <3>1 DEF Idle, Prepared
    <3> QED BY <2>2, <3>1, <3>2 DEF Asking
  <2> QED BY <1>2, <2>1, <2>2
<1>5. PICK p : /\ Become(s, p) /\ p.op = op /\ p.pc \in Asking
               /\ (p.todo \cup p.cur) \subseteq free
  BY <1>4
<1>6. free \cap UsedRows = {}
  BY DEF RoomRow, UsedRows
<1>7. ServiceReqOK(p)'
  <2> HIDE DEF free
  <2> QED BY <1>5, <1>6 DEF ServiceReqOK, Asking, Saves, Calling, Creating
<1>8. ServicesKept
  BY <1>3, SameServices DEF tables, bills
<1> QED BY <1>3, <1>5, <1>7, <1>8, ServiceAside DEF Follows, Saves

\* The actions that make a booking
Make(s) ==
  \/ PrepareShared(s) \/ FindCustomer(s) \/ InsertBooking(s) \/ CreateBill(s)
  \/ MarkRoom(s) \/ BookRoom(s) \/ Reply(s)

\* A create goes on with its rooms, falls into its catch block, or ends.
LEMMA MakersGoOn ==
  ASSUME TypeOK, NEW s \in Slots, Make(s)
  PROVE  LET q == req[s]
             More(p) == \A c \in p.todo \cup p.cur : c \in q.todo \cup q.cur \/ c.kind = "booked_room"
         IN /\ q.pc \in Asking \cup Making
            /\ \/ Become(s, Idle)
               \/ \E p : /\ Become(s, p) /\ p.op = q.op /\ More(p)
                         /\ p.pc \in Asking \cup Making \cup {"load"}
                         /\ p.pc = "load" => p.op = "create"
<1> DEFINE q == req[s]
           More(p) == \A c \in p.todo \cup p.cur : c \in q.todo \cup q.cur \/ c.kind = "booked_room"
           Goes(p) == /\ p.op = q.op /\ More(p)
                      /\ p.pc \in Asking \cup Making \cup {"load"}
                      /\ p.pc = "load" => p.op = "create"
<1>1. q \in RequestRecord
  BY DEF TypeOK, Request
<1>2. q.pc \in Asking \cup Making
  BY DEF Make, PrepareShared, FindCustomer, InsertBooking, CreateBill, MarkRoom, BookRoom, Reply,
         Asking, Making
<1>3. CASE PrepareShared(s)
  <2>1. \/ Become(s, Idle)
        \/ \E more \in SUBSET {RoomRow(r, 2) : r \in Rooms} :
             Become(s, Prepared([q EXCEPT !.todo = @ \cup more]))
    BY <1>3 DEF PrepareShared, SharedRooms
  <2>2. ASSUME NEW more \in SUBSET {RoomRow(r, 2) : r \in Rooms},
               Become(s, Prepared([q EXCEPT !.todo = @ \cup more]))
        PROVE  \E p : Become(s, p) /\ Goes(p)
    <3>1. PICK p : p = Prepared([q EXCEPT !.todo = @ \cup more])
      OBVIOUS
    <3>2. p.pc \in {"insert", "customer"} /\ p.op = q.op /\ p.todo = q.todo \cup more /\ p.cur = q.cur
      BY <1>1, <3>1 DEF Prepared, RequestRecord
    <3>3. \A c \in more : c.kind = "booked_room"
      BY DEF RoomRow
    <3>4. More(p)
      BY <3>2, <3>3
    <3>5. Goes(p)
      BY <3>2, <3>4 DEF Asking
    <3> QED BY <2>2, <3>1, <3>5
  <2> QED BY <1>2, <2>1, <2>2
<1>4. CASE FindCustomer(s) \/ InsertBooking(s)
  <2>0. PICK pc \in {"insert", "bill"} : \E id :
          Become(s, Idle) \/ Become(s, [q EXCEPT !.pc = pc, !.id = id])
    <3>1. CASE FindCustomer(s)
      <4>1. [q EXCEPT !.pc = "insert"] = [q EXCEPT !.pc = "insert", !.id = q.id]
        BY <1>1 DEF RequestRecord
      <4> QED BY <3>1, <4>1 DEF FindCustomer
    <3>2. CASE InsertBooking(s)
      BY <3>2 DEF InsertBooking
    <3> QED BY <1>4, <3>1, <3>2
  <2>1. PICK id : Become(s, Idle) \/ Become(s, [q EXCEPT !.pc = pc, !.id = id])
    BY <2>0
  <2>2. PICK p : p = [q EXCEPT !.pc = pc, !.id = id]
    OBVIOUS
  <2>3. p.pc = pc /\ p.op = q.op /\ p.todo = q.todo /\ p.cur = q.cur
    BY <1>1, <2>2 DEF RequestRecord
  <2>4. Goes(p)
    BY <2>3 DEF Asking, Making
  <2> QED BY <1>2, <2>1, <2>2, <2>4
<1>5. CASE CreateBill(s)
  <2>1. Become(s, Loop(q)) \/ Become(s, Thrown(q))
    BY <1>5 DEF CreateBill
  <2>2. Goes(Loop(q))
    <3>1. PICK p : p = Loop(q)
      OBVIOUS
    <3>2. p.pc \in {"reply", "mark"} /\ p.op = q.op /\ p.todo = q.todo /\ p.cur = q.cur
      BY <1>1, <3>1 DEF Loop, RequestRecord
    <3> QED BY <3>1, <3>2 DEF Making
  <2>3. Thrown(q) = Idle \/ Goes(Thrown(q))
    <3>1. CASE q.op # "create"
      BY <3>1 DEF Thrown
    <3>2. CASE q.op = "create"
      <4>1. PICK p : p = Thrown(q)
        OBVIOUS
      <4>2. p.pc \in {"insert", "load"} /\ p.op = q.op /\ p.todo = {} /\ p.cur = {}
        BY <1>1, <3>2, <4>1 DEF Thrown, RequestRecord
      <4> QED BY <3>2, <4>1, <4>2 DEF Asking
    <3> QED BY <3>1, <3>2
  <2> QED BY <1>2, <2>1, <2>2, <2>3
<1>6. CASE MarkRoom(s)
  <2>0. PICK c \in q.todo : Become(s, [q EXCEPT !.pc = "book", !.todo = @ \ {c}, !.cur = {c}])
    BY <1>6 DEF MarkRoom
  <2>1. PICK p : p = [q EXCEPT !.pc = "book", !.todo = @ \ {c}, !.cur = {c}] /\ Become(s, p)
    BY <2>0
  <2>2. p.pc = "book" /\ p.op = q.op /\ p.todo = q.todo \ {c} /\ p.cur = {c}
    BY <1>1, <2>1 DEF RequestRecord
  <2>3. Goes(p)
    BY <2>2 DEF Making
  <2> QED BY <1>2, <2>1, <2>3
<1>7. CASE BookRoom(s)
  <2>1. PICK p : p = Loop([q EXCEPT !.cur = {}])
    OBVIOUS
  <2>2. p.pc \in {"reply", "mark"} /\ p.op = q.op /\ p.todo = q.todo /\ p.cur = {}
    BY <1>1, <2>1 DEF Loop, RequestRecord
  <2>3. Goes(p)
    BY <2>2 DEF Making
  <2>4. Become(s, p)
    BY <1>7, <2>1 DEF BookRoom
  <2> QED BY <1>2, <2>3, <2>4
<1>8. CASE Reply(s)
  BY <1>2, <1>8 DEF Reply
<1> QED BY <1>3, <1>4, <1>5, <1>6, <1>7, <1>8 DEF Make

\* Nothing that makes a booking attaches a service or changes what is charged.
LEMMA ServiceMake ==
  ASSUME AddsAlone, TypeOK, PaymentInv, ServiceInv, NEW s \in Slots, Make(s)
  PROVE  ServiceInv' /\ Billed
<1> DEFINE q == req[s]
<1>1. q.pc \in Asking \cup Making /\ ServiceReqOK(q)
  BY MakersGoOn DEF ServiceInv
<1>2. (q.todo \cup q.cur) \cap UsedRows = {} /\ q.op # "checkout"
  BY <1>1 DEF ServiceReqOK, Asking, Making, Saves
<1>3. ServicesKept
  <2>1. CASE PrepareShared(s) \/ FindCustomer(s) \/ InsertBooking(s) \/ MarkRoom(s) \/ Reply(s)
    BY <2>1, SameServices
    DEF PrepareShared, FindCustomer, InsertBooking, MarkRoom, Reply, tables, bills
  <2>2. CASE CreateBill(s)
    <3>1. q.id \in Ids /\ charged' = charged
          /\ link' = [link EXCEPT ![q.id] = @ \cup {BillRow(0)}]
      BY <2>2, OnBooked DEF CreateBill, BeforeInsert
    <3> QED BY <3>1, ChildKinds DEF ServicesKept, TypeOK, TablesType
  <2>3. CASE BookRoom(s)
    <3>1. q.id \in Ids /\ charged' = charged
          /\ link' = [link EXCEPT ![q.id] = @ \cup q.cur]
      BY <2>3, OnBooked DEF BookRoom, BeforeInsert, bills
    <3> QED BY <1>2, <3>1 DEF ServicesKept, TypeOK, TablesType
  <2> QED BY <2>1, <2>2, <2>3 DEF Make
<1>4. q.pc \notin Saves \cup {"fulfil", "charge", "release"} /\ q.pc # "idle"
  BY <1>1 DEF Asking, Making, Saves
<1>5. CASE Become(s, Idle)
  <2>1. ServiceReqOK(Idle)' /\ Follows(s, Idle)
    BY DEF ServiceReqOK, Idle, Asking, Making, Saves, Calling, Follows
  <2> HIDE DEF Idle
  <2> QED BY <1>3, <1>4, <1>5, <2>1, ServiceAside
<1>6. ASSUME NEW p, Become(s, p), p.op = q.op, p.pc \in Asking \cup Making \cup {"load"},
             p.pc = "load" => p.op = "create",
             \A c \in p.todo \cup p.cur : c \in q.todo \cup q.cur \/ c.kind = "booked_room"
      PROVE  ServiceInv' /\ Billed
  <2>1. (p.todo \cup p.cur) \cap UsedRows = {}
    BY <1>2, <1>6 DEF UsedRows
  <2>2. ServiceReqOK(p)'
    BY <1>2, <1>6, <2>1 DEF ServiceReqOK, Asking, Making, Saves, Calling
  <2>3. Follows(s, p)
    BY <1>4, <1>6 DEF Follows
  <2> QED BY <1>3, <1>4, <1>6, <2>2, <2>3, ServiceAside
<1> QED BY <1>5, <1>6, MakersGoOn

\* A handler that starts with a booking reads its services first.
LEMMA ServiceOnBooking ==
  ASSUME AddsAlone, TypeOK, ServiceInv, NEW s \in Slots, NEW b \in Booked, OnBooking(s, b)
  PROVE  ServiceInv' /\ Billed
<1>1. PICK p : Become(s, p) /\ Begun(p, b) /\ MayBegin(s, p.op)
  BY BeginsWith
<1>2. ServicesKept /\ link' = link
  BY BeginsWith, SameServices
<1>3. req[s].pc = "idle" /\ Follows(s, p)
  BY <1>1 DEF MayBegin, Follows
<1>4. ServiceReqOK(p)'
  BY <1>1, <1>2 DEF Begun, ServiceReqOK, Asking, Making, Saves, Calling
<1> QED BY <1>1, <1>2, <1>3, <1>4, ServiceAside DEF Saves

\* The SELECT of a save finds the services the handler knows.
LEMMA ServiceSaveLoad ==
  ASSUME AddsAlone, TypeOK, ServiceInv, NEW s \in Slots, SaveLoad(s)
  PROVE  ServiceInv' /\ Billed
<1> DEFINE q == req[s]
           managed == IF ManagesRelations(q) THEN link[q.id] ELSE q.rows
<1>1. ServiceReqOK(q) /\ q \in RequestRecord /\ q.pc = "load"
  BY DEF SaveLoad, TypeOK, Request, ServiceInv
<1>2. PICK diff : Become(s, [q EXCEPT !.pc = "flush", !.diff = diff, !.gone = managed \ q.rows,
                                      !.back = q.rows \ managed])
  BY DEF SaveLoad
<1>3. PICK p : p = [q EXCEPT !.pc = "flush", !.diff = diff, !.gone = managed \ q.rows,
                             !.back = q.rows \ managed]
  OBVIOUS
<1>4. /\ p.pc = "flush" /\ p.op = q.op /\ p.id = q.id /\ p.rows = q.rows
      /\ p.gone = managed \ q.rows /\ p.back = q.rows \ managed
  BY <1>1, <1>3 DEF RequestRecord
<1>5. link' = link /\ charged' = charged
  BY DEF SaveLoad, tables, bills
<1>6. managed \cap UsedRows = q.rows \cap UsedRows
  BY <1>1 DEF ManagesRelations, ServiceReqOK, Saves
<1>7. (p.gone \cup p.back) \cap UsedRows = {}
  BY <1>4, <1>6
<1>8. q.op \in {"cancel", "checkout"} => q.rows \cap UsedRows = link[q.id] \cap UsedRows
  BY <1>1 DEF ServiceReqOK, Saves
<1> HIDE DEF q, managed
<1>9. ServiceReqOK(p)'
  BY <1>4, <1>5, <1>7, <1>8 DEF ServiceReqOK, Asking, Making, Saves, Calling
<1>10. Follows(s, p) /\ BilledBy(s, p)
  BY <1>1, <1>4 DEF Follows, BilledBy, q
<1> QED BY <1>2, <1>3, <1>5, <1>9, <1>10, SameServices, ServiceStep DEF q

\* Its UPDATE detaches none and attaches none.
LEMMA ServiceSaveFlush ==
  ASSUME AddsAlone, TypeOK, PaymentInv, ServiceInv, NEW s \in Slots, SaveFlush(s)
  PROVE  ServiceInv' /\ Billed
<1> DEFINE q == req[s]
<1>1. ServiceReqOK(q) /\ q \in RequestRecord /\ q.pc = "flush" /\ q.id \in Ids
  BY OnBooked DEF SaveFlush, BeforeInsert, ServiceInv
<1>2. PICK old \in RequestRecord : old = q
  BY <1>1
<1>3. PICK p : p = Saved([old EXCEPT !.diff = {}, !.gone = {}, !.back = {}])
  OBVIOUS
<1>4. Become(s, p)
  BY <1>2, <1>3 DEF SaveFlush
<1>5. \/ p = Idle /\ q.op # "checkout"
      \/ q.op = "cancel" /\ p.pc = "release" /\ p.op = q.op
      \/ /\ q.op = "checkout" /\ p.pc \in {"fulfil", "charge"} /\ p.op = q.op /\ p.id = q.id
         /\ p.rows = q.rows
  BY <1>2, <1>3, SavedRequest
<1>6. /\ charged' = charged
      /\ link' = [link EXCEPT ![q.id] = Relinked(link[q.id], q.gone, q.back)]
  BY DEF SaveFlush, bills
<1>7. (q.gone \cup q.back) \cap UsedRows = {}
  BY <1>1 DEF ServiceReqOK
<1>8. ServicesKept
  BY <1>1, <1>6, <1>7 DEF ServicesKept, Relinked, TypeOK, TablesType
<1>9. q.op = "checkout" => q.rows \cap UsedRows = link'[q.id] \cap UsedRows
  BY <1>1, <1>8 DEF ServiceReqOK, ServicesKept, Saves
<1>10. p = Idle \/ p.pc # "idle"
  BY <1>5
<1>11. Idle.pc = "idle" /\ Idle.op = "none"
  BY DEF Idle
<1> HIDE DEF q, Idle
<1>12. ServiceReqOK(p)'
  BY <1>5, <1>9, <1>11 DEF ServiceReqOK, Asking, Making, Saves, Calling
<1>13. Follows(s, p) /\ BilledBy(s, p)
  BY <1>1, <1>5, <1>11 DEF Follows, BilledBy, q
<1> QED BY <1>4, <1>8, <1>12, <1>13, ServiceStep

\* The service bill is over all the services of the booking.
LEMMA ServiceCharge ==
  ASSUME AddsAlone, TypeOK, PaymentInv, ServiceInv, NEW s \in Slots,
         FulfilBills(s) \/ ChargeServices(s)
  PROVE  ServiceInv' /\ Billed
<1> DEFINE q == req[s]
<1>1. ServiceReqOK(q) /\ q \in RequestRecord /\ q.pc \in {"fulfil", "charge"} /\ q.id \in Ids
  BY OnBooked DEF FulfilBills, ChargeServices, BeforeInsert, ServiceInv
<1>2. q.op \in {"cancel", "checkout"} => q.rows \cap UsedRows = link[q.id] \cap UsedRows
  BY <1>1 DEF ServiceReqOK
<1>3. CASE FulfilBills(s)
  <2>1. PICK p : p = [q EXCEPT !.pc = "charge"]
    OBVIOUS
  <2>2. p.pc = "charge" /\ p.op = q.op /\ p.id = q.id /\ p.rows = q.rows
    BY <1>1, <2>1 DEF RequestRecord
  <2>3. Become(s, p) /\ link' = link /\ charged' = charged
    BY <1>3, <2>1 DEF FulfilBills
  <2> HIDE DEF q
  <2>4. ServiceReqOK(p)'
    BY <1>2, <2>2, <2>3 DEF ServiceReqOK, Asking, Making, Saves, Calling
  <2>5. Follows(s, p) /\ BilledBy(s, p)
    BY <1>1, <2>2 DEF Follows, BilledBy, q
  <2> QED BY <2>3, <2>4, <2>5, SameServices, ServiceStep
<1>4. CASE ChargeServices(s)
  <2>1. PICK n : n = [q EXCEPT !.pc = "release", !.todo = q.rows \cap RoomRows]
    OBVIOUS
  <2>2. n.pc = "release" /\ n.op = q.op /\ n.id = q.id
    BY <1>1, <2>1 DEF RequestRecord
  <2>3. PICK p : p = Rest(n)
    OBVIOUS
  <2>4. \/ p.pc = "idle" /\ p.op = "none"
        \/ p.pc = "release" /\ p.op = q.op /\ p.id = q.id
    BY <2>2, <2>3 DEF Rest, Idle
  <2>5. /\ charged' = [charged EXCEPT ![q.id] = charged[q.id] \cup UsagesIn(q.rows)]
        /\ link' = [link EXCEPT ![q.id] = link[q.id] \cup {BillRow(service_bills[q.id] + 1)}]
        /\ Become(s, p)
    BY <1>4, <2>1, <2>3 DEF ChargeServices, Releasing
  <2>6. ServicesKept
    BY <1>1, <2>5, ChildKinds DEF ServicesKept, TypeOK, TablesType
  <2>7. charged'[q.id] = charged[q.id] \cup UsagesIn(q.rows)
    BY <1>1, <2>5 DEF TypeOK, TablesType
  <2>8. q.op = "checkout" => UsagesIn(link'[q.id]) \subseteq charged'[q.id]
    <3>1. link'[q.id] \cap UsedRows = link[q.id] \cap UsedRows
      BY <1>1, <2>6 DEF ServicesKept
    <3> QED BY <1>2, <2>7, <3>1 DEF UsagesIn
  <2> HIDE DEF q
  <2>9. ServiceReqOK(p)'
    BY <2>4, <2>8 DEF ServiceReqOK, Asking, Making, Saves, Calling
  <2>10. Follows(s, p) /\ BilledBy(s, p)
    BY <1>1, <2>4, <2>8 DEF Follows, BilledBy, q
  <2> QED BY <2>5, <2>6, <2>9, <2>10, ServiceStep
<1> QED BY <1>3, <1>4

\* So they are billed while the rooms are released, and when that is over.
LEMMA ServiceRelease ==
  ASSUME AddsAlone, TypeOK, ServiceInv, NEW s \in Slots, CheckRoom(s) \/ ReleaseRoom(s)
  PROVE  ServiceInv' /\ Billed
<1> DEFINE q == req[s]
<1>1. ServiceReqOK(q) /\ q \in RequestRecord /\ q.pc = "release"
  BY DEF CheckRoom, ReleaseRoom, TypeOK, Request, ServiceInv
<1>2. PICK todo, cur : Become(s, Rest([q EXCEPT !.todo = todo, !.cur = cur]))
  <2>1. CASE CheckRoom(s)
    <3>1. PICK c : LET n == [q EXCEPT !.todo = @ \ {c}] IN
            Become(s, Rest(IF HeldByLive(c.room) THEN n ELSE [n EXCEPT !.cur = @ \cup {c}]))
      BY <2>1 DEF CheckRoom
    <3> DEFINE n == [q EXCEPT !.todo = @ \ {c}]
    <3>2. /\ n = [q EXCEPT !.todo = q.todo \ {c}, !.cur = q.cur]
          /\ [n EXCEPT !.cur = @ \cup {c}] = [q EXCEPT !.todo = q.todo \ {c}, !.cur = q.cur \cup {c}]
      BY <1>1 DEF RequestRecord
    <3> QED BY <3>1, <3>2
  <2>2. CASE ReleaseRoom(s)
    <3>1. PICK c : Become(s, Rest([q EXCEPT !.cur = q.cur \ {c}]))
      BY <2>2 DEF ReleaseRoom
    <3>2. [q EXCEPT !.cur = q.cur \ {c}] = [q EXCEPT !.todo = q.todo, !.cur = q.cur \ {c}]
      BY <1>1 DEF RequestRecord
    <3> QED BY <3>1, <3>2
  <2> QED BY <2>1, <2>2
<1>3. PICK n : n = [q EXCEPT !.todo = todo, !.cur = cur]
  OBVIOUS
<1>4. n.pc = "release" /\ n.op = q.op /\ n.id = q.id
  BY <1>1, <1>3 DEF RequestRecord
<1>5. PICK p : p = Rest(n)
  OBVIOUS
<1>6. \/ p.pc = "idle" /\ p.op = "none"
      \/ p.pc = "release" /\ p.op = q.op /\ p.id = q.id
  BY <1>4, <1>5 DEF Rest, Idle
<1>7. link' = link /\ charged' = charged
  BY DEF CheckRoom, ReleaseRoom, tables, bills
<1>8. q.op = "checkout" => UsagesIn(link[q.id]) \subseteq charged[q.id]
  BY <1>1 DEF ServiceReqOK
<1> HIDE DEF q
<1>9. ServiceReqOK(p)'
  BY <1>6, <1>7, <1>8 DEF ServiceReqOK, Asking, Making, Saves, Calling
<1>10. Follows(s, p) /\ BilledBy(s, p)
  BY <1>1, <1>6, <1>7, <1>8 DEF Follows, BilledBy, q
<1> QED BY <1>2, <1>3, <1>5, <1>7, <1>9, <1>10, SameServices, ServiceStep

\* Only addService attaches services, and it runs alone.
LEMMA ServiceInsertUsage ==
  ASSUME AddsAlone, TypeOK, ServiceInv, NEW s \in Slots, InsertUsage(s)
  PROVE  ServiceInv' /\ Billed
<1> DEFINE q == req[s]
<1>1. q \in RequestRecord /\ q.pc = "adding" /\ q.op = "addService"
  BY DEF InsertUsage, TypeOK, Request, ServiceInv, ServiceReqOK
<1>2. PICK c, n : n = [q EXCEPT !.todo = @ \ {c}] /\ Become(s, Rest(n))
  BY DEF InsertUsage
<1>3. n.pc = "adding" /\ n.op = "addService"
  BY <1>1, <1>2 DEF RequestRecord
<1>4. PICK p : p = Rest(n)
  OBVIOUS
<1>5. \/ p.pc = "idle" /\ p.op = "none"
      \/ p.pc = "adding" /\ p.op = "addService"
  BY <1>3, <1>4 DEF Rest, Idle
<1>6. \A t \in Slots : req'[t] = IF t = s THEN p ELSE req[t]
  BY <1>2, <1>4 DEF Become, TypeOK
<1>7. \A t \in Slots \ {s} : req[t].pc = "idle"
  BY <1>1 DEF ServiceInv, LoneAdd
<1>8. ASSUME NEW t \in Slots PROVE ServiceReqOK(req[t])'
  <2>1. \/ req'[t].pc = "idle" /\ req'[t].op # "checkout"
        \/ req'[t].pc = "adding" /\ req'[t].op = "addService"
    BY <1>5, <1>6, <1>7 DEF ServiceInv, ServiceReqOK, Saves
  <2> QED BY <2>1 DEF ServiceReqOK, Asking, Making, Saves, Calling
<1>9. LoneAdd'
  BY <1>5, <1>6, <1>7 DEF LoneAdd
<1>10. Billed
  BY <1>1, <1>7 DEF Billed, BilledBy, ServiceInv, ServiceReqOK, Saves
<1> QED BY <1>8, <1>9, <1>10 DEF ServiceInv

\* The callback deals with the room bill.
LEMMA ServiceCallback ==
  ASSUME AddsAlone, TypeOK, PaymentInv, ServiceInv, NEW s \in Slots,
         BillLoad(s) \/ BillFlush(s) \/ SetState(s)
  PROVE  ServiceInv' /\ Billed
<1> DEFINE q == req[s]
<1>1. ServiceReqOK(q) /\ q \in RequestRecord /\ q.pc \in Calling /\ q.id \in Ids
  BY OnBooked DEF BillLoad, BillFlush, SetState, BeforeInsert, Calling, ServiceInv
<1>2. q.rows \cup q.gone \cup q.back \subseteq {BillRow(0)}
  BY <1>1 DEF ServiceReqOK
<1>3. ServicesKept
  <2>1. CASE BillLoad(s) \/ SetState(s)
    BY <2>1, SameServices DEF BillLoad, SetState, tables, bills
  <2>2. CASE BillFlush(s)
    <3>1. charged' = charged /\ link' = [link EXCEPT ![q.id] = Relinked(@, q.gone, q.back)]
      BY <2>2 DEF BillFlush
    <3> QED BY <1>1, <1>2, <3>1, ChildKinds DEF ServicesKept, Relinked, TypeOK, TablesType
  <2> QED BY <2>1, <2>2
<1>4. \E p : /\ Become(s, p)
             /\ \/ p.pc = "idle" /\ p.op = "none"
                \/ /\ p.pc \in Calling /\ p.op = q.op
                   /\ p.rows \cup p.gone \cup p.back \subseteq {BillRow(0)}
  <2>1. CASE Become(s, Idle)
    BY <2>1 DEF Idle
  <2>2. CASE ~Become(s, Idle)
    <3>0. PICK pc \in Calling : \E diff, gone, back :
            /\ Become(s, [q EXCEPT !.pc = pc, !.diff = diff, !.gone = gone, !.back = back])
            /\ gone \cup back \subseteq {BillRow(0)}
      <4>1. CASE BillLoad(s)
        <5> DEFINE linked == link[q.id] \cap {BillRow(0)}
        <5>1. PICK diff : Become(s, [q EXCEPT !.pc = "bill_flush", !.diff = diff,
                                              !.gone = linked \ q.rows, !.back = q.rows \ linked])
          BY <4>1 DEF BillLoad
        <5>2. (linked \ q.rows) \cup (q.rows \ linked) \subseteq {BillRow(0)}
          BY <1>2
        <5> HIDE DEF linked
        <5> QED BY <5>1, <5>2 DEF Calling
      <4>2. CASE BillFlush(s)
        <5>1. PICK pc, none : /\ pc = "set_state" /\ none = {}
                              /\ Become(s, [q EXCEPT !.pc = pc, !.diff = none, !.gone = none,
                                                     !.back = none])
          BY <2>2, <4>2 DEF BillFlush
        <5>2. pc \in Calling /\ none \cup none \subseteq {BillRow(0)}
          BY <5>1 DEF Calling
        <5> QED BY <5>1, <5>2
      <4>3. CASE SetState(s)
        BY <2>2, <4>3 DEF SetState
      <4> QED BY <4>1, <4>2, <4>3
    <3>1. PICK diff, gone, back :
            /\ Become(s, [q EXCEPT !.pc = pc, !.diff = diff, !.gone = gone, !.back = back])
            /\ gone \cup back \subseteq {BillRow(0)}
      BY <3>0
    <3>2. PICK p : p = [q EXCEPT !.pc = pc, !.diff = diff, !.gone = gone, !.back = back]
      OBVIOUS
    <3>3. p.pc = pc /\ p.op = q.op /\ p.rows = q.rows /\ p.gone = gone /\ p.back = back
      BY <1>1, <3>2 DEF RequestRecord
    <3> QED BY <1>2, <3>1, <3>2, <3>3
  <2> QED BY <2>1, <2>2
<1>5. PICK p : /\ Become(s, p)
               /\ \/ p.pc = "idle" /\ p.op = "none"
                  \/ /\ p.pc \in Calling /\ p.op = q.op
                     /\ p.rows \cup p.gone \cup p.back \subseteq {BillRow(0)}
  BY <1>4
<1>6. q.op # "checkout"
  BY <1>1 DEF ServiceReqOK, Saves, Calling
<1>7. ServiceReqOK(p)'
  <2> HIDE DEF q
  <2> QED BY <1>5, <1>6 DEF ServiceReqOK, Asking, Making, Saves, Calling
<1>8. q.pc \notin Saves \cup {"fulfil", "charge", "release"} /\ q.pc # "idle"
  BY <1>1 DEF Saves, Calling
<1>9. Follows(s, p)
  BY <1>5, <1>8 DEF Follows
<1> QED BY <1>3, <1>5, <1>7, <1>8, <1>9, ServiceAside

\* Every step keeps what is known of the services, and ends no checkout with
\* one unbilled, if none fails.
LEMMA ServiceNext ==
  AddsAlone /\ ~Faults /\ TypeOK /\ PaymentInv /\ ServiceInv /\ [Next]_vars
    => ServiceInv' /\ Billed
<1> SUFFICES ASSUME AddsAlone, ~Faults, TypeOK, PaymentInv, ServiceInv, [Next]_vars
             PROVE  ServiceInv' /\ Billed
  OBVIOUS
<1>1. ASSUME NEW s \in Slots, Begin(s) PROVE ServiceInv' /\ Billed
  BY <1>1, ServicePrepare, ServiceOnBooking DEF Begin, OnBooking
<1>2. ASSUME NEW s \in Slots, Continue(s) PROVE ServiceInv' /\ Billed
  BY <1>2, ServiceMake, ServiceSaveLoad, ServiceSaveFlush, ServiceCharge, ServiceRelease,
     ServiceInsertUsage, ServiceCallback
  DEF Continue, Make
<1>3. ASSUME NEW s \in Slots, Fail(s) PROVE ServiceInv' /\ Billed
  BY <1>3 DEF Fail, Throw, Abort, FailOne
<1>4. CASE UNCHANGED <<link, charged, req>>
  <2>1. ServiceInv'
    BY <1>4 DEF ServiceInv, LoneAdd, ServiceReqOK
  <2>2. \A s \in Slots : req[s].op = "checkout" => req[s].pc # "idle"
    BY DEF ServiceInv, ServiceReqOK, Saves
  <2>3. Billed
    BY <1>4, <2>2 DEF Billed, BilledBy
  <2> QED BY <2>1, <2>3
<1>5. CASE UNCHANGED vars
  BY <1>4, <1>5 DEF vars
<1> QED BY <1>1, <1>2, <1>3, <1>5 DEF Next

\* When addService runs alone and no statement fails, a checkout that ends leaves
\* every service attached to the booking on a bill, whatever else overlaps it.
THEOREM ServicesAreBilled == AddsAlone /\ ~Faults /\ Spec => CheckoutBillsServices
<1>1. SUFFICES ASSUME AddsAlone, ~Faults PROVE Spec => CheckoutBillsServices
  OBVIOUS
<1>2. Spec => []TypeOK /\ []PaymentInv
  BY TypeCorrect, PaymentsConsistent
<1>3. TypeOK /\ PaymentInv /\ ServiceInv /\ [Next]_vars => ServiceInv' /\ Billed
  BY <1>1, ServiceNext
<1>4. Billed => \A s \in Slots :
                  req[s].op = "checkout" /\ req'[s].pc = "idle"
                    => UsagesIn(link'[req[s].id]) \subseteq charged'[req[s].id]
  BY DEF Billed, BilledBy
<1> QED BY <1>2, <1>3, <1>4, ServiceInit, PTL DEF Spec, CheckoutBillsServices
-----------------------------------------------------------------------------
(* A room is booked twice only with a third *)

\* Whoever lives in room r on a day of the stay leaves it to a booking id because
\* of a third, which lies apart
Spared(r, stay, id) ==
  \A b \in Booked \ {id} :
    Live(b) /\ Holds(b, r) /\ ShareADay(stay, booking[b].stay) =>
      \E b3 \in Booked \ {b, id} : Holds(b3, r) /\ Apart(stay, booking[b3])

\* What is true of a request q
DoubleReqOK(q) ==
  /\ q.pc \in Asking => q.row.stay \in Stays
  /\ q.pc \in {"customer", "insert"} => \A c \in q.todo : Spared(c.room, q.row.stay, NoId)
  /\ q.pc \in Making =>
       \A c \in q.todo \cup q.cur : Spared(c.room, booking[q.id].stay, q.id)

DoubleInv ==
  /\ OnlyAThirdDoubles
  /\ \A b \in Booked : booking[b].stay \in Stays
  /\ \A s \in Slots : DoubleReqOK(req[s])

\* What most steps do to the columns it reads
StaysKept ==
  /\ next_id' = next_id
  /\ \A b \in Ids : /\ link'[b] \cap RoomRows = link[b] \cap RoomRows
                    /\ booking'[b].stay = booking[b].stay
                    /\ Live(b)' => Live(b)

\* They move no booking into a room and none in time.
LEMMA StaysColumns ==
  ASSUME StaysKept
  PROVE  /\ Booked' = Booked
         /\ \A b \in Ids : booking'[b].stay = booking[b].stay /\ (Live(b)' => Live(b))
         /\ \A b \in Ids : \A r : Holds(b, r)' <=> Holds(b, r)
         /\ \A b \in Ids : \A stay : Apart(stay, booking[b])' <=> Apart(stay, booking[b])
BY DEF StaysKept, Booked, Holds, Apart

\* So who was spared stays so ...
LEMMA SparedStays ==
  ASSUME StaysKept, NEW r, NEW stay, NEW id, Spared(r, stay, id)
  PROVE  Spared(r, stay, id)'
<1>1. Booked' = Booked /\ Booked \subseteq Ids
  BY StaysColumns DEF Booked
<1> SUFFICES ASSUME NEW b \in Booked \ {id}, Live(b)', Holds(b, r)',
                    ShareADay(stay, booking'[b].stay)
             PROVE  \E b3 \in Booked \ {b, id} : Holds(b3, r)' /\ Apart(stay, booking[b3])'
  BY <1>1 DEF Spared
<1>2. Live(b) /\ Holds(b, r) /\ ShareADay(stay, booking[b].stay)
  BY <1>1, StaysColumns
<1>3. PICK b3 \in Booked \ {b, id} : Holds(b3, r) /\ Apart(stay, booking[b3])
  BY <1>2 DEF Spared
<1> QED BY <1>1, <1>3, StaysColumns

\* ... and no room is booked twice.
LEMMA KeptDoubles ==
  ASSUME StaysKept, OnlyAThirdDoubles, \A b \in Booked : booking[b].stay \in Stays
  PROVE  OnlyAThirdDoubles' /\ (\A b \in Booked : booking[b].stay \in Stays)'
<1>1. Booked' = Booked /\ Booked \subseteq Ids
  BY StaysColumns DEF Booked
<1>2. (\A b \in Booked : booking[b].stay \in Stays)'
  BY <1>1, StaysColumns
<1>3. OnlyAThirdDoubles'
  <2> SUFFICES ASSUME NEW b1 \in Booked, NEW b2 \in Booked, NEW r \in Rooms, b1 # b2,
                      Live(b1)', Live(b2)', Holds(b1, r)', Holds(b2, r)',
                      ShareADay(booking'[b1].stay, booking'[b2].stay)
               PROVE  \E b3 \in Booked \ {b1, b2} :
                        /\ Holds(b3, r)'
                        /\ \/ Apart(booking[b1].stay, booking[b3])'
                           \/ Apart(booking[b2].stay, booking[b3])'
    BY <1>1 DEF OnlyAThirdDoubles
  <2>1. /\ Live(b1) /\ Live(b2) /\ Holds(b1, r) /\ Holds(b2, r)
        /\ ShareADay(booking[b1].stay, booking[b2].stay)
    BY <1>1, StaysColumns
  <2>2. PICK b3 \in Booked \ {b1, b2} :
          /\ Holds(b3, r)
          /\ Apart(booking[b1].stay, booking[b3]) \/ Apart(booking[b2].stay, booking[b3])
    BY <2>1 DEF OnlyAThirdDoubles
  <2>3. booking'[b1].stay = booking[b1].stay /\ booking'[b2].stay = booking[b2].stay
    BY <1>1, StaysColumns
  <2>4. Holds(b3, r)' /\ booking'[b3].stay = booking[b3].stay
    BY <1>1, <2>2, StaysColumns
  <2> QED BY <2>2, <2>3, <2>4 DEF Apart
<1> QED BY <1>2, <1>3

\* Only the request that takes the step matters.
LEMMA DoubleStep ==
  ASSUME MakersAlone, TypeOK, RoomInv, NEW s \in Slots, NEW q, Become(s, q),
         req[s].pc # "idle" \/ \E op : MayBegin(s, op), DoubleReqOK(q)',
         OnlyAThirdDoubles', (\A b \in Booked : booking[b].stay \in Stays)'
  PROVE  DoubleInv'
<1>1. \A t \in Slots : req'[t] = IF t = s THEN q ELSE req[t]
  BY DEF Become, TypeOK
<1>2. ASSUME NEW t \in Slots PROVE DoubleReqOK(req[t])'
  <2>1. CASE t # s
    <3>1. req'[t].pc \notin Asking \cup Making
      BY <1>1, <2>1, OthersMakeNothing
    <3> QED BY <3>1 DEF DoubleReqOK, Asking, Making
  <2>2. CASE t = s
    BY <1>1, <2>2 DEF DoubleReqOK
  <2> QED BY <2>1, <2>2
<1> QED BY <1>2 DEF DoubleInv

\* A step that keeps the columns needs its own request to be all right.
LEMMA DoubleKeptStep ==
  ASSUME MakersAlone, TypeOK, RoomInv, DoubleInv, NEW s \in Slots, NEW q, Become(s, q),
         req[s].pc # "idle" \/ \E op : MayBegin(s, op), DoubleReqOK(q)', StaysKept
  PROVE  DoubleInv'
BY DoubleStep, KeptDoubles DEF DoubleInv

\* A step that leaves the tables alone keeps the columns.
LEMMA TablesKeepStays == UNCHANGED tables => StaysKept
BY DEF tables, StaysKept, Live

\* What lies apart shares no day.
LEMMA ApartOrShared ==
  ASSUME NEW stay \in Stays, NEW row, row.stay \in Stays, Apart(stay, row)
  PROVE  ~ShareADay(stay, row.stay)
<1>1. /\ stay.checkin \in Nat /\ stay.checkout \in Nat
      /\ row.stay.checkin \in Nat /\ row.stay.checkout \in Nat
  BY ConstantsAssumption
<1> QED BY <1>1 DEF Apart, ShareADay

\* A room of the first query is not marked, so nobody lives in it.
LEMMA FreeIsSpared ==
  ASSUME RoomInv, NEW t, NEW r \in FreeRooms(t)
  PROVE  \A stay, id : Spared(r, stay, id)
<1>1. \A b \in Booked : Live(b) => ~Holds(b, r)
  BY DEF RoomInv, LiveRoomsMarked, FreeRooms
<1> QED BY <1>1 DEF Spared

\* One of the second is spared by the booking that the query found.
LEMMA SharedIsSpared ==
  ASSUME DoubleInv, NEW t, NEW stay \in Stays, NEW r \in SharedRooms(t, stay)
  PROVE  Spared(r, stay, NoId)
<1>1. PICK b3 \in Booked : Holds(b3, r) /\ Apart(stay, booking[b3])
  BY DEF SharedRooms
<1>2. ~ShareADay(stay, booking[b3].stay) /\ b3 # NoId
  BY <1>1, ApartOrShared, ConstantsAssumption DEF DoubleInv, Booked, Ids, NoId
<1> QED BY <1>1, <1>2 DEF Spared

\* The server starts with no room taken.
LEMMA DoubleInit == Init => DoubleInv
<1> SUFFICES ASSUME Init PROVE DoubleInv
  OBVIOUS
<1>1. \A s \in Slots : DoubleReqOK(req[s])
  BY DEF Init, Idle, Asking, Making, DoubleReqOK
<1>2. Booked = {}
  BY ConstantsAssumption DEF Init, TablesInit, Booked, Ids
<1> QED BY <1>1, <1>2 DEF DoubleInv, OnlyAThirdDoubles

\* _prepare asks for one of the stays and takes free rooms.
LEMMA DoublePrepare ==
  ASSUME MakersAlone, TypeOK, RoomInv, DoubleInv, NEW s \in Slots, Create(s) \/ CmsCreate(s)
  PROVE  DoubleInv'
<1>1. PICK op \in Creating, user \in Users, state \in {"Init", "AdminInit"} :
        Prepare(s, op, user, state)
  BY DEF Create, CmsCreate, Creating, Users
<1>2. PICK t \in RoomTypes, stay \in Stays, quantity \in 1 .. MaxQuantity, pay \in Payments :
        LET free == {RoomRow(r, 1) : r \in FreeRooms(t)}
            asked == [Idle EXCEPT !.op = op, !.type = t, !.pay = pay,
                                  !.row = NewRow(user, state, stay, quantity)]
        IN IF Cardinality(free) < quantity
           THEN Become(s, [asked EXCEPT !.pc = "shared", !.todo = free])
           ELSE \E take \in SUBSET free :
                  /\ Cardinality(take) = quantity
                  /\ Become(s, Prepared([asked EXCEPT !.todo = take]))
  BY <1>1 DEF Prepare
<1> DEFINE free == {RoomRow(r, 1) : r \in FreeRooms(t)}
           new == NewRow(user, state, stay, quantity)
           asked == [Idle EXCEPT !.op = op, !.type = t, !.pay = pay, !.row = new]
<1>3. MayBegin(s, op) /\ UNCHANGED tables /\ StaysKept /\ new.stay = stay
  BY <1>1, TablesKeepStays DEF Prepare, NewRow
<1>4. CASE Become(s, [asked EXCEPT !.pc = "shared", !.todo = free])
  <2>1. PICK p : p = [asked EXCEPT !.pc = "shared", !.todo = free]
    OBVIOUS
  <2>2. p.pc = "shared" /\ p.row = new
    BY <2>1 DEF Idle
  <2> HIDE DEF new
  <2>3. DoubleReqOK(p)'
    BY <1>3, <2>2 DEF DoubleReqOK, Making
  <2> QED BY <1>3, <1>4, <2>1, <2>3, DoubleKeptStep DEF new
<1>5. ASSUME NEW take \in SUBSET free, Become(s, Prepared([asked EXCEPT !.todo = take]))
      PROVE  DoubleInv'
  <2>1. PICK p : p = Prepared([asked EXCEPT !.todo = take])
    OBVIOUS
  <2>2. p.pc \in {"insert", "customer"} /\ p.row = new /\ p.todo = take
    BY <2>1 DEF Idle, Prepared
  <2>3. \A c \in take : Spared(c.room, stay, NoId)
    <3>1. \A c \in take : c.room \in FreeRooms(t)
      BY DEF RoomRow
    <3> QED BY <3>1, FreeIsSpared
  <2>4. \A c \in take : Spared(c.room, stay, NoId)'
    BY <1>3, <2>3, SparedStays
  <2> HIDE DEF new
  <2>5. DoubleReqOK(p)'
    BY <1>3, <2>2, <2>4 DEF DoubleReqOK, Making
  <2> QED BY <1>3, <1>5, <2>1, <2>5, DoubleKeptStep DEF new
<1> QED BY <1>2, <1>4, <1>5

\* The rooms of both queries are spared.
LEMMA DoublePrepareShared ==
  ASSUME MakersAlone, TypeOK, RoomInv, LinkInv, DoubleInv, NEW s \in Slots, PrepareShared(s)
  PROVE  DoubleInv'
<1> DEFINE shared == {RoomRow(r, 2) : r \in SharedRooms(req[s].type, req[s].row.stay)}
<1>1. PICK q : q = req[s]
  OBVIOUS
<1>2. q.pc = "shared" /\ q \in RequestRecord /\ StaysKept /\ q.row.stay \in Stays
  BY <1>1, TablesKeepStays
  DEF PrepareShared, TypeOK, Request, DoubleInv, DoubleReqOK, Asking
<1>3. PICK more \in SUBSET shared :
        Become(s, Idle) \/ Become(s, Prepared([q EXCEPT !.todo = @ \cup more]))
  BY <1>1 DEF PrepareShared
<1>4. CASE Become(s, Idle)
  BY <1>1, <1>2, <1>4, DoubleKeptStep DEF DoubleReqOK, Idle, Making, Asking
<1>5. CASE Become(s, Prepared([q EXCEPT !.todo = @ \cup more]))
  <2>1. PICK p : p = Prepared([q EXCEPT !.todo = @ \cup more])
    OBVIOUS
  <2>2. p.pc \in {"insert", "customer"} /\ p.row = q.row /\ p.todo = q.todo \cup more
    BY <1>2, <2>1 DEF Prepared, RequestRecord
  <2>3. \A c \in q.todo : c.room \in FreeRooms(q.type)
    <3>1. q.todo = {RoomRow(r, 1) : r \in FreeRooms(q.type)}
      BY <1>1, <1>2 DEF LinkInv, LinkReqOK
    <3> QED BY <3>1 DEF RoomRow
  <2>4. \A c \in more : c.room \in SharedRooms(q.type, q.row.stay)
    BY <1>1 DEF RoomRow
  <2>5. \A c \in p.todo : Spared(c.room, q.row.stay, NoId)
    BY <1>2, <2>2, <2>3, <2>4, FreeIsSpared, SharedIsSpared
  <2>6. \A c \in p.todo : Spared(c.room, p.row.stay, NoId)'
    BY <1>2, <2>2, <2>5, SparedStays
  <2>7. DoubleReqOK(p)'
    BY <1>2, <2>2, <2>6 DEF DoubleReqOK, Making
  <2> QED BY <1>1, <1>2, <1>5, <2>1, <2>7, DoubleKeptStep
<1> QED BY <1>3, <1>4, <1>5

\* Finding the customer changes nothing of that.
LEMMA DoubleFindCustomer ==
  ASSUME MakersAlone, TypeOK, RoomInv, DoubleInv, NEW s \in Slots, FindCustomer(s)
  PROVE  DoubleInv'
<1>1. PICK q : q = req[s]
  OBVIOUS
<1>2. q.pc = "customer" /\ q \in RequestRecord /\ DoubleReqOK(q)
  BY <1>1 DEF FindCustomer, TypeOK, Request, DoubleInv
<1>3. PICK p : p = [q EXCEPT !.pc = "insert"]
  OBVIOUS
<1>4. p.pc = "insert" /\ p.row = q.row /\ p.todo = q.todo
  BY <1>2, <1>3 DEF RequestRecord
<1>5. Become(s, p) /\ StaysKept
  BY <1>1, <1>3 DEF FindCustomer, StaysKept, Live
<1>6. \A c \in p.todo : Spared(c.room, p.row.stay, NoId)'
  BY <1>2, <1>4, <1>5, SparedStays DEF DoubleReqOK
<1>7. DoubleReqOK(p)'
  BY <1>2, <1>4, <1>6 DEF DoubleReqOK, Asking, Making
<1> QED BY <1>1, <1>2, <1>5, <1>7, DoubleKeptStep

\* The new booking is in no room yet.
LEMMA DoubleInsertBooking ==
  ASSUME MakersAlone, TypeOK, PaymentInv, RoomInv, LinkInv, DoubleInv, NEW s \in Slots,
         InsertBooking(s)
  PROVE  DoubleInv'
<1>1. PICK q : q = req[s]
  OBVIOUS
<1>2. q.pc = "insert" /\ q \in RequestRecord /\ DoubleReqOK(q) /\ q.cur = {}
  BY <1>1 DEF InsertBooking, TypeOK, Request, DoubleInv, LinkInv, LinkReqOK, Asking
<1>3. PICK id : id = next_id
  OBVIOUS
<1>4. PICK p : p = IF Caught(q) THEN Idle ELSE [q EXCEPT !.pc = "bill", !.id = id]
  OBVIOUS
<1>5. /\ Become(s, p) /\ next_id' = id + 1 /\ id \in Ids \ Booked
      /\ booking' = [booking EXCEPT ![id] = q.row] /\ link' = link
  BY <1>1, <1>3, <1>4 DEF InsertBooking, TypeOK, TablesType, Ids, Booked
<1>6. /\ Booked' = Booked \cup {id} /\ booking'[id] = q.row
      /\ \A b \in Booked : booking'[b] = booking[b]
  BY <1>3, <1>5 DEF Booked, Ids, TypeOK, TablesType
<1>7. /\ \A b, r : Holds(b, r)' <=> Holds(b, r)
      /\ \A r : ~Holds(id, r)
      /\ \A b \in Booked : Live(b)' <=> Live(b)
      /\ \A b \in Booked : \A stay : Apart(stay, booking[b])' <=> Apart(stay, booking[b])
  BY <1>5, <1>6 DEF Holds, Live, Apart, RoomInv
<1>8. (\A b \in Booked : booking[b].stay \in Stays)'
  BY <1>2, <1>6 DEF DoubleInv, DoubleReqOK, Asking
<1>9. OnlyAThirdDoubles'
  <2> SUFFICES ASSUME NEW b1 \in Booked', NEW b2 \in Booked', NEW r \in Rooms, b1 # b2,
                      Live(b1)', Live(b2)', Holds(b1, r)', Holds(b2, r)',
                      ShareADay(booking'[b1].stay, booking'[b2].stay)
               PROVE  \E b3 \in Booked \ {b1, b2} :
                        /\ Holds(b3, r)'
                        /\ \/ Apart(booking[b1].stay, booking[b3])'
                           \/ Apart(booking[b2].stay, booking[b3])'
    BY <1>6 DEF OnlyAThirdDoubles
  <2>1. b1 \in Booked /\ b2 \in Booked
    BY <1>6, <1>7
  <2>2. PICK b3 \in Booked \ {b1, b2} :
          /\ Holds(b3, r)
          /\ Apart(booking[b1].stay, booking[b3]) \/ Apart(booking[b2].stay, booking[b3])
    BY <1>6, <1>7, <2>1 DEF DoubleInv, OnlyAThirdDoubles
  <2> QED BY <1>6, <1>7, <2>1, <2>2 DEF Apart
<1>10. CASE Caught(q)
  <2>1. DoubleReqOK(p)'
    BY <1>4, <1>10 DEF DoubleReqOK, Idle, Asking, Making
  <2> QED BY <1>1, <1>2, <1>5, <1>8, <1>9, <2>1, DoubleStep
<1>11. CASE ~Caught(q)
  <2>1. p.pc = "bill" /\ p.id = id /\ p.cur = {} /\ p.todo = q.todo
    BY <1>2, <1>4, <1>11 DEF RequestRecord
  <2>2. ASSUME NEW c \in q.todo PROVE Spared(c.room, q.row.stay, id)'
    <3>1. Spared(c.room, q.row.stay, NoId)
      BY <1>2 DEF DoubleReqOK
    <3>2. NoId \notin Booked
      BY ConstantsAssumption DEF Booked, Ids, NoId
    <3>3. ASSUME NEW b \in Booked, Live(b), Holds(b, c.room),
                 ShareADay(q.row.stay, booking[b].stay)
          PROVE  \E b3 \in Booked \ {b} : Holds(b3, c.room) /\ Apart(q.row.stay, booking[b3])
      BY <3>1, <3>2, <3>3 DEF Spared
    <3> SUFFICES ASSUME NEW b \in Booked, Live(b)', Holds(b, c.room)',
                        ShareADay(q.row.stay, booking'[b].stay)
                 PROVE  \E b3 \in Booked \ {b} :
                          Holds(b3, c.room)' /\ Apart(q.row.stay, booking[b3])'
      BY <1>5, <1>6 DEF Spared
    <3>4. PICK b3 \in Booked \ {b} : Holds(b3, c.room) /\ Apart(q.row.stay, booking[b3])
      BY <1>6, <1>7, <3>3
    <3> QED BY <1>7, <3>4
  <2>3. DoubleReqOK(p)'
    BY <1>6, <2>1, <2>2 DEF DoubleReqOK, Asking
  <2> QED BY <1>1, <1>2, <1>5, <1>8, <1>9, <2>3, DoubleStep
<1> QED BY <1>10, <1>11

\* A create goes on with rooms that were spared for its booking.
LEMMA DoubleGoesOn ==
  ASSUME StaysKept, NEW q, DoubleReqOK(q), q.pc \in Making, q.id \in Ids,
         NEW p, p.pc \in Making, p.id = q.id, p.todo \cup p.cur \subseteq q.todo \cup q.cur
  PROVE  DoubleReqOK(p)'
<1>1. \A c \in p.todo \cup p.cur : Spared(c.room, booking[q.id].stay, q.id)
  BY DEF DoubleReqOK
<1>2. PICK stay : stay = booking[q.id].stay
  OBVIOUS
<1>3. \A c \in p.todo \cup p.cur : Spared(c.room, stay, q.id)'
  BY <1>1, <1>2, SparedStays
<1>4. booking'[q.id].stay = stay
  BY <1>2 DEF StaysKept
<1> QED BY <1>3, <1>4 DEF DoubleReqOK, Asking, Making

\* The bill of a booking is no room of it.
LEMMA DoubleCreateBill ==
  ASSUME MakersAlone, TypeOK, PaymentInv, RoomInv, DoubleInv, NEW s \in Slots, CreateBill(s)
  PROVE  DoubleInv'
<1>1. PICK q : q = req[s]
  OBVIOUS
<1>2. DoubleReqOK(q) /\ q \in RequestRecord /\ q.pc = "bill" /\ q.id \in Ids
  BY <1>1, OnBooked DEF CreateBill, BeforeInsert, DoubleInv
<1>3. \A b \in Ids : link'[b] \cap RoomRows = link[b] \cap RoomRows
  BY <1>1, <1>2, ChildKinds DEF CreateBill, TypeOK, TablesType
<1>4. StaysKept
  BY <1>3 DEF StaysKept, CreateBill, keys, Live
<1>5. PICK p : Become(s, p) /\ p \in {Loop(q), Thrown(q)}
  BY <1>1 DEF CreateBill
<1>6. CASE p = Loop(q)
  <2>1. p.pc \in Making /\ p.cur = q.cur /\ p.todo = q.todo /\ p.id = q.id
    BY <1>2, <1>6 DEF Loop, RequestRecord, Making
  <2>2. DoubleReqOK(p)'
    BY <1>2, <1>4, <2>1, DoubleGoesOn DEF Making
  <2> QED BY <1>1, <1>2, <1>4, <1>5, <2>2, DoubleKeptStep
<1>7. CASE p = Thrown(q)
  <2>1. p.pc \in {"load", "idle"}
    BY <1>2, <1>7, ConstantsAssumption DEF Thrown, RequestRecord, Ids, NoId, Idle
  <2>2. DoubleReqOK(p)'
    BY <2>1 DEF DoubleReqOK, Asking, Making
  <2> QED BY <1>1, <1>2, <1>4, <1>5, <2>2, DoubleKeptStep
<1> QED BY <1>5, <1>6, <1>7

\* Marking a room gives it to nobody yet.
LEMMA DoubleMarkRoom ==
  ASSUME MakersAlone, TypeOK, PaymentInv, RoomInv, DoubleInv, NEW s \in Slots, MarkRoom(s)
  PROVE  DoubleInv'
<1>1. PICK q : q = req[s]
  OBVIOUS
<1>2. DoubleReqOK(q) /\ q \in RequestRecord /\ q.pc = "mark" /\ q.id \in Ids
  BY <1>1, OnBooked DEF MarkRoom, BeforeInsert, DoubleInv
<1>3. PICK c \in q.todo : Become(s, [q EXCEPT !.pc = "book", !.todo = @ \ {c}, !.cur = {c}])
  BY <1>1 DEF MarkRoom
<1>4. PICK p : p = [q EXCEPT !.pc = "book", !.todo = @ \ {c}, !.cur = {c}]
  OBVIOUS
<1>5. p.pc = "book" /\ p.id = q.id /\ p.todo = q.todo \ {c} /\ p.cur = {c}
  BY <1>2, <1>4 DEF RequestRecord
<1>6. StaysKept
  BY DEF MarkRoom, StaysKept, keys, Live
<1>7. DoubleReqOK(p)'
  BY <1>2, <1>5, <1>6, DoubleGoesOn DEF Making
<1> QED BY <1>1, <1>2, <1>3, <1>4, <1>6, <1>7, DoubleKeptStep

\* A room that is attached was spared for the booking, by everyone who lives in it.
LEMMA DoubleBookRoom ==
  ASSUME MakersAlone, TypeOK, PaymentInv, RoomInv, DoubleInv, NEW s \in Slots, BookRoom(s)
  PROVE  DoubleInv'
<1>1. PICK q : q = req[s]
  OBVIOUS
<1>2. DoubleReqOK(q) /\ q \in RequestRecord /\ q.pc = "book" /\ q.id \in Booked
  BY <1>1, OnBooked DEF BookRoom, BeforeInsert, DoubleInv
<1>3. PICK p : p = Loop([q EXCEPT !.cur = {}])
  OBVIOUS
<1>4. p.pc \in Making /\ p.id = q.id /\ p.todo = q.todo /\ p.cur = {}
  BY <1>2, <1>3 DEF RequestRecord, Loop, Making
<1>5. /\ UNCHANGED <<booking, next_id>> /\ Become(s, p)
      /\ \A b \in Ids : link'[b] = IF b = q.id THEN link[b] \cup q.cur ELSE link[b]
  BY <1>1, <1>2, <1>3 DEF BookRoom, keys, TypeOK, TablesType, Booked
<1>6. /\ Booked' = Booked /\ \A b : Live(b)' <=> Live(b)
      /\ \A stay, b : Apart(stay, booking[b])' <=> Apart(stay, booking[b])
      /\ \A b \in Booked \ {q.id} : \A r : Holds(b, r)' <=> Holds(b, r)
      /\ \A r : Holds(q.id, r) => Holds(q.id, r)'
      /\ \A r : Holds(q.id, r)' => Holds(q.id, r) \/ \E c \in q.cur : c.room = r
  BY <1>2, <1>5 DEF Booked, Live, Apart, Holds
<1>7. PICK own : own = booking[q.id].stay
  OBVIOUS
<1>8. \A c \in q.todo \cup q.cur : Spared(c.room, own, q.id)
  BY <1>2, <1>7 DEF DoubleReqOK, Making
<1>9. \A c \in q.todo : Spared(c.room, own, q.id)'
  BY <1>5, <1>6, <1>8 DEF Spared
<1>10. DoubleReqOK(p)'
  BY <1>4, <1>5, <1>7, <1>9 DEF DoubleReqOK, Making, Asking
<1>11. ASSUME NEW b \in Booked \ {q.id}, NEW r, Live(b), Holds(b, r), Live(q.id),
              Holds(q.id, r)', r \in Rooms,
              ShareADay(own, booking[b].stay) \/ ShareADay(booking[b].stay, own)
       PROVE  \E b3 \in Booked \ {b, q.id} :
                Holds(b3, r) /\ (Apart(own, booking[b3]) \/ Apart(booking[b].stay, booking[b3]))
  <2>1. ShareADay(own, booking[b].stay)
    BY <1>11 DEF ShareADay
  <2>2. CASE Holds(q.id, r)
    BY <1>2, <1>7, <1>11, <2>1, <2>2 DEF DoubleInv, OnlyAThirdDoubles
  <2>3. CASE \E c \in q.cur : c.room = r
    BY <1>8, <1>11, <2>1, <2>3 DEF Spared
  <2> QED BY <1>6, <1>11, <2>2, <2>3
<1>12. OnlyAThirdDoubles'
  <2> SUFFICES ASSUME NEW b1 \in Booked, NEW b2 \in Booked, NEW r \in Rooms, b1 # b2,
                      Live(b1), Live(b2), Holds(b1, r)', Holds(b2, r)',
                      ShareADay(booking[b1].stay, booking[b2].stay)
               PROVE  \E b3 \in Booked \ {b1, b2} :
                        /\ Holds(b3, r)'
                        /\ Apart(booking[b1].stay, booking[b3]) \/ Apart(booking[b2].stay, booking[b3])
    BY <1>5, <1>6 DEF OnlyAThirdDoubles
  <2>1. CASE b1 = q.id
    BY <1>6, <1>7, <1>11, <2>1
  <2>2. CASE b2 = q.id
    BY <1>6, <1>7, <1>11, <2>2
  <2>3. CASE b1 # q.id /\ b2 # q.id
    <3>1. PICK b3 \in Booked \ {b1, b2} :
            /\ Holds(b3, r)
            /\ Apart(booking[b1].stay, booking[b3]) \/ Apart(booking[b2].stay, booking[b3])
      BY <1>6, <2>3 DEF DoubleInv, OnlyAThirdDoubles
    <3> QED BY <1>6, <3>1
  <2> QED BY <2>1, <2>2, <2>3
<1>13. (\A b \in Booked : booking[b].stay \in Stays)'
  BY <1>5, <1>6 DEF DoubleInv
<1> QED BY <1>1, <1>2, <1>5, <1>10, <1>12, <1>13, DoubleStep

\* The answer moves nobody.
LEMMA DoubleReply ==
  ASSUME MakersAlone, TypeOK, PaymentInv, RoomInv, DoubleInv, NEW s \in Slots, Reply(s)
  PROVE  DoubleInv'
<1>1. req[s].pc = "reply" /\ Become(s, Idle) /\ StaysKept
  BY DEF Reply, StaysKept, keys, Live
<1>2. DoubleReqOK(Idle)'
  BY DEF DoubleReqOK, Idle, Asking, Making
<1> QED BY <1>1, <1>2, DoubleKeptStep

\* What fails takes no room.
LEMMA DoubleFail ==
  ASSUME MakersAlone, TypeOK, PaymentInv, RoomInv, DoubleInv, NEW s \in Slots, Fail(s)
  PROVE  DoubleInv'
<1>1. PICK q : q = req[s]
  OBVIOUS
<1>2. q.pc # "idle" /\ q \in RequestRecord /\ StaysKept /\ DoubleReqOK(q)
  BY <1>1, TablesKeepStays DEF Fail, Throw, Abort, FailOne, TypeOK, Request, DoubleInv
<1>3. PICK p : Become(s, p) /\ p = req'[s]
  BY DEF Fail, Throw, Abort, FailOne, Become, TypeOK
<1>4. DoubleReqOK(p)'
  <2>1. CASE Throw(s)
    <3>1. p = Thrown(q) /\ q.pc \in {"insert", "bill", "mark", "book", "reply"}
      BY <1>1, <1>3, <2>1 DEF Throw, Become, TypeOK
    <3>2. CASE q.op # "create"
      BY <3>1, <3>2 DEF Thrown, DoubleReqOK, Idle, Asking, Making
    <3>3. CASE q.op = "create"
      <4>1. /\ p.pc = (IF q.id = NoId THEN "insert" ELSE "load") /\ p.todo = {} /\ p.cur = {}
            /\ p.row.stay = q.row.stay
        BY <1>2, <3>1, <3>3 DEF Thrown, RequestRecord, Row
      <4>2. CASE q.pc = "insert"
        BY <1>2, <4>1, <4>2 DEF DoubleReqOK, Asking, Making
      <4>3. CASE q.pc # "insert"
        <5>1. q.id # NoId
          BY <1>1, <3>1, <4>3, OnBooked DEF BeforeInsert
        <5> QED BY <4>1, <5>1 DEF DoubleReqOK, Asking, Making
      <4> QED BY <4>2, <4>3
    <3> QED BY <3>2, <3>3
  <2>2. CASE Abort(s)
    BY <1>3, <2>2 DEF Abort, Become, TypeOK, DoubleReqOK, Idle, Asking, Making
  <2>3. CASE FailOne(s)
    <3>1. PICK c : p = Rest([q EXCEPT !.todo = @ \ {c}, !.cur = @ \ {c}])
      BY <1>1, <1>3, <2>3 DEF FailOne, Become, TypeOK
    <3>2. p.pc \notin Asking \cup Making
      BY <1>1, <1>2, <2>3, <3>1 DEF Rest, FailOne, Idle, RequestRecord, Asking, Making
    <3> QED BY <3>2 DEF DoubleReqOK, Asking, Making
  <2> QED BY <2>1, <2>2, <2>3 DEF Fail
<1> QED BY <1>1, <1>2, <1>3, <1>4, DoubleKeptStep

\* The other handlers bring no booking back to life and give none another stay.
LEMMA OthersKeepStays ==
  ASSUME MakersAlone, TypeOK, PaymentInv, RoomInv, NEW s \in Slots, Other(s)
  PROVE  StaysKept
<1>1. next_id' = next_id /\ \A b \in Ids : link'[b] \cap RoomRows = link[b] \cap RoomRows
  BY OthersKeep DEF Kept
<1>2. CASE booking' = booking
  BY <1>1, <1>2 DEF StaysKept, Live
<1>3. CASE SetState(s)
  BY <1>1, <1>3, StateOnly DEF StaysKept, Live
<1>4. CASE SaveFlush(s)
  <2>1. PICK q : q = req[s]
    OBVIOUS
  <2>2. q.id \in Ids /\ booking[q.id] \in Row
        /\ q.op \in {"create", "checkin", "cancel", "checkout"}
    BY <1>4, <2>1, OnBooked
    DEF SaveFlush, BeforeInsert, TypeOK, TablesType, RoomInv, RoomReqOK, Saves
  <2>3. /\ \A b \in Ids : b # q.id => booking'[b] = booking[b]
        /\ q.op \in {"create", "cancel", "checkout"} =>
             booking'[q.id].is_cancel \/ booking'[q.id].is_checked_out
        /\ q.op = "checkin" => /\ booking'[q.id].is_cancel = booking[q.id].is_cancel
                               /\ booking'[q.id].is_checked_out = booking[q.id].is_checked_out
        /\ booking'[q.id] = Written(booking[q.id], q.row, q.diff)
    BY <1>4, <2>1, FlushLife
  <2>4. booking'[q.id].stay = booking[q.id].stay
    BY <2>2, <2>3, WrittenColumns
  <2>5. Live(q.id)' => Live(q.id)
    BY <2>2, <2>3 DEF Live
  <2>6. \A b \in Ids \ {q.id} : booking'[b].stay = booking[b].stay /\ (Live(b)' => Live(b))
    BY <2>3 DEF Live
  <2> QED BY <1>1, <2>4, <2>5, <2>6 DEF StaysKept
<1> QED BY <1>2, <1>3, <1>4
    DEF Other, SaveLoad, FulfilBills, ChargeServices, CheckRoom, ReleaseRoom, InsertUsage,
        BillLoad, BillFlush, tables

\* So they double no booking.
LEMMA DoubleOther ==
  ASSUME MakersAlone, TypeOK, PaymentInv, RoomInv, DoubleInv, NEW s \in Slots,
         Other(s) \/ \E b \in Booked : OnBooking(s, b)
  PROVE  DoubleInv'
<1>1. /\ req[s].pc # "idle" \/ \E op : MayBegin(s, op)
      /\ StaysKept
      /\ \E p : Become(s, p) /\ p.pc \notin Asking \cup Making
  <2>1. CASE Other(s)
    BY <2>1, OthersGoOn, OthersKeepStays
  <2>2. CASE \E b \in Booked : OnBooking(s, b)
    <3>1. \A pc \in {"load", "adding", "bill_load"} : pc \notin Asking \cup Making
      BY DEF Asking, Making
    <3>2. ASSUME NEW b \in Booked, OnBooking(s, b) PROVE StaysKept
      BY <3>2, BeginsWith DEF StaysKept, Live
    <3> QED BY <2>2, <3>1, <3>2, BeginsWith DEF Begun
  <2> QED BY <2>1, <2>2
<1>2. PICK p : Become(s, p) /\ p.pc \notin Asking \cup Making
  BY <1>1
<1>3. DoubleReqOK(p)'
  BY <1>2 DEF DoubleReqOK, Asking, Making
<1> QED BY <1>1, <1>2, <1>3, DoubleKeptStep

\* Every step doubles a booking only with a third.
LEMMA DoubleNext ==
  MakersAlone /\ TypeOK /\ PaymentInv /\ RoomInv /\ LinkInv /\ DoubleInv /\ [Next]_vars
    => DoubleInv'
<1> SUFFICES ASSUME MakersAlone, TypeOK, PaymentInv, RoomInv, LinkInv, DoubleInv, [Next]_vars
             PROVE  DoubleInv'
  OBVIOUS
<1>1. ASSUME NEW s \in Slots, Begin(s) PROVE DoubleInv'
  BY <1>1, DoublePrepare, DoubleOther DEF Begin, OnBooking
<1>2. ASSUME NEW s \in Slots, Continue(s) PROVE DoubleInv'
  BY <1>2, DoublePrepareShared, DoubleFindCustomer, DoubleInsertBooking, DoubleCreateBill,
     DoubleMarkRoom, DoubleBookRoom, DoubleReply, DoubleOther
  DEF Continue, Other
<1>3. ASSUME NEW s \in Slots, Fail(s) PROVE DoubleInv'
  BY <1>3, DoubleFail
<1>4. CASE UNCHANGED <<booking, next_id, link, req>>
  BY <1>4 DEF DoubleInv, OnlyAThirdDoubles, DoubleReqOK, Spared, Booked, Live, Holds, Apart
<1>5. CASE UNCHANGED vars
  BY <1>4, <1>5 DEF vars
<1> QED BY <1>1, <1>2, <1>3, <1>5 DEF Next

\* So it is at all times.
LEMMA DoublesStand == MakersAlone /\ Spec => []DoubleInv
<1>1. SUFFICES ASSUME MakersAlone PROVE Spec => []DoubleInv
  OBVIOUS
<1>2. Spec => []TypeOK /\ []PaymentInv /\ []RoomInv
  BY <1>1, TypeCorrect, PaymentsConsistent, RoomsConsistent
<1>3. TypeOK /\ PaymentInv /\ RoomInv /\ LinkInv /\ [Next]_vars => LinkInv'
  BY <1>1, LinkNext
<1>4. TypeOK /\ PaymentInv /\ RoomInv /\ LinkInv /\ DoubleInv /\ [Next]_vars => DoubleInv'
  BY <1>1, DoubleNext
<1> QED BY <1>2, <1>3, <1>4, LinkInit, DoubleInit, PTL DEF Spec

\* When the handlers that make a booking live run alone, of any number of bookings
\* two live ones share a room and a day only if a third one of the room lies apart
\* from the one or the other: that _prepare is content with some booking that lies
\* apart is the only way to double a booking.
THEOREM ThirdsAloneDouble == MakersAlone /\ Spec => []OnlyAThirdDoubles
<1>1. DoubleInv => OnlyAThirdDoubles
  BY DEF DoubleInv
<1> QED BY <1>1, DoublesStand, PTL

\* No third booking that lies apart
NoThird == MaxBookings <= 2 \/ \A stay1, stay2 \in Stays : ShareADay(stay1, stay2)

\* There is no such third, and no room held twice on a day, if there are two
\* bookings at most, or if all stays asked for share a day.
THEOREM NoRoomIsDoubled == MakersAlone /\ NoThird /\ Spec => []NoDoubleBooking
<1>1. ASSUME NoThird, DoubleInv PROVE NoDoubleBooking
  <2> SUFFICES ASSUME NEW b1 \in Booked, NEW b2 \in Booked, b1 # b2, Live(b1), Live(b2),
                      ShareADay(booking[b1].stay, booking[b2].stay),
                      NEW r \in RoomsIn(link[b1]) \cap RoomsIn(link[b2])
               PROVE  FALSE
    BY DEF NoDoubleBooking
  <2>1. Holds(b1, r) /\ Holds(b2, r) /\ r \in Rooms
    BY ChildKinds DEF RoomsIn, Holds
  <2>2. PICK b3 \in Booked \ {b1, b2} :
          Apart(booking[b1].stay, booking[b3]) \/ Apart(booking[b2].stay, booking[b3])
    BY <1>1, <2>1 DEF DoubleInv, OnlyAThirdDoubles
  <2>3. MaxBookings > 2
    BY <2>2, ConstantsAssumption DEF Booked, Ids
  <2>4. \A b \in Booked : booking[b].stay \in Stays
    BY <1>1 DEF DoubleInv
  <2>5. \A b \in {b1, b2} : ShareADay(booking[b].stay, booking[b3].stay)
    BY <1>1, <2>2, <2>3, <2>4, ConstantsAssumption DEF NoThird
  <2> QED BY <2>2, <2>4, <2>5, ApartOrShared
<1>2. SUFFICES ASSUME MakersAlone, NoThird PROVE Spec => []NoDoubleBooking
  OBVIOUS
<1>3. DoubleInv => NoDoubleBooking
  BY <1>1, <1>2
<1>4. Spec => []DoubleInv
  BY <1>2, DoublesStand
<1> QED BY <1>3, <1>4, PTL
=============================================================================
