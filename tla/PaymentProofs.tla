---------------------------- MODULE PaymentProofs ----------------------------
(***************************************************************************)
(* What money means for a booking, proved for every number of requests,    *)
(* bookings and rooms: a booking is Success only when a callback said so,  *)
(* and the bill says nothing that no callback said.                         *)
(*                                                                         *)
(* Neither statement is inductive.  A handler saves an entity it read a     *)
(* while ago, so the invariant must also hold of every copy in memory and   *)
(* of every callback on its way (SlotOK); a create charges the room and     *)
(* answers statements later, while callbacks may already come in, so it     *)
(* says what the bill may be at each stage (one create per booking); and    *)
(* the desk settles only bills that exist, which the links tell.            *)
(*                                                                         *)
(* The same invariant makes the service implement PaymentLedger: the        *)
(* ledger's guards hold because a room is charged once, a link is never     *)
(* handed out for a charge that failed, a bill is written only from a code  *)
(* that was heeded or for the desk, and a save writes Success only if it    *)
(* was reported.                                                            *)
(***************************************************************************)
EXTENDS BookingProofs

\* A create between its insert and its answer, and a callback in progress
Making == {"bill", "mark", "book", "reply"}
Calling == {"bill_load", "bill_flush", "set_state"}

\* If the bill is refused, a call said so
Answered(b) == bill[b] = "Reject" => order[b].codes \ {"00"} # {}

\* What is true of a request q
SlotOK(q) ==
  /\ q.pc \in BeforeInsert => q.id = NoId
  /\ q.id # NoId => q.id < next_id
  /\ BillRow(0) \notin q.todo \cup q.cur
  /\ BillRow(0) \in q.rows \cup q.back => q.id # NoId /\ bill[q.id] # "None"
  /\ q.pc = "bill" => bill[q.id] = "None"
  /\ q.pc \in Making \ {"bill"} => bill[q.id] # "None" /\ Answered(q.id)
  /\ q.pc \in Calling => bill[q.id] # "None" /\ q.code \in order[q.id].codes
  /\ q.pc = "bill_flush" /\ q.code = "00" /\ "payment_state" \notin q.diff => Backed(q.id)
  /\ q.pc = "set_state" /\ q.code = "00" => Backed(q.id)
  /\ q.row.state = "Success" => q.id # NoId /\ Backed(q.id)
  /\ q.row.state = "AdminInit" =>
       IF q.id = NoId THEN q.row.user = "staff" ELSE booking[q.id].user = "staff"
  /\ q.pc = "fulfil" => q.is_cms
  /\ q.is_cms => q.id # NoId /\ booking[q.id].user = "staff"

\* A bill that points to its booking is in the table
LinksOK == \A b \in Ids : BillRow(0) \in link[b] => bill[b] # "None"

\* What is true of the tables
TablesOK ==
  /\ \A b \in Ids : b \notin Booked => bill[b] = "None"
  /\ \A b \in Ids : bill[b] = "None" => order[b].codes = {} /\ ~order[b].handed
  /\ \A b \in Booked : booking[b].state = "AdminInit" => booking[b].user = "staff"
  /\ SuccessWasReported
  /\ BillMatchesCalls
  /\ LinksOK

\* No two creates work on the same booking
OneMaker ==
  \A s, t \in Slots :
    req[s].pc \in Making /\ req[t].pc \in Making /\ s # t => req[s].id # req[t].id

PaymentInv == TablesOK /\ OneMaker /\ \A s \in Slots : SlotOK(req[s])
-----------------------------------------------------------------------------
\* Nothing is asked of a slot with no request.
LEMMA IdleOK == SlotOK(Idle)
BY DEF SlotOK, Idle, Blank, NewRow, Making, Calling, BeforeInsert, NoId

\* The invariant holds when the server starts.
LEMMA PaymentInit == Init => PaymentInv
<1> SUFFICES ASSUME Init PROVE PaymentInv
  OBVIOUS
<1>1. \A s \in Slots : SlotOK(req[s])
  BY IdleOK DEF Init
<1>2. TablesOK
  BY ConstantsAssumption
  DEF Init, TablesInit, TablesOK, Booked, Ids, SuccessWasReported, BillMatchesCalls, LinksOK
<1>3. OneMaker
  BY DEF Init, OneMaker, Idle, Making
<1> QED BY <1>1, <1>2, <1>3 DEF PaymentInv

\* What a step keeps of a booking for the sake of the requests about it
Keeps(b) ==
  /\ booking'[b].user = booking[b].user
  /\ order[b].codes \subseteq order'[b].codes
  /\ Backed(b) => Backed(b)'
  /\ bill[b] # "None" => bill'[b] # "None"
  /\ bill[b] # "None" /\ Answered(b) => Answered(b)'

\* A request that is all right stays so through a step that keeps its booking.
LEMMA SlotKept ==
  ASSUME NEW q, SlotOK(q), q.id # NoId => q.id < next_id',
         q.id # NoId => Keeps(q.id),
         q.pc \in Making \cup Calling => q.id # NoId,
         q.pc = "bill" => bill'[q.id] = bill[q.id]
  PROVE  SlotOK(q)'
BY DEF SlotOK, Keeps, Making, Calling

\* A booking no column of which changes is kept.
LEMMA SameKept ==
  ASSUME NEW b, booking'[b].user = booking[b].user, order'[b] = order[b], bill'[b] = bill[b]
  PROVE  Keeps(b)
BY DEF Keeps, Backed, Answered

\* A step that is all right for the tables, for the bookings requests work on and
\* for its own request preserves the invariant.
LEMMA WholeStep ==
  ASSUME TypeOK, PaymentInv, NEW s \in Slots, NEW q, Become(s, q), SlotOK(q)',
         q.pc \in Making => req[s].pc \in Making /\ q.id = req[s].id,
         next_id' = next_id, \A b \in Booked : Keeps(b),
         \A t \in Slots \ {s} : req[t].pc = "bill" => bill'[req[t].id] = bill[req[t].id],
         TablesOK'
  PROVE  PaymentInv'
<1>1. \A t \in Slots : req'[t] = IF t = s THEN q ELSE req[t]
  BY DEF Become, TypeOK
<1>2. OneMaker'
  BY <1>1 DEF OneMaker, PaymentInv
<1>3. ASSUME NEW t \in Slots PROVE SlotOK(req[t])'
  <2>1. CASE t = s
    BY <1>1, <2>1 DEF SlotOK
  <2>2. CASE t # s
    <3>1. PICK p : p = req[t]
      OBVIOUS
    <3>2. SlotOK(p) /\ (p.id # NoId => p.id \in Booked /\ p.id < next_id)
      <4>1. SlotOK(p) /\ p.id \in 0 .. MaxBookings
        BY <3>1 DEF PaymentInv, TypeOK, Request, RequestRecord
      <4>2. p.id # NoId => p.id \in Ids /\ p.id < next_id
        BY <4>1, ConstantsAssumption DEF SlotOK, Ids, NoId
      <4> QED BY <4>1, <4>2 DEF Booked
    <3>3. p.pc \in Making \cup Calling => p.id # NoId
      BY <3>1 DEF TypeOK, Request, Making, Calling, BeforeInsert
    <3>4. p.pc = "bill" => bill'[p.id] = bill[p.id]
      BY <2>2, <3>1
    <3>5. SlotOK(p)'
      BY <3>2, <3>3, <3>4, SlotKept
    <3>6. req'[t] = p
      BY <1>1, <2>2, <3>1
    <3> QED BY <3>5, <3>6 DEF SlotOK
  <2> QED BY <2>1, <2>2
<1> QED BY <1>2, <1>3 DEF PaymentInv

\* A step that leaves the tables the invariant reads alone, but for links, and goes
\* on with a request that is all right and does not become a maker.
LEMMA SlotStep ==
  ASSUME TypeOK, PaymentInv, NEW s \in Slots, NEW q, Become(s, q), SlotOK(q),
         q.pc \in Making => req[s].pc \in Making /\ q.id = req[s].id,
         UNCHANGED <<booking, next_id, bill, order>>, LinksOK'
  PROVE  PaymentInv'
<1>1. TablesOK'
  BY DEF PaymentInv, TablesOK, Booked, SuccessWasReported, BillMatchesCalls, Backed
<1>2. SlotOK(q)'
  BY DEF SlotOK, Backed, Answered
<1>3. \A b \in Booked : Keeps(b)
  BY SameKept
<1> QED BY <1>1, <1>2, <1>3, WholeStep

\* Links stay all right when nothing happens to them ...
LEMMA SameLinks ==
  ASSUME PaymentInv, UNCHANGED <<link, bill>>
  PROVE  LinksOK'
BY DEF PaymentInv, TablesOK, LinksOK

\* ... and when one booking's get no room bill that is not in the table.
LEMMA MoreLinks ==
  ASSUME TypeOK, PaymentInv, NEW id \in Ids, NEW rows, link' = [link EXCEPT ![id] = rows],
         BillRow(0) \in rows => BillRow(0) \in link[id] \/ bill[id] # "None",
         UNCHANGED bill
  PROVE  LinksOK'
BY DEF PaymentInv, TablesOK, LinksOK, TypeOK, TablesType

\* Starting, or giving up, is such a step.
LEMMA IdleStep ==
  ASSUME TypeOK, PaymentInv, NEW s \in Slots, Become(s, Idle),
         UNCHANGED <<booking, next_id, bill, order, link>>
  PROVE  PaymentInv'
BY IdleOK, SlotStep, SameLinks DEF Idle, Making
-----------------------------------------------------------------------------
(* create and cmsCreate *)

\* create and cmsCreate up to the first query: the new entity is neither paid
\* nor, for a customer, a cms booking.
LEMMA PaymentPrepare ==
  ASSUME TypeOK, PaymentInv, NEW s \in Slots, Create(s) \/ CmsCreate(s)
  PROVE  PaymentInv'
<1>1. PICK op \in Creating, user \in Users, state \in {"Init", "AdminInit"} :
        Prepare(s, op, user, state) /\ (state = "AdminInit" => user = "staff")
  BY DEF Create, CmsCreate, Creating, Users
<1>2. PICK t \in RoomTypes, stay \in Stays, quantity \in 1 .. MaxQuantity, pay \in Payments :
        LET free == {RoomRow(r, 1) : r \in FreeRooms(t)}
            asked == [Idle EXCEPT !.op = op, !.type = t, !.pay = pay,
                                  !.row = NewRow(user, state, stay, quantity)]
        IN IF Cardinality(free) < quantity
           THEN Become(s, [asked EXCEPT !.pc = "shared", !.todo = free])
           ELSE \E take \in SUBSET free :
                  /\ Cardinality(take) = quantity
                  /\ Become(s, Prepared([asked EXCEPT !.todo = take]))
  BY <1>1 DEF Prepare
<1> DEFINE free == {RoomRow(r, 1) : r \in FreeRooms(t)}
           new == NewRow(user, state, stay, quantity)
           asked == [Idle EXCEPT !.op = op, !.type = t, !.pay = pay, !.row = new]
<1>3. /\ new.state \in {"Init", "AdminInit"}
      /\ new.state = "AdminInit" => new.user = "staff"
  BY <1>1 DEF NewRow
<1>4. asked.row = new /\ asked.id = NoId /\ asked.is_cms = FALSE
  BY DEF Idle
<1>5. /\ SlotOK([asked EXCEPT !.pc = "shared", !.todo = free])
      /\ \A take \in SUBSET free : SlotOK(Prepared([asked EXCEPT !.todo = take]))
  <2>1. BillRow(0) \notin free
    BY DEF BillRow, RoomRow
  <2> HIDE DEF new, free
  <2> QED BY <1>3, <2>1 DEF Idle, SlotOK, Prepared, Making, Calling, BeforeInsert
<1>6. /\ [asked EXCEPT !.pc = "shared", !.todo = free].pc \notin Making
      /\ \A take : Prepared([asked EXCEPT !.todo = take]).pc \notin Making
  BY DEF Idle, Prepared, Making
<1>7. UNCHANGED <<booking, next_id, bill, order, link>>
  BY <1>1 DEF Prepare, tables
<1>8. \/ Become(s, [asked EXCEPT !.pc = "shared", !.todo = free])
      \/ \E take \in SUBSET free : Become(s, Prepared([asked EXCEPT !.todo = take]))
  BY <1>2
<1> HIDE DEF asked, free
<1> QED BY <1>5, <1>6, <1>7, <1>8, SlotStep, SameLinks

\* _prepare's second query goes on with the entity as it is.
LEMMA PaymentPrepareShared ==
  ASSUME TypeOK, PaymentInv, NEW s \in Slots, PrepareShared(s)
  PROVE  PaymentInv'
<1> DEFINE q == req[s]
<1>1. SlotOK(q) /\ q.pc = "shared" /\ q \in RequestRecord
  BY DEF PaymentInv, PrepareShared, TypeOK, Request
<1>2. UNCHANGED <<booking, next_id, bill, order, link>>
  BY DEF PrepareShared, tables
<1> DEFINE shared == {RoomRow(r, 2) : r \in SharedRooms(q.type, q.row.stay)}
<1>3. \/ Become(s, Idle)
      \/ \E more \in SUBSET shared : Become(s, Prepared([q EXCEPT !.todo = @ \cup more]))
  BY DEF PrepareShared
<1>4. ASSUME NEW more \in SUBSET shared
      PROVE  /\ SlotOK(Prepared([q EXCEPT !.todo = @ \cup more]))
             /\ Prepared([q EXCEPT !.todo = @ \cup more]).pc \notin Making
  <2>1. BillRow(0) \notin more
    BY DEF BillRow, RoomRow
  <2> HIDE DEF q
  <2> QED BY <1>1, <2>1 DEF SlotOK, Prepared, Making, Calling, BeforeInsert, RequestRecord
<1> HIDE DEF q, shared
<1> QED BY <1>2, <1>3, <1>4, SlotStep, SameLinks, IdleStep

\* The customer of cmsCreate concerns no booking.
LEMMA PaymentFindCustomer ==
  ASSUME TypeOK, PaymentInv, NEW s \in Slots, FindCustomer(s)
  PROVE  PaymentInv'
<1>1. SlotOK(req[s]) /\ req[s].pc = "customer" /\ req[s] \in RequestRecord
  BY DEF PaymentInv, FindCustomer, TypeOK, Request
<1>2. /\ SlotOK([req[s] EXCEPT !.pc = "insert"])
      /\ [req[s] EXCEPT !.pc = "insert"].pc \notin Making
  BY <1>1 DEF SlotOK, Making, Calling, BeforeInsert, RequestRecord
<1> QED BY <1>2, SlotStep, SameLinks DEF FindCustomer, bills

\* The insert makes a booking nobody else works on, whose room is not charged.
LEMMA PaymentInsertBooking ==
  ASSUME TypeOK, PaymentInv, NEW s \in Slots, InsertBooking(s)
  PROVE  PaymentInv'
<1>1. PICK q : q = req[s]
  OBVIOUS
<1>2. PICK made : made = [q EXCEPT !.pc = "bill", !.id = next_id]
  OBVIOUS
<1>3. /\ SlotOK(q) /\ q.pc = "insert" /\ q.id = NoId /\ q \in RequestRecord /\ q.row \in Row
      /\ next_id \in Ids /\ next_id # NoId /\ next_id \notin Booked
  BY <1>1, ConstantsAssumption
  DEF PaymentInv, InsertBooking, TypeOK, TablesType, Request, RequestRecord, SlotOK,
      BeforeInsert, Ids, NoId, Booked
<1>4. /\ booking' = [booking EXCEPT ![next_id] = q.row]
      /\ next_id' = next_id + 1
      /\ UNCHANGED <<bill, order, link>>
  BY <1>1 DEF InsertBooking, bills
<1>5. Booked' = Booked \cup {next_id}
  BY <1>3, <1>4 DEF Booked, Ids, TypeOK, TablesType
<1>6. bill[next_id] = "None" /\ order[next_id].codes = {} /\ ~order[next_id].handed
  BY <1>3 DEF PaymentInv, TablesOK
<1>7. \A b \in Ids : booking'[b] = IF b = next_id THEN q.row ELSE booking[b]
  BY <1>3, <1>4 DEF TypeOK, TablesType
<1>8. q.row.state # "Success" /\ (q.row.state = "AdminInit" => q.row.user = "staff")
  BY <1>3 DEF SlotOK
<1>9. TablesOK'
  BY <1>3, <1>4, <1>5, <1>6, <1>7, <1>8
  DEF PaymentInv, TablesOK, SuccessWasReported, BillMatchesCalls, Backed, LinksOK, Booked
<1>10. ASSUME NEW t \in Slots PROVE req'[t] = IF t # s THEN req[t]
                                              ELSE IF Caught(q) THEN Idle ELSE made
  BY <1>1, <1>2 DEF InsertBooking, Become, TypeOK
<1>11. ASSUME NEW t \in Slots
       PROVE req[t].id # NoId => req[t].id \in Ids /\ req[t].id # next_id
                                   /\ req[t].id < next_id /\ req[t].id < next_id'
  <2>1. SlotOK(req[t]) /\ req[t].id \in 0 .. MaxBookings /\ next_id \in Nat
    BY DEF PaymentInv, TypeOK, TablesType, Request, RequestRecord
  <2> QED BY <1>4, <2>1, ConstantsAssumption DEF SlotOK, Ids, NoId
<1>12. Idle.pc \notin Making /\ made.id = next_id /\ made.pc = "bill" /\ made.row = q.row
         /\ made.is_cms = q.is_cms /\ made.todo = q.todo /\ made.cur = q.cur
         /\ made.rows = q.rows /\ made.back = q.back
  BY <1>2, <1>3 DEF Idle, Making, RequestRecord
<1>13. OneMaker'
  <2>1. \A t \in Slots : req[t].pc \in Making => req[t].id # NoId
    BY DEF TypeOK, Request, Making, BeforeInsert
  <2> QED BY <1>10, <1>11, <1>12, <2>1 DEF OneMaker, PaymentInv
<1>14. ASSUME NEW t \in Slots PROVE SlotOK(req[t])'
  <2>1. CASE t # s
    <3>1. PICK p : p = req[t]
      OBVIOUS
    <3>2. SlotOK(p) /\ req'[t] = p
      BY <1>10, <2>1, <3>1 DEF PaymentInv
    <3>3. p.id # NoId => Keeps(p.id) /\ p.id < next_id'
      BY <1>4, <1>7, <1>11, <3>1, SameKept
    <3>4. p.pc \in Making \cup Calling => p.id # NoId
      BY <3>1 DEF TypeOK, Request, Making, Calling, BeforeInsert
    <3>5. SlotOK(p)'
      BY <1>4, <3>2, <3>3, <3>4, SlotKept
    <3> QED BY <3>2, <3>5 DEF SlotOK
  <2>2. CASE t = s /\ Caught(q)
    BY <1>10, <2>2, IdleOK DEF SlotOK, Idle, Blank, NewRow, Making, Calling, BeforeInsert
  <2>3. CASE t = s /\ ~Caught(q)
    <3>1. req'[t] = made
      BY <1>10, <2>3
    <3>2. ~q.is_cms /\ q.row.state # "Success" /\ BillRow(0) \notin q.todo \cup q.cur
            /\ BillRow(0) \notin q.rows \cup q.back
      BY <1>3 DEF SlotOK
    <3>3. booking'[next_id] = q.row /\ bill'[next_id] = "None"
      BY <1>3, <1>4, <1>6, <1>7
    <3>4. next_id < next_id'
      BY <1>4 DEF TypeOK, TablesType
    <3>5. SlotOK(made)'
      BY <1>3, <1>8, <1>12, <3>2, <3>3, <3>4 DEF SlotOK, Making, Calling, BeforeInsert
    <3> QED BY <3>1, <3>5 DEF SlotOK
  <2> QED BY <2>1, <2>2, <2>3
<1> QED BY <1>9, <1>13, <1>14 DEF PaymentInv

\* Past its insert, a request works on a booking of the table.
LEMMA OnBooked ==
  ASSUME TypeOK, PaymentInv, NEW s \in Slots, req[s].pc \notin BeforeInsert
  PROVE  /\ SlotOK(req[s]) /\ req[s] \in RequestRecord
         /\ req[s].id \in Ids /\ req[s].id \in Booked /\ req[s].id # NoId
BY HasBooking DEF PaymentInv, SlotOK, Booked

\* What is thrown is caught: the entity is marked rejected, or forgotten.
LEMMA ThrownOK ==
  ASSUME NEW q \in RequestRecord, SlotOK(q)
  PROVE  /\ SlotOK(Thrown(q)) /\ Thrown(q).pc \notin Making \cup Calling
         /\ Thrown(q).id \in {q.id, NoId}
<1> DEFINE undone == [q.row EXCEPT !.state = "Reject", !.is_cancel = TRUE]
           stage == IF q.id = NoId THEN "insert" ELSE "load"
           caught == [q EXCEPT !.pc = stage, !.row = undone, !.todo = {}, !.cur = {}]
<1>1. undone.state = "Reject"
  BY DEF RequestRecord, Row
<1>2. Thrown(q) = IF q.op = "create" THEN caught ELSE Idle
  BY DEF Thrown, RequestRecord, Row
<1>3. SlotOK(caught) /\ caught.pc \notin Making \cup Calling /\ caught.id = q.id
  <2> HIDE DEF undone
  <2> QED BY <1>1 DEF SlotOK, RequestRecord, Making, Calling, BeforeInsert
<1>4. Idle.pc \notin Making \cup Calling /\ Idle.id = NoId
  BY DEF Idle, Making, Calling
<1> HIDE DEF caught
<1> QED BY <1>2, <1>3, <1>4, IdleOK

\* billService.create charges a room that nobody charged or called about.
LEMMA PaymentCreateBill ==
  ASSUME TypeOK, PaymentInv, NEW s \in Slots, CreateBill(s)
  PROVE  PaymentInv'
<1>1. PICK q : q = req[s]
  OBVIOUS
<1>2. /\ SlotOK(q) /\ q \in RequestRecord /\ q.id \in Booked /\ q.id \in Ids /\ q.id # NoId
      /\ q.pc = "bill" /\ bill[q.id] = "None"
  BY <1>1, OnBooked DEF CreateBill, BeforeInsert, SlotOK
<1>3. order[q.id].codes = {} /\ ~order[q.id].handed
  BY <1>2 DEF PaymentInv, TablesOK
<1>4. PICK state, p :
        /\ state \in {"Pending", "Reject"}
        /\ bill' = [bill EXCEPT ![q.id] = state]
        /\ Become(s, p)
        /\ \/ p = Loop(q) /\ state = "Pending"
           \/ p = Thrown(q)
  BY <1>1 DEF CreateBill
<1>5. /\ UNCHANGED <<booking, next_id, order>>
      /\ link' = [link EXCEPT ![q.id] = @ \cup {BillRow(0)}]
  BY <1>1 DEF CreateBill, keys
<1>6. /\ \A b \in Ids : bill'[b] = IF b = q.id THEN state ELSE bill[b]
      /\ \A b \in Ids : b # q.id => link'[b] = link[b]
  BY <1>2, <1>4, <1>5 DEF TypeOK, TablesType
<1>7. TablesOK'
  BY <1>2, <1>3, <1>4, <1>5, <1>6
  DEF PaymentInv, TablesOK, SuccessWasReported, BillMatchesCalls, Backed, LinksOK, Booked
<1>8. \A b \in Booked : Keeps(b)
  <2>1. \A b \in Booked : b # q.id => Keeps(b)
    BY <1>5, <1>6, SameKept DEF Booked
  <2>2. Keeps(q.id)
    BY <1>2, <1>3, <1>4, <1>5, <1>6 DEF Keeps, Backed
  <2> QED BY <2>1, <2>2
<1>9. \A t \in Slots \ {s} : req[t].pc = "bill" => bill'[req[t].id] = bill[req[t].id]
  <2> SUFFICES ASSUME NEW t \in Slots \ {s}, req[t].pc = "bill"
               PROVE  bill'[req[t].id] = bill[req[t].id]
    OBVIOUS
  <2>1. req[t].id # q.id
    BY <1>1, <1>2 DEF PaymentInv, OneMaker, Making
  <2>2. req[t].id \in Ids
    BY OnBooked DEF BeforeInsert
  <2> QED BY <1>6, <2>1, <2>2
<1>10. CASE p = Loop(q) /\ state = "Pending"
  <2>1. /\ p.pc \in {"mark", "reply"} /\ p.id = q.id /\ p.row = q.row /\ p.is_cms = q.is_cms
        /\ p.todo = q.todo /\ p.cur = q.cur /\ p.rows = q.rows /\ p.back = q.back
    BY <1>2, <1>10 DEF Loop, RequestRecord
  <2>2. bill'[q.id] = "Pending"
    BY <1>2, <1>6, <1>10
  <2>3. Keeps(q.id)
    BY <1>2, <1>8
  <2>4. SlotOK(p)'
    BY <1>2, <1>5, <2>1, <2>2, <2>3
    DEF SlotOK, Making, Calling, BeforeInsert, Keeps, Answered
  <2> QED BY <1>1, <1>2, <1>4, <1>5, <1>7, <1>8, <1>9, <2>1, <2>4, WholeStep DEF Making
<1>11. CASE p = Thrown(q)
  <2>1. SlotOK(p) /\ p.pc \notin Making /\ p.pc \notin Calling /\ p.id \in {q.id, NoId}
    BY <1>2, <1>11, ThrownOK
  <2>2. p.id # NoId => Keeps(p.id) /\ p.id < next_id'
    BY <1>2, <1>5, <1>8, <2>1 DEF SlotOK
  <2>3. SlotOK(p)'
    BY <2>1, <2>2, SlotKept DEF Making
  <2> QED BY <1>4, <1>5, <1>7, <1>8, <1>9, <2>1, <2>3, WholeStep
<1> QED BY <1>4, <1>10, <1>11

\* A request that goes on with its entity unchanged.
LEMMA GoesOn ==
  ASSUME NEW q, NEW p, SlotOK(q), q.id # NoId, p.id = q.id, p.row = q.row,
         p.is_cms = q.is_cms, BillRow(0) \notin p.todo \cup p.cur,
         p.rows \cup p.back \subseteq q.rows \cup q.back,
         p.pc \notin BeforeInsert, p.pc # "bill", p.pc \notin Calling,
         p.pc \in Making => q.pc \in Making \ {"bill"},
         p.pc = "fulfil" => p.is_cms
  PROVE  SlotOK(p)
BY DEF SlotOK, Making, Calling

\* A loop that ends forgets the request, one that goes on keeps it all right.
LEMMA RestOK ==
  ASSUME NEW q, SlotOK(q), q.pc \notin Making
  PROVE  SlotOK(Rest(q)) /\ Rest(q).pc \notin Making
BY IdleOK DEF Rest, Idle, Making

\* Marking a room touches no money.
LEMMA PaymentMarkRoom ==
  ASSUME TypeOK, PaymentInv, NEW s \in Slots, MarkRoom(s)
  PROVE  PaymentInv'
<1> DEFINE p(c) == [req[s] EXCEPT !.pc = "book", !.todo = @ \ {c}, !.cur = {c}]
<1>1. SlotOK(req[s]) /\ req[s] \in RequestRecord /\ req[s].id # NoId /\ req[s].pc = "mark"
  BY OnBooked DEF MarkRoom, BeforeInsert
<1>2. PICK c \in req[s].todo : Become(s, p(c))
  BY DEF MarkRoom
<1>3. /\ p(c).pc = "book" /\ p(c).id = req[s].id /\ p(c).row = req[s].row
      /\ p(c).is_cms = req[s].is_cms /\ p(c).rows = req[s].rows /\ p(c).back = req[s].back
      /\ p(c).todo = req[s].todo \ {c} /\ p(c).cur = {c}
  BY <1>1 DEF RequestRecord
<1> HIDE DEF p
<1>4. BillRow(0) \notin p(c).todo \cup p(c).cur
  BY <1>1, <1>3 DEF SlotOK
<1>5. SlotOK(p(c))
  BY <1>1, <1>3, <1>4, GoesOn DEF Making, Calling, BeforeInsert
<1>6. UNCHANGED <<booking, next_id, bill, order, link>>
  BY DEF MarkRoom, keys, bills
<1> QED BY <1>1, <1>2, <1>3, <1>5, <1>6, SlotStep, SameLinks DEF Making

\* Booking a room touches no money.
LEMMA PaymentBookRoom ==
  ASSUME TypeOK, PaymentInv, NEW s \in Slots, BookRoom(s)
  PROVE  PaymentInv'
<1> DEFINE p == Loop([req[s] EXCEPT !.cur = {}])
<1>1. SlotOK(req[s]) /\ req[s] \in RequestRecord /\ req[s].id # NoId /\ req[s].pc = "book"
  BY OnBooked DEF BookRoom, BeforeInsert
<1>2. /\ p.pc \in {"mark", "reply"} /\ p.id = req[s].id /\ p.row = req[s].row
      /\ p.is_cms = req[s].is_cms /\ p.rows = req[s].rows /\ p.back = req[s].back
      /\ p.todo = req[s].todo /\ p.cur = {}
  BY <1>1 DEF Loop, RequestRecord
<1>3. Become(s, p)
  BY DEF BookRoom
<1> HIDE DEF p
<1>4. BillRow(0) \notin req[s].todo \cup req[s].cur
  BY <1>1 DEF SlotOK
<1>5. SlotOK(p)
  BY <1>1, <1>2, <1>4, GoesOn DEF Making, Calling, BeforeInsert
<1>6. /\ UNCHANGED <<booking, next_id, bill, order>>
      /\ link' = [link EXCEPT ![req[s].id] = @ \cup req[s].cur]
  BY DEF BookRoom, keys, bills
<1>7. LinksOK'
  BY <1>4, <1>6, OnBooked, MoreLinks DEF BookRoom, BeforeInsert
<1> QED BY <1>1, <1>2, <1>3, <1>5, <1>6, <1>7, SlotStep DEF Making

\* The answer hands out the link, of a bill that is not refused unless a call said so.
LEMMA PaymentReply ==
  ASSUME TypeOK, PaymentInv, NEW s \in Slots, Reply(s)
  PROVE  PaymentInv'
<1>1. CASE req[s].pay # "Vnpay"
  BY <1>1, IdleStep DEF Reply, keys, bills
<1>2. CASE req[s].pay = "Vnpay"
  <2> DEFINE id == req[s].id
  <2>1. id \in Booked /\ id \in Ids /\ bill[id] # "None" /\ Answered(id)
    BY OnBooked DEF Reply, BeforeInsert, SlotOK, Making
  <2>2. /\ order' = [order EXCEPT ![id].handed = TRUE]
        /\ UNCHANGED <<booking, next_id, bill, link>>
    BY <1>2 DEF Reply, keys, bills
  <2>3. \A b \in Ids : /\ order'[b].codes = order[b].codes
                       /\ b # id => order'[b].handed = order[b].handed
    BY <2>1, <2>2 DEF TypeOK, TablesType, Order
  <2>4. \A b \in Booked : Keeps(b)
    BY <2>2, <2>3 DEF Booked, Keeps, Backed, Answered
  <2>5. TablesOK'
    <3> HIDE DEF id
    <3> QED BY <2>1, <2>2, <2>3
            DEF PaymentInv, TablesOK, SuccessWasReported, BillMatchesCalls, Backed, Booked,
                LinksOK, Answered
  <2>6. SlotOK(Idle)' /\ Idle.pc \notin Making /\ Become(s, Idle)
    BY IdleOK DEF SlotOK, Idle, Blank, NewRow, Making, Calling, BeforeInsert, NoId, Reply
  <2> QED BY <2>2, <2>4, <2>5, <2>6, WholeStep
<1> QED BY <1>1, <1>2

\* What fails leaves the tables alone, and create's catch block goes on with an
\* entity in state Reject.
LEMMA PaymentFail ==
  ASSUME TypeOK, PaymentInv, NEW s \in Slots, Fail(s)
  PROVE  PaymentInv'
<1>1. SlotOK(req[s]) /\ req[s] \in RequestRecord
  BY DEF PaymentInv, TypeOK, Request
<1>2. CASE Throw(s)
  BY <1>1, <1>2, ThrownOK, SlotStep, SameLinks DEF Throw, tables
<1>3. CASE Abort(s)
  BY <1>3, IdleStep DEF Abort, tables
<1>4. CASE FailOne(s)
  <2> DEFINE p(c) == [req[s] EXCEPT !.todo = @ \ {c}, !.cur = @ \ {c}]
  <2>1. PICK c \in req[s].todo \cup req[s].cur : Become(s, Rest(p(c)))
    BY <1>4 DEF FailOne
  <2>2. /\ p(c).pc \in {"release", "adding"} /\ p(c).id = req[s].id
        /\ p(c).row = req[s].row /\ p(c).is_cms = req[s].is_cms
        /\ p(c).rows = req[s].rows /\ p(c).back = req[s].back
        /\ p(c).todo \subseteq req[s].todo /\ p(c).cur \subseteq req[s].cur
    BY <1>1, <1>4 DEF RequestRecord, FailOne
  <2>3. req[s].id # NoId
    BY <1>4, OnBooked DEF FailOne, BeforeInsert
  <2> HIDE DEF p
  <2>4. BillRow(0) \notin p(c).todo \cup p(c).cur
    BY <1>1, <2>2 DEF SlotOK
  <2>5. SlotOK(p(c)) /\ p(c).pc \notin Making
    BY <1>1, <2>2, <2>3, <2>4, GoesOn DEF Making, Calling, BeforeInsert
  <2> QED BY <1>4, <2>1, <2>5, RestOK, SlotStep, SameLinks DEF FailOne, tables
<1> QED BY <1>2, <1>3, <1>4 DEF Fail
-----------------------------------------------------------------------------
(* Handlers that start from a row *)

\* The staff's handlers that start from a row take over a state that was reported.
LEMMA PaymentBeginOn ==
  ASSUME TypeOK, PaymentInv, NEW s \in Slots, NEW b \in Booked,
         Checkin(s, b) \/ Cancel(s, b) \/ Checkout(s, b) \/ AddService(s, b)
  PROVE  PaymentInv'
<1>1. PICK q : /\ Become(s, q)
               /\ q.id = b
               /\ q.pc \in {"load", "adding"}
               /\ q.row.state \in {booking[b].state, "Init", "Reject", "Done"}
               /\ q.is_cms => booking[b].state = "AdminInit"
               /\ BillRow(0) \notin q.todo \cup q.cur
               /\ q.rows \subseteq link[b] /\ q.back = {}
  <2>1. /\ booking[b] \in Row /\ Idle.row.state = "Init" /\ Idle.is_cms = FALSE
        /\ Idle.todo = {} /\ Idle.cur = {} /\ Idle.rows = {} /\ Idle.back = {}
    BY DEF TypeOK, TablesType, Booked, Idle, Blank, NewRow
  <2>2. CASE Checkin(s, b)
    <3> DEFINE p == [Idle EXCEPT !.pc = "load", !.op = "checkin", !.id = b,
                                 !.row = [booking[b] EXCEPT !.is_checked_in = TRUE]]
    <3>1. Become(s, p)
      BY <2>2 DEF Checkin
    <3>2. p.id = b /\ p.pc = "load" /\ p.row.state = booking[b].state /\ p.is_cms = FALSE
            /\ p.todo = {} /\ p.cur = {} /\ p.rows = {} /\ p.back = {}
      BY <2>1 DEF Row, Idle
    <3> HIDE DEF p
    <3> QED BY <3>1, <3>2
  <2>3. CASE Cancel(s, b)
    <3> DEFINE p == [Idle EXCEPT !.pc = "load", !.op = "cancel", !.id = b,
                                 !.row = [booking[b] EXCEPT !.state = "Reject",
                                                            !.is_cancel = TRUE],
                                 !.rows = link[b]]
    <3>1. Become(s, p)
      BY <2>3 DEF Cancel
    <3>2. p.id = b /\ p.pc = "load" /\ p.row.state = "Reject" /\ p.is_cms = FALSE
            /\ p.todo = {} /\ p.cur = {} /\ p.rows = link[b] /\ p.back = {}
      BY <2>1 DEF Row, Idle
    <3> HIDE DEF p
    <3> QED BY <3>1, <3>2
  <2>4. CASE Checkout(s, b)
    <3> DEFINE p == [Idle EXCEPT !.pc = "load", !.op = "checkout", !.id = b,
                                 !.row = [booking[b] EXCEPT !.state = "Done",
                                                            !.is_checked_out = TRUE],
                                 !.rows = link[b],
                                 !.is_cms = booking[b].state = "AdminInit"]
    <3>1. Become(s, p)
      BY <2>4 DEF Checkout
    <3>2. p.id = b /\ p.pc = "load" /\ p.row.state = "Done"
            /\ p.todo = {} /\ p.cur = {} /\ p.rows = link[b] /\ p.back = {}
      BY <2>1 DEF Row, Idle
    <3>3. p.is_cms => booking[b].state = "AdminInit"
      BY DEF Idle
    <3> HIDE DEF p
    <3> QED BY <3>1, <3>2, <3>3
  <2>5. CASE AddService(s, b)
    <3>1. PICK used : Become(s, [Idle EXCEPT !.pc = "adding", !.op = "addService", !.id = b,
                                             !.todo = {UsedRow(u) : u \in used}])
      BY <2>5 DEF AddService
    <3> DEFINE p == [Idle EXCEPT !.pc = "adding", !.op = "addService", !.id = b,
                                 !.todo = {UsedRow(u) : u \in used}]
    <3>2. p.id = b /\ p.pc = "adding" /\ p.row.state = "Init" /\ p.is_cms = FALSE
            /\ p.todo = {UsedRow(u) : u \in used} /\ p.cur = {} /\ p.rows = {} /\ p.back = {}
      BY <2>1 DEF Idle
    <3>3. Become(s, p)
      BY <3>1
    <3>4. BillRow(0) \notin {UsedRow(u) : u \in used}
      BY DEF BillRow, UsedRow
    <3> HIDE DEF p
    <3> QED BY <3>2, <3>3, <3>4
  <2> QED BY <2>2, <2>3, <2>4, <2>5
<1>2. b \in Ids /\ b < next_id /\ b # NoId
  BY BookedIds DEF Booked, Ids, NoId
<1>3. booking[b].state = "Success" => Backed(b)
  BY DEF PaymentInv, TablesOK, SuccessWasReported
<1>4. booking[b].state = "AdminInit" => booking[b].user = "staff"
  BY DEF PaymentInv, TablesOK
<1>5. BillRow(0) \in link[b] => bill[b] # "None"
  BY <1>2 DEF PaymentInv, TablesOK, LinksOK
<1>6. SlotOK(q) /\ q.pc \notin Making
  BY <1>1, <1>2, <1>3, <1>4, <1>5 DEF SlotOK, Making, Calling, BeforeInsert
<1>7. UNCHANGED <<booking, next_id, bill, order, link>>
  BY DEF Checkin, Cancel, Checkout, AddService, tables
<1> QED BY <1>1, <1>6, <1>7, SlotStep, SameLinks

\* A callback that is heeded adds its code to the history, which takes no backing
\* away: what was booked after nothing but successes still is, or a refusal came.
LEMMA PaymentResponse ==
  ASSUME TypeOK, PaymentInv, NEW s \in Slots, NEW b \in Booked, ResponseVnpay(s, b)
  PROVE  PaymentInv'
<1>1. b \in Ids /\ b < next_id /\ b # NoId /\ bill[b] # "None"
  BY BookedIds DEF Booked, Ids, NoId, ResponseVnpay
<1>2. PICK code, q :
        /\ code \in ResponseCodes
        /\ order' = [order EXCEPT ![b].codes = @ \cup {code}]
        /\ Become(s, q)
        /\ q = [Idle EXCEPT !.pc = "bill_load", !.op = "response_vnpay", !.id = b,
                            !.code = code, !.rows = link[b] \cap {BillRow(0)}]
  BY DEF ResponseVnpay
<1>3. UNCHANGED <<booking, next_id, bill, link>>
  BY DEF ResponseVnpay, keys, bills
<1>4. /\ order'[b].codes = order[b].codes \cup {code} /\ order'[b].handed = order[b].handed
      /\ \A c \in Ids : c # b => order'[c] = order[c]
  BY <1>1, <1>2 DEF TypeOK, TablesType, Order
<1>5. \A c \in Booked : Keeps(c)
  <2>1. \A c \in Booked : c # b => Keeps(c)
    BY <1>3, <1>4, SameKept DEF Booked
  <2>2. Keeps(b)
    BY <1>1, <1>3, <1>4 DEF Keeps, Backed, Answered
  <2> QED BY <2>1, <2>2
<1>6. TablesOK'
  <2>1. Booked' = Booked /\ LinksOK'
    BY <1>3 DEF Booked, PaymentInv, TablesOK, LinksOK
  <2>2. SuccessWasReported'
    BY <1>3, <1>5, <2>1 DEF PaymentInv, TablesOK, SuccessWasReported, Keeps
  <2>3. BillMatchesCalls'
    BY <1>3, <1>4, <2>1 DEF PaymentInv, TablesOK, BillMatchesCalls, Booked
  <2> QED BY <1>1, <1>3, <1>4, <2>1, <2>2, <2>3 DEF PaymentInv, TablesOK
<1>7. /\ q.pc = "bill_load" /\ q.id = b /\ q.code = code /\ q.row.state = "Init"
      /\ q.is_cms = FALSE /\ q.todo = {} /\ q.cur = {} /\ q.rows \subseteq link[b]
      /\ q.back = {}
  BY <1>2 DEF Idle, Blank, NewRow
<1>8. SlotOK(q)'
  BY <1>1, <1>3, <1>4, <1>7 DEF SlotOK, Making, Calling, BeforeInsert
<1> QED BY <1>2, <1>3, <1>5, <1>6, <1>7, <1>8, WholeStep DEF Making

\* The SELECT of a save writes nothing.
LEMMA PaymentSaveLoad ==
  ASSUME TypeOK, PaymentInv, NEW s \in Slots, SaveLoad(s)
  PROVE  PaymentInv'
<1>1. SlotOK(req[s]) /\ req[s] \in RequestRecord /\ req[s].id # NoId
  BY OnBooked DEF SaveLoad, BeforeInsert
<1> DEFINE q == req[s]
           managed == IF ManagesRelations(q) THEN link[q.id] ELSE q.rows
           back == q.rows \ managed
           p == [q EXCEPT !.pc = "flush", !.diff = Differs(q.row, booking[q.id]),
                          !.gone = managed \ q.rows, !.back = back]
<1>2. Become(s, p) /\ back \subseteq req[s].rows
  BY DEF SaveLoad
<1>3. /\ p.pc = "flush" /\ p.id = req[s].id /\ p.row = req[s].row
      /\ p.is_cms = req[s].is_cms /\ p.rows = req[s].rows /\ p.back = back
      /\ p.todo = req[s].todo /\ p.cur = req[s].cur
  BY <1>1 DEF RequestRecord
<1>4. BillRow(0) \notin req[s].todo \cup req[s].cur
  BY <1>1 DEF SlotOK
<1> HIDE DEF p, back
<1>5. SlotOK(p) /\ p.pc \notin Making
  BY <1>1, <1>2, <1>3, <1>4, GoesOn DEF Making, Calling, BeforeInsert
<1> QED BY <1>2, <1>5, SlotStep, SameLinks DEF SaveLoad, tables

\* Releasing leaves a request that is all right all right.
LEMMA ReleasingOK ==
  ASSUME NEW q \in RequestRecord, SlotOK(q), q.id # NoId
  PROVE  SlotOK(Releasing(q)) /\ Releasing(q).pc \notin Making
<1> DEFINE p == [q EXCEPT !.pc = "release", !.todo = q.rows \cap RoomRows]
<1>1. p.pc = "release" /\ p.id = q.id /\ p.row = q.row /\ p.is_cms = q.is_cms
        /\ p.todo = q.rows \cap RoomRows /\ p.cur = q.cur /\ p.rows = q.rows /\ p.back = q.back
  BY DEF RequestRecord
<1>2. Releasing(q) = Rest(p)
  BY DEF Releasing
<1> HIDE DEF p
<1>3. BillRow(0) \notin p.todo \cup p.cur
  BY <1>1 DEF SlotOK, RoomRows, BillRow
<1>4. SlotOK(p) /\ p.pc \notin Making
  BY <1>1, <1>3, GoesOn DEF Making, Calling, BeforeInsert
<1> QED BY <1>2, <1>4, RestOK

\* After its save a handler goes on to the cash settlement only for a cms booking.
LEMMA SavedOK ==
  ASSUME NEW q \in RequestRecord, SlotOK(q), q.id # NoId
  PROVE  SlotOK(Saved(q)) /\ Saved(q).pc \notin Making
<1> DEFINE p == [q EXCEPT !.pc = IF q.is_cms THEN "fulfil" ELSE "charge"]
<1>1. /\ p.pc = (IF q.is_cms THEN "fulfil" ELSE "charge")
      /\ p.id = q.id /\ p.row = q.row /\ p.is_cms = q.is_cms
      /\ p.todo = q.todo /\ p.cur = q.cur /\ p.rows = q.rows /\ p.back = q.back
  BY DEF RequestRecord
<1>2. Saved(q) \in {Releasing(q), p, Idle}
  BY DEF Saved
<1> HIDE DEF p
<1>3. SlotOK(p) /\ p.pc \notin Making
  <2>1. BillRow(0) \notin p.todo \cup p.cur
    BY <1>1 DEF SlotOK
  <2> QED BY <1>1, <2>1, GoesOn DEF Making, Calling, BeforeInsert
<1>4. Idle.pc \notin Making
  BY DEF Idle, Making
<1> QED BY <1>2, <1>3, <1>4, IdleOK, ReleasingOK

\* Writing rows that keep their user, and whose state was reported, changes
\* nothing the invariant says of anyone.
LEMMA RowStep ==
  ASSUME TypeOK, PaymentInv, NEW s \in Slots, NEW q, NEW id \in Booked, NEW row,
         booking' = [booking EXCEPT ![id] = row], row.user = booking[id].user,
         row.state = "Success" => Backed(id),
         row.state = "AdminInit" => row.user = "staff",
         UNCHANGED <<next_id, bill, order>>, LinksOK',
         Become(s, q), SlotOK(q), q.pc \notin Making,
         q.id # NoId => q.id \in Booked, q.pc \in Calling => q.id # NoId
  PROVE  PaymentInv'
<1>1. \A b \in Ids : booking'[b] = IF b = id THEN row ELSE booking[b]
  BY DEF TypeOK, TablesType
<1>2. \A b \in Booked : Keeps(b)
  <2>1. \A b \in Booked : booking'[b].user = booking[b].user
    BY <1>1 DEF Booked
  <2> QED BY <2>1, SameKept
<1>3. TablesOK'
  BY <1>1 DEF PaymentInv, TablesOK, SuccessWasReported, BillMatchesCalls, Backed, Booked
<1>4. SlotOK(q)'
  <2>1. q.id # NoId => q.id < next_id'
    BY DEF Booked
  <2>2. q.id # NoId => Keeps(q.id)
    BY <1>2
  <2> QED BY <2>1, <2>2, SlotKept DEF Making
<1> QED BY <1>2, <1>3, <1>4, WholeStep

\* A save writes a state that was reported when it was read, and so still is.
LEMMA PaymentSaveFlush ==
  ASSUME TypeOK, PaymentInv, NEW s \in Slots, SaveFlush(s)
  PROVE  PaymentInv'
<1> DEFINE q == req[s]
           p == [q EXCEPT !.diff = {}, !.gone = {}, !.back = {}]
           row == Written(booking[q.id], q.row, q.diff)
<1>1. /\ SlotOK(q) /\ q \in RequestRecord /\ q.id \in Ids /\ q.id \in Booked
      /\ q.id # NoId /\ q.pc = "flush"
  BY OnBooked DEF SaveFlush, BeforeInsert
<1>2. /\ booking' = [booking EXCEPT ![q.id] = row]
      /\ Become(s, Saved(p))
      /\ UNCHANGED <<next_id, bill, order>>
      /\ link' = [link EXCEPT ![q.id] = Relinked(link[q.id], q.gone, q.back)]
  BY DEF SaveFlush, keys, bills
<1>3. booking[q.id] \in Row /\ q.row \in Row
  BY <1>1 DEF TypeOK, TablesType, RequestRecord
<1>4. row.user = booking[q.id].user /\ row.state \in {q.row.state, booking[q.id].state}
  BY <1>3 DEF Written, Row
<1>5. /\ row.state = "Success" => Backed(q.id)
      /\ row.state = "AdminInit" => row.user = "staff"
  BY <1>1, <1>4 DEF PaymentInv, TablesOK, SuccessWasReported, SlotOK
<1>6. /\ p \in RequestRecord /\ p.id = q.id /\ p.pc = q.pc /\ p.row = q.row
      /\ p.is_cms = q.is_cms /\ p.todo = q.todo /\ p.cur = q.cur /\ p.rows = q.rows
      /\ p.back = {}
  BY <1>1 DEF RequestRecord
<1>7. LinksOK'
  BY <1>1, <1>2, MoreLinks DEF Relinked, SlotOK
<1>8. BillRow(0) \notin q.todo \cup q.cur
  BY <1>1 DEF SlotOK
<1> HIDE DEF p, row, q
<1>9. SlotOK(p)
  BY <1>1, <1>6, <1>8, GoesOn DEF Making, Calling, BeforeInsert
<1>10. SlotOK(Saved(p)) /\ Saved(p).pc \notin Making
  BY <1>1, <1>6, <1>9, SavedOK
<1>11. Saved(p).pc \notin Calling /\ Saved(p).id \in {p.id, NoId}
  BY <1>1, <1>6 DEF Saved, Releasing, Rest, Idle, Calling, RequestRecord
<1> QED BY <1>1, <1>2, <1>4, <1>5, <1>6, <1>7, <1>10, <1>11, RowStep

\* The callback writes Success only when its own code says so.
LEMMA PaymentSetState ==
  ASSUME TypeOK, PaymentInv, NEW s \in Slots, SetState(s)
  PROVE  PaymentInv'
<1> DEFINE id == req[s].id
           row == [booking[id] EXCEPT !.state = IF req[s].code = "00" THEN "Success"
                                                ELSE "Reject"]
<1>1. id \in Ids /\ id \in Booked /\ (req[s].code = "00" => Backed(id))
  BY OnBooked DEF SetState, BeforeInsert, SlotOK
<1>2. booking' = [booking EXCEPT ![id] = row] /\ UNCHANGED <<next_id, bill, order, link>>
  BY DEF SetState, keys, bills
<1>3. booking[id] \in Row
  BY <1>1 DEF TypeOK, TablesType
<1>4. /\ row.user = booking[id].user
      /\ row.state = IF req[s].code = "00" THEN "Success" ELSE "Reject"
  BY <1>3 DEF Row
<1>5. Become(s, Idle) /\ Idle.pc \notin Making \cup Calling /\ Idle.id = NoId
  BY DEF SetState, Idle, Making, Calling
<1> HIDE DEF row
<1> QED BY <1>1, <1>2, <1>4, <1>5, IdleOK, RowStep, SameLinks

\* Writing a bill that is in the table, with a code that was heeded or, for a cms
\* booking, in cash.
LEMMA BillStep ==
  ASSUME TypeOK, PaymentInv, NEW s \in Slots, NEW q, NEW id \in Booked,
         NEW state \in {"Fulfilled", "Reject"}, bill' = [bill EXCEPT ![id] = state],
         bill[id] # "None",
         state = "Fulfilled" /\ booking[id].user = "system" => "00" \in order[id].codes,
         state = "Reject" => order[id].codes \ {"00"} # {},
         UNCHANGED <<booking, next_id, order>>,
         \A b \in Ids : BillRow(0) \in link'[b] => bill[b] # "None",
         Become(s, q), SlotOK(q)', q.pc \notin Making
  PROVE  PaymentInv'
<1>1. \A b \in Ids : bill'[b] = IF b = id THEN state ELSE bill[b]
  BY DEF TypeOK, TablesType
<1>2. id \in Ids
  BY DEF Booked
<1>3. state = "Reject" => order[id].codes # {"00"}
  OBVIOUS
<1>4. \A b \in Booked : Keeps(b)
  BY <1>1, <1>2, <1>3 DEF Keeps, Backed, Answered, Booked
<1>5. TablesOK'
  <2>1. Booked' = Booked
    BY DEF Booked
  <2>2. LinksOK'
    BY <1>1 DEF LinksOK
  <2>3. SuccessWasReported'
    BY <1>4, <2>1 DEF PaymentInv, TablesOK, SuccessWasReported, Keeps
  <2>4. BillMatchesCalls'
    BY <1>1, <1>2, <2>1 DEF PaymentInv, TablesOK, BillMatchesCalls, Booked
  <2> QED BY <1>1, <1>2, <2>1, <2>2, <2>3, <2>4 DEF PaymentInv, TablesOK, Booked
<1>6. \A t \in Slots \ {s} : req[t].pc = "bill" => bill'[req[t].id] = bill[req[t].id]
  <2> SUFFICES ASSUME NEW t \in Slots, req[t].pc = "bill"
               PROVE  bill'[req[t].id] = bill[req[t].id]
    OBVIOUS
  <2>1. req[t].id \in Ids /\ bill[req[t].id] = "None"
    BY OnBooked DEF BeforeInsert, SlotOK
  <2> QED BY <1>1, <2>1
<1> QED BY <1>4, <1>5, <1>6, WholeStep

\* The cash settlement is for cms bookings only, and of bills that exist.
LEMMA PaymentFulfilBills ==
  ASSUME TypeOK, PaymentInv, NEW s \in Slots, FulfilBills(s)
  PROVE  PaymentInv'
<1> DEFINE id == req[s].id
<1>1. /\ SlotOK(req[s]) /\ req[s] \in RequestRecord /\ id \in Booked /\ id # NoId /\ id \in Ids
      /\ req[s].pc = "fulfil" /\ booking[id].user = "staff"
      /\ BillRow(0) \notin req[s].todo \cup req[s].cur
  BY OnBooked DEF FulfilBills, BeforeInsert, SlotOK
<1>2. PICK p : p = [req[s] EXCEPT !.pc = "charge"]
  OBVIOUS
<1>3. /\ p.pc = "charge" /\ p.id = req[s].id /\ p.row = req[s].row
      /\ p.is_cms = req[s].is_cms /\ p.rows = req[s].rows /\ p.back = req[s].back
      /\ p.todo = req[s].todo /\ p.cur = req[s].cur
  BY <1>1, <1>2 DEF RequestRecord
<1>4. Become(s, p) /\ UNCHANGED <<booking, next_id, order, link>>
  BY <1>2 DEF FulfilBills, keys
<1>5. SlotOK(p) /\ p.pc \notin Making \cup Calling
  BY <1>1, <1>3, GoesOn DEF Making, Calling, BeforeInsert
<1>6. CASE UNCHANGED bill
  BY <1>4, <1>5, <1>6, SlotStep, SameLinks
<1>7. CASE BillRow(0) \in req[s].rows /\ bill' = [bill EXCEPT ![id] = "Fulfilled"]
  <2>1. bill[id] # "None"
    BY <1>1, <1>7 DEF SlotOK
  <2>2. \A b \in Ids : BillRow(0) \in link'[b] => bill[b] # "None"
    BY <1>4 DEF PaymentInv, TablesOK, LinksOK
  <2>3. bill'[id] = "Fulfilled"
    BY <1>1, <1>7 DEF TypeOK, TablesType
  <2>4. Keeps(p.id) /\ p.id < next_id'
    BY <1>1, <1>3, <1>4, <2>1, <2>3 DEF Keeps, Backed, Answered, SlotOK
  <2>5. SlotOK(p)'
    BY <1>5, <2>4, SlotKept DEF Making
  <2> QED BY <1>1, <1>4, <1>5, <1>7, <2>1, <2>2, <2>5, BillStep
<1> QED BY <1>6, <1>7 DEF FulfilBills

\* Charging services, releasing rooms and adding services leave bookings, room
\* bills and orders alone.
LEMMA PaymentRelease ==
  ASSUME TypeOK, PaymentInv, NEW s \in Slots,
         ChargeServices(s) \/ CheckRoom(s) \/ ReleaseRoom(s) \/ InsertUsage(s)
  PROVE  PaymentInv'
<1> DEFINE q == req[s]
<1>1. /\ SlotOK(q) /\ q \in RequestRecord /\ q.id # NoId
      /\ q.pc \in {"charge", "release", "adding"} /\ BillRow(0) \notin q.todo \cup q.cur
      /\ q.id \in Ids
  BY OnBooked DEF ChargeServices, CheckRoom, ReleaseRoom, InsertUsage, BeforeInsert, SlotOK
<1> DEFINE with(todo, cur) == [q EXCEPT !.todo = todo, !.cur = cur]
<1>2. ASSUME NEW todo \in SUBSET (q.todo \cup q.cur), NEW cur \in SUBSET (q.todo \cup q.cur)
      PROVE  SlotOK(Rest(with(todo, cur))) /\ Rest(with(todo, cur)).pc \notin Making
  <2> DEFINE p == with(todo, cur)
  <2>1. /\ p.pc = q.pc /\ p.id = q.id /\ p.row = q.row /\ p.is_cms = q.is_cms
        /\ p.todo = todo /\ p.cur = cur /\ p.rows = q.rows /\ p.back = q.back
    BY <1>1 DEF RequestRecord
  <2>2. BillRow(0) \notin p.todo \cup p.cur
    BY <1>1, <2>1
  <2> HIDE DEF p
  <2>3. SlotOK(p) /\ p.pc \notin Making
    BY <1>1, <2>1, <2>2, GoesOn DEF Making, Calling, BeforeInsert
  <2>4. SlotOK(Rest(p)) /\ Rest(p).pc \notin Making
    BY <2>3, RestOK
  <2> QED BY <2>4 DEF p
<1>3. ASSUME NEW c
      PROVE  /\ [q EXCEPT !.todo = @ \ {c}] = with(q.todo \ {c}, q.cur)
             /\ [[q EXCEPT !.todo = @ \ {c}] EXCEPT !.cur = @ \cup {c}]
                  = with(q.todo \ {c}, q.cur \cup {c})
             /\ [q EXCEPT !.cur = @ \ {c}] = with(q.todo, q.cur \ {c})
  BY <1>1 DEF RequestRecord
<1>4. CASE ChargeServices(s)
  <2>1. BillRow(0) # BillRow(service_bills[q.id] + 1)
    <3>1. service_bills[q.id] \in Nat
      BY <1>1, ConstantsAssumption DEF TypeOK, TablesType
    <3> QED BY <3>1 DEF BillRow
  <2>2. LinksOK'
    BY <1>1, <1>4, <2>1, MoreLinks DEF ChargeServices
  <2> QED BY <1>1, <1>4, <2>2, ReleasingOK, SlotStep DEF ChargeServices, keys
<1>5. CASE CheckRoom(s) \/ ReleaseRoom(s) \/ InsertUsage(s)
  <2>1. UNCHANGED <<booking, next_id, bill, order>>
    BY <1>5 DEF CheckRoom, ReleaseRoom, InsertUsage, tables, keys, bills
  <2>2. LinksOK'
    <3>1. CASE CheckRoom(s) \/ ReleaseRoom(s)
      BY <3>1, SameLinks DEF CheckRoom, ReleaseRoom, tables, bills
    <3>2. CASE InsertUsage(s)
      <4>1. PICK c \in q.todo : link' = [link EXCEPT ![q.id] = @ \cup {c}]
        BY <3>2 DEF InsertUsage
      <4>2. c # BillRow(0)
        BY <1>1
      <4> QED BY <1>1, <2>1, <4>1, <4>2, MoreLinks
    <3> QED BY <1>5, <3>1, <3>2
  <2>3. \/ \E c \in q.todo :
             \/ Become(s, Rest([q EXCEPT !.todo = @ \ {c}]))
             \/ Become(s, Rest([[q EXCEPT !.todo = @ \ {c}] EXCEPT !.cur = @ \cup {c}]))
        \/ \E c \in q.cur : Become(s, Rest([q EXCEPT !.cur = @ \ {c}]))
    BY <1>5, Zenon DEF CheckRoom, ReleaseRoom, InsertUsage
  <2>4. \/ \E c \in q.todo : \/ Become(s, Rest(with(q.todo \ {c}, q.cur)))
                             \/ Become(s, Rest(with(q.todo \ {c}, q.cur \cup {c})))
        \/ \E c \in q.cur : Become(s, Rest(with(q.todo, q.cur \ {c})))
    BY <1>3, <2>3, Zenon
  <2>5. PICK todo \in SUBSET (q.todo \cup q.cur), cur \in SUBSET (q.todo \cup q.cur) :
          Become(s, Rest(with(todo, cur)))
    <3> HIDE DEF with
    <3> QED BY <2>4
  <2> HIDE DEF with
  <2> QED BY <1>2, <2>1, <2>2, <2>5, SlotStep
<1> QED BY <1>4, <1>5
-----------------------------------------------------------------------------
(* The callback *)

\* The SELECT of the callback's save finds the bill as the code says, or not.
LEMMA PaymentBillLoad ==
  ASSUME TypeOK, PaymentInv, NEW s \in Slots, BillLoad(s)
  PROVE  PaymentInv'
<1> DEFINE q == req[s]
           linked == link[q.id] \cap {BillRow(0)}
           diff == IF bill[q.id] = Outcome(q.code) THEN {} ELSE {"payment_state"}
           p == [q EXCEPT !.pc = "bill_flush", !.diff = diff, !.gone = linked \ q.rows,
                          !.back = q.rows \ linked]
<1>1. /\ SlotOK(q) /\ q \in RequestRecord /\ q.id # NoId /\ q.pc = "bill_load"
      /\ bill[q.id] # "None" /\ q.code \in order[q.id].codes
  BY OnBooked DEF BillLoad, BeforeInsert, SlotOK, Calling
<1>2. Become(s, p)
  BY DEF BillLoad
<1>3. /\ p.pc = "bill_flush" /\ p.id = q.id /\ p.row = q.row /\ p.is_cms = q.is_cms
      /\ p.code = q.code /\ p.diff = diff /\ p.rows = q.rows /\ p.back \subseteq q.rows
      /\ p.todo = q.todo /\ p.cur = q.cur
  BY <1>1 DEF RequestRecord
<1>4. q.code = "00" /\ "payment_state" \notin diff => Backed(q.id)
  BY <1>1 DEF Outcome, Backed
<1> HIDE DEF p, q, diff
<1>5. SlotOK(p) /\ p.pc \notin Making
  BY <1>1, <1>3, <1>4 DEF SlotOK, Making, Calling, BeforeInsert
<1> QED BY <1>2, <1>5, SlotStep, SameLinks DEF BillLoad, tables

\* The callback's save writes its own code, or finds it written.
LEMMA PaymentBillFlush ==
  ASSUME TypeOK, PaymentInv, NEW s \in Slots, BillFlush(s)
  PROVE  PaymentInv'
<1>1. PICK q : q = req[s]
  OBVIOUS
<1>2. /\ SlotOK(q) /\ q \in RequestRecord /\ q.id \in Booked /\ q.id # NoId /\ q.id \in Ids
      /\ q.pc = "bill_flush" /\ bill[q.id] # "None" /\ q.code \in order[q.id].codes
  BY <1>1, OnBooked DEF BillFlush, BeforeInsert, SlotOK, Calling
<1>3. PICK p : p = [q EXCEPT !.pc = "set_state", !.diff = {}, !.gone = {}, !.back = {}]
  OBVIOUS
<1>4. /\ p.pc = "set_state" /\ p.id = q.id /\ p.row = q.row /\ p.is_cms = q.is_cms
      /\ p.code = q.code /\ p.rows = q.rows /\ p.back = {} /\ p.todo = q.todo /\ p.cur = q.cur
  BY <1>2, <1>3 DEF RequestRecord
<1>5. PICK r \in {Idle, p} : Become(s, r)
  BY <1>1, <1>3 DEF BillFlush
<1>6. /\ UNCHANGED <<booking, next_id, order>>
      /\ link' = [link EXCEPT ![q.id] = Relinked(@, q.gone, q.back)]
  BY <1>1 DEF BillFlush, keys
<1>7. \A b \in Ids : BillRow(0) \in link'[b] => bill[b] # "None"
  BY <1>2, <1>6 DEF Relinked, SlotOK, PaymentInv, TablesOK, LinksOK, TypeOK, TablesType
<1>8. Idle.pc \notin Making /\ p.pc \notin Making
  BY <1>4 DEF Idle, Making
<1>9. SlotOK(Idle)'
  BY IdleOK DEF SlotOK, Idle, Blank, NewRow, Making, Calling, BeforeInsert, NoId
<1>10. CASE UNCHANGED bill /\ "payment_state" \notin q.diff
  <2>1. SlotOK(p)
    BY <1>2, <1>4, <1>10 DEF SlotOK, Making, Calling, BeforeInsert
  <2>2. LinksOK'
    BY <1>7, <1>10 DEF LinksOK
  <2> QED BY <1>5, <1>6, <1>8, <1>10, <2>1, <2>2, IdleOK, SlotStep
<1>11. CASE bill' = [bill EXCEPT ![q.id] = Outcome(q.code)]
  <2>1. PICK state \in {"Fulfilled", "Reject"} :
          /\ state = Outcome(q.code)
          /\ state = "Fulfilled" => q.code = "00"
          /\ state = "Reject" => q.code # "00"
    BY DEF Outcome
  <2>2. bill'[q.id] = state /\ bill' = [bill EXCEPT ![q.id] = state]
    BY <1>2, <1>11, <2>1 DEF TypeOK, TablesType
  <2>3. Keeps(q.id) /\ (q.code = "00" => Backed(q.id)')
    BY <1>2, <1>6, <2>1, <2>2 DEF Keeps, Backed, Answered
  <2>4. SlotOK(p)'
    BY <1>2, <1>4, <1>6, <2>2, <2>3 DEF SlotOK, Making, Calling, BeforeInsert, Keeps
  <2>5. SlotOK(r)'
    BY <1>5, <1>9, <2>4
  <2>6. /\ state = "Fulfilled" => "00" \in order[q.id].codes
        /\ state = "Reject" => order[q.id].codes \ {"00"} # {}
    BY <1>2, <2>1
  <2> QED BY <1>2, <1>5, <1>6, <1>7, <1>8, <2>2, <2>5, <2>6, BillStep
<1> QED BY <1>1, <1>10, <1>11 DEF BillFlush
-----------------------------------------------------------------------------
\* Every step preserves the invariant.
LEMMA PaymentStep == TypeOK /\ PaymentInv /\ [Next]_vars => PaymentInv'
<1> SUFFICES ASSUME TypeOK, PaymentInv, [Next]_vars PROVE PaymentInv'
  OBVIOUS
<1>1. ASSUME NEW s \in Slots, Begin(s) PROVE PaymentInv'
  BY <1>1, PaymentPrepare, PaymentBeginOn, PaymentResponse DEF Begin
<1>2. ASSUME NEW s \in Slots, Continue(s) PROVE PaymentInv'
  BY <1>2, PaymentPrepareShared, PaymentFindCustomer, PaymentInsertBooking,
     PaymentCreateBill, PaymentMarkRoom, PaymentBookRoom, PaymentReply, PaymentSaveLoad,
     PaymentSaveFlush, PaymentFulfilBills, PaymentRelease, PaymentBillLoad,
     PaymentBillFlush, PaymentSetState DEF Continue
<1>3. ASSUME NEW s \in Slots, Fail(s) PROVE PaymentInv'
  BY <1>3, PaymentFail
<1>4. CASE UNCHANGED vars
  BY <1>4 DEF vars, PaymentInv, TablesOK, OneMaker, SlotOK, Booked, Answered, Backed,
              LinksOK, SuccessWasReported, BillMatchesCalls
<1> QED BY <1>1, <1>2, <1>3, <1>4 DEF Next

\* The invariant above holds in every state the server reaches, whoever calls back
\* with whatever code.
THEOREM PaymentsConsistent == Spec => []PaymentInv
<1>1. Spec => []TypeOK
  BY TypeCorrect
<1> QED BY <1>1, PaymentInit, PaymentStep, PTL DEF Spec

\* A booking is Success only if a callback reported a success about its bill, which
\* is then Fulfilled unless a refusal was heeded too.
THEOREM SuccessIsReported == Spec => []SuccessWasReported
<1>1. PaymentInv => SuccessWasReported
  BY DEF PaymentInv, TablesOK
<1> QED BY <1>1, PaymentsConsistent, PTL

\* The room bill says nothing that no callback reported.
THEOREM BillAgrees == Spec => []BillMatchesCalls
<1>1. PaymentInv => BillMatchesCalls
  BY DEF PaymentInv, TablesOK
<1> QED BY <1>1, PaymentsConsistent, PTL

\* A Fulfilled bill stays so until a refusal is heeded: only a create whose bill is
\* not there yet, a cash settlement or a callback writes a bill, and a callback
\* writes the code of its own call, however late.
THEOREM PaidBillIsKept == Spec => PaidBillKept
<1> DEFINE Keep(b) == bill[b] = "Fulfilled" /\ order'[b].codes \subseteq {"00"}
                        => bill'[b] = "Fulfilled"
           Kept == \A b \in Booked : Keep(b)
<1>1. ASSUME TypeOK, PaymentInv, [Next]_vars, NEW b \in Booked,
             order'[b].codes \subseteq {"00"}, bill[b] = "Fulfilled"
      PROVE  bill'[b] = "Fulfilled"
  <2>1. b \in Ids /\ bill \in [Ids -> BillStates]
    BY <1>1 DEF Booked, TypeOK, TablesType
  <2>2. ASSUME NEW s \in Slots, CreateBill(s) PROVE bill'[b] = "Fulfilled"
    <3>1. bill[req[s].id] = "None"
      BY <1>1, <2>2, OnBooked DEF CreateBill, BeforeInsert, SlotOK
    <3>2. \E state : bill' = [bill EXCEPT ![req[s].id] = state]
      BY <2>2 DEF CreateBill
    <3> QED BY <1>1, <2>1, <3>1, <3>2
  <2>3. ASSUME NEW s \in Slots, FulfilBills(s) PROVE bill'[b] = "Fulfilled"
    BY <1>1, <2>1, <2>3 DEF FulfilBills
  <2>4. ASSUME NEW s \in Slots, BillFlush(s) PROVE bill'[b] = "Fulfilled"
    <3>1. CASE UNCHANGED bill
      BY <1>1, <3>1
    <3>2. CASE bill' = [bill EXCEPT ![req[s].id] = Outcome(req[s].code)]
      <4>1. req[s].code \in order[req[s].id].codes /\ UNCHANGED order
        BY <1>1, <2>4, OnBooked DEF BillFlush, BeforeInsert, SlotOK, Calling
      <4> QED BY <1>1, <2>1, <3>2, <4>1 DEF Outcome
    <3> QED BY <2>4, <3>1, <3>2 DEF BillFlush
  <2>5. ASSUME NEW s \in Slots, Begin(s) PROVE UNCHANGED bill
    BY <2>5 DEF Begin, Create, CmsCreate, Prepare, Checkin, Cancel, Checkout, AddService,
                ResponseVnpay, tables, bills
  <2>6. ASSUME NEW s \in Slots, Continue(s)
        PROVE  CreateBill(s) \/ FulfilBills(s) \/ BillFlush(s) \/ UNCHANGED bill
    <3>1. PrepareShared(s) \/ FindCustomer(s) \/ InsertBooking(s) \/ MarkRoom(s)
            \/ BookRoom(s) \/ Reply(s) => UNCHANGED bill
      BY DEF PrepareShared, FindCustomer, InsertBooking, MarkRoom, BookRoom, Reply,
             tables, bills
    <3>2. SaveLoad(s) \/ SaveFlush(s) \/ ChargeServices(s) \/ CheckRoom(s)
            \/ ReleaseRoom(s) \/ InsertUsage(s) \/ BillLoad(s) \/ SetState(s)
            => UNCHANGED bill
      BY DEF SaveLoad, SaveFlush, ChargeServices, CheckRoom, ReleaseRoom, InsertUsage,
             BillLoad, SetState, tables, bills
    <3> QED BY <2>6, <3>1, <3>2 DEF Continue
  <2>7. ASSUME NEW s \in Slots, Fail(s) PROVE UNCHANGED bill
    BY <2>7 DEF Fail, Throw, Abort, FailOne, tables
  <2>8. CASE UNCHANGED vars
    BY <1>1, <2>8 DEF vars
  <2> QED BY <1>1, <2>2, <2>3, <2>4, <2>5, <2>6, <2>7, <2>8 DEF Next
<1>2. TypeOK /\ PaymentInv /\ [Next]_vars => [Kept]_vars
  BY <1>1
<1>3. Spec => []TypeOK /\ []PaymentInv /\ [][Next]_vars
  BY TypeCorrect, PaymentsConsistent DEF Spec
<1>4. Spec => [][Kept]_vars
  BY <1>2, <1>3, PTL
<1> QED BY <1>4 DEF PaidBillKept
-----------------------------------------------------------------------------
(* The ledger *)

\* What a step means in the ledger, with the columns of order and booking spelled
\* out
Handed == [b \in Ids |-> order[b].handed]
Codes == [b \in Ids |-> order[b].codes]
Confirmed == [b \in Ids |-> booking[b].state = "Success"]
Staff == [b \in Ids |-> booking[b].user = "staff"]

\* What the ledger calls booked is what the properties call backed.
LEMMA BookedIsBacked == \A b \in Ids : Ledger!Booked(b) <=> Backed(b)
BY DEF Ledger!Booked, Backed

\* A step that leaves orders, bills, states and users alone stutters.
LEMMA LedgerStutter ==
  ASSUME UNCHANGED <<booking, order, bill>>
  PROVE  [Ledger!Next]_(Ledger!ledger)
BY DEF Ledger!ledger

\* The ledger starts empty.
LEMMA LedgerInit == Init => Ledger!Init
<1> SUFFICES ASSUME Init PROVE Ledger!Init
  OBVIOUS
<1>1. \A b \in Ids : booking[b].state = "Init" /\ booking[b].user = "system"
  BY DEF Init, TablesInit, Blank, NewRow
<1> QED BY <1>1 DEF Init, TablesInit, Ledger!Init

\* A statement that writes columns of one row, leaving its user alone, and
\* writes Success only if it was reported, confirms or stutters.
LEMMA ConfirmStep ==
  ASSUME NEW b \in Ids, NEW row, booking' = [booking EXCEPT ![b] = row],
         booking \in [Ids -> Row], row.user = booking[b].user,
         row.state = "Success" => Backed(b),
         UNCHANGED <<order, bill>>
  PROVE  Ledger!Confirm(b)
<1> DEFINE yes == row.state = "Success"
<1>1. \A c \in Ids : booking'[c] = IF c = b THEN row ELSE booking[c]
  OBVIOUS
<1>2. Staff' = Staff
  BY <1>1 DEF Staff
<1>3. Confirmed' = [Confirmed EXCEPT ![b] = yes]
  BY <1>1 DEF Confirmed
<1>4. yes \in BOOLEAN
  OBVIOUS
<1> HIDE DEF yes
<1>5. yes => Ledger!Booked(b)
  BY BookedIsBacked DEF yes
<1> QED BY <1>2, <1>3, <1>4, <1>5 DEF Ledger!Confirm, Confirmed, Staff

\* The insert of a booking enters it: its room is not charged before.
LEMMA LedgerInsert ==
  ASSUME TypeOK, PaymentInv, NEW s \in Slots, InsertBooking(s)
  PROVE  \E b \in Ids : Ledger!Enter(b)
<1> DEFINE row == req[s].row
<1>1. next_id \in Ids /\ next_id \notin Booked
  <2>1. next_id <= MaxBookings /\ next_id \in 1 .. MaxBookings + 1 /\ MaxBookings \in Nat
    BY ConstantsAssumption DEF InsertBooking, TypeOK, TablesType
  <2> QED BY <2>1 DEF Ids, Booked
<1>2. bill[next_id] = "None"
  BY <1>1 DEF PaymentInv, TablesOK
<1>3. \A c \in Ids : booking'[c] = IF c = next_id THEN row ELSE booking[c]
  BY <1>1 DEF InsertBooking, TypeOK, TablesType
<1>4. row.state # "Success"
  BY DEF InsertBooking, PaymentInv, SlotOK, BeforeInsert
<1>5. Confirmed' = [Confirmed EXCEPT ![next_id] = FALSE]
  BY <1>3, <1>4 DEF Confirmed
<1>6. Staff' = [Staff EXCEPT ![next_id] = (row.user = "staff")]
  BY <1>3 DEF Staff
<1>7. (row.user = "staff") \in BOOLEAN
  OBVIOUS
<1>8. UNCHANGED <<order, bill>>
  BY DEF InsertBooking, bills
<1> HIDE DEF row
<1>9. \E by_staff \in BOOLEAN : Staff' = [Staff EXCEPT ![next_id] = by_staff]
  BY <1>6, <1>7
<1>10. Ledger!Enter(next_id)
  BY <1>2, <1>5, <1>8, <1>9 DEF Ledger!Enter, Confirmed, Staff
<1> QED BY <1>1, <1>10 DEF Ledger!Enter

\* The room is charged once.
LEMMA LedgerCreateBill ==
  ASSUME TypeOK, PaymentInv, NEW s \in Slots, CreateBill(s)
  PROVE  \E b \in Ids : Ledger!Charge(b)
<1>1. req[s].id \in Ids /\ bill[req[s].id] = "None"
  BY OnBooked DEF CreateBill, BeforeInsert, SlotOK
<1>2. /\ \E outcome \in {"Pending", "Reject"} : bill' = [bill EXCEPT ![req[s].id] = outcome]
      /\ UNCHANGED <<booking, order>>
  BY DEF CreateBill
<1>3. Ledger!Charge(req[s].id)
  BY <1>1, <1>2 DEF Ledger!Charge
<1> QED BY <1>1, <1>3

\* The answer offers the link, or is about a booking without one.
LEMMA LedgerReply ==
  ASSUME TypeOK, PaymentInv, NEW s \in Slots, Reply(s)
  PROVE  [\E b \in Ids : Ledger!Offer(b)]_<<booking, order, bill>>
<1>1. PICK id \in Ids : id = req[s].id /\ bill[id] # "None" /\ Answered(id)
  BY OnBooked DEF Reply, BeforeInsert, SlotOK, Making
<1>2. UNCHANGED <<booking, bill>>
  BY DEF Reply, bills
<1>3. CASE req[s].pay = "Vnpay"
  <2>1. order' = [order EXCEPT ![id].handed = TRUE]
    BY <1>1, <1>3 DEF Reply
  <2>2. \A b \in Ids : /\ order'[b].codes = order[b].codes
                       /\ order'[b].handed = IF b = id THEN TRUE ELSE order[b].handed
    BY <1>1, <2>1 DEF TypeOK, TablesType, Order
  <2>3. Handed' = [Handed EXCEPT ![id] = TRUE] /\ Codes' = Codes
    BY <2>2 DEF Handed, Codes
  <2>4. bill[id] = "Reject" => Codes[id] \ {"00"} # {}
    BY <1>1 DEF Answered, Codes
  <2>5. Staff' = Staff /\ Confirmed' = Confirmed
    BY <1>2 DEF Staff, Confirmed
  <2>6. bill[id] # "None" /\ UNCHANGED bill
    BY <1>1, <1>2
  <2>7. Ledger!Offer(id)
    BY <2>3, <2>4, <2>5, <2>6, Zenon DEF Ledger!Offer, Handed, Codes, Staff, Confirmed
  <2> QED BY <1>1, <2>7
<1>4. CASE req[s].pay # "Vnpay"
  BY <1>2, <1>4 DEF Reply
<1> QED BY <1>3, <1>4

\* A callback that is heeded tells the ledger its code.
LEMMA LedgerTell ==
  ASSUME TypeOK, PaymentInv, NEW s \in Slots, NEW b \in Booked, ResponseVnpay(s, b)
  PROVE  Ledger!Tell(b)
<1>1. b \in Ids /\ bill[b] # "None" /\ UNCHANGED <<booking, bill>>
  BY DEF ResponseVnpay, Booked, bills
<1>2. PICK code \in ResponseCodes : order' = [order EXCEPT ![b].codes = @ \cup {code}]
  BY DEF ResponseVnpay
<1>3. \A c \in Ids : /\ order'[c].handed = order[c].handed
                     /\ order'[c].codes = IF c = b THEN order[b].codes \cup {code}
                                          ELSE order[c].codes
  BY <1>1, <1>2 DEF TypeOK, TablesType, Order
<1>4. Codes' = [Codes EXCEPT ![b] = @ \cup {code}] /\ Handed' = Handed
  BY <1>1, <1>3 DEF Codes, Handed
<1>5. Staff' = Staff /\ Confirmed' = Confirmed
  BY <1>1 DEF Staff, Confirmed
<1> QED BY <1>1, <1>4, <1>5 DEF Ledger!Tell, Codes, Handed, Staff, Confirmed

\* A save writes what the request read: Success only if it was reported.
LEMMA LedgerSaveFlush ==
  ASSUME TypeOK, PaymentInv, NEW s \in Slots, SaveFlush(s)
  PROVE  \E b \in Ids : Ledger!Confirm(b)
<1> DEFINE q == req[s]
           row == Written(booking[q.id], q.row, q.diff)
<1>1. q.id \in Ids /\ q.id \in Booked /\ q \in RequestRecord /\ SlotOK(q) /\ q.id # NoId
  BY OnBooked DEF SaveFlush, BeforeInsert
<1>2. booking \in [Ids -> Row] /\ booking[q.id] \in Row
  BY <1>1 DEF TypeOK, TablesType
<1>3. row.user = booking[q.id].user /\ row.state \in {q.row.state, booking[q.id].state}
  BY <1>2 DEF Written, Row
<1>4. row.state = "Success" => Backed(q.id)
  BY <1>1, <1>3 DEF SlotOK, PaymentInv, TablesOK, SuccessWasReported
<1>5. booking' = [booking EXCEPT ![q.id] = row] /\ UNCHANGED <<order, bill>>
  BY DEF SaveFlush, bills
<1> HIDE DEF q, row
<1> QED BY <1>1, <1>2, <1>3, <1>4, <1>5, ConfirmStep

\* The callback's update writes Success only if its own code says so.
LEMMA LedgerSetState ==
  ASSUME TypeOK, PaymentInv, NEW s \in Slots, SetState(s)
  PROVE  \E b \in Ids : Ledger!Confirm(b)
<1> DEFINE id == req[s].id
           state == IF req[s].code = "00" THEN "Success" ELSE "Reject"
           row == [booking[id] EXCEPT !.state = state]
<1>1. id \in Ids /\ (req[s].code = "00" => Backed(id))
  BY OnBooked DEF SetState, BeforeInsert, SlotOK
<1>2. booking \in [Ids -> Row] /\ booking[id] \in Row
  BY <1>1 DEF TypeOK, TablesType
<1>3. row.user = booking[id].user /\ row.state = state
  BY <1>2 DEF Row
<1>4. booking' = [booking EXCEPT ![id] = row] /\ UNCHANGED <<order, bill>>
  BY DEF SetState, bills
<1>5. row.state = "Success" => Backed(id)
  BY <1>1, <1>3
<1> HIDE DEF id, row
<1> QED BY <1>1, <1>2, <1>3, <1>4, <1>5, ConfirmStep

\* Cash is only taken for a booking the staff entered, whose room was charged.
LEMMA LedgerFulfil ==
  ASSUME TypeOK, PaymentInv, NEW s \in Slots, FulfilBills(s)
  PROVE  [\E b \in Ids : Ledger!PayAtDesk(b)]_<<booking, order, bill>>
<1>1. /\ req[s].id \in Ids /\ booking[req[s].id].user = "staff"
      /\ BillRow(0) \in req[s].rows => bill[req[s].id] # "None"
  BY OnBooked DEF FulfilBills, BeforeInsert, SlotOK
<1>2. UNCHANGED <<booking, order>>
  BY DEF FulfilBills
<1>3. \/ /\ bill' = [bill EXCEPT ![req[s].id] = "Fulfilled"]
         /\ bill[req[s].id] # "None"
      \/ UNCHANGED bill
  BY <1>1 DEF FulfilBills
<1>4. Staff[req[s].id]
  BY <1>1 DEF Staff
<1> QED BY <1>1, <1>2, <1>3, <1>4 DEF Ledger!PayAtDesk, Staff

\* The callback puts on the books what was reported.
LEMMA LedgerBillFlush ==
  ASSUME TypeOK, PaymentInv, NEW s \in Slots, BillFlush(s)
  PROVE  [\E b \in Ids : Ledger!Record(b)]_<<booking, order, bill>>
<1>1. req[s].id \in Ids /\ req[s].code \in Codes[req[s].id]
  BY OnBooked DEF BillFlush, BeforeInsert, SlotOK, Calling, Codes
<1>2. UNCHANGED <<booking, order>>
  BY DEF BillFlush
<1>3. \/ bill' = [bill EXCEPT ![req[s].id] = Outcome(req[s].code)]
      \/ UNCHANGED bill
  BY DEF BillFlush
<1> QED BY <1>1, <1>2, <1>3 DEF Ledger!Record, Outcome, Codes
-----------------------------------------------------------------------------
\* Every step of the service is a step of the ledger, or none.
LEMMA LedgerStep ==
  TypeOK /\ PaymentInv /\ [Next]_vars => [Ledger!Next]_(Ledger!ledger)
<1> SUFFICES ASSUME TypeOK, PaymentInv, [Next]_vars
             PROVE  [Ledger!Next]_(Ledger!ledger)
  OBVIOUS
<1>1. ASSUME NEW s \in Slots, Begin(s)
      PROVE  [Ledger!Next]_(Ledger!ledger)
  <2>1. ASSUME NEW b \in Booked, ResponseVnpay(s, b) PROVE Ledger!Next
    BY <2>1, LedgerTell DEF Ledger!Next, Booked
  <2>2. Create(s) \/ CmsCreate(s) => UNCHANGED <<booking, order, bill>>
    BY DEF Create, CmsCreate, Prepare, tables
  <2>3. ASSUME NEW b \in Booked,
               Checkin(s, b) \/ Cancel(s, b) \/ Checkout(s, b) \/ AddService(s, b)
        PROVE  UNCHANGED <<booking, order, bill>>
    BY <2>3 DEF Checkin, Cancel, Checkout, AddService, tables
  <2> QED BY <1>1, <2>1, <2>2, <2>3, LedgerStutter DEF Begin
<1>2. ASSUME NEW s \in Slots, Continue(s)
      PROVE  [Ledger!Next]_(Ledger!ledger)
  <2>1. PrepareShared(s) \/ FindCustomer(s) \/ MarkRoom(s) \/ BookRoom(s)
          => UNCHANGED <<booking, order, bill>>
    BY DEF PrepareShared, FindCustomer, MarkRoom, BookRoom, tables, bills
  <2>2. SaveLoad(s) \/ ChargeServices(s) \/ CheckRoom(s) \/ ReleaseRoom(s)
          \/ InsertUsage(s) \/ BillLoad(s)
          => UNCHANGED <<booking, order, bill>>
    BY DEF SaveLoad, ChargeServices, CheckRoom, ReleaseRoom, InsertUsage, BillLoad,
           tables, bills
  <2>3. InsertBooking(s) \/ CreateBill(s) => Ledger!Next
    BY LedgerInsert, LedgerCreateBill DEF Ledger!Next
  <2>4. SaveFlush(s) \/ SetState(s) => Ledger!Next
    BY LedgerSaveFlush, LedgerSetState DEF Ledger!Next
  <2>5. Reply(s) \/ FulfilBills(s) \/ BillFlush(s)
          => Ledger!Next \/ UNCHANGED <<booking, order, bill>>
    BY LedgerReply, LedgerFulfil, LedgerBillFlush DEF Ledger!Next
  <2> QED BY <1>2, <2>1, <2>2, <2>3, <2>4, <2>5, LedgerStutter DEF Continue
<1>3. ASSUME NEW s \in Slots, Fail(s) PROVE UNCHANGED <<booking, order, bill>>
  BY <1>3 DEF Fail, Throw, Abort, FailOne, tables
<1>4. CASE UNCHANGED vars
  BY <1>4, LedgerStutter DEF vars
<1> QED BY <1>1, <1>2, <1>3, <1>4, LedgerStutter DEF Next

\* The booking service implements the payment ledger: whatever overlaps, fails,
\* is repeated or comes late, and whoever calls back with whatever code, what it
\* does with money is what the ledger allows, given the codes it heeded.
THEOREM BooksAreTheLedger == Spec => ImplementsLedger
<1>1. Spec => []TypeOK
  BY TypeCorrect
<1>2. Spec => []PaymentInv
  BY PaymentsConsistent
<1> QED BY <1>1, <1>2, LedgerInit, LedgerStep, PTL DEF Spec, ImplementsLedger, Ledger!Spec
=============================================================================
