---------------------------- MODULE BookingProofs ----------------------------
(***************************************************************************)
(* Theorems about the booking service, for every value of the constants.    *)
(***************************************************************************)
EXTENDS BookingProperties, TLAPS
-----------------------------------------------------------------------------
(* Type correctness *)

\* The helpers that build the next request of a slot build requests.
LEMMA RowTypes ==
  /\ Blank \in Row
  /\ \A user \in Users, state \in States, stay \in Stays,
        quantity \in 0 .. MaxQuantity : NewRow(user, state, stay, quantity) \in Row
  /\ \A row, mem \in Row, columns \in SUBSET Columns :
        Written(row, mem, columns) \in Row
<1>1. Blank \in Row
  BY ConstantsAssumption DEF Row, Blank, NewRow, Users, States
<1>2. ASSUME NEW user \in Users, NEW state \in States, NEW stay \in Stays,
             NEW quantity \in 0 .. MaxQuantity
      PROVE  NewRow(user, state, stay, quantity) \in Row
  BY DEF Row, NewRow
<1>3. ASSUME NEW row \in Row, NEW mem \in Row, NEW columns \in SUBSET Columns
      PROVE  Written(row, mem, columns) \in Row
  <2> DEFINE state == IF "state" \in columns THEN mem.state ELSE row.state
             checked_in == IF "is_checked_in" \in columns THEN mem.is_checked_in
                           ELSE row.is_checked_in
             checked_out == IF "is_checked_out" \in columns THEN mem.is_checked_out
                            ELSE row.is_checked_out
             cancel == IF "is_cancel" \in columns THEN mem.is_cancel ELSE row.is_cancel
  <2>1. state \in States /\ checked_in \in BOOLEAN /\ checked_out \in BOOLEAN
          /\ cancel \in BOOLEAN
    BY DEF Row
  <2>2. Written(row, mem, columns) =
          [row EXCEPT !.state = state, !.is_checked_in = checked_in,
                      !.is_checked_out = checked_out, !.is_cancel = cancel]
    BY DEF Written
  <2> HIDE DEF state, checked_in, checked_out, cancel
  <2> QED BY <2>1, <2>2 DEF Row
<1> QED BY <1>1, <1>2, <1>3

\* The helpers that move a request on build requests from requests.
LEMMA RequestTypes ==
  /\ Idle \in Request
  /\ \A q \in Request :
       Thrown(q) \in Request /\ Rest(q) \in Request /\ Prepared(q) \in Request
  /\ \A q \in Request :
       q.id # NoId => Loop(q) \in Request /\ Releasing(q) \in Request /\ Saved(q) \in Request
<1>1. Idle \in Request
  BY RowTypes, ConstantsAssumption
  DEF Idle, Request, RequestRecord, BeforeInsert, Stages, Operations, NoId, Columns, Child
<1>2. \A q \in Request : Rest(q) \in Request
  BY <1>1 DEF Rest
<1>3. ASSUME NEW q \in Request PROVE Thrown(q) \in Request
  <2> DEFINE undone == [q.row EXCEPT !.state = "Reject", !.is_cancel = TRUE]
             stage == IF q.id = NoId THEN "insert" ELSE "load"
             caught == [q EXCEPT !.pc = stage, !.row = undone, !.todo = {}, !.cur = {}]
  <2>1. undone \in Row
    BY DEF Request, RequestRecord, Row, States
  <2>2. stage \in Stages /\ (stage \in BeforeInsert \/ q.id # NoId)
    BY DEF Stages, BeforeInsert
  <2>3. caught \in Request
    <3> HIDE DEF undone, stage
    <3> QED BY <2>1, <2>2 DEF Request, RequestRecord
  <2>4. Thrown(q) = IF q.op = "create" THEN caught ELSE Idle
    BY DEF Thrown, Request, RequestRecord, Row
  <2> QED BY <1>1, <2>3, <2>4
<1>4. ASSUME NEW q \in Request PROVE Prepared(q) \in Request
  BY DEF Prepared, Request, RequestRecord, BeforeInsert, Stages
<1>5. ASSUME NEW q \in Request, q.id # NoId
      PROVE  Loop(q) \in Request /\ Releasing(q) \in Request /\ Saved(q) \in Request
  <2>1. Loop(q) \in Request
    BY <1>5 DEF Loop, Request, RequestRecord, Stages
  <2>2. [q EXCEPT !.pc = "release", !.todo = q.rows \cap RoomRows] \in Request
    BY <1>5 DEF Request, RequestRecord, Stages
  <2>3. Releasing(q) \in Request
    BY <1>2, <2>2 DEF Releasing
  <2>4. [q EXCEPT !.pc = IF q.is_cms THEN "fulfil" ELSE "charge"] \in Request
    BY <1>5 DEF Request, RequestRecord, Stages
  <2> QED BY <1>1, <2>1, <2>3, <2>4 DEF Saved
<1> QED BY <1>1, <1>2, <1>3, <1>4, <1>5

\* What every action does to req, and what many do to the tables.
LEMMA BecomeType ==
  ASSUME req \in [Slots -> Request], NEW s \in Slots, NEW q \in Request, Become(s, q)
  PROVE  req' \in [Slots -> Request]
BY DEF Become

\* A step that leaves the tables alone leaves them well typed.
LEMMA SameTablesType ==
  ASSUME TablesType, UNCHANGED tables
  PROVE  TablesType'
BY DEF TablesType, tables

\* A booking that is found in the table has an id.
LEMMA BookedIds == Booked \subseteq Ids /\ \A b \in Ids : b \in 0 .. MaxBookings
BY ConstantsAssumption DEF Booked, Ids

\* A request past its insert has a booking.
LEMMA HasBooking ==
  ASSUME TypeOK, NEW s \in Slots, req[s].pc \notin BeforeInsert
  PROVE  req[s] \in Request /\ req[s] \in RequestRecord /\ req[s].id \in Ids
           /\ req[s].id # NoId
BY ConstantsAssumption DEF TypeOK, Request, RequestRecord, Ids, NoId

\* The server starts well typed: no rows, no requests.
LEMMA TypeInit == Init => TypeOK
<1> SUFFICES ASSUME Init PROVE TypeOK
  OBVIOUS
<1>1. TablesType
  BY RowTypes, ConstantsAssumption
  DEF Init, TablesInit, TablesType, Ids, BillStates, Order
<1>2. req \in [Slots -> Request]
  BY RequestTypes DEF Init
<1> QED BY <1>1, <1>2 DEF TypeOK

\* _prepare's first query keeps the types, of create and of cmsCreate.
LEMMA TypePrepare ==
  ASSUME TypeOK, NEW s \in Slots, Create(s) \/ CmsCreate(s)
  PROVE  TypeOK'
<1>1. PICK op \in Creating, user \in Users, state \in States : Prepare(s, op, user, state)
  BY DEF Create, CmsCreate, Creating, Users, States
<1>2. TablesType'
  BY <1>1, SameTablesType DEF TypeOK, Prepare
<1>3. PICK t \in RoomTypes, stay \in Stays, quantity \in 1 .. MaxQuantity, pay \in Payments :
        LET free == {RoomRow(r, 1) : r \in FreeRooms(t)}
            asked == [Idle EXCEPT !.op = op, !.type = t, !.pay = pay,
                                  !.row = NewRow(user, state, stay, quantity)]
        IN IF Cardinality(free) < quantity
           THEN Become(s, [asked EXCEPT !.pc = "shared", !.todo = free])
           ELSE \E take \in SUBSET free :
                  /\ Cardinality(take) = quantity
                  /\ Become(s, Prepared([asked EXCEPT !.todo = take]))
  BY <1>1 DEF Prepare
<1> DEFINE free == {RoomRow(r, 1) : r \in FreeRooms(t)}
           asked == [Idle EXCEPT !.op = op, !.type = t, !.pay = pay,
                                 !.row = NewRow(user, state, stay, quantity)]
<1>4. free \subseteq Child
  BY DEF RoomRow, FreeRooms, Child, RoomRows
<1>5. asked \in Request
  <2>1. NewRow(user, state, stay, quantity) \in Row
    BY RowTypes, ConstantsAssumption
  <2> QED BY <2>1, RequestTypes DEF Request, RequestRecord, Creating, Operations
<1>6. /\ [asked EXCEPT !.pc = "shared", !.todo = free] \in Request
      /\ \A take \in SUBSET free : Prepared([asked EXCEPT !.todo = take]) \in Request
  <2> HIDE DEF asked, free
  <2>1. \A take \in SUBSET free : [asked EXCEPT !.todo = take] \in Request
    BY <1>4, <1>5 DEF Request, RequestRecord, BeforeInsert
  <2>2. [asked EXCEPT !.pc = "shared", !.todo = free] \in Request
    BY <1>4, <1>5 DEF Request, RequestRecord, BeforeInsert, Stages
  <2> QED BY <2>1, <2>2, RequestTypes
<1>7. req' \in [Slots -> Request]
  <2> HIDE DEF asked, free
  <2>1. \/ Become(s, [asked EXCEPT !.pc = "shared", !.todo = free])
        \/ \E take \in SUBSET free : Become(s, Prepared([asked EXCEPT !.todo = take]))
    BY <1>3 DEF asked, free
  <2> QED BY <2>1, <1>6, BecomeType DEF TypeOK
<1> QED BY <1>2, <1>7 DEF TypeOK

\* _prepare's second query keeps the types.
LEMMA TypePrepareShared ==
  ASSUME TypeOK, NEW s \in Slots, PrepareShared(s)
  PROVE  TypeOK'
<1> DEFINE q == req[s]
           shared == {RoomRow(r, 2) : r \in SharedRooms(q.type, q.row.stay)}
<1>1. q \in Request
  BY DEF TypeOK
<1>2. shared \subseteq Child
  BY DEF RoomRow, SharedRooms, Child, RoomRows
<1>3. \A more \in SUBSET shared : Prepared([q EXCEPT !.todo = @ \cup more]) \in Request
  <2> HIDE DEF q, shared
  <2>1. \A more \in SUBSET shared : [q EXCEPT !.todo = @ \cup more] \in Request
    BY <1>1, <1>2 DEF Request, RequestRecord, BeforeInsert
  <2> QED BY <2>1, RequestTypes
<1>4. \/ Become(s, Idle)
      \/ \E more \in SUBSET shared : Become(s, Prepared([q EXCEPT !.todo = @ \cup more]))
  BY DEF PrepareShared
<1>5. req' \in [Slots -> Request]
  <2> HIDE DEF q, shared
  <2> QED BY <1>3, <1>4, RequestTypes, BecomeType DEF TypeOK
<1> QED BY <1>5, SameTablesType DEF TypeOK, PrepareShared

\* Finding or inserting the customer keeps the types.
LEMMA TypeFindCustomer ==
  ASSUME TypeOK, NEW s \in Slots, FindCustomer(s)
  PROVE  TypeOK'
<1>1. [req[s] EXCEPT !.pc = "insert"] \in Request
  BY DEF TypeOK, Request, RequestRecord, BeforeInsert, Stages
<1>2. req' \in [Slots -> Request]
  BY <1>1, BecomeType DEF TypeOK, FindCustomer
<1>3. walk_ins' \in 0 .. MaxWalkIns
  BY ConstantsAssumption DEF FindCustomer, TypeOK, TablesType
<1> QED BY <1>2, <1>3 DEF TypeOK, TablesType, FindCustomer, bills

\* The insert keeps the types: the new id is still in the bound.
LEMMA TypeInsertBooking ==
  ASSUME TypeOK, NEW s \in Slots, InsertBooking(s)
  PROVE  TypeOK'
<1>1. /\ next_id \in Ids /\ next_id \in 0 .. MaxBookings /\ next_id # NoId
      /\ next_id' \in 1 .. MaxBookings + 1
  BY ConstantsAssumption DEF TypeOK, TablesType, InsertBooking, Ids, NoId
<1>2. [req[s] EXCEPT !.pc = "bill", !.id = next_id] \in Request
  <2>1. \A q \in Request, n \in 0 .. MaxBookings :
          n # NoId => [q EXCEPT !.pc = "bill", !.id = n] \in Request
    BY DEF Request, RequestRecord, Stages
  <2>2. req[s] \in Request
    BY DEF TypeOK
  <2> QED BY <1>1, <2>1, <2>2
<1>3. req' \in [Slots -> Request]
  BY <1>2, RequestTypes, BecomeType DEF TypeOK, InsertBooking
<1>4. booking' \in [Ids -> Row]
  BY <1>1 DEF TypeOK, TablesType, InsertBooking, Request, RequestRecord
<1> QED BY <1>1, <1>3, <1>4 DEF TypeOK, TablesType, InsertBooking, bills

\* billService.create keeps the types.
LEMMA TypeCreateBill ==
  ASSUME TypeOK, NEW s \in Slots, CreateBill(s)
  PROVE  TypeOK'
<1>1. req[s] \in Request /\ BillRow(0) \in Child
  BY ConstantsAssumption DEF TypeOK, BillRow, Child, BillRows
<1>2. Thrown(req[s]) \in Request /\ Loop(req[s]) \in Request
  BY <1>1, HasBooking, RequestTypes DEF CreateBill, BeforeInsert
<1>3. req' \in [Slots -> Request]
  BY <1>2, BecomeType DEF TypeOK, CreateBill
<1>4. bill' \in [Ids -> BillStates]
  BY DEF TypeOK, TablesType, CreateBill, BillStates
<1>5. link' \in [Ids -> SUBSET Child]
  BY <1>1 DEF TypeOK, TablesType, CreateBill
<1> QED BY <1>3, <1>4, <1>5 DEF TypeOK, TablesType, CreateBill, keys

\* Marking a room keeps the types: what a create goes through are rooms.
LEMMA TypeMarkRoom ==
  ASSUME TypeOK, NEW s \in Slots, MarkRoom(s)
  PROVE  TypeOK'
<1>1. PICK c \in req[s].todo :
        /\ is_booking' = [is_booking EXCEPT ![c.room] = TRUE]
        /\ Become(s, [req[s] EXCEPT !.pc = "book", !.todo = @ \ {c}, !.cur = {c}])
  BY DEF MarkRoom
<1>2. [req[s] EXCEPT !.pc = "book", !.todo = @ \ {c}, !.cur = {c}] \in Request
  <2> DEFINE q == req[s]
  <2>1. q \in Request /\ q.id # NoId /\ c \in q.todo
    BY HasBooking DEF MarkRoom, BeforeInsert
  <2> HIDE DEF q
  <2>2. {c} \in SUBSET Child /\ q.todo \ {c} \in SUBSET Child
    BY <2>1 DEF Request, RequestRecord
  <2>3. [q EXCEPT !.pc = "book", !.todo = q.todo \ {c}, !.cur = {c}] \in Request
    BY <2>1, <2>2 DEF Request, RequestRecord, Stages
  <2> QED BY <2>3 DEF q
<1>3. req' \in [Slots -> Request]
  BY <1>1, <1>2, BecomeType DEF TypeOK
<1>4. is_booking' \in [Rooms -> BOOLEAN]
  BY <1>1 DEF TypeOK, TablesType
<1> QED BY <1>3, <1>4 DEF TypeOK, TablesType, MarkRoom, keys, bills

\* Booking the marked room keeps the types.
LEMMA TypeBookRoom ==
  ASSUME TypeOK, NEW s \in Slots, BookRoom(s)
  PROVE  TypeOK'
<1>1. [req[s] EXCEPT !.cur = {}] \in Request /\ [req[s] EXCEPT !.cur = {}].id # NoId
  BY HasBooking DEF BookRoom, Request, RequestRecord, BeforeInsert
<1>2. req' \in [Slots -> Request]
  BY <1>1, RequestTypes, BecomeType DEF TypeOK, BookRoom
<1>3. link' \in [Ids -> SUBSET Child]
  BY DEF TypeOK, TablesType, BookRoom, Request, RequestRecord
<1> QED BY <1>2, <1>3 DEF TypeOK, TablesType, BookRoom, keys, bills

\* The answer keeps the types.
LEMMA TypeReply ==
  ASSUME TypeOK, NEW s \in Slots, Reply(s)
  PROVE  TypeOK'
<1>1. req' \in [Slots -> Request]
  BY RequestTypes, BecomeType DEF TypeOK, Reply
<1>2. order' \in [Ids -> Order]
  BY DEF TypeOK, TablesType, Reply, Order
<1> QED BY <1>1, <1>2 DEF TypeOK, TablesType, Reply, keys, bills

\* The SELECT of a save keeps the types: what it compares are columns and rows.
LEMMA TypeSaveLoad ==
  ASSUME TypeOK, NEW s \in Slots, SaveLoad(s)
  PROVE  TypeOK'
<1> DEFINE q == req[s]
           managed == IF ManagesRelations(q) THEN link[q.id] ELSE q.rows
           diff == Differs(q.row, booking[q.id])
<1>1. q \in Request /\ q \in RequestRecord /\ q.id \in Ids /\ q.id # NoId
  BY HasBooking DEF SaveLoad, BeforeInsert
<1>2. diff \in SUBSET Columns /\ managed \in SUBSET Child
  BY <1>1 DEF Differs, TypeOK, TablesType, RequestRecord
<1>3. Become(s, [q EXCEPT !.pc = "flush", !.diff = diff, !.gone = managed \ q.rows,
                          !.back = q.rows \ managed])
  BY DEF SaveLoad
<1>4. [q EXCEPT !.pc = "flush", !.diff = diff, !.gone = managed \ q.rows,
                !.back = q.rows \ managed] \in Request
  <2> HIDE DEF q, managed, diff
  <2> QED BY <1>1, <1>2 DEF Request, RequestRecord, Stages
<1>5. req' \in [Slots -> Request]
  <2> HIDE DEF q, managed, diff
  <2> QED BY <1>3, <1>4, BecomeType DEF TypeOK
<1> QED BY <1>5, SameTablesType DEF TypeOK, SaveLoad

\* The UPDATE of a save writes a well-formed row.
LEMMA TypeSaveFlush ==
  ASSUME TypeOK, NEW s \in Slots, SaveFlush(s)
  PROVE  TypeOK'
<1> DEFINE q == req[s]
           plain == [q EXCEPT !.diff = {}, !.gone = {}, !.back = {}]
<1>1. q \in Request /\ q \in RequestRecord /\ q.id \in Ids /\ q.id # NoId
  BY HasBooking DEF SaveFlush, BeforeInsert
<1>2. plain \in Request /\ plain.id # NoId
  BY <1>1 DEF Request, RequestRecord
<1>3. req' \in [Slots -> Request]
  <2>1. Become(s, Saved(plain))
    BY DEF SaveFlush
  <2> HIDE DEF plain
  <2> QED BY <1>2, <2>1, RequestTypes, BecomeType DEF TypeOK
<1>4. booking' \in [Ids -> Row]
  <2>1. Written(booking[q.id], q.row, q.diff) \in Row
    <3>1. booking[q.id] \in Row /\ q.row \in Row
      BY <1>1 DEF TypeOK, TablesType, RequestRecord
    <3> DEFINE columns == q.diff \cap Columns
    <3>2. Written(booking[q.id], q.row, columns) \in Row
      BY <3>1, RowTypes
    <3>3. Written(booking[q.id], q.row, columns) = Written(booking[q.id], q.row, q.diff)
      BY DEF Written, Columns
    <3> QED BY <3>2, <3>3
  <2>2. booking' = [booking EXCEPT ![q.id] = Written(booking[q.id], q.row, q.diff)]
    BY DEF SaveFlush
  <2> HIDE DEF q
  <2> QED BY <1>1, <2>1, <2>2 DEF TypeOK, TablesType
<1>5. link' \in [Ids -> SUBSET Child]
  BY <1>1 DEF SaveFlush, Relinked, TypeOK, TablesType, RequestRecord
<1> QED BY <1>3, <1>4, <1>5 DEF TypeOK, TablesType, SaveFlush, keys, bills

\* The cash settlement of a cms booking keeps the types.
LEMMA TypeFulfilBills ==
  ASSUME TypeOK, NEW s \in Slots, FulfilBills(s)
  PROVE  TypeOK'
<1>1. [req[s] EXCEPT !.pc = "charge"] \in Request
  BY HasBooking DEF FulfilBills, BeforeInsert, Request, RequestRecord, Stages
<1>2. req' \in [Slots -> Request]
  BY <1>1, BecomeType DEF TypeOK, FulfilBills
<1>3. bill' \in [Ids -> BillStates]
  BY DEF TypeOK, TablesType, FulfilBills, BillStates
<1> QED BY <1>2, <1>3 DEF TypeOK, TablesType, FulfilBills, keys

\* The service bill keeps the types: its number is in the bound.
LEMMA TypeChargeServices ==
  ASSUME TypeOK, NEW s \in Slots, ChargeServices(s)
  PROVE  TypeOK'
<1>1. req[s] \in RequestRecord /\ req[s].id \in Ids /\ Releasing(req[s]) \in Request
  BY HasBooking, RequestTypes DEF ChargeServices, BeforeInsert
<1>2. req' \in [Slots -> Request]
  BY <1>1, BecomeType DEF TypeOK, ChargeServices
<1>3. /\ service_bills[req[s].id] \in 0 .. MaxServiceBills
      /\ service_bills[req[s].id] < MaxServiceBills
  BY <1>1 DEF TypeOK, TablesType, ChargeServices
<1>4. service_bills' \in [Ids -> 0 .. MaxServiceBills]
  <2>1. service_bills[req[s].id] + 1 \in 0 .. MaxServiceBills
    BY <1>3, ConstantsAssumption
  <2> QED BY <2>1 DEF TypeOK, TablesType, ChargeServices
<1>5. UsagesIn(req[s].rows) \subseteq Usages
  BY DEF UsagesIn, UsedRows
<1>6. charged' \in [Ids -> SUBSET Usages]
  BY <1>5 DEF TypeOK, TablesType, ChargeServices
<1>7. BillRow(service_bills[req[s].id] + 1) \in Child
  BY <1>3, ConstantsAssumption DEF BillRow, Child, BillRows
<1>8. link' \in [Ids -> SUBSET Child]
  BY <1>7 DEF TypeOK, TablesType, ChargeServices
<1> QED BY <1>2, <1>4, <1>6, <1>8 DEF TypeOK, TablesType, ChargeServices, keys

\* checkoutRoom's query keeps the types.
LEMMA TypeCheckRoom ==
  ASSUME TypeOK, NEW s \in Slots, CheckRoom(s)
  PROVE  TypeOK'
<1> DEFINE q(c) == [req[s] EXCEPT !.todo = @ \ {c}]
           r(c) == [q(c) EXCEPT !.cur = @ \cup {c}]
<1>1. req[s] \in Request /\ req[s].id # NoId
  BY HasBooking DEF CheckRoom, BeforeInsert
<1>2. PICK c \in req[s].todo :
        Become(s, Rest(IF HeldByLive(c.room) THEN q(c) ELSE r(c)))
  BY DEF CheckRoom
<1>3. q(c) \in Request
  BY <1>1 DEF Request, RequestRecord
<1>4. r(c) \in Request
  <2>1. q(c).id # NoId /\ c \in Child
    BY <1>1, <1>2 DEF Request, RequestRecord
  <2> HIDE DEF q
  <2> QED BY <1>3, <2>1 DEF Request, RequestRecord
<1>5. req' \in [Slots -> Request]
  <2> HIDE DEF q, r
  <2> QED BY <1>2, <1>3, <1>4, RequestTypes, BecomeType DEF TypeOK
<1> QED BY <1>5, SameTablesType DEF TypeOK, CheckRoom

\* checkoutRoom's update keeps the types.
LEMMA TypeReleaseRoom ==
  ASSUME TypeOK, NEW s \in Slots, ReleaseRoom(s)
  PROVE  TypeOK'
<1>1. req[s] \in Request /\ req[s].id # NoId
  BY HasBooking DEF ReleaseRoom, BeforeInsert
<1>2. PICK c \in req[s].cur :
        /\ is_booking' = [is_booking EXCEPT ![c.room] = FALSE]
        /\ Become(s, Rest([req[s] EXCEPT !.cur = @ \ {c}]))
  BY DEF ReleaseRoom
<1>3. [req[s] EXCEPT !.cur = @ \ {c}] \in Request
  BY <1>1 DEF Request, RequestRecord
<1>4. req' \in [Slots -> Request]
  BY <1>2, <1>3, RequestTypes, BecomeType DEF TypeOK
<1>5. is_booking' \in [Rooms -> BOOLEAN]
  BY <1>2 DEF TypeOK, TablesType
<1> QED BY <1>4, <1>5 DEF TypeOK, TablesType, ReleaseRoom, keys, bills

\* The insert of a used service keeps the types.
LEMMA TypeInsertUsage ==
  ASSUME TypeOK, NEW s \in Slots, InsertUsage(s)
  PROVE  TypeOK'
<1>1. req[s] \in Request /\ req[s] \in RequestRecord /\ req[s].id # NoId
  BY HasBooking DEF InsertUsage, BeforeInsert
<1>2. PICK c \in req[s].todo :
        /\ link' = [link EXCEPT ![req[s].id] = @ \cup {c}]
        /\ Become(s, Rest([req[s] EXCEPT !.todo = @ \ {c}]))
  BY DEF InsertUsage
<1>3. [req[s] EXCEPT !.todo = @ \ {c}] \in Request
  BY <1>1 DEF Request, RequestRecord
<1>4. req' \in [Slots -> Request]
  BY <1>2, <1>3, RequestTypes, BecomeType DEF TypeOK
<1>5. c \in Child
  BY <1>1 DEF RequestRecord
<1>6. link' \in [Ids -> SUBSET Child]
  BY <1>2, <1>5 DEF TypeOK, TablesType
<1> QED BY <1>4, <1>6 DEF TypeOK, TablesType, InsertUsage, keys, bills

\* The SELECT of the callback's save keeps the types.
LEMMA TypeBillLoad ==
  ASSUME TypeOK, NEW s \in Slots, BillLoad(s)
  PROVE  TypeOK'
<1> DEFINE q == req[s]
           linked == link[q.id] \cap {BillRow(0)}
           diff == IF bill[q.id] = Outcome(q.code) THEN {} ELSE {"payment_state"}
<1>1. q \in Request /\ q \in RequestRecord /\ q.id \in Ids /\ q.id # NoId
  BY HasBooking DEF BillLoad, BeforeInsert
<1>2. linked \in SUBSET Child
  BY <1>1 DEF TypeOK, TablesType
<1>3. [q EXCEPT !.pc = "bill_flush", !.diff = diff, !.gone = linked \ q.rows,
                !.back = q.rows \ linked] \in Request
  <2>1. diff \in SUBSET (Columns \cup {"payment_state"})
    OBVIOUS
  <2> HIDE DEF q, linked, diff
  <2> QED BY <1>1, <1>2, <2>1 DEF Request, RequestRecord, Stages
<1>4. Become(s, [q EXCEPT !.pc = "bill_flush", !.diff = diff, !.gone = linked \ q.rows,
                          !.back = q.rows \ linked])
  BY DEF BillLoad
<1>5. req' \in [Slots -> Request]
  <2> HIDE DEF q, linked, diff
  <2> QED BY <1>3, <1>4, BecomeType DEF TypeOK
<1> QED BY <1>5, SameTablesType DEF TypeOK, BillLoad

\* The UPDATE of the callback's save keeps the types.
LEMMA TypeBillFlush ==
  ASSUME TypeOK, NEW s \in Slots, BillFlush(s)
  PROVE  TypeOK'
<1> DEFINE q == req[s]
<1>1. q \in Request /\ q \in RequestRecord /\ q.id \in Ids /\ q.id # NoId
  BY HasBooking DEF BillFlush, BeforeInsert
<1>2. [q EXCEPT !.pc = "set_state", !.diff = {}, !.gone = {}, !.back = {}] \in Request
  BY <1>1 DEF Request, RequestRecord, Stages
<1>3. req' \in [Slots -> Request]
  BY <1>2, RequestTypes, BecomeType DEF TypeOK, BillFlush
<1>4. bill' \in [Ids -> BillStates]
  BY DEF TypeOK, TablesType, BillFlush, Outcome, BillStates
<1>5. link' \in [Ids -> SUBSET Child]
  BY <1>1 DEF BillFlush, Relinked, TypeOK, TablesType, RequestRecord
<1> QED BY <1>3, <1>4, <1>5 DEF TypeOK, TablesType, BillFlush, keys

\* The callback's last update writes a state of EBookingState.
LEMMA TypeSetState ==
  ASSUME TypeOK, NEW s \in Slots, SetState(s)
  PROVE  TypeOK'
<1>1. req' \in [Slots -> Request]
  BY RequestTypes, BecomeType DEF TypeOK, SetState
<1>2. booking' \in [Ids -> Row]
  <2>1. \A row \in Row, state \in States : [row EXCEPT !.state = state] \in Row
    BY DEF Row
  <2> QED BY <2>1, HasBooking DEF SetState, BeforeInsert, TypeOK, TablesType, States
<1> QED BY <1>1, <1>2 DEF TypeOK, TablesType, SetState, keys, bills

\* The request a handler starts with is well formed.
LEMMA StartTypes ==
  ASSUME NEW q \in Request, NEW b \in Ids, NEW row \in Row, NEW rows \in SUBSET Child,
         NEW is_cms \in BOOLEAN
  PROVE  /\ [q EXCEPT !.pc = "load", !.op = "checkin", !.id = b, !.row = row] \in Request
         /\ [q EXCEPT !.pc = "load", !.op = "cancel", !.id = b, !.row = row,
                      !.rows = rows] \in Request
         /\ [q EXCEPT !.pc = "load", !.op = "checkout", !.id = b, !.row = row,
                      !.rows = rows, !.is_cms = is_cms] \in Request
<1>1. b \in 0 .. MaxBookings /\ b # NoId
  BY ConstantsAssumption DEF Ids, NoId
<1>2. {"load", "adding", "bill_load"} \subseteq Stages
  BY DEF Stages
<1>3. {"checkin", "cancel", "checkout", "addService", "response_vnpay"} \subseteq Operations
  BY DEF Operations
<1> QED BY <1>1, <1>2, <1>3 DEF Request, RequestRecord

\* So is the request the callback starts with ...
LEMMA StartTypesCallback ==
  ASSUME NEW q \in Request, NEW b \in Ids, NEW rows \in SUBSET Child,
         NEW code \in ResponseCodes
  PROVE  [q EXCEPT !.pc = "bill_load", !.op = "response_vnpay", !.id = b,
                   !.code = code, !.rows = rows] \in Request
<1>1. b \in 0 .. MaxBookings /\ b # NoId
  BY ConstantsAssumption DEF Ids, NoId
<1>2. "bill_load" \in Stages /\ "response_vnpay" \in Operations
  BY DEF Stages, Operations
<1> QED BY <1>1, <1>2 DEF Request, RequestRecord

\* ... and the one addService starts with.
LEMMA StartTypesAdding ==
  ASSUME NEW q \in Request, NEW b \in Ids, NEW rows \in SUBSET Child
  PROVE  [q EXCEPT !.pc = "adding", !.op = "addService", !.id = b, !.todo = rows]
           \in Request
<1>1. b \in 0 .. MaxBookings /\ b # NoId
  BY ConstantsAssumption DEF Ids, NoId
<1>2. {"load", "adding", "bill_load"} \subseteq Stages
  BY DEF Stages
<1>3. {"checkin", "cancel", "checkout", "addService", "response_vnpay"} \subseteq Operations
  BY DEF Operations
<1> QED BY <1>1, <1>2, <1>3 DEF Request, RequestRecord

\* The handlers that start from a row: checkin, cancel, checkout, addService and
\* the callback.
LEMMA TypeBeginOn ==
  ASSUME TypeOK, NEW s \in Slots, NEW b \in Booked,
         \/ Checkin(s, b) \/ Cancel(s, b) \/ Checkout(s, b)
         \/ AddService(s, b) \/ ResponseVnpay(s, b)
  PROVE  TypeOK'
<1>1. b \in Ids /\ b \in 0 .. MaxBookings /\ b # NoId
  BY BookedIds DEF Ids, NoId
<1>2. booking[b] \in Row /\ link[b] \in SUBSET Child
  BY <1>1 DEF TypeOK, TablesType
<1>3. CASE Checkin(s, b)
  <2> DEFINE row == [booking[b] EXCEPT !.is_checked_in = TRUE]
  <2>1. row \in Row
    BY <1>2 DEF Row
  <2>2. [Idle EXCEPT !.pc = "load", !.op = "checkin", !.id = b, !.row = row] \in Request
    BY <1>1, <2>1, StartTypes, RequestTypes
  <2>3. req' \in [Slots -> Request]
    BY <1>3, <2>2, BecomeType DEF Checkin, TypeOK
  <2> QED BY <1>3, <2>3, SameTablesType DEF Checkin, TypeOK
<1>4. CASE Cancel(s, b)
  <2> DEFINE row == [booking[b] EXCEPT !.state = "Reject", !.is_cancel = TRUE]
  <2>1. row \in Row
    BY <1>2 DEF Row, States
  <2>2. [Idle EXCEPT !.pc = "load", !.op = "cancel", !.id = b, !.row = row,
                     !.rows = link[b]] \in Request
    BY <1>1, <1>2, <2>1, StartTypes, RequestTypes
  <2>3. req' \in [Slots -> Request]
    BY <1>4, <2>2, BecomeType DEF Cancel, TypeOK
  <2> QED BY <1>4, <2>3, SameTablesType DEF Cancel, TypeOK
<1>5. CASE Checkout(s, b)
  <2> DEFINE row == [booking[b] EXCEPT !.state = "Done", !.is_checked_out = TRUE]
             cms == booking[b].state = "AdminInit"
  <2>1. row \in Row /\ cms \in BOOLEAN
    BY <1>2 DEF Row, States
  <2>2. [Idle EXCEPT !.pc = "load", !.op = "checkout", !.id = b, !.row = row,
                     !.rows = link[b], !.is_cms = cms] \in Request
    BY <1>1, <1>2, <2>1, StartTypes, RequestTypes
  <2>3. req' \in [Slots -> Request]
    BY <1>5, <2>2, BecomeType DEF Checkout, TypeOK
  <2> QED BY <1>5, <2>3, SameTablesType DEF Checkout, TypeOK
<1>6. CASE AddService(s, b)
  <2>1. PICK used \in SUBSET Usages :
          Become(s, [Idle EXCEPT !.pc = "adding", !.op = "addService", !.id = b,
                                 !.todo = {UsedRow(u) : u \in used}])
    BY <1>6 DEF AddService
  <2> DEFINE todo == {UsedRow(u) : u \in used}
  <2>2. todo \in SUBSET Child
    BY DEF UsedRow, Child, UsedRows
  <2>3. [Idle EXCEPT !.pc = "adding", !.op = "addService", !.id = b, !.todo = todo]
          \in Request
    BY <1>1, <2>2, StartTypesAdding, RequestTypes
  <2>4. req' \in [Slots -> Request]
    BY <2>1, <2>3, BecomeType DEF TypeOK
  <2> QED BY <1>6, <2>4, SameTablesType DEF AddService, TypeOK
<1>7. CASE ResponseVnpay(s, b)
  <2> DEFINE rows == link[b] \cap {BillRow(0)}
  <2>1. rows \in SUBSET Child
    BY <1>2
  <2>2. PICK code \in ResponseCodes :
          /\ order' = [order EXCEPT ![b].codes = @ \cup {code}]
          /\ Become(s, [Idle EXCEPT !.pc = "bill_load", !.op = "response_vnpay",
                                    !.id = b, !.code = code, !.rows = rows])
    BY <1>7 DEF ResponseVnpay
  <2>3. [Idle EXCEPT !.pc = "bill_load", !.op = "response_vnpay", !.id = b,
                     !.code = code, !.rows = rows] \in Request
    BY <1>1, <2>1, StartTypesCallback, RequestTypes
  <2>4. req' \in [Slots -> Request]
    BY <2>2, <2>3, BecomeType DEF TypeOK
  <2>5. order' \in [Ids -> Order]
    BY <1>1, <2>2 DEF TypeOK, TablesType, Order
  <2> QED BY <1>7, <2>4, <2>5 DEF ResponseVnpay, TypeOK, TablesType, keys, bills
<1> QED BY <1>3, <1>4, <1>5, <1>6, <1>7

\* Throwing, aborting and losing one call of a Promise.all keep the types.
LEMMA TypeFail ==
  ASSUME TypeOK, NEW s \in Slots, Fail(s)
  PROVE  TypeOK'
<1>1. req[s] \in Request
  BY DEF TypeOK
<1>2. CASE Throw(s)
  <2>1. req' \in [Slots -> Request]
    BY <1>1, <1>2, RequestTypes, BecomeType DEF Throw, TypeOK
  <2> QED BY <1>2, <2>1, SameTablesType DEF Throw, TypeOK
<1>3. CASE Abort(s)
  <2>1. req' \in [Slots -> Request]
    BY <1>3, RequestTypes, BecomeType DEF Abort, TypeOK
  <2> QED BY <1>3, <2>1, SameTablesType DEF Abort, TypeOK
<1>4. CASE FailOne(s)
  <2>1. PICK c \in req[s].todo \cup req[s].cur :
          Become(s, Rest([req[s] EXCEPT !.todo = @ \ {c}, !.cur = @ \ {c}]))
    BY <1>4 DEF FailOne
  <2>2. [req[s] EXCEPT !.todo = @ \ {c}, !.cur = @ \ {c}] \in Request
    BY <1>1 DEF Request, RequestRecord
  <2>3. req' \in [Slots -> Request]
    BY <2>1, <2>2, RequestTypes, BecomeType DEF TypeOK
  <2> QED BY <1>4, <2>3, SameTablesType DEF FailOne, TypeOK
<1> QED BY <1>2, <1>3, <1>4 DEF Fail

\* Every step of the server and every failure keeps the types.
LEMMA TypeStep == TypeOK /\ [Next]_vars => TypeOK'
<1> SUFFICES ASSUME TypeOK, [Next]_vars PROVE TypeOK'
  OBVIOUS
<1>1. CASE UNCHANGED vars
  BY <1>1 DEF TypeOK, TablesType, vars
<1>2. ASSUME NEW s \in Slots, Begin(s) PROVE TypeOK'
  BY <1>2, TypePrepare, TypeBeginOn DEF Begin
<1>3. ASSUME NEW s \in Slots, Continue(s) PROVE TypeOK'
  BY <1>3, TypePrepareShared, TypeFindCustomer, TypeInsertBooking, TypeCreateBill,
     TypeMarkRoom, TypeBookRoom, TypeReply, TypeSaveLoad, TypeSaveFlush,
     TypeFulfilBills, TypeChargeServices, TypeCheckRoom, TypeReleaseRoom,
     TypeInsertUsage, TypeBillLoad, TypeBillFlush, TypeSetState
  DEF Continue
<1> QED BY <1>1, <1>2, <1>3, TypeFail DEF Next

\* Every reachable state is well typed: whatever requests overlap or fail, the
\* tables hold rows of the schema and every request past its insert has an id.
THEOREM TypeCorrect == Spec => []TypeOK
BY TypeInit, TypeStep, PTL DEF Spec
=============================================================================
