---------------------------- MODULE BookingService ----------------------------
(***************************************************************************)
(* The booking service: src/booking/booking.service.ts with the part of    *)
(* bill.service.ts and booked_room.service.ts it calls.                     *)
(*                                                                         *)
(* Node runs one handler at a time between two awaits, so a handler is cut *)
(* at its awaits: every action below is what runs between two of them, and *)
(* contains exactly one statement sent to the database.  Requests           *)
(* interleave at the awaits.  A Slot is one request the server is working   *)
(* on.  Nothing in the code keeps two requests apart; the constant          *)
(* Exclusive lets a property say which ones would have to be.               *)
(*                                                                         *)
(* create and cmsCreate open a transaction on a query runner but write      *)
(* through repositories, which use other connections: the commit and the    *)
(* rollback concern no statement and do not appear.                         *)
(***************************************************************************)
EXTENDS BookingTables

CONSTANTS
  Slots,     \* requests the server may be working on at a time
  Payments,  \* payment methods clients choose ("Momo": Momo or Zalopay, no link)
  Faults,    \* TRUE: statements and mails may fail, the process may crash
  Exclusive  \* operations the deployment runs alone; {} is the code as it is

Operations == {"create", "cmsCreate", "addService", "checkin", "checkout",
               "cancel", "response_vnpay"}

ASSUME ServiceAssumption ==
  /\ IsFiniteSet(Slots)
  /\ Payments \subseteq {"Vnpay", "Cash", "Momo"}
  /\ Faults \in BOOLEAN
  /\ Exclusive \subseteq Operations

VARIABLE req   \* what each slot is doing

vars == <<booking, next_id, link, bill, service_bills, charged, walk_ins,
          is_booking, order, req>>
-----------------------------------------------------------------------------
(* Requests in progress *)

Stages == {"idle", "shared", "customer", "insert", "bill", "mark", "book",
           "reply", "load", "flush", "fulfil", "charge", "release", "adding",
           "bill_load", "bill_flush", "set_state"}

\* The stages of a create before its booking has an id
BeforeInsert == {"idle", "shared", "customer", "insert"}

RequestRecord ==
  [pc : Stages,
   op : Operations \cup {"none"},
   id : 0 .. MaxBookings,           \* the booking; NoId before its insert
   type : RoomTypes \cup {"none"},  \* what create was asked for
   pay : Payments \cup {"none"},
   code : ResponseCodes \cup {"none"},  \* a callback's vnp_ResponseCode
   row : Row,                       \* the entity in memory
   rows : SUBSET Child,             \* its relations as loaded
   is_cms : BOOLEAN,                \* checkout's local of that name
   todo : SUBSET Child,             \* rows the handler has still to go through
   cur : SUBSET Child,              \* the rows it is at
   diff : SUBSET (Columns \cup {"payment_state"}), \* columns a save will write
   gone : SUBSET Child,             \* rows it will detach
   back : SUBSET Child]             \* rows it will attach

Request == {q \in RequestRecord : q.pc \in BeforeInsert \/ q.id # NoId}

Idle == [pc |-> "idle", op |-> "none", id |-> NoId, type |-> "none",
         pay |-> "none", code |-> "none", row |-> Blank, rows |-> {}, is_cms |-> FALSE,
         todo |-> {}, cur |-> {}, diff |-> {}, gone |-> {}, back |-> {}]

\* Handlers start whenever a request comes in; Exclusive says which requests
\* come in only while nothing else is in progress
MayBegin(s, op) ==
  /\ req[s].pc = "idle"
  /\ \A other \in Slots \ {s} :
       req[other].pc # "idle" => op \notin Exclusive /\ req[other].op \notin Exclusive

Become(s, request) == req' = [req EXCEPT ![s] = request]

Creating == {"create", "cmsCreate"}
\* create's catch block marks its entity cancelled and saves it
Caught(q) == q.op = "create" /\ q.row.is_cancel

\* A statement of the try block throws: create goes to its catch block, whose
\* save() inserts when the first one had not; cmsCreate only answers the error
Thrown(q) ==
  IF q.op = "create"
  THEN [q EXCEPT !.pc = IF q.id = NoId THEN "insert" ELSE "load",
                 !.row.state = "Reject", !.row.is_cancel = TRUE,
                 !.todo = {}, !.cur = {}]
  ELSE Idle

\* The loop or the Promise.all is over when nothing is left to go through
Rest(q) == IF q.todo = {} /\ q.cur = {} THEN Idle ELSE q
\* Mutant: the loop stops one room early
LoopMutant(q) ==
  [q EXCEPT !.pc = IF Cardinality(q.todo) <= q.row.quantity - 1 THEN "reply" ELSE "mark"]
Loop(q) == [q EXCEPT !.pc = IF q.todo = {} THEN "reply" ELSE "mark"]

TypeOK == TablesType /\ req \in [Slots -> Request]

Init == TablesInit /\ req = [s \in Slots |-> Idle]
-----------------------------------------------------------------------------
(* create and cmsCreate *)

\* Bound: a row of the table is kept for every create in progress, so that the
\* guard of InsertBooking never makes one wait
RowsReserved == Cardinality({s \in Slots : req[s].op \in Creating /\ req[s].id = NoId})

Prepared(q) == [q EXCEPT !.pc = IF q.op = "create" THEN "insert" ELSE "customer"]

\* _prepare up to its first query; enough free rooms end it there
Prepare(s, op, user, state) ==
  /\ MayBegin(s, op)
  /\ next_id + RowsReserved <= MaxBookings
  /\ \E t \in RoomTypes, stay \in Stays, quantity \in 1 .. MaxQuantity,
        pay \in Payments :
       LET free == {RoomRow(r, 1) : r \in FreeRooms(t)}
           asked == [Idle EXCEPT !.op = op, !.type = t, !.pay = pay,
                                 !.row = NewRow(user, state, stay, quantity)]
       IN IF Cardinality(free) < quantity
          THEN Become(s, [asked EXCEPT !.pc = "shared", !.todo = free])
          ELSE \E take \in SUBSET free :
                 /\ Cardinality(take) = quantity
                 /\ Become(s, Prepared([asked EXCEPT !.todo = take]))
  /\ UNCHANGED tables

Create(s) == Prepare(s, "create", "system", "Init")
CmsCreate(s) == Prepare(s, "cmsCreate", "staff", "AdminInit")

\* _prepare's second query: all the free rooms and as many shared ones as are
\* missing, or a refusal
PrepareShared(s) ==
  /\ req[s].pc = "shared"
  /\ LET q == req[s]
         shared == {RoomRow(r, 2) : r \in SharedRooms(q.type, q.row.stay)}
         missing == q.row.quantity - Cardinality(q.todo)
     IN \/ /\ Cardinality(shared) < missing
           /\ Become(s, Idle)
        \/ \E more \in SUBSET shared :
             /\ Cardinality(more) = missing
             /\ Become(s, Prepared([q EXCEPT !.todo = @ \cup more]))
  /\ UNCHANGED tables

\* cmsCreate: the customer exists, or is inserted
FindCustomer(s) ==
  /\ req[s].pc = "customer"
  /\ Become(s, [req[s] EXCEPT !.pc = "insert"])
  /\ \/ UNCHANGED walk_ins
     \/ walk_ins < MaxWalkIns /\ walk_ins' = walk_ins + 1
  /\ UNCHANGED <<booking, next_id, link, bills, is_booking, order>>

\* booking.save() of an entity without id; from the catch block it is the last
InsertBooking(s) ==
  /\ req[s].pc = "insert" /\ next_id <= MaxBookings
  /\ booking' = [booking EXCEPT ![next_id] = req[s].row]
  /\ next_id' = next_id + 1
  /\ Become(s, IF Caught(req[s]) THEN Idle
               ELSE [req[s] EXCEPT !.pc = "bill", !.id = next_id])
  /\ UNCHANGED <<link, bills, walk_ins, is_booking, order>>

\* billService.create: a method without a link, or whose link could not be
\* built, leaves url null, and url.payUrl throws after the bill is saved
CreateBill(s) ==
  /\ req[s].pc = "bill"
  /\ LET q == req[s] IN
     /\ \/ /\ q.pay \in {"Vnpay", "Cash"}
           /\ bill' = [bill EXCEPT ![q.id] = "Pending"]
           /\ Become(s, Loop(q))
        \/ /\ q.pay = "Momo"
           /\ bill' = [bill EXCEPT ![q.id] = "Pending"]
           /\ Become(s, Thrown(q))
        \/ /\ q.pay = "Vnpay" /\ Faults
           /\ bill' = [bill EXCEPT ![q.id] = "Reject"]
           /\ Become(s, Thrown(q))
     /\ link' = [link EXCEPT ![q.id] = @ \cup {BillRow(0)}]
  /\ UNCHANGED <<booking, keys, service_bills, charged, is_booking, order>>

\* Mutant: the room is not marked
MarkRoomMutant(s) ==
  /\ req[s].pc = "mark"
  /\ \E c \in req[s].todo :
       Become(s, [req[s] EXCEPT !.pc = "book", !.todo = @ \ {c}, !.cur = {c}])
  /\ UNCHANGED tables

\* One turn of the loop over the rooms: the room is marked ...
MarkRoom(s) ==
  /\ req[s].pc = "mark"
  /\ \E c \in req[s].todo :
       /\ is_booking' = [is_booking EXCEPT ![c.room] = TRUE]
       /\ Become(s, [req[s] EXCEPT !.pc = "book", !.todo = @ \ {c}, !.cur = {c}])
  /\ UNCHANGED <<booking, keys, link, bills, order>>

\* ... and booked
BookRoom(s) ==
  /\ req[s].pc = "book"
  /\ link' = [link EXCEPT ![req[s].id] = @ \cup req[s].cur]
  /\ Become(s, Loop([req[s] EXCEPT !.cur = {}]))
  /\ UNCHANGED <<booking, keys, bills, is_booking, order>>

\* The mail of create and the answer: only now the client has the payment link
Reply(s) ==
  /\ req[s].pc = "reply"
  /\ order' = IF req[s].pay = "Vnpay" THEN [order EXCEPT ![req[s].id].handed = TRUE]
              ELSE order
  /\ Become(s, Idle)
  /\ UNCHANGED <<booking, keys, link, bills, is_booking>>

\* A statement of the try block, or the mail, fails
Throw(s) ==
  /\ Faults
  /\ req[s].pc \in {"insert", "bill", "mark", "book", "reply"}
  /\ ~Caught(req[s])
  /\ Become(s, Thrown(req[s]))
  /\ UNCHANGED tables
-----------------------------------------------------------------------------
(* checkin, cancel, checkout: read, decide, save, release *)

Checkin(s, b) ==
  /\ MayBegin(s, "checkin")
  /\ booking[b].state \notin {"Done", "Reject"}
  /\ Become(s, [Idle EXCEPT !.pc = "load", !.op = "checkin", !.id = b,
                            !.row = [booking[b] EXCEPT !.is_checked_in = TRUE]])
  /\ UNCHANGED tables

Cancel(s, b) ==
  /\ MayBegin(s, "cancel")
  /\ booking[b].state # "Done"
  /\ ~booking[b].is_checked_in
  /\ Become(s, [Idle EXCEPT !.pc = "load", !.op = "cancel", !.id = b,
                            !.row = [booking[b] EXCEPT !.state = "Reject",
                                                       !.is_cancel = TRUE],
                            !.rows = link[b]])
  /\ UNCHANGED tables

\* Bound: a service bill is kept for every checkout in progress, so that the
\* guard of ChargeServices never makes one wait
BillsReserved(b) ==
  service_bills[b] + Cardinality({s \in Slots : req[s].op = "checkout" /\ req[s].id = b})

Checkout(s, b) ==
  /\ MayBegin(s, "checkout")
  /\ BillsReserved(b) < MaxServiceBills
  /\ booking[b].is_checked_in
  /\ booking[b].state # "Reject"
  /\ Become(s, [Idle EXCEPT !.pc = "load", !.op = "checkout", !.id = b,
                            !.row = [booking[b] EXCEPT !.state = "Done",
                                                       !.is_checked_out = TRUE],
                            !.rows = link[b],
                            !.is_cms = booking[b].state = "AdminInit"])
  /\ UNCHANGED tables

\* cancel and checkout load their relations, so their save manages them
ManagesRelations(q) == q.op \in {"cancel", "checkout"}

\* booking.save(), first the SELECT ...
SaveLoad(s) ==
  /\ req[s].pc = "load"
  /\ LET q == req[s]
         managed == IF ManagesRelations(q) THEN link[q.id] ELSE q.rows
     IN Become(s, [q EXCEPT !.pc = "flush",
                            !.diff = Differs(q.row, booking[q.id]),
                            !.gone = managed \ q.rows,
                            !.back = q.rows \ managed])
  /\ UNCHANGED tables

\* What follows the save
Releasing(q) == Rest([q EXCEPT !.pc = "release", !.todo = q.rows \cap RoomRows])
\* Mutant: cancel does not release
SavedCancelMutant(q) ==
  IF q.op = "checkout" THEN [q EXCEPT !.pc = IF q.is_cms THEN "fulfil" ELSE "charge"]
  ELSE Idle
\* Mutant: checkout settles every booking in cash
SavedCashMutant(q) ==
  CASE q.op = "cancel" -> Releasing(q)
    [] q.op = "checkout" -> [q EXCEPT !.pc = "fulfil"]
    [] OTHER -> Idle
Saved(q) ==
  CASE q.op = "cancel" -> Releasing(q)
    [] q.op = "checkout" -> [q EXCEPT !.pc = IF q.is_cms THEN "fulfil" ELSE "charge"]
    [] OTHER -> Idle

\* ... then the UPDATE of what differed
SaveFlush(s) ==
  /\ req[s].pc = "flush"
  /\ LET q == req[s] IN
     /\ booking' = [booking EXCEPT ![q.id] = Written(@, q.row, q.diff)]
     /\ link' = [link EXCEPT ![q.id] = Relinked(@, q.gone, q.back)]
     /\ Become(s, Saved([q EXCEPT !.diff = {}, !.gone = {}, !.back = {}]))
  /\ UNCHANGED <<keys, bills, is_booking, order>>

\* checkout of a cms booking: every bill it loaded is paid (service bills are
\* born so)
FulfilBills(s) ==
  /\ req[s].pc = "fulfil"
  /\ bill' = IF BillRow(0) \in req[s].rows
             THEN [bill EXCEPT ![req[s].id] = "Fulfilled"] ELSE bill
  /\ Become(s, [req[s] EXCEPT !.pc = "charge"])
  /\ UNCHANGED <<booking, keys, link, service_bills, charged, is_booking, order>>

\* Mutant: the service bill is made without adding the services up
ChargeServicesMutant(s) ==
  /\ req[s].pc = "charge"
  /\ LET q == req[s] IN
     /\ service_bills' = [service_bills EXCEPT ![q.id] = @ + 1]
     /\ link' = [link EXCEPT ![q.id] = @ \cup {BillRow(service_bills[q.id] + 1)}]
     /\ Become(s, Releasing(q))
  /\ UNCHANGED <<booking, keys, bill, charged, is_booking, order>>

\* checkout: the service bill, over the services it loaded
ChargeServices(s) ==
  /\ req[s].pc = "charge"
  /\ LET q == req[s] IN
     /\ service_bills[q.id] < MaxServiceBills
     /\ service_bills' = [service_bills EXCEPT ![q.id] = @ + 1]
     /\ charged' = [charged EXCEPT ![q.id] = @ \cup UsagesIn(q.rows)]
     /\ link' = [link EXCEPT ![q.id] = @ \cup {BillRow(service_bills[q.id] + 1)}]
     /\ Become(s, Releasing(q))
  /\ UNCHANGED <<booking, keys, bill, is_booking, order>>

\* checkoutRoom, of every loaded room in parallel: is a live booking in it?
CheckRoom(s) ==
  /\ req[s].pc = "release"
  /\ \E c \in req[s].todo :
       LET q == [req[s] EXCEPT !.todo = @ \ {c}] IN
       Become(s, Rest(IF HeldByLive(c.room) THEN q ELSE [q EXCEPT !.cur = @ \cup {c}]))
  /\ UNCHANGED tables

\* Mutant: the loop does not advance
ReleaseRoomMutant(s) ==
  /\ req[s].pc = "release"
  /\ \E c \in req[s].cur : is_booking' = [is_booking EXCEPT ![c.room] = FALSE]
  /\ UNCHANGED <<booking, keys, link, bills, order, req>>

\* If there was none, the mark is taken off
ReleaseRoom(s) ==
  /\ req[s].pc = "release"
  /\ \E c \in req[s].cur :
       /\ is_booking' = [is_booking EXCEPT ![c.room] = FALSE]
       /\ Become(s, Rest([req[s] EXCEPT !.cur = @ \ {c}]))
  /\ UNCHANGED <<booking, keys, link, bills, order>>
-----------------------------------------------------------------------------
(* addService *)

\* Bound: a usage is asked for once, while no request knows of it
Unknown(b, u) ==
  /\ UsedRow(u) \notin link[b]
  /\ \A s \in Slots : req[s].id = b => UsedRow(u) \notin req[s].rows \cup req[s].todo

\* The callback does not return its promises: the client is answered now and
\* the inserts follow
AddService(s, b) ==
  /\ MayBegin(s, "addService")
  /\ \E used \in (SUBSET {u \in Usages : Unknown(b, u)}) \ {{}} :
       Become(s, [Idle EXCEPT !.pc = "adding", !.op = "addService", !.id = b,
                              !.todo = {UsedRow(u) : u \in used}])
  /\ UNCHANGED tables

InsertUsage(s) ==
  /\ req[s].pc = "adding"
  /\ \E c \in req[s].todo :
       /\ link' = [link EXCEPT ![req[s].id] = @ \cup {c}]
       /\ Become(s, Rest([req[s] EXCEPT !.todo = @ \ {c}]))
  /\ UNCHANGED <<booking, keys, bills, is_booking, order>>
-----------------------------------------------------------------------------
(* response_vnpay, the callback.  The route is public, and nothing in src/
   verifies vnp_SecureHash or asks the gateway: the handler believes the
   response code of whatever call names the bill's order.  So calls come at any
   time, from anyone, repeated or contradicting each other; a code and its call
   are all the model knows of a payment. *)

\* Mutants: the word of the call is stored; the codes are mixed up
OutcomeRawMutant(code) == code
OutcomeSwappedMutant(code) == IF code = "00" THEN "Reject" ELSE "Fulfilled"
Outcome(code) == IF code = "00" THEN "Fulfilled" ELSE "Reject"

\* The bill is found by its order id, with its booking if it still points to
\* one.  A refusing code is ignored after the check-in (and throws when the bill
\* came without its booking).
ResponseVnpay(s, b) ==
  /\ MayBegin(s, "response_vnpay")
  /\ bill[b] # "None"
  /\ \E code \in ResponseCodes :
       /\ code = "00" \/ (BillRow(0) \in link[b] /\ ~booking[b].is_checked_in)
       /\ order' = [order EXCEPT ![b].codes = @ \cup {code}]
       /\ Become(s, [Idle EXCEPT !.pc = "bill_load", !.op = "response_vnpay",
                                 !.id = b, !.code = code,
                                 !.rows = link[b] \cap {BillRow(0)}])
  /\ UNCHANGED <<booking, keys, link, bills, is_booking>>

\* bill.save(), first the SELECT ...
BillLoad(s) ==
  /\ req[s].pc = "bill_load"
  /\ LET q == req[s]
         linked == link[q.id] \cap {BillRow(0)}
     IN Become(s, [q EXCEPT !.pc = "bill_flush",
                            !.diff = IF bill[q.id] = Outcome(q.code) THEN {}
                                     ELSE {"payment_state"},
                            !.gone = linked \ q.rows,
                            !.back = q.rows \ linked])
  /\ UNCHANGED tables

\* Mutant: a bill that came without its booking is given up before the save
BillFlushMutant(s) ==
  /\ req[s].pc = "bill_flush"
  /\ LET q == req[s] IN
     /\ bill' = IF q.rows # {} THEN [bill EXCEPT ![q.id] = Outcome(q.code)] ELSE bill
     /\ link' = [link EXCEPT ![q.id] = Relinked(@, q.gone, q.back)]
     /\ Become(s, IF q.rows = {} THEN Idle
                  ELSE [q EXCEPT !.pc = "set_state", !.diff = {}, !.gone = {},
                                 !.back = {}])
  /\ UNCHANGED <<booking, keys, service_bills, charged, is_booking, order>>

\* ... then the UPDATE; bill.booking.id throws if the bill came without booking
BillFlush(s) ==
  /\ req[s].pc = "bill_flush"
  /\ LET q == req[s] IN
     /\ bill' = IF "payment_state" \in q.diff
                THEN [bill EXCEPT ![q.id] = Outcome(q.code)] ELSE bill
     /\ link' = [link EXCEPT ![q.id] = Relinked(@, q.gone, q.back)]
     /\ Become(s, IF q.rows = {} THEN Idle
                  ELSE [q EXCEPT !.pc = "set_state", !.diff = {}, !.gone = {},
                                 !.back = {}])
  /\ UNCHANGED <<booking, keys, service_bills, charged, is_booking, order>>

\* Mutant: the response code is not looked at
SetStateMutant(s) ==
  /\ req[s].pc = "set_state"
  /\ booking' = [booking EXCEPT ![req[s].id].state = "Success"]
  /\ Become(s, Idle)
  /\ UNCHANGED <<keys, link, bills, is_booking, order>>

\* repository.update(): one statement, whatever the booking's state is by now
SetState(s) ==
  /\ req[s].pc = "set_state"
  /\ booking' = [booking EXCEPT ![req[s].id].state =
                   IF req[s].code = "00" THEN "Success" ELSE "Reject"]
  /\ Become(s, Idle)
  /\ UNCHANGED <<keys, link, bills, is_booking, order>>
-----------------------------------------------------------------------------
(* A statement of a handler without catch fails, or the process dies: the
   request is forgotten where it stands.  Of a Promise.all, the other calls go
   on when one fails. *)

Abort(s) ==
  /\ Faults
  /\ req[s].pc # "idle"
  /\ Become(s, Idle)
  /\ UNCHANGED tables

FailOne(s) ==
  /\ Faults
  /\ req[s].pc \in {"release", "adding"}
  /\ \E c \in req[s].todo \cup req[s].cur :
       Become(s, Rest([req[s] EXCEPT !.todo = @ \ {c}, !.cur = @ \ {c}]))
  /\ UNCHANGED tables
-----------------------------------------------------------------------------
Begin(s) ==
  \/ Create(s) \/ CmsCreate(s)
  \/ \E b \in Booked : \/ Checkin(s, b) \/ Cancel(s, b) \/ Checkout(s, b)
                       \/ AddService(s, b) \/ ResponseVnpay(s, b)

Continue(s) ==
  \/ PrepareShared(s) \/ FindCustomer(s) \/ InsertBooking(s) \/ CreateBill(s)
  \/ MarkRoom(s) \/ BookRoom(s) \/ Reply(s)
  \/ SaveLoad(s) \/ SaveFlush(s) \/ FulfilBills(s) \/ ChargeServices(s)
  \/ CheckRoom(s) \/ ReleaseRoom(s) \/ InsertUsage(s)
  \/ BillLoad(s) \/ BillFlush(s) \/ SetState(s)

Fail(s) == Throw(s) \/ Abort(s) \/ FailOne(s)

Next == \E s \in Slots : Begin(s) \/ Continue(s) \/ Fail(s)

Spec == Init /\ [][Next]_vars

\* A request the server has started goes on: the event loop and the database
\* answer.  Nothing obliges a client to send one.
FairSpec == Spec /\ \A s \in Slots : WF_vars(Continue(s))
=============================================================================
