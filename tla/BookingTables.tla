---------------------------- MODULE BookingTables ----------------------------
(***************************************************************************)
(* The tables the booking service works on, the queries it asks of them    *)
(* and what one TypeORM save() does to them.  Everything the handlers of    *)
(* BookingService.tla share is here; no action is.                          *)
(*                                                                         *)
(* A row is identified by its position (booking ids are the serial primary *)
(* key).  Prices, names, dates of birth and the like are left out: no       *)
(* property of this module tells them apart.                                *)
(*                                                                         *)
(* A definition named ...Mutant is a plausible bug in the definition that   *)
(* follows it; no specification uses it, it is there to check that the      *)
(* properties would notice.                                                 *)
(***************************************************************************)
EXTENDS Integers, FiniteSets

CONSTANTS
  Rooms,            \* the rows of table room
  RoomTypes,        \* the rows of table type_room
  TypeOf,           \* room.type_room_id
  Stays,            \* the [checkin, checkout] pairs clients ask for
  ResponseCodes,    \* the vnp_ResponseCode values of callbacks; "00" is a success
  Usages,           \* the rows table used_service may get
  MaxBookings,      \* bound: rows table booking may get
  MaxQuantity,      \* bound: rooms one request may ask for
  MaxWalkIns,       \* bound: customers cmsCreate may insert
  MaxServiceBills   \* bound: service bills one booking may get

ASSUME ConstantsAssumption ==
  /\ TypeOf \in [Rooms -> RoomTypes]
  /\ IsFiniteSet(Rooms)
  /\ \A stay \in Stays : stay \in [checkin : Nat, checkout : Nat]
  /\ MaxBookings \in Nat /\ MaxQuantity \in Nat
  /\ MaxWalkIns \in Nat /\ MaxServiceBills \in Nat

VARIABLES
  booking,        \* table booking, by id
  next_id,        \* the next value of booking's primary key
  link,           \* per booking, the child rows whose booking_id points to it
  bill,           \* payment_state of the room bill of each booking
  service_bills,  \* how many service bills each booking was given
  charged,        \* the used_service rows those bills added up
  walk_ins,       \* customers cmsCreate inserted
  is_booking,     \* room.is_booking
  order           \* per booking, what was exchanged about its payment link: a
                  \* history, read by the properties only

tables == <<booking, next_id, link, bill, service_bills, charged, walk_ins,
            is_booking, order>>
keys == <<next_id, walk_ins>>
bills == <<bill, service_bills, charged>>
-----------------------------------------------------------------------------
(* Rows *)

Ids == 1 .. MaxBookings
NoId == 0

\* EBookingState
States == {"Init", "AdminInit", "Success", "Done", "Reject"}
\* booking.user: user 1 for a customer's own booking, the clerk for a cms one
Users == {"system", "staff"}
\* The columns a handler assigns after the insert, hence those a save may write
Columns == {"state", "is_checked_in", "is_checked_out", "is_cancel"}
NoStay == [checkin |-> 0, checkout |-> 0]

Row == [user : Users, stay : Stays \cup {NoStay}, quantity : 0 .. MaxQuantity,
        state : States, is_checked_in : BOOLEAN, is_checked_out : BOOLEAN,
        is_cancel : BOOLEAN]

NewRow(user, state, stay, quantity) ==
  [user |-> user, stay |-> stay, quantity |-> quantity, state |-> state,
   is_checked_in |-> FALSE, is_checked_out |-> FALSE, is_cancel |-> FALSE]
Blank == NewRow("system", "Init", NoStay, 0)

\* booked_room rows, told apart by the room and by the query that offered it
\* (both queries of _prepare may offer the same room when it changes between)
RoomRows == [kind : {"booked_room"}, room : Rooms, query : {1, 2}]
RoomRow(r, n) == [kind |-> "booked_room", room |-> r, query |-> n]
UsedRows == [kind : {"used_service"}, usage : Usages]
UsedRow(u) == [kind |-> "used_service", usage |-> u]
\* bill rows of one booking: 0 is the room bill, the others service bills
BillRows == [kind : {"bill"}, nth : 0 .. MaxServiceBills]
BillRow(n) == [kind |-> "bill", nth |-> n]
Child == RoomRows \cup UsedRows \cup BillRows

\* "None": no room bill was inserted for this booking
BillStates == {"None", "Pending", "Fulfilled", "Reject"}
\* handed: the customer was given the link.  codes: the response codes of the
\* callbacks about the bill that the handler did not turn away.
Order == [handed : BOOLEAN, codes : SUBSET ResponseCodes]

TablesType ==
  /\ booking \in [Ids -> Row]
  /\ next_id \in 1 .. MaxBookings + 1
  /\ link \in [Ids -> SUBSET Child]
  /\ bill \in [Ids -> BillStates]
  /\ service_bills \in [Ids -> 0 .. MaxServiceBills]
  /\ charged \in [Ids -> SUBSET Usages]
  /\ walk_ins \in 0 .. MaxWalkIns
  /\ is_booking \in [Rooms -> BOOLEAN]
  /\ order \in [Ids -> Order]

TablesInit ==
  /\ booking = [b \in Ids |-> Blank]
  /\ next_id = 1
  /\ link = [b \in Ids |-> {}]
  /\ bill = [b \in Ids |-> "None"]
  /\ service_bills = [b \in Ids |-> 0]
  /\ charged = [b \in Ids |-> {}]
  /\ walk_ins = 0
  /\ is_booking = [r \in Rooms |-> FALSE]
  /\ order = [b \in Ids |-> [handed |-> FALSE, codes |-> {}]]
-----------------------------------------------------------------------------
(* Queries *)

Booked == {b \in Ids : b < next_id}
RoomsIn(rows) == {c.room : c \in rows \cap RoomRows}
UsagesIn(rows) == {c.usage : c \in rows \cap UsedRows}

Holds(b, r) == \E c \in link[b] \cap RoomRows : c.room = r

\* First query of _prepare: rooms of the type that are not marked
FreeRooms(t) == {r \in Rooms : TypeOf[r] = t /\ ~is_booking[r]}

\* Mutant: stays that share a day count as apart
ApartMutant(stay, row) ==
  stay.checkin >= row.stay.checkout \/ stay.checkout <= row.stay.checkin

\* The Brackets condition: both comparisons are strict
Apart(stay, row) ==
  stay.checkin > row.stay.checkout \/ stay.checkout < row.stay.checkin

\* Second query of _prepare: marked rooms that have SOME booking that is not
\* checked out (cancelled ones included) and lies apart from the stay
SharedRooms(t, stay) ==
  {r \in Rooms : /\ TypeOf[r] = t
                 /\ is_booking[r]
                 /\ \E b \in Booked : /\ Holds(b, r)
                                      /\ ~booking[b].is_checked_out
                                      /\ Apart(stay, booking[b])}

Live(b) == ~booking[b].is_checked_out /\ ~booking[b].is_cancel

\* Mutant: only bookings whose guests are in the room count
HeldByLiveMutant(r) ==
  \E b \in Booked : Live(b) /\ booking[b].is_checked_in /\ Holds(b, r)

\* The query of checkoutRoom
HeldByLive(r) == \E b \in Booked : Live(b) /\ Holds(b, r)
-----------------------------------------------------------------------------
(* TypeORM's save(entity): it selects the row again, compares the entity in
   memory with what it selected, and then updates exactly the columns that
   differ.  Of a one-to-many relation the entity was loaded with, rows it does
   not know are detached (foreign key set to null) and rows it knows are
   attached again. *)

Differs(mem, row) ==
  {c \in Columns : \/ c = "state" /\ mem.state # row.state
                   \/ c = "is_checked_in" /\ mem.is_checked_in # row.is_checked_in
                   \/ c = "is_checked_out" /\ mem.is_checked_out # row.is_checked_out
                   \/ c = "is_cancel" /\ mem.is_cancel # row.is_cancel}

Written(row, mem, columns) ==
  [row EXCEPT
     !.state = IF "state" \in columns THEN mem.state ELSE @,
     !.is_checked_in = IF "is_checked_in" \in columns THEN mem.is_checked_in ELSE @,
     !.is_checked_out = IF "is_checked_out" \in columns THEN mem.is_checked_out ELSE @,
     !.is_cancel = IF "is_cancel" \in columns THEN mem.is_cancel ELSE @]

Relinked(rows, gone, back) == (rows \ gone) \cup back
=============================================================================
