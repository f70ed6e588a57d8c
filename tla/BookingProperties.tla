-------------------------- MODULE BookingProperties --------------------------
(***************************************************************************)
(* What the booking service guarantees, and what its own comments and      *)
(* messages say it guarantees.                                              *)
(***************************************************************************)
EXTENDS BookingService
-----------------------------------------------------------------------------
(* However requests overlap, fail or are repeated *)

\* A success was heeded about the booking; unless a refusal was heeded too, the
\* bill is Fulfilled
Backed(b) ==
  /\ "00" \in order[b].codes
  /\ order[b].codes = {"00"} => bill[b] = "Fulfilled"

\* A booking is in state Success ("khi thanh toan phong thanh cong") only if a
\* callback reported a success about its own bill: no stale save of a handler
\* running beside it, failed create, crash or other booking's callback produces
\* that state.  Unless a refusal was heeded too, its bill is then Fulfilled.
SuccessWasReported ==
  \A b \in Booked : booking[b].state = "Success" => Backed(b)

\* The room bill says nothing that nobody reported: a customer's bill is
\* Fulfilled only if a success was heeded (checkout's cash settlement is for cms
\* bookings), and one whose link went out is Reject only if a refusal was.
BillMatchesCalls ==
  \A b \in Booked :
    /\ bill[b] = "Fulfilled" /\ booking[b].user = "system" => "00" \in order[b].codes
    /\ bill[b] = "Reject" /\ order[b].handed => order[b].codes \ {"00"} # {}

\* Once a payment is on the books, only a refusing callback takes it off: while
\* none was heeded about that bill, no other request, however stale, makes a
\* Fulfilled bill anything else.
PaidBillKept ==
  [][\A b \in Booked : bill[b] = "Fulfilled" /\ order'[b].codes \subseteq {"00"}
                         => bill'[b] = "Fulfilled"]_vars

\* The columns of the booking tables that carry money, as the abstract ledger
\* sees them
Ledger == INSTANCE PaymentLedger WITH
  Ids <- Ids, ResponseCodes <- ResponseCodes, bill <- bill,
  handed <- [b \in Ids |-> order[b].handed],
  codes <- [b \in Ids |-> order[b].codes],
  confirmed <- [b \in Ids |-> booking[b].state = "Success"],
  staff <- [b \in Ids |-> booking[b].user = "staff"]

\* Seen so, the booking service is the ledger: every statement of every handler,
\* however they interleave, is one step of the ledger or none.
ImplementsLedger == Ledger!Spec

\* Every request the server starts comes to its end.
EveryRequestEnds == \A s \in Slots : req[s].pc # "idle" ~> req[s].pc = "idle"

\* A callback that reports a success gets the bill to Fulfilled, whatever the
\* requests running beside it save.  (From its load on: if it loaded the bill
\* Fulfilled it writes nothing, and a refusal that falls between stands.)
CallbackRecorded ==
  \A s \in Slots, b \in Ids :
    req[s].pc = "bill_load" /\ req[s].id = b /\ req[s].code = "00"
      ~> bill[b] = "Fulfilled"
-----------------------------------------------------------------------------
(* When the handlers that make a booking live run alone (create, cmsCreate and
   checkin, whose stale save can undo a cancellation), the others overlap as
   they like *)

\* The rooms of every live booking are marked, also between two statements of
\* a handler and after a crash: _prepare's first query never offers a room that
\* a live booking holds.
LiveRoomsMarked ==
  \A b \in Booked, r \in Rooms : Live(b) /\ Holds(b, r) => is_booking[r]

\* A customer who was handed a payment link holds as many different rooms as
\* were asked for, and keeps the rows whatever happens to the booking later.
LinkHasItsRooms ==
  \A b \in Booked :
    order[b].handed => Cardinality(RoomsIn(link[b])) = booking[b].quantity

\* Between requests that did not fail, the mark of a room says exactly whether
\* a live booking holds it: cancel and checkout release neither too much nor
\* too little.
RoomFlagExact ==
  (\A s \in Slots : req[s].pc = "idle")
    => \A r \in Rooms : is_booking[r] <=> HeldByLive(r)

\* When a checkout ends, the services attached to the booking are on a bill.
CheckoutBillsServices ==
  [][\A s \in Slots :
       req[s].op = "checkout" /\ req'[s].pc = "idle"
         => UsagesIn(link'[req[s].id]) \subseteq charged'[req[s].id]]_vars

\* A cancelled booking gives its rooms back, unless another live booking is in
\* them.
CancelledRoomsComeBack ==
  \A b \in Ids, r \in Rooms :
    booking[b].is_cancel /\ Holds(b, r) ~> ~is_booking[r] \/ HeldByLive(r)

\* Some day belongs to both stays
ShareADay(stay1, stay2) ==
  stay1.checkin <= stay2.checkout /\ stay2.checkin <= stay1.checkout

\* No room is held by two live bookings whose stays share a day.  The refusal of
\* _prepare, "only N rooms are free in the period", says so.
NoDoubleBooking ==
  \A b1, b2 \in Booked :
    /\ b1 # b2
    /\ Live(b1) /\ Live(b2)
    /\ ShareADay(booking[b1].stay, booking[b2].stay)
    => RoomsIn(link[b1]) \cap RoomsIn(link[b2]) = {}

\* If one is all the same, a third booking brought it about: one of the room that
\* lies apart from the one or the other, so that _prepare took the room for free.
OnlyAThirdDoubles ==
  \A b1, b2 \in Booked, r \in Rooms :
    /\ b1 # b2 /\ Live(b1) /\ Live(b2) /\ Holds(b1, r) /\ Holds(b2, r)
    /\ ShareADay(booking[b1].stay, booking[b2].stay)
    => \E b3 \in Booked \ {b1, b2} :
         /\ Holds(b3, r)
         /\ Apart(booking[b1].stay, booking[b3]) \/ Apart(booking[b2].stay, booking[b3])
-----------------------------------------------------------------------------
(* What booking.constant.ts and the messages say of the states *)

\* "Reject, // don bi huy": a cancelled booking is in state Reject.
CancelledIsRejected ==
  \A b \in Booked : booking[b].is_cancel => booking[b].state = "Reject"

\* "Phong dang duoc su dung": a booking in use is not cancelled.
InUseIsNotCancelled ==
  [][\A b \in Booked : booking[b].is_checked_in /\ ~booking[b].is_cancel
                         => ~booking'[b].is_cancel]_vars

\* "Don da bi huy": a rejected booking is neither checked in nor out, so no
\* guest is in the rooms of one.
InUseIsNotRejected ==
  \A b \in Booked :
    booking[b].is_checked_in /\ ~booking[b].is_checked_out
      => booking[b].state # "Reject"
=============================================================================
