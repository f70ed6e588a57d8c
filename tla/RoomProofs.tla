------------------------------ MODULE RoomProofs ------------------------------
(***************************************************************************)
(* Rooms, proved for every number of requests, bookings and rooms, when the *)
(* handlers that make a booking live run alone: the rooms of live bookings  *)
(* are marked, and a customer's link stands for the rooms asked for.        *)
(*                                                                         *)
(* What is needed besides: an entity in memory may be old, but saving it    *)
(* never brings a booking back to life.  A cancel saves a booking nobody    *)
(* has checked in, a checkout one somebody has, so the two never save the   *)
(* same booking, and each leaves its own mark on it whatever its copy says  *)
(* of the other's.  And no save detaches a room, for nothing that attaches  *)
(* one runs between the SELECT of the relations and the save.               *)
(***************************************************************************)
EXTENDS PaymentProofs

\* The handlers that make a booking live, or a dead one live again
MakingLive == {"create", "cmsCreate", "checkin"}
\* They are kept apart from whatever else there is
MakersAlone == \A s, t \in Slots : s # t => MakingLive \subseteq Exclusive

\* A create before its insert, and the two statements of a save
Asking == {"shared", "customer", "insert"}
Saves == {"load", "flush"}

Lone ==
  \A s, t \in Slots :
    s # t /\ req[s].pc # "idle" /\ req[s].op \in MakingLive => req[t].pc = "idle"

\* What each handler is about to save
SaveOK(q) ==
  /\ q.cur = {}
  /\ q.op \in {"create", "checkin"} => q.rows = {}
  /\ q.op \in {"create", "cancel"} => q.row.is_cancel
  /\ q.op = "cancel" => ~q.row.is_checked_in /\ ~booking[q.id].is_checked_in
  /\ q.op = "checkout" => /\ q.row.is_checked_out /\ q.row.is_checked_in
                          /\ booking[q.id].is_checked_in
  /\ q.op = "checkin" => /\ q.row.is_cancel = booking[q.id].is_cancel
                         /\ q.row.is_checked_out = booking[q.id].is_checked_out
\* After its SELECT: the end it puts to the booking is written, or there already
FlushOK(q) ==
  /\ q.op \in {"create", "cancel"} => "is_cancel" \in q.diff \/ booking[q.id].is_cancel
  /\ q.op = "checkout" => "is_checked_out" \in q.diff \/ booking[q.id].is_checked_out
  /\ (q.gone \cup q.back) \cap RoomRows = {}

\* What is true of a request q
RoomReqOK(q) ==
  /\ q.pc \in Asking \cup Making =>
       q.op \in Creating /\ q.rows = {} /\ q.todo \subseteq RoomRows
  /\ q.pc = "book" => \A c \in q.cur : c \in RoomRows /\ is_booking[c.room]
  /\ q.pc \in Saves => q.op \in {"create", "checkin", "cancel", "checkout"} /\ SaveOK(q)
  /\ q.pc = "flush" => FlushOK(q)
  /\ q.pc \in {"fulfil", "charge"} => q.op = "checkout" /\ q.cur = {}
  /\ q.pc \in Saves \cup {"fulfil", "charge"} /\ q.op \in {"cancel", "checkout"} =>
       q.rows \cap RoomRows = link[q.id] \cap RoomRows
  /\ q.pc = "release" => /\ q.op \in {"cancel", "checkout"}
                         /\ \A c \in q.cur : ~HeldByLive(c.room)
  /\ q.pc = "adding" => q.op = "addService" /\ q.todo \subseteq UsedRows
  /\ q.pc \in Calling =>
       q.op = "response_vnpay" /\ q.rows \cup q.gone \cup q.back \subseteq {BillRow(0)}

RoomInv ==
  /\ Lone
  /\ LiveRoomsMarked
  /\ \A b \in Ids \ Booked : link[b] \cap RoomRows = {}
  /\ \A s \in Slots : RoomReqOK(req[s])
-----------------------------------------------------------------------------
\* A request a step may go on with: none, the same handler's, or a new one's
Follows(s, q) ==
  \/ q.pc = "idle"
  \/ req[s].pc # "idle" /\ q.op = req[s].op
  \/ MayBegin(s, q.op)

\* Nothing is asked of a slot with no request.
LEMMA IdleRooms == RoomReqOK(Idle)
BY DEF RoomReqOK, Idle, Asking, Saves, Making, Calling

\* The kinds of children are told apart.
LEMMA ChildKinds ==
  /\ RoomRows \cap UsedRows = {} /\ RoomRows \cap BillRows = {} /\ UsedRows \cap BillRows = {}
  /\ \A n : BillRow(n) \notin RoomRows /\ BillRow(n) \notin UsedRows
  /\ \A c \in RoomRows : c.room \in Rooms
BY DEF RoomRows, UsedRows, BillRows, BillRow

\* The invariant holds when the server starts.
LEMMA RoomInit == Init => RoomInv
<1> SUFFICES ASSUME Init PROVE RoomInv
  OBVIOUS
<1>1. \A s \in Slots : RoomReqOK(req[s])
  BY IdleRooms DEF Init
<1>2. Lone
  BY DEF Init, Lone, Idle
<1>3. LiveRoomsMarked /\ \A b \in Ids \ Booked : link[b] \cap RoomRows = {}
  BY DEF Init, TablesInit, LiveRoomsMarked, Booked, Ids, Holds
<1> QED BY <1>1, <1>2, <1>3 DEF RoomInv

\* While a handler makes a booking live, no other request takes a step.
LEMMA OthersAreNot ==
  ASSUME MakersAlone, Lone, NEW s \in Slots, NEW t \in Slots, t # s, req[t].pc # "idle",
         req[s].pc # "idle" \/ \E op : MayBegin(s, op)
  PROVE  req[t].op \notin MakingLive
BY DEF MakersAlone, Lone, MayBegin

\* A step of a handler keeps those that make a booking live alone.
LEMMA LoneStep ==
  ASSUME MakersAlone, TypeOK, Lone, NEW s \in Slots, NEW q, Become(s, q), Follows(s, q)
  PROVE  Lone'
<1>1. \A t \in Slots : req'[t] = IF t = s THEN q ELSE req[t]
  BY DEF Become, TypeOK
<1>2. CASE q.pc = "idle"
  BY <1>1, <1>2 DEF Lone
<1>3. CASE req[s].pc # "idle" /\ q.op = req[s].op
  BY <1>1, <1>3 DEF Lone
<1>4. CASE MayBegin(s, q.op)
  BY <1>1, <1>4 DEF Lone, MayBegin, MakersAlone
<1> QED BY <1>2, <1>3, <1>4 DEF Follows

\* What no step does to the bookings that others work on
Steady ==
  /\ next_id' = next_id
  /\ \A b \in Ids : link'[b] \cap RoomRows = link[b] \cap RoomRows
  /\ \A b \in Ids :
       /\ booking'[b].is_checked_in = booking[b].is_checked_in
       /\ ~booking[b].is_checked_in /\ booking[b].is_cancel => booking'[b].is_cancel
       /\ booking[b].is_checked_in /\ booking[b].is_checked_out => booking'[b].is_checked_out
       /\ ~booking'[b].is_cancel /\ ~booking'[b].is_checked_out => Live(b)

\* What most steps do not do at all
Quiet ==
  /\ next_id' = next_id /\ is_booking' = is_booking
  /\ \A b \in Ids : link'[b] \cap RoomRows = link[b] \cap RoomRows
  /\ \A b \in Ids : /\ booking'[b].is_checked_in = booking[b].is_checked_in
                    /\ booking'[b].is_checked_out = booking[b].is_checked_out
                    /\ booking'[b].is_cancel = booking[b].is_cancel

\* No booking comes back to life, so no room does.
LEMMA SteadyRooms ==
  ASSUME Steady
  PROVE  /\ Booked' = Booked
         /\ \A r : \A b \in Ids : Holds(b, r)' <=> Holds(b, r)
         /\ \A b \in Ids : Live(b)' => Live(b)
         /\ \A r : HeldByLive(r)' => HeldByLive(r)
<1>1. Booked' = Booked
  BY DEF Steady, Booked
<1>2. \A r : \A b \in Ids : Holds(b, r)' <=> Holds(b, r)
  BY DEF Steady, Holds
<1>3. \A b \in Ids : Live(b)' => Live(b)
  BY DEF Steady, Live
<1>4. \A r : HeldByLive(r)' => HeldByLive(r)
  BY <1>1, <1>2, <1>3 DEF HeldByLive, Booked
<1> QED BY <1>1, <1>2, <1>3, <1>4

\* A steady step of one request leaves the others all right.
LEMMA OthersOK ==
  ASSUME MakersAlone, TypeOK, PaymentInv, RoomInv, Steady,
         NEW s \in Slots, req[s].pc # "idle" \/ \E op : MayBegin(s, op),
         NEW t \in Slots, t # s, req'[t] = req[t]
  PROVE  RoomReqOK(req[t])'
<1> DEFINE q == req[t]
<1>1. CASE q.pc = "idle"
  BY <1>1 DEF RoomReqOK, Asking, Making, Saves, Calling
<1>2. CASE q.pc # "idle"
  <2>1. q.op \notin MakingLive /\ RoomReqOK(q)
    BY <1>2, OthersAreNot DEF RoomInv
  <2>2. q.op \notin Creating
    BY <2>1 DEF MakingLive, Creating
  <2>3. q.pc \notin Asking \cup Making
    BY <2>1, <2>2 DEF RoomReqOK
  <2>4. q.id \in Ids
    BY <1>2, <2>3, HasBooking DEF Asking, BeforeInsert
  <2>5. q.pc \in Saves => SaveOK(q)'
    BY <2>1, <2>4 DEF RoomReqOK, SaveOK, Steady, MakingLive
  <2>6. q.pc = "flush" => FlushOK(q)'
    BY <2>1, <2>4 DEF RoomReqOK, SaveOK, FlushOK, Steady, MakingLive, Saves
  <2>7. q.pc = "release" => \A c \in q.cur : ~HeldByLive(c.room)'
    BY <2>1, SteadyRooms DEF RoomReqOK
  <2>8. link'[q.id] \cap RoomRows = link[q.id] \cap RoomRows
    BY <2>4 DEF Steady
  <2> QED BY <2>1, <2>3, <2>5, <2>6, <2>7, <2>8 DEF RoomReqOK, Making
<1> QED BY <1>1, <1>2

\* A request that is all right stays so in a quiet step.
LEMMA QuietReq ==
  ASSUME TypeOK, Quiet, NEW q, q.id \in Ids \/ q.pc \in BeforeInsert, RoomReqOK(q)
  PROVE  RoomReqOK(q)'
<1>1. Steady
  BY DEF Steady, Quiet, Live
<1>2. \A r : HeldByLive(r)' => HeldByLive(r)
  BY <1>1, SteadyRooms
<1>3. CASE q.id \in Ids
  <2>1. /\ link'[q.id] \cap RoomRows = link[q.id] \cap RoomRows
        /\ booking'[q.id].is_checked_in = booking[q.id].is_checked_in
        /\ booking'[q.id].is_checked_out = booking[q.id].is_checked_out
        /\ booking'[q.id].is_cancel = booking[q.id].is_cancel
        /\ is_booking' = is_booking
    BY <1>3 DEF Quiet
  <2>2. SaveOK(q) => SaveOK(q)'
    BY <2>1 DEF SaveOK
  <2>3. FlushOK(q) => FlushOK(q)'
    BY <2>1 DEF FlushOK
  <2> QED BY <1>2, <2>1, <2>2, <2>3 DEF RoomReqOK
<1>4. CASE q.pc \in BeforeInsert
  BY <1>4 DEF RoomReqOK, BeforeInsert, Making, Saves, Calling
<1> QED BY <1>3, <1>4

\* A quiet step preserves the invariant if what it goes on with is all right.
LEMMA QuietStep ==
  ASSUME MakersAlone, TypeOK, PaymentInv, RoomInv, NEW s \in Slots, NEW q, Become(s, q),
         Follows(s, q), q.pc = "idle" => req[s].pc # "idle",
         q.id \in Ids \/ q.pc \in BeforeInsert, RoomReqOK(q), Quiet
  PROVE  RoomInv'
<1>1. Steady
  BY DEF Steady, Quiet, Live
<1>2. \A t \in Slots : req'[t] = IF t = s THEN q ELSE req[t]
  BY DEF Become, TypeOK
<1>3. req[s].pc # "idle" \/ \E op : MayBegin(s, op)
  BY DEF Follows
<1>4. ASSUME NEW t \in Slots PROVE RoomReqOK(req[t])'
  <2>1. CASE t # s
    BY <1>1, <1>2, <1>3, <2>1, OthersOK
  <2>2. CASE t = s
    BY <1>2, <2>2, QuietReq DEF RoomReqOK, SaveOK, FlushOK, HeldByLive, Live, Holds
  <2> QED BY <2>1, <2>2
<1>5. LiveRoomsMarked'
  BY <1>1, SteadyRooms DEF RoomInv, LiveRoomsMarked, Quiet, Booked
<1>6. (\A b \in Ids \ Booked : link[b] \cap RoomRows = {})'
  BY <1>1, SteadyRooms DEF RoomInv, Steady
<1> QED BY <1>4, <1>5, <1>6, LoneStep DEF RoomInv

\* A step that leaves the tables alone is quiet.
LEMMA TablesQuiet == UNCHANGED tables => Quiet
BY DEF tables, Quiet

\* So is giving up.
LEMMA IdleQuiet ==
  ASSUME MakersAlone, TypeOK, PaymentInv, RoomInv, NEW s \in Slots, Become(s, Idle),
         req[s].pc # "idle", Quiet
  PROVE  RoomInv'
<1>1. Idle.pc = "idle"
  BY DEF Idle
<1>2. Follows(s, Idle) /\ Idle.pc \in BeforeInsert
  BY <1>1 DEF Follows, BeforeInsert
<1> HIDE DEF Idle
<1> QED BY <1>1, <1>2, IdleRooms, QuietStep
-----------------------------------------------------------------------------
(* create and cmsCreate *)

\* _prepare up to its first query takes rooms.
LEMMA RoomPrepare ==
  ASSUME MakersAlone, TypeOK, PaymentInv, RoomInv, NEW s \in Slots, Create(s) \/ CmsCreate(s)
  PROVE  RoomInv'
<1>1. PICK op \in Creating, user \in Users, state \in {"Init", "AdminInit"} :
        Prepare(s, op, user, state)
  BY DEF Create, CmsCreate, Creating, Users
<1>2. PICK t \in RoomTypes, stay \in Stays, quantity \in 1 .. MaxQuantity, pay \in Payments :
        LET free == {RoomRow(r, 1) : r \in FreeRooms(t)}
            asked == [Idle EXCEPT !.op = op, !.type = t, !.pay = pay,
                                  !.row = NewRow(user, state, stay, quantity)]
        IN IF Cardinality(free) < quantity
           THEN Become(s, [asked EXCEPT !.pc = "shared", !.todo = free])
           ELSE \E take \in SUBSET free :
                  /\ Cardinality(take) = quantity
                  /\ Become(s, Prepared([asked EXCEPT !.todo = take]))
  BY <1>1 DEF Prepare
<1> DEFINE free == {RoomRow(r, 1) : r \in FreeRooms(t)}
           new == NewRow(user, state, stay, quantity)
           asked == [Idle EXCEPT !.op = op, !.type = t, !.pay = pay, !.row = new]
<1>3. free \subseteq RoomRows
  BY DEF FreeRooms, RoomRow, RoomRows
<1>4. PICK todo \in SUBSET free, pc \in Asking :
        Become(s, [asked EXCEPT !.todo = todo, !.pc = pc])
  <2>1. CASE Become(s, [asked EXCEPT !.pc = "shared", !.todo = free])
    <3>1. [asked EXCEPT !.pc = "shared", !.todo = free]
            = [asked EXCEPT !.todo = free, !.pc = "shared"]
      BY DEF Idle
    <3> QED BY <2>1, <3>1 DEF Asking
  <2>2. ASSUME NEW take \in SUBSET free, Become(s, Prepared([asked EXCEPT !.todo = take]))
        PROVE  \E pc \in Asking : Become(s, [asked EXCEPT !.todo = take, !.pc = pc])
    BY <2>2 DEF Prepared, Asking
  <2> QED BY <1>2, <2>1, <2>2
<1> DEFINE p == [asked EXCEPT !.todo = todo, !.pc = pc]
<1>5. p.pc = pc /\ p.op = op /\ p.todo = todo /\ p.rows = {}
  BY DEF Idle
<1>6. Become(s, p) /\ MayBegin(s, op) /\ UNCHANGED tables
  BY <1>1, <1>4 DEF Prepare
<1> HIDE DEF p, free
<1>7. RoomReqOK(p) /\ p.pc \in BeforeInsert /\ p.pc # "idle"
  BY <1>3, <1>5 DEF RoomReqOK, Asking, Making, Saves, Calling, BeforeInsert
<1> QED BY <1>5, <1>6, <1>7, QuietStep, TablesQuiet DEF Follows

\* The second query takes rooms too.
LEMMA RoomPrepareShared ==
  ASSUME MakersAlone, TypeOK, PaymentInv, RoomInv, NEW s \in Slots, PrepareShared(s)
  PROVE  RoomInv'
<1> DEFINE q == req[s]
           shared == {RoomRow(r, 2) : r \in SharedRooms(q.type, q.row.stay)}
           p(more, pc) == [q EXCEPT !.todo = @ \cup more, !.pc = pc]
<1>1. RoomReqOK(q) /\ q.pc = "shared" /\ q \in RequestRecord
  BY DEF RoomInv, PrepareShared, TypeOK, Request
<1>2. shared \subseteq RoomRows
  BY DEF SharedRooms, RoomRow, RoomRows
<1>3. \/ Become(s, Idle)
      \/ \E more \in SUBSET shared, pc \in {"insert", "customer"} : Become(s, p(more, pc))
  BY DEF PrepareShared, Prepared
<1>4. Quiet /\ q.pc # "idle"
  BY <1>1, TablesQuiet DEF PrepareShared
<1>5. ASSUME NEW more \in SUBSET shared, NEW pc \in {"insert", "customer"}, Become(s, p(more, pc))
      PROVE  RoomInv'
  <2>1. /\ p(more, pc).pc = pc /\ p(more, pc).op = q.op /\ p(more, pc).rows = q.rows
        /\ p(more, pc).todo = q.todo \cup more
    BY <1>1 DEF RequestRecord
  <2> HIDE DEF p, q
  <2>2. RoomReqOK(p(more, pc)) /\ p(more, pc).pc \in BeforeInsert /\ p(more, pc).pc # "idle"
    BY <1>1, <1>2, <2>1 DEF RoomReqOK, Asking, Making, Saves, Calling, BeforeInsert
  <2>3. Follows(s, p(more, pc))
    BY <1>4, <2>1 DEF Follows, q
  <2> QED BY <1>4, <1>5, <2>2, <2>3, QuietStep
<1> QED BY <1>3, <1>4, <1>5, IdleQuiet

\* The customer of cmsCreate is no room.
LEMMA RoomFindCustomer ==
  ASSUME MakersAlone, TypeOK, PaymentInv, RoomInv, NEW s \in Slots, FindCustomer(s)
  PROVE  RoomInv'
<1> DEFINE p == [req[s] EXCEPT !.pc = "insert"]
<1>1. RoomReqOK(req[s]) /\ req[s].pc = "customer" /\ req[s] \in RequestRecord
  BY DEF RoomInv, FindCustomer, TypeOK, Request
<1>2. p.pc = "insert" /\ p.op = req[s].op /\ p.rows = req[s].rows /\ p.todo = req[s].todo
  BY <1>1 DEF RequestRecord
<1>3. Become(s, p) /\ Quiet
  BY DEF FindCustomer, Quiet
<1> HIDE DEF p
<1>4. RoomReqOK(p) /\ p.pc \in BeforeInsert
  BY <1>1, <1>2 DEF RoomReqOK, Asking, Making, Saves, Calling, BeforeInsert
<1> QED BY <1>1, <1>2, <1>3, <1>4, QuietStep DEF Follows

\* A step of a handler that makes a booking live has no other to mind.
LEMMA AloneStep ==
  ASSUME MakersAlone, TypeOK, RoomInv, NEW s \in Slots, NEW q, Become(s, q), Follows(s, q),
         req[s].pc # "idle", req[s].op \in MakingLive, RoomReqOK(q)',
         LiveRoomsMarked', (\A b \in Ids \ Booked : link[b] \cap RoomRows = {})'
  PROVE  RoomInv'
<1>1. \A t \in Slots : req'[t] = IF t = s THEN q ELSE req[t]
  BY DEF Become, TypeOK
<1>2. ASSUME NEW t \in Slots PROVE RoomReqOK(req[t])'
  <2>1. CASE t # s
    <3>1. req'[t].pc = "idle"
      BY <1>1, <2>1 DEF RoomInv, Lone
    <3> QED BY <3>1 DEF RoomReqOK, Asking, Making, Saves, Calling
  <2>2. CASE t = s
    BY <1>1, <2>2 DEF RoomReqOK, SaveOK, FlushOK, HeldByLive, Live, Holds, Booked
  <2> QED BY <2>1, <2>2
<1> QED BY <1>2, LoneStep DEF RoomInv

\* A new booking holds no room yet.
LEMMA RoomInsertBooking ==
  ASSUME MakersAlone, TypeOK, PaymentInv, RoomInv, NEW s \in Slots, InsertBooking(s)
  PROVE  RoomInv'
<1> DEFINE q == req[s]
<1>1. /\ RoomReqOK(q) /\ q.pc = "insert" /\ q \in RequestRecord
      /\ q.op \in Creating
  BY DEF RoomInv, InsertBooking, TypeOK, Request, RoomReqOK, Asking
<1>2. PICK id : id = next_id
  OBVIOUS
<1>3. PICK p : Become(s, p) /\ p \in {Idle, [q EXCEPT !.pc = "bill", !.id = id]}
  BY <1>2 DEF InsertBooking
<1>4. /\ next_id' = id + 1 /\ id \in Ids
      /\ booking' = [booking EXCEPT ![id] = q.row]
      /\ UNCHANGED <<link, is_booking>>
  BY <1>2 DEF InsertBooking, bills, TypeOK, TablesType, Ids
<1>5. Booked' = Booked \cup {id} /\ id \notin Booked
  BY <1>2, <1>4 DEF Booked, Ids, TypeOK, TablesType
<1>6. \A b \in Booked : booking'[b] = booking[b]
  BY <1>4, <1>5 DEF TypeOK, TablesType, Booked
<1>7. LiveRoomsMarked'
  <2>1. \A r : ~Holds(id, r)'
    BY <1>4, <1>5 DEF RoomInv, Holds
  <2>2. \A r : \A b \in Booked : /\ Holds(b, r)' <=> Holds(b, r)
                                 /\ Live(b)' <=> Live(b)
    BY <1>4, <1>6 DEF Holds, Live
  <2> QED BY <1>4, <1>5, <2>1, <2>2 DEF RoomInv, LiveRoomsMarked
<1>8. (\A b \in Ids \ Booked : link[b] \cap RoomRows = {})'
  BY <1>4, <1>5 DEF RoomInv
<1>9. \/ p = Idle
      \/ p.pc = "bill" /\ p.op = q.op /\ p.rows = q.rows /\ p.todo = q.todo
  BY <1>1, <1>3 DEF RequestRecord
<1>10. RoomReqOK(p)'
  <2>1. p.pc = "idle" => RoomReqOK(p)'
    BY DEF RoomReqOK, Asking, Making, Saves, Calling
  <2>2. p.pc = "bill" /\ p.op \in Creating /\ p.rows = {} /\ p.todo \subseteq RoomRows
          => RoomReqOK(p)'
    BY DEF RoomReqOK, Asking, Making, Saves, Calling
  <2>3. q.rows = {} /\ q.todo \subseteq RoomRows
    BY <1>1 DEF RoomReqOK, Asking
  <2>4. Idle.pc = "idle"
    BY DEF Idle
  <2> QED BY <1>1, <1>9, <2>1, <2>2, <2>3, <2>4
<1>11. Follows(s, p) /\ q.pc # "idle" /\ q.op \in MakingLive
  BY <1>1, <1>9 DEF Follows, Idle, Creating, MakingLive
<1> QED BY <1>3, <1>7, <1>8, <1>10, <1>11, AloneStep

\* What is thrown is caught by a save that cancels, or forgotten.
LEMMA ThrownRooms ==
  ASSUME NEW q \in RequestRecord, q.pc \in {"insert"} \cup Making, RoomReqOK(q)
  PROVE  /\ RoomReqOK(Thrown(q))
         /\ Thrown(q).pc = "idle" \/ Thrown(q).op = q.op
         /\ Thrown(q).id \in Ids \/ Thrown(q).pc \in BeforeInsert
<1> DEFINE undone == [q.row EXCEPT !.state = "Reject", !.is_cancel = TRUE]
           stage == IF q.id = NoId THEN "insert" ELSE "load"
           caught == [q EXCEPT !.pc = stage, !.row = undone, !.todo = {}, !.cur = {}]
<1>1. undone.is_cancel
  BY DEF RequestRecord, Row
<1>2. Thrown(q) = IF q.op = "create" THEN caught ELSE Idle
  BY DEF Thrown, RequestRecord, Row
<1>3. /\ caught.pc = stage /\ caught.op = q.op /\ caught.id = q.id /\ caught.row = undone
      /\ caught.rows = q.rows /\ caught.todo = {} /\ caught.cur = {}
  BY DEF RequestRecord
<1>4. q.rows = {} /\ q.op \in Creating
  BY DEF RoomReqOK, Asking, Making
<1>5. q.op = "create" => RoomReqOK(caught)
  <2> HIDE DEF caught, undone
  <2> QED BY <1>1, <1>3, <1>4 DEF RoomReqOK, SaveOK, Asking, Making, Saves, Calling
<1>6. caught.id \in Ids \/ caught.pc \in BeforeInsert
  BY <1>3, ConstantsAssumption DEF BeforeInsert, Ids, NoId, RequestRecord
<1>7. Idle.pc = "idle"
  BY DEF Idle
<1> HIDE DEF caught
<1> QED BY <1>2, <1>3, <1>5, <1>6, <1>7, IdleRooms DEF BeforeInsert

\* billService.create links a bill, no room.
LEMMA RoomCreateBill ==
  ASSUME MakersAlone, TypeOK, PaymentInv, RoomInv, NEW s \in Slots, CreateBill(s)
  PROVE  RoomInv'
<1> DEFINE q == req[s]
<1>1. RoomReqOK(q) /\ q \in RequestRecord /\ q.pc = "bill" /\ q.id \in Ids
  BY OnBooked DEF CreateBill, BeforeInsert, RoomInv
<1>2. Quiet
  <2>1. \A b \in Ids : link'[b] \cap RoomRows = link[b] \cap RoomRows
    BY <1>1, ChildKinds DEF CreateBill, TypeOK, TablesType
  <2> QED BY <2>1 DEF Quiet, CreateBill, keys
<1>3. PICK p \in {Loop(q), Thrown(q)} : Become(s, p)
  BY DEF CreateBill
<1>4. /\ Loop(q).pc \in {"mark", "reply"} /\ Loop(q).op = q.op /\ Loop(q).rows = q.rows
      /\ Loop(q).todo = q.todo /\ Loop(q).id = q.id
  BY <1>1 DEF Loop, RequestRecord
<1>5. RoomReqOK(Loop(q))
  <2> HIDE DEF q
  <2> QED BY <1>1, <1>4 DEF RoomReqOK, Asking, Making, Saves, Calling
<1>6. RoomReqOK(p) /\ (p.pc = "idle" \/ p.op = q.op) /\ (p.id \in Ids \/ p.pc \in BeforeInsert)
  BY <1>1, <1>3, <1>4, <1>5, ThrownRooms DEF Making
<1> QED BY <1>1, <1>2, <1>3, <1>6, QuietStep DEF Follows

\* A room is marked before it is booked.
LEMMA RoomMarkRoom ==
  ASSUME MakersAlone, TypeOK, PaymentInv, RoomInv, NEW s \in Slots, MarkRoom(s)
  PROVE  RoomInv'
<1> DEFINE q == req[s]
<1>1. /\ RoomReqOK(q) /\ q \in RequestRecord /\ q.pc = "mark" /\ q.id \in Ids
      /\ q.op \in Creating /\ q.rows = {} /\ q.todo \subseteq RoomRows
  BY OnBooked DEF MarkRoom, BeforeInsert, RoomInv, RoomReqOK, Making
<1>2. PICK c \in q.todo : /\ is_booking' = [is_booking EXCEPT ![c.room] = TRUE]
                          /\ Become(s, [q EXCEPT !.pc = "book", !.todo = @ \ {c}, !.cur = {c}])
  BY DEF MarkRoom
<1>3. PICK p : p = [q EXCEPT !.pc = "book", !.todo = @ \ {c}, !.cur = {c}]
  OBVIOUS
<1>4. /\ p.pc = "book" /\ p.op = q.op /\ p.rows = {} /\ p.todo \subseteq RoomRows
      /\ p.cur = {c} /\ c \in RoomRows /\ c.room \in Rooms
  BY <1>1, <1>3, ChildKinds DEF RequestRecord
<1>5. is_booking'[c.room] /\ \A r \in Rooms : is_booking[r] => is_booking'[r]
  BY <1>2, <1>4 DEF TypeOK, TablesType
<1>6. RoomReqOK(p)'
  BY <1>1, <1>4, <1>5 DEF RoomReqOK, Asking, Making, Saves, Calling
<1>7. UNCHANGED <<booking, next_id, link>>
  BY DEF MarkRoom, keys
<1>8. LiveRoomsMarked' /\ (\A b \in Ids \ Booked : link[b] \cap RoomRows = {})'
  BY <1>5, <1>7 DEF RoomInv, LiveRoomsMarked, Booked, Live, Holds
<1>9. Follows(s, p) /\ q.pc # "idle" /\ q.op \in MakingLive
  BY <1>1, <1>4 DEF Follows, Creating, MakingLive
<1> QED BY <1>2, <1>3, <1>6, <1>8, <1>9, AloneStep

\* What is booked is marked.
LEMMA RoomBookRoom ==
  ASSUME MakersAlone, TypeOK, PaymentInv, RoomInv, NEW s \in Slots, BookRoom(s)
  PROVE  RoomInv'
<1> DEFINE q == req[s]
<1>1. /\ RoomReqOK(q) /\ q \in RequestRecord /\ q.pc = "book" /\ q.id \in Ids
      /\ q.id \in Booked /\ q.op \in Creating /\ q.rows = {} /\ q.todo \subseteq RoomRows
  BY OnBooked DEF BookRoom, BeforeInsert, RoomInv, RoomReqOK, Making
<1>2. PICK p : p = Loop([q EXCEPT !.cur = {}])
  OBVIOUS
<1>3. /\ p.pc \in {"mark", "reply"} /\ p.op = q.op /\ p.rows = q.rows /\ p.todo = q.todo
  BY <1>1, <1>2 DEF RequestRecord, Loop
<1>4. RoomReqOK(p)'
  BY <1>1, <1>3 DEF RoomReqOK, Asking, Making, Saves, Calling
<1>5. /\ UNCHANGED <<booking, next_id, is_booking>>
      /\ link' = [link EXCEPT ![q.id] = @ \cup q.cur]
  BY DEF BookRoom, keys
<1>6. \A b \in Ids : link'[b] = IF b = q.id THEN link[b] \cup q.cur ELSE link[b]
  BY <1>1, <1>5 DEF TypeOK, TablesType
<1>7. \A c \in q.cur : is_booking[c.room]
  BY <1>1 DEF RoomReqOK
<1>8. LiveRoomsMarked'
  <2> SUFFICES ASSUME NEW b \in Booked, NEW r \in Rooms, Live(b)', Holds(b, r)'
               PROVE  is_booking[r]
    BY <1>5 DEF LiveRoomsMarked, Booked
  <2>1. Live(b) /\ b \in Ids
    BY <1>5 DEF Live, Booked
  <2>2. Holds(b, r) \/ \E c \in q.cur : c.room = r
    BY <1>6, <2>1 DEF Holds
  <2> QED BY <1>7, <2>1, <2>2 DEF RoomInv, LiveRoomsMarked
<1>9. (\A b \in Ids \ Booked : link[b] \cap RoomRows = {})'
  BY <1>1, <1>5, <1>6 DEF RoomInv, Booked
<1>10. Become(s, p) /\ Follows(s, p) /\ q.pc # "idle" /\ q.op \in MakingLive
  BY <1>1, <1>2, <1>3 DEF BookRoom, Follows, Creating, MakingLive
<1> QED BY <1>4, <1>8, <1>9, <1>10, AloneStep

\* The answer is no matter of rooms.
LEMMA RoomReply ==
  ASSUME MakersAlone, TypeOK, PaymentInv, RoomInv, NEW s \in Slots, Reply(s)
  PROVE  RoomInv'
BY IdleQuiet DEF Reply, Quiet, keys

\* What fails leaves the tables alone.
LEMMA RoomFail ==
  ASSUME MakersAlone, TypeOK, PaymentInv, RoomInv, NEW s \in Slots, Fail(s)
  PROVE  RoomInv'
<1> DEFINE q == req[s]
<1>1. RoomReqOK(q) /\ q \in RequestRecord
  BY DEF RoomInv, TypeOK, Request
<1>2. CASE Throw(s)
  <2>1. q.pc # "idle"
    BY <1>2 DEF Throw
  <2>2. RoomReqOK(Thrown(q)) /\ (Thrown(q).pc = "idle" \/ Thrown(q).op = q.op)
          /\ (Thrown(q).id \in Ids \/ Thrown(q).pc \in BeforeInsert)
    BY <1>1, <1>2, ThrownRooms DEF Throw, Making
  <2>3. Become(s, Thrown(q)) /\ Quiet
    BY <1>2, TablesQuiet DEF Throw
  <2> HIDE DEF q
  <2>4. Follows(s, Thrown(q))
    BY <2>1, <2>2 DEF Follows, q
  <2> QED BY <2>1, <2>2, <2>3, <2>4, QuietStep DEF q
<1>3. CASE Abort(s)
  BY <1>3, IdleQuiet, TablesQuiet DEF Abort
<1>4. CASE FailOne(s)
  <2> DEFINE p(c) == [q EXCEPT !.todo = @ \ {c}, !.cur = @ \ {c}]
  <2>1. PICK c \in q.todo \cup q.cur : Become(s, Rest(p(c)))
    BY <1>4 DEF FailOne
  <2>2. /\ p(c).pc = q.pc /\ p(c).op = q.op /\ p(c).id = q.id /\ p(c).rows = q.rows
        /\ p(c).todo = q.todo \ {c} /\ p(c).cur = q.cur \ {c}
    BY <1>1 DEF RequestRecord
  <2>3. q.pc \in {"release", "adding"} /\ q.id \in Ids
    BY <1>4, OnBooked DEF FailOne, BeforeInsert
  <2> HIDE DEF p, q
  <2>4. RoomReqOK(p(c)) /\ p(c).id \in Ids /\ p(c).op = q.op /\ p(c).pc # "idle"
    BY <1>1, <2>2, <2>3 DEF RoomReqOK, Asking, Making, Saves, Calling
  <2>5. CASE Rest(p(c)) = Idle
    BY <1>4, <2>1, <2>3, <2>5, IdleQuiet, TablesQuiet DEF FailOne, q
  <2>6. CASE Rest(p(c)) = p(c)
    BY <1>4, <2>1, <2>3, <2>4, <2>6, QuietStep, TablesQuiet DEF FailOne, Follows, q
  <2> QED BY <2>5, <2>6 DEF Rest
<1> QED BY <1>2, <1>3, <1>4 DEF Fail
-----------------------------------------------------------------------------
(* Handlers that start from a row *)

\* checkin takes a copy of the booking, cancel one that nobody has checked in,
\* checkout one that somebody has, with the rooms it has by now.
LEMMA RoomBeginOn ==
  ASSUME MakersAlone, TypeOK, PaymentInv, RoomInv, NEW s \in Slots, NEW b \in Booked,
         \/ Checkin(s, b) \/ Cancel(s, b) \/ Checkout(s, b)
         \/ AddService(s, b) \/ ResponseVnpay(s, b)
  PROVE  RoomInv'
<1>1. b \in Ids /\ booking[b] \in Row
  BY DEF Booked, TypeOK, TablesType
<1>2. Quiet
  BY TablesQuiet DEF Checkin, Cancel, Checkout, AddService, ResponseVnpay, Quiet, keys, bills
<1>3. ASSUME NEW p, Become(s, p), p.id = b, p.pc # "idle", RoomReqOK(p), MayBegin(s, p.op)
      PROVE  RoomInv'
  BY <1>1, <1>2, <1>3, QuietStep DEF Follows
<1>4. Idle.cur = {} /\ Idle.rows = {} /\ Idle.gone = {} /\ Idle.back = {}
  BY DEF Idle
<1>5. CASE Checkin(s, b)
  <2> DEFINE row == [booking[b] EXCEPT !.is_checked_in = TRUE]
             p == [Idle EXCEPT !.pc = "load", !.op = "checkin", !.id = b, !.row = row]
  <2>1. row.is_cancel = booking[b].is_cancel /\ row.is_checked_out = booking[b].is_checked_out
    BY <1>1 DEF Row
  <2> HIDE DEF row
  <2>2. p.pc = "load" /\ p.op = "checkin" /\ p.id = b /\ p.row = row /\ p.rows = {} /\ p.cur = {}
    BY DEF Idle
  <2>3. Become(s, p) /\ MayBegin(s, "checkin")
    BY <1>5 DEF Checkin, row
  <2> HIDE DEF p
  <2>4. RoomReqOK(p)
    BY <2>1, <2>2 DEF RoomReqOK, SaveOK, Asking, Making, Saves, Calling
  <2> QED BY <1>3, <2>2, <2>3, <2>4
<1>6. CASE Cancel(s, b)
  <2> DEFINE row == [booking[b] EXCEPT !.state = "Reject", !.is_cancel = TRUE]
             p == [Idle EXCEPT !.pc = "load", !.op = "cancel", !.id = b, !.row = row,
                               !.rows = link[b]]
  <2>1. row.is_cancel /\ ~row.is_checked_in /\ ~booking[b].is_checked_in
    BY <1>1, <1>6 DEF Row, Cancel
  <2>2. Become(s, p) /\ MayBegin(s, "cancel")
    BY <1>6 DEF Cancel
  <2> HIDE DEF row
  <2>3. p.pc = "load" /\ p.op = "cancel" /\ p.id = b /\ p.row = row /\ p.rows = link[b]
          /\ p.cur = {}
    BY DEF Idle
  <2> HIDE DEF p
  <2>4. RoomReqOK(p)
    BY <2>1, <2>3 DEF RoomReqOK, SaveOK, Asking, Making, Saves, Calling
  <2> QED BY <1>3, <2>2, <2>3, <2>4
<1>7. CASE Checkout(s, b)
  <2> DEFINE row == [booking[b] EXCEPT !.state = "Done", !.is_checked_out = TRUE]
             cms == booking[b].state = "AdminInit"
             p == [Idle EXCEPT !.pc = "load", !.op = "checkout", !.id = b, !.row = row,
                               !.rows = link[b], !.is_cms = cms]
  <2>1. row.is_checked_out /\ row.is_checked_in /\ booking[b].is_checked_in
    BY <1>1, <1>7 DEF Row, Checkout
  <2>2. Become(s, p) /\ MayBegin(s, "checkout")
    BY <1>7 DEF Checkout
  <2> HIDE DEF row, cms
  <2>3. p.pc = "load" /\ p.op = "checkout" /\ p.id = b /\ p.row = row /\ p.rows = link[b]
          /\ p.cur = {}
    BY DEF Idle
  <2> HIDE DEF p
  <2>4. RoomReqOK(p)
    BY <2>1, <2>3 DEF RoomReqOK, SaveOK, Asking, Making, Saves, Calling
  <2> QED BY <1>3, <2>2, <2>3, <2>4
<1>8. CASE AddService(s, b)
  <2>1. PICK used \in SUBSET Usages :
          Become(s, [Idle EXCEPT !.pc = "adding", !.op = "addService", !.id = b,
                                 !.todo = {UsedRow(u) : u \in used}])
    BY <1>8 DEF AddService
  <2> DEFINE todo == {UsedRow(u) : u \in used}
             p == [Idle EXCEPT !.pc = "adding", !.op = "addService", !.id = b, !.todo = todo]
  <2>2. todo \subseteq UsedRows
    BY DEF UsedRow, UsedRows
  <2>3. Become(s, p) /\ MayBegin(s, "addService")
    BY <1>8, <2>1 DEF AddService
  <2> HIDE DEF todo
  <2>4. p.pc = "adding" /\ p.op = "addService" /\ p.id = b /\ p.todo = todo
    BY DEF Idle
  <2> HIDE DEF p
  <2>5. RoomReqOK(p)
    BY <2>2, <2>4 DEF RoomReqOK, Asking, Making, Saves, Calling
  <2> QED BY <1>3, <2>3, <2>4, <2>5
<1>9. CASE ResponseVnpay(s, b)
  <2> DEFINE rows == link[b] \cap {BillRow(0)}
             p(code) == [Idle EXCEPT !.pc = "bill_load", !.op = "response_vnpay", !.id = b,
                                     !.code = code, !.rows = rows]
  <2>1. PICK code : Become(s, p(code)) /\ MayBegin(s, "response_vnpay")
    BY <1>9 DEF ResponseVnpay
  <2>2. rows \subseteq {BillRow(0)}
    OBVIOUS
  <2> HIDE DEF rows
  <2>3. /\ p(code).pc = "bill_load" /\ p(code).op = "response_vnpay" /\ p(code).id = b
        /\ p(code).rows = rows /\ p(code).gone = {} /\ p(code).back = {}
    BY DEF Idle
  <2> HIDE DEF p
  <2>4. RoomReqOK(p(code))
    BY <2>2, <2>3 DEF RoomReqOK, Asking, Making, Saves, Calling
  <2> QED BY <1>3, <2>1, <2>3, <2>4
<1> QED BY <1>5, <1>6, <1>7, <1>8, <1>9

\* The SELECT of a save finds the rooms that were loaded, and either the end the
\* save is to write differs, or it is there already.
LEMMA RoomSaveLoad ==
  ASSUME MakersAlone, TypeOK, PaymentInv, RoomInv, NEW s \in Slots, SaveLoad(s)
  PROVE  RoomInv'
<1> DEFINE q == req[s]
           managed == IF ManagesRelations(q) THEN link[q.id] ELSE q.rows
           diff == Differs(q.row, booking[q.id])
           p == [q EXCEPT !.pc = "flush", !.diff = diff, !.gone = managed \ q.rows,
                          !.back = q.rows \ managed]
<1>1. RoomReqOK(q) /\ q \in RequestRecord /\ q.pc = "load" /\ q.id \in Ids
  BY OnBooked DEF SaveLoad, BeforeInsert, RoomInv
<1>2. q.op \in {"create", "checkin", "cancel", "checkout"} /\ SaveOK(q)
  BY <1>1 DEF RoomReqOK, Saves
<1>3. ((managed \ q.rows) \cup (q.rows \ managed)) \cap RoomRows = {}
  BY <1>1, <1>2 DEF RoomReqOK, ManagesRelations, Saves
<1>4. booking[q.id] \in Row /\ q.row \in Row
  BY <1>1 DEF TypeOK, TablesType, RequestRecord
<1>5. /\ q.row.is_cancel => "is_cancel" \in diff \/ booking[q.id].is_cancel
      /\ q.row.is_checked_out => "is_checked_out" \in diff \/ booking[q.id].is_checked_out
  BY <1>4 DEF Differs, Columns, Row
<1>6. Become(s, p)
  BY DEF SaveLoad
<1> HIDE DEF managed, diff
<1>7. /\ p.pc = "flush" /\ p.op = q.op /\ p.id = q.id /\ p.row = q.row /\ p.rows = q.rows
      /\ p.cur = q.cur /\ p.diff = diff /\ p.gone = managed \ q.rows /\ p.back = q.rows \ managed
  BY <1>1 DEF RequestRecord
<1> HIDE DEF p, q
<1>8. SaveOK(p)
  BY <1>2, <1>7 DEF SaveOK
<1>9. FlushOK(p)
  BY <1>2, <1>3, <1>5, <1>7 DEF SaveOK, FlushOK
<1>10. p.op \in {"cancel", "checkout"} => p.rows \cap RoomRows = link[p.id] \cap RoomRows
  BY <1>1, <1>7 DEF RoomReqOK, Saves
<1>11. RoomReqOK(p)
  BY <1>2, <1>7, <1>8, <1>9, <1>10 DEF RoomReqOK, Asking, Making, Saves, Calling
<1> QED BY <1>1, <1>6, <1>7, <1>11, QuietStep, TablesQuiet DEF SaveLoad, Follows, q

\* A steady step preserves the invariant if what it goes on with is all right.
LEMMA SteadyStep ==
  ASSUME MakersAlone, TypeOK, PaymentInv, RoomInv, NEW s \in Slots, NEW q, Become(s, q),
         Follows(s, q), req[s].pc # "idle", RoomReqOK(q)', Steady, LiveRoomsMarked'
  PROVE  RoomInv'
<1>1. \A t \in Slots : req'[t] = IF t = s THEN q ELSE req[t]
  BY DEF Become, TypeOK
<1>2. ASSUME NEW t \in Slots PROVE RoomReqOK(req[t])'
  <2>1. CASE t # s
    BY <1>1, <2>1, OthersOK
  <2>2. CASE t = s
    BY <1>1, <2>2 DEF RoomReqOK, SaveOK, FlushOK, HeldByLive, Live, Holds, Booked
  <2> QED BY <2>1, <2>2
<1>3. (\A b \in Ids \ Booked : link[b] \cap RoomRows = {})'
  BY SteadyRooms DEF RoomInv, Steady
<1> QED BY <1>2, <1>3, LoneStep DEF RoomInv

\* What a save writes, column by column.
LEMMA WrittenColumns ==
  ASSUME NEW row \in Row, NEW mem, NEW columns
  PROVE  LET new == Written(row, mem, columns) IN
         /\ new.is_checked_in = IF "is_checked_in" \in columns THEN mem.is_checked_in
                                ELSE row.is_checked_in
         /\ new.is_checked_out = IF "is_checked_out" \in columns THEN mem.is_checked_out
                                 ELSE row.is_checked_out
         /\ new.is_cancel = IF "is_cancel" \in columns THEN mem.is_cancel ELSE row.is_cancel
         /\ new.quantity = row.quantity /\ new.stay = row.stay /\ new.user = row.user
BY DEF Written, Row

\* What a handler goes on with after its save.
LEMMA SavedRequest ==
  ASSUME NEW q \in RequestRecord
  PROVE  LET p == Saved([q EXCEPT !.diff = {}, !.gone = {}, !.back = {}]) IN
         \/ p = Idle /\ q.op # "checkout" /\ (q.op = "cancel" => q.rows \cap RoomRows = {})
         \/ /\ q.op = "cancel" /\ p.pc = "release" /\ p.op = q.op /\ p.id = q.id
            /\ p.cur = q.cur /\ p.todo = q.rows \cap RoomRows
         \/ /\ q.op = "checkout" /\ p.pc \in {"fulfil", "charge"} /\ p.op = q.op /\ p.id = q.id
            /\ p.cur = q.cur /\ p.rows = q.rows
<1> DEFINE plain == [q EXCEPT !.diff = {}, !.gone = {}, !.back = {}]
<1>1. /\ plain \in RequestRecord /\ plain.op = q.op /\ plain.id = q.id /\ plain.cur = q.cur
      /\ plain.rows = q.rows
  BY DEF RequestRecord
<1> HIDE DEF plain
<1>2. CASE q.op = "cancel"
  <2> DEFINE p == [plain EXCEPT !.pc = "release", !.todo = plain.rows \cap RoomRows]
  <2>1. /\ p.pc = "release" /\ p.op = q.op /\ p.id = q.id /\ p.cur = q.cur
        /\ p.todo = q.rows \cap RoomRows
    BY <1>1 DEF RequestRecord
  <2>2. Saved(plain) = Rest(p)
    BY <1>1, <1>2 DEF Saved, Releasing
  <2> HIDE DEF p
  <2>3. Rest(p) = p \/ (Rest(p) = Idle /\ p.todo = {})
    BY DEF Rest
  <2> QED BY <1>2, <2>1, <2>2, <2>3 DEF plain
<1>3. CASE q.op = "checkout"
  <2> DEFINE p == [plain EXCEPT !.pc = IF plain.is_cms THEN "fulfil" ELSE "charge"]
  <2>1. /\ p.pc \in {"fulfil", "charge"} /\ p.op = q.op /\ p.id = q.id /\ p.cur = q.cur
        /\ p.rows = q.rows
    BY <1>1 DEF RequestRecord
  <2>2. Saved(plain) = p
    BY <1>1, <1>3 DEF Saved
  <2> HIDE DEF p
  <2> QED BY <1>3, <2>1, <2>2 DEF plain
<1>4. CASE q.op \notin {"cancel", "checkout"}
  <2>1. Saved(plain) = Idle
    BY <1>1, <1>4 DEF Saved
  <2> QED BY <1>4, <2>1 DEF plain
<1> QED BY <1>2, <1>3, <1>4

\* A save ends a booking or leaves it as live as it was, and attaches no room.
LEMMA FlushLife ==
  ASSUME MakersAlone, TypeOK, PaymentInv, RoomInv, NEW s \in Slots, SaveFlush(s)
  PROVE  LET q == req[s] IN
         /\ UNCHANGED <<next_id, is_booking>>
         /\ \A b \in Ids : link'[b] \cap RoomRows = link[b] \cap RoomRows
         /\ \A b \in Ids : b # q.id => booking'[b] = booking[b]
         /\ q.op \in {"create", "cancel", "checkout"} =>
              booking'[q.id].is_cancel \/ booking'[q.id].is_checked_out
         /\ q.op = "checkin" => /\ booking'[q.id].is_cancel = booking[q.id].is_cancel
                                /\ booking'[q.id].is_checked_out = booking[q.id].is_checked_out
         /\ q.op \in {"cancel", "checkout"} => Steady
         /\ booking'[q.id] = Written(booking[q.id], q.row, q.diff)
<1> DEFINE q == req[s]
<1>1. RoomReqOK(q) /\ q \in RequestRecord /\ q.pc = "flush" /\ q.id \in Ids
  BY OnBooked DEF SaveFlush, BeforeInsert, RoomInv
<1>2. q.op \in {"create", "checkin", "cancel", "checkout"} /\ SaveOK(q) /\ FlushOK(q)
  BY <1>1 DEF RoomReqOK, Saves
<1>3. /\ booking' = [booking EXCEPT ![q.id] = Written(booking[q.id], q.row, q.diff)]
      /\ link' = [link EXCEPT ![q.id] = Relinked(link[q.id], q.gone, q.back)]
      /\ UNCHANGED <<next_id, is_booking>>
  BY DEF SaveFlush, keys
<1> DEFINE new == Written(booking[q.id], q.row, q.diff)
<1>4. booking[q.id] \in Row
  BY <1>1 DEF TypeOK, TablesType
<1>5. /\ new.is_checked_in = IF "is_checked_in" \in q.diff THEN q.row.is_checked_in
                             ELSE booking[q.id].is_checked_in
      /\ new.is_checked_out = IF "is_checked_out" \in q.diff THEN q.row.is_checked_out
                              ELSE booking[q.id].is_checked_out
      /\ new.is_cancel = IF "is_cancel" \in q.diff THEN q.row.is_cancel
                         ELSE booking[q.id].is_cancel
  BY <1>4, WrittenColumns
<1> HIDE DEF new
<1>6. \A b \in Ids : booking'[b] = IF b = q.id THEN new ELSE booking[b]
  BY <1>1, <1>3 DEF TypeOK, TablesType, new
<1>7. \A b \in Ids : link'[b] \cap RoomRows = link[b] \cap RoomRows
  BY <1>1, <1>2, <1>3 DEF TypeOK, TablesType, Relinked, FlushOK
<1>8. q.op \in {"create", "cancel"} => new.is_cancel
  BY <1>2, <1>5 DEF SaveOK, FlushOK
<1>9. q.op = "checkout" => new.is_checked_out
  BY <1>2, <1>5 DEF SaveOK, FlushOK
<1>10. q.op = "checkin" => /\ new.is_cancel = booking[q.id].is_cancel
                           /\ new.is_checked_out = booking[q.id].is_checked_out
  BY <1>2, <1>5 DEF SaveOK
<1>11. q.op \in {"cancel", "checkout"} => new.is_checked_in = booking[q.id].is_checked_in
  <2>1. q.row.is_checked_in \in BOOLEAN /\ booking[q.id].is_checked_in \in BOOLEAN
    BY <1>1, <1>4 DEF RequestRecord, Row
  <2> HIDE DEF q
  <2> QED BY <1>2, <1>5, <2>1 DEF SaveOK
<1>12. q.op \in {"cancel", "checkout"} => Steady
  <2> SUFFICES ASSUME q.op \in {"cancel", "checkout"}, NEW b \in Ids
               PROVE  /\ booking'[b].is_checked_in = booking[b].is_checked_in
                      /\ ~booking[b].is_checked_in /\ booking[b].is_cancel => booking'[b].is_cancel
                      /\ booking[b].is_checked_in /\ booking[b].is_checked_out
                           => booking'[b].is_checked_out
                      /\ ~booking'[b].is_cancel /\ ~booking'[b].is_checked_out => Live(b)
    BY <1>3, <1>7 DEF Steady
  <2>1. CASE b # q.id
    BY <1>6, <2>1 DEF Live
  <2>2. CASE b = q.id
    BY <1>2, <1>6, <1>8, <1>9, <1>11, <2>2 DEF SaveOK
  <2> QED BY <2>1, <2>2
<1> QED BY <1>1, <1>3, <1>6, <1>7, <1>8, <1>9, <1>10, <1>12 DEF new

\* The UPDATE of a save.
LEMMA RoomSaveFlush ==
  ASSUME MakersAlone, TypeOK, PaymentInv, RoomInv, NEW s \in Slots, SaveFlush(s)
  PROVE  RoomInv'
<1> DEFINE q == req[s]
<1>1. /\ RoomReqOK(q) /\ q \in RequestRecord /\ q.pc = "flush" /\ q.id \in Ids
      /\ q.op \in {"create", "checkin", "cancel", "checkout"}
  BY OnBooked DEF SaveFlush, BeforeInsert, RoomInv, RoomReqOK, Saves
<1>2. PICK p : p = Saved([q EXCEPT !.diff = {}, !.gone = {}, !.back = {}])
  OBVIOUS
<1>3. Become(s, p)
  BY <1>2 DEF SaveFlush
<1>4. /\ UNCHANGED <<next_id, is_booking>>
      /\ \A b \in Ids : link'[b] \cap RoomRows = link[b] \cap RoomRows
      /\ \A b \in Ids : b # q.id => booking'[b] = booking[b]
      /\ q.op \in {"create", "cancel", "checkout"} =>
           booking'[q.id].is_cancel \/ booking'[q.id].is_checked_out
      /\ q.op = "checkin" => /\ booking'[q.id].is_cancel = booking[q.id].is_cancel
                             /\ booking'[q.id].is_checked_out = booking[q.id].is_checked_out
      /\ q.op \in {"cancel", "checkout"} => Steady
  BY FlushLife
<1>5. \/ p = Idle
      \/ /\ q.op = "cancel" /\ p.pc = "release" /\ p.op = q.op /\ p.cur = q.cur
      \/ /\ q.op = "checkout" /\ p.pc \in {"fulfil", "charge"} /\ p.op = q.op /\ p.id = q.id
         /\ p.cur = q.cur /\ p.rows = q.rows
  BY <1>1, <1>2, SavedRequest
<1>6. q.cur = {} /\ (q.op = "checkout" => q.rows \cap RoomRows = link[q.id] \cap RoomRows)
  BY <1>1 DEF RoomReqOK, SaveOK, Saves
<1> HIDE DEF q
<1>7. RoomReqOK(p)'
  <2>1. CASE p = Idle
    BY <2>1 DEF RoomReqOK, Idle, Asking, Saves, Making, Calling
  <2>2. CASE q.op = "cancel" /\ p.pc = "release" /\ p.op = q.op /\ p.cur = q.cur
    BY <1>6, <2>2 DEF RoomReqOK, Asking, Saves, Making, Calling
  <2>3. CASE /\ q.op = "checkout" /\ p.pc \in {"fulfil", "charge"} /\ p.op = q.op
             /\ p.id = q.id /\ p.cur = q.cur /\ p.rows = q.rows
    BY <1>1, <1>4, <1>6, <2>3 DEF RoomReqOK, Asking, Saves, Making, Calling
  <2> QED BY <1>5, <2>1, <2>2, <2>3
<1>8. Booked' = Booked /\ \A r : \A b \in Ids : Holds(b, r)' <=> Holds(b, r)
  BY <1>4 DEF Booked, Holds
<1>9. LiveRoomsMarked'
  <2>1. \A b \in Ids : Live(b)' => Live(b)
    BY <1>1, <1>4 DEF Live
  <2> QED BY <1>4, <1>8, <2>1 DEF RoomInv, LiveRoomsMarked, Booked
<1>10. (\A b \in Ids \ Booked : link[b] \cap RoomRows = {})'
  BY <1>4, <1>8 DEF RoomInv
<1>11. Follows(s, p) /\ q.pc # "idle"
  BY <1>1, <1>5 DEF Follows, Idle, q
<1>12. CASE q.op \in MakingLive
  BY <1>3, <1>7, <1>9, <1>10, <1>11, <1>12, AloneStep DEF q
<1>13. CASE q.op \notin MakingLive
  BY <1>1, <1>3, <1>4, <1>7, <1>9, <1>11, <1>13, SteadyStep DEF q, MakingLive
<1> QED BY <1>12, <1>13
-----------------------------------------------------------------------------
(* Releasing rooms, adding services, the callback *)

\* Past its save a checkout still knows the rooms of the booking.
LEMMA RoomFulfilBills ==
  ASSUME MakersAlone, TypeOK, PaymentInv, RoomInv, NEW s \in Slots, FulfilBills(s)
  PROVE  RoomInv'
<1> DEFINE q == req[s]
           p == [q EXCEPT !.pc = "charge"]
<1>1. RoomReqOK(q) /\ q \in RequestRecord /\ q.pc = "fulfil" /\ q.id \in Ids
  BY OnBooked DEF FulfilBills, BeforeInsert, RoomInv
<1>2. p.pc = "charge" /\ p.op = q.op /\ p.id = q.id /\ p.rows = q.rows /\ p.cur = q.cur
  BY <1>1 DEF RequestRecord
<1>3. Become(s, p) /\ Quiet
  BY DEF FulfilBills, Quiet, keys
<1> HIDE DEF p, q
<1>4. RoomReqOK(p)
  BY <1>1, <1>2 DEF RoomReqOK, Asking, Making, Saves, Calling
<1> QED BY <1>1, <1>2, <1>3, <1>4, QuietStep DEF Follows, q

\* The service bill is no room.
LEMMA RoomChargeServices ==
  ASSUME MakersAlone, TypeOK, PaymentInv, RoomInv, NEW s \in Slots, ChargeServices(s)
  PROVE  RoomInv'
<1> DEFINE q == req[s]
           p == [q EXCEPT !.pc = "release", !.todo = q.rows \cap RoomRows]
<1>1. RoomReqOK(q) /\ q \in RequestRecord /\ q.pc = "charge" /\ q.id \in Ids
  BY OnBooked DEF ChargeServices, BeforeInsert, RoomInv
<1>2. p.pc = "release" /\ p.op = q.op /\ p.id = q.id /\ p.cur = q.cur
  BY <1>1 DEF RequestRecord
<1>3. Quiet
  <2>1. \A b \in Ids : link'[b] \cap RoomRows = link[b] \cap RoomRows
    BY <1>1, ChildKinds DEF ChargeServices, TypeOK, TablesType
  <2> QED BY <2>1 DEF Quiet, ChargeServices, keys
<1>4. Become(s, Rest(p))
  BY DEF ChargeServices, Releasing
<1> HIDE DEF p, q
<1>5. RoomReqOK(p)
  BY <1>1, <1>2 DEF RoomReqOK, Asking, Making, Saves, Calling
<1>6. CASE Rest(p) = Idle
  BY <1>1, <1>3, <1>4, <1>6, IdleQuiet DEF q
<1>7. CASE Rest(p) = p
  BY <1>1, <1>2, <1>3, <1>4, <1>5, <1>7, QuietStep DEF Follows, q
<1> QED BY <1>6, <1>7 DEF Rest

\* Only a room that no live booking holds is to be released.
LEMMA RoomCheckRoom ==
  ASSUME MakersAlone, TypeOK, PaymentInv, RoomInv, NEW s \in Slots, CheckRoom(s)
  PROVE  RoomInv'
<1> DEFINE q == req[s]
           p(c) == [q EXCEPT !.todo = @ \ {c}]
           r(c) == [p(c) EXCEPT !.cur = @ \cup {c}]
<1>1. RoomReqOK(q) /\ q \in RequestRecord /\ q.pc = "release" /\ q.id \in Ids
  BY OnBooked DEF CheckRoom, BeforeInsert, RoomInv
<1>2. PICK c \in q.todo : Become(s, Rest(IF HeldByLive(c.room) THEN p(c) ELSE r(c)))
  BY DEF CheckRoom
<1>3. /\ p(c).pc = q.pc /\ p(c).op = q.op /\ p(c).id = q.id /\ p(c).cur = q.cur
      /\ r(c).pc = q.pc /\ r(c).op = q.op /\ r(c).id = q.id /\ r(c).cur = q.cur \cup {c}
  BY <1>1 DEF RequestRecord
<1> HIDE DEF p, r, q
<1>4. PICK n : /\ Become(s, Rest(n)) /\ n.pc = q.pc /\ n.op = q.op /\ n.id = q.id
               /\ \A d \in n.cur : d \in q.cur \/ ~HeldByLive(d.room)
  <2>1. CASE HeldByLive(c.room)
    BY <1>2, <1>3, <2>1
  <2>2. CASE ~HeldByLive(c.room)
    BY <1>2, <1>3, <2>2
  <2> QED BY <2>1, <2>2
<1>5. RoomReqOK(n)
  BY <1>1, <1>4 DEF RoomReqOK, Asking, Making, Saves, Calling
<1>6. Quiet
  BY TablesQuiet DEF CheckRoom
<1>7. CASE Rest(n) = Idle
  BY <1>1, <1>4, <1>6, <1>7, IdleQuiet DEF q
<1>8. CASE Rest(n) = n
  BY <1>1, <1>4, <1>5, <1>6, <1>8, QuietStep DEF Follows, q
<1> QED BY <1>7, <1>8 DEF Rest

\* No live booking has come into the room since it was asked.
LEMMA RoomReleaseRoom ==
  ASSUME MakersAlone, TypeOK, PaymentInv, RoomInv, NEW s \in Slots, ReleaseRoom(s)
  PROVE  RoomInv'
<1> DEFINE q == req[s]
<1>1. RoomReqOK(q) /\ q \in RequestRecord /\ q.pc = "release" /\ q.id \in Ids
  BY OnBooked DEF ReleaseRoom, BeforeInsert, RoomInv
<1>2. PICK c \in q.cur : /\ is_booking' = [is_booking EXCEPT ![c.room] = FALSE]
                         /\ Become(s, Rest([q EXCEPT !.cur = @ \ {c}]))
  BY DEF ReleaseRoom
<1>3. PICK n : n = [q EXCEPT !.cur = @ \ {c}]
  OBVIOUS
<1>4. PICK p : p = Rest(n)
  OBVIOUS
<1>5. n.pc = q.pc /\ n.op = q.op /\ n.cur = q.cur \ {c}
  BY <1>1, <1>3 DEF RequestRecord
<1>6. UNCHANGED <<booking, next_id, link>>
  BY DEF ReleaseRoom, keys
<1>7. Steady
  BY <1>6 DEF Steady, Live
<1>8. LiveRoomsMarked'
  <2>1. ~HeldByLive(c.room)
    BY <1>1, <1>2 DEF RoomReqOK
  <2>2. \A r \in Rooms : r # c.room => is_booking'[r] = is_booking[r]
    BY <1>2 DEF TypeOK, TablesType
  <2> QED BY <1>6, <2>1, <2>2
          DEF RoomInv, LiveRoomsMarked, HeldByLive, Booked, Live, Holds
<1>9. RoomReqOK(p)'
  <2>1. CASE p = Idle
    BY <2>1 DEF RoomReqOK, Idle, Asking, Saves, Making, Calling
  <2>2. CASE p = n
    <3>1. \A d \in n.cur : ~HeldByLive(d.room)'
      BY <1>1, <1>5, <1>7, SteadyRooms DEF RoomReqOK
    <3> HIDE DEF q
    <3> QED BY <1>1, <1>5, <2>2, <3>1 DEF RoomReqOK, Asking, Saves, Making, Calling
  <2> QED BY <1>4, <2>1, <2>2 DEF Rest
<1>10. Follows(s, p) /\ q.pc # "idle"
  BY <1>1, <1>4, <1>5 DEF Follows, Rest, Idle
<1>11. Become(s, p)
  BY <1>2, <1>3, <1>4
<1> QED BY <1>7, <1>8, <1>9, <1>10, <1>11, SteadyStep

\* Services are no rooms.
LEMMA RoomInsertUsage ==
  ASSUME MakersAlone, TypeOK, PaymentInv, RoomInv, NEW s \in Slots, InsertUsage(s)
  PROVE  RoomInv'
<1> DEFINE q == req[s]
           p(c) == [q EXCEPT !.todo = @ \ {c}]
<1>1. /\ RoomReqOK(q) /\ q \in RequestRecord /\ q.pc = "adding" /\ q.id \in Ids
      /\ q.op = "addService" /\ q.todo \subseteq UsedRows
  BY OnBooked DEF InsertUsage, BeforeInsert, RoomInv, RoomReqOK
<1>2. PICK c \in q.todo : /\ link' = [link EXCEPT ![q.id] = @ \cup {c}]
                          /\ Become(s, Rest(p(c)))
  BY DEF InsertUsage
<1>3. p(c).pc = q.pc /\ p(c).op = q.op /\ p(c).id = q.id /\ p(c).todo \subseteq q.todo
  BY <1>1 DEF RequestRecord
<1>4. Quiet
  <2>1. c \notin RoomRows
    BY <1>1, <1>2, ChildKinds
  <2>2. \A b \in Ids : link'[b] \cap RoomRows = link[b] \cap RoomRows
    BY <1>1, <1>2, <2>1 DEF TypeOK, TablesType
  <2> QED BY <2>2 DEF Quiet, InsertUsage, keys
<1> HIDE DEF p, q
<1>5. RoomReqOK(p(c))
  BY <1>1, <1>3 DEF RoomReqOK, Asking, Making, Saves, Calling
<1>6. CASE Rest(p(c)) = Idle
  BY <1>1, <1>2, <1>4, <1>6, IdleQuiet DEF q
<1>7. CASE Rest(p(c)) = p(c)
  BY <1>1, <1>2, <1>3, <1>4, <1>5, <1>7, QuietStep DEF Follows, q
<1> QED BY <1>6, <1>7 DEF Rest

\* The callback attaches and detaches bills only.
LEMMA RoomCallback ==
  ASSUME MakersAlone, TypeOK, PaymentInv, RoomInv, NEW s \in Slots,
         BillLoad(s) \/ BillFlush(s) \/ SetState(s)
  PROVE  RoomInv'
<1> DEFINE q == req[s]
<1>1. /\ RoomReqOK(q) /\ q \in RequestRecord /\ q.pc \in Calling /\ q.id \in Ids
      /\ q.op = "response_vnpay" /\ q.rows \cup q.gone \cup q.back \subseteq {BillRow(0)}
  BY OnBooked DEF BillLoad, BillFlush, SetState, BeforeInsert, Calling, RoomInv, RoomReqOK
<1>2. ASSUME NEW p, Become(s, p), p.pc \in Calling, p.op = q.op, p.id = q.id,
             p.rows \cup p.gone \cup p.back \subseteq {BillRow(0)}, Quiet
      PROVE  RoomInv'
  <2> HIDE DEF q
  <2>1. RoomReqOK(p)
    BY <1>1, <1>2 DEF RoomReqOK, Asking, Making, Saves, Calling
  <2> QED BY <1>1, <1>2, <2>1, QuietStep DEF Follows, q, Calling
<1>3. CASE BillLoad(s)
  <2> DEFINE linked == link[q.id] \cap {BillRow(0)}
             diff == IF bill[q.id] = Outcome(q.code) THEN {} ELSE {"payment_state"}
             p == [q EXCEPT !.pc = "bill_flush", !.diff = diff, !.gone = linked \ q.rows,
                            !.back = q.rows \ linked]
  <2>1. Become(s, p) /\ Quiet
    BY <1>3, TablesQuiet DEF BillLoad
  <2> HIDE DEF diff
  <2>2. /\ p.pc = "bill_flush" /\ p.op = q.op /\ p.id = q.id /\ p.rows = q.rows
        /\ p.gone = linked \ q.rows /\ p.back = q.rows \ linked
    BY <1>1 DEF RequestRecord
  <2> HIDE DEF p, q
  <2> QED BY <1>1, <1>2, <2>1, <2>2 DEF Calling
<1>4. CASE BillFlush(s)
  <2> DEFINE p == [q EXCEPT !.pc = "set_state", !.diff = {}, !.gone = {}, !.back = {}]
  <2>1. link' = [link EXCEPT ![q.id] = (link[q.id] \ q.gone) \cup q.back]
    BY <1>4 DEF BillFlush, Relinked
  <2>2. \A b \in Ids : link'[b] \cap RoomRows = link[b] \cap RoomRows
    BY <1>1, <2>1, ChildKinds DEF TypeOK, TablesType
  <2>3. Quiet
    BY <1>4, <2>2 DEF BillFlush, Quiet, keys
  <2>4. Become(s, Idle) \/ Become(s, p)
    BY <1>4 DEF BillFlush
  <2>5. /\ p.pc = "set_state" /\ p.op = q.op /\ p.id = q.id /\ p.rows = q.rows
        /\ p.gone = {} /\ p.back = {}
    BY <1>1 DEF RequestRecord
  <2> HIDE DEF p
  <2>6. CASE Become(s, Idle)
    BY <1>1, <2>3, <2>6, IdleQuiet DEF Calling
  <2>7. CASE Become(s, p)
    BY <1>1, <1>2, <2>3, <2>5, <2>7 DEF Calling
  <2> QED BY <2>4, <2>6, <2>7
<1>5. CASE SetState(s)
  <2>1. \A state : \A row \in Row :
          /\ [row EXCEPT !.state = state].is_checked_in = row.is_checked_in
          /\ [row EXCEPT !.state = state].is_checked_out = row.is_checked_out
          /\ [row EXCEPT !.state = state].is_cancel = row.is_cancel
    BY DEF Row
  <2>2. PICK state : booking' = [booking EXCEPT ![q.id] = [booking[q.id] EXCEPT !.state = state]]
    BY <1>5 DEF SetState
  <2>3. \A b \in Ids : booking[b] \in Row
    BY DEF TypeOK, TablesType
  <2>4. \A b \in Ids : booking'[b] = IF b = q.id THEN [booking[b] EXCEPT !.state = state]
                                     ELSE booking[b]
    BY <1>1, <2>2 DEF TypeOK, TablesType
  <2>5. \A b \in Ids : /\ booking'[b].is_checked_in = booking[b].is_checked_in
                       /\ booking'[b].is_checked_out = booking[b].is_checked_out
                       /\ booking'[b].is_cancel = booking[b].is_cancel
    <3> TAKE b \in Ids
    <3>1. CASE b = q.id
      <4>1. booking'[b] = [booking[b] EXCEPT !.state = state]
        BY <2>4, <3>1
      <4> QED BY <2>1, <2>3, <4>1
    <3>2. CASE b # q.id
      BY <2>4, <3>2
    <3> QED BY <3>1, <3>2
  <2>6. Quiet
    BY <1>5, <2>5 DEF SetState, Quiet, keys
  <2> QED BY <1>1, <1>5, <2>6, IdleQuiet DEF SetState, Calling
<1> QED BY <1>3, <1>4, <1>5
-----------------------------------------------------------------------------
\* Every step preserves the invariant.
LEMMA RoomStep == MakersAlone /\ TypeOK /\ PaymentInv /\ RoomInv /\ [Next]_vars => RoomInv'
<1> SUFFICES ASSUME MakersAlone, TypeOK, PaymentInv, RoomInv, [Next]_vars PROVE RoomInv'
  OBVIOUS
<1>1. ASSUME NEW s \in Slots, Begin(s) PROVE RoomInv'
  BY <1>1, RoomPrepare, RoomBeginOn DEF Begin
<1>2. ASSUME NEW s \in Slots, Continue(s) PROVE RoomInv'
  BY <1>2, RoomPrepareShared, RoomFindCustomer, RoomInsertBooking, RoomCreateBill,
     RoomMarkRoom, RoomBookRoom, RoomReply, RoomSaveLoad, RoomSaveFlush, RoomFulfilBills,
     RoomChargeServices, RoomCheckRoom, RoomReleaseRoom, RoomInsertUsage, RoomCallback
  DEF Continue
<1>3. ASSUME NEW s \in Slots, Fail(s) PROVE RoomInv'
  BY <1>3, RoomFail
<1>4. CASE UNCHANGED vars
  BY <1>4 DEF vars, RoomInv, Lone, LiveRoomsMarked, RoomReqOK, SaveOK, FlushOK,
              HeldByLive, Live, Holds, Booked
<1> QED BY <1>1, <1>2, <1>3, <1>4 DEF Next

\* When the handlers that make a booking live run alone, the invariant above
\* holds in every state, whatever else overlaps or fails.
THEOREM RoomsConsistent == MakersAlone /\ Spec => []RoomInv
<1>1. Spec => []TypeOK /\ []PaymentInv
  BY TypeCorrect, PaymentsConsistent
<1>2. SUFFICES ASSUME MakersAlone PROVE Spec => []RoomInv
  OBVIOUS
<1>3. TypeOK /\ PaymentInv /\ RoomInv /\ [Next]_vars => RoomInv'
  BY <1>2, RoomStep
<1> QED BY <1>1, <1>3, RoomInit, PTL DEF Spec

\* The rooms of live bookings are marked, so that _prepare's first query never
\* offers one.
THEOREM RoomsOfTheLiveAreMarked == MakersAlone /\ Spec => []LiveRoomsMarked
<1>1. RoomInv => LiveRoomsMarked
  BY DEF RoomInv
<1> QED BY <1>1, RoomsConsistent, PTL
=============================================================================
