------------------------------ MODULE Accounting ------------------------------
(***************************************************************************)
(* What a stay costs and what the reports say it earned: the amounts of     *)
(* booking.service.ts and the statistics of stats.service.ts.               *)
(*                                                                         *)
(* A booking keeps the price of its room type and a used service the price  *)
(* of its service as they were; the bill of the services, the invoice and   *)
(* the lists of services and types use the prices there are now.            *)
(*                                                                         *)
(* Amounts with a percentage off are counted in hundredths.  Every amount   *)
(* ends in an integer column, which takes no fraction and has a largest     *)
(* value: a bill that does not fit is not saved.                            *)
(***************************************************************************)
EXTENDS Integers, Sequences, FiniteSets, Functions

CONSTANTS
  Ticks,        \* instants per day
  MonthDays,    \* days per month
  YearMonths,   \* months per year
  Years,        \* years reports are asked for
  Stays,        \* [checkin, checkout] guests ask for, in instants
  TypeRooms,    \* types of rooms
  Services,     \* services
  Prices,       \* prices of types and services
  Quantities,   \* numbers of rooms
  Portions,     \* how often a service is used
  Offers,       \* promotions: [discount, condition]
  NoOffer,      \* no promotion covers the checkin
  MaxInteger,   \* largest value of an integer column
  MaxBookings, MaxUses, MaxBills, MaxReprices  \* bounds: rows, and changes of price

ASSUME AccountingAssumption ==
  /\ {Ticks, MonthDays, YearMonths} \subseteq Nat \ {0}
  /\ {MaxInteger, MaxBookings, MaxUses, MaxBills, MaxReprices} \subseteq Nat
  /\ Years \subseteq Nat /\ Prices \subseteq Nat /\ Quantities \cup Portions \subseteq Nat \ {0}
  /\ Stays \subseteq [checkin : Nat, checkout : Nat]
  /\ Offers \subseteq [discount : 0 .. 100, condition : Nat] /\ NoOffer \notin Offers

VARIABLES
  type_price,     \* type_room.price
  service_price,  \* service.price
  booking,        \* table booking, in the order of insertion
  used,           \* table used_service
  bill,           \* table bill
  reprices        \* how often a price was changed

accounting_vars == <<type_price, service_price, booking, used, bill, reprices>>

Bookings == DOMAIN booking
AccountingType ==
  /\ type_price \in [TypeRooms -> Prices] /\ service_price \in [Services -> Prices]
  /\ booking \in Seq([type : TypeRooms, checkin : Nat, checkout : Nat, price : Prices,
                      quantity : Quantities, discount : 0 .. 100, rooms : Quantities \cup {0},
                      out : BOOLEAN, state : {"Init", "Success", "Done", "Reject"}])
  /\ used \in Seq([booking : Bookings, service : Services, price : Prices, quantity : Portions])
  /\ bill \in Seq([booking : Bookings, for : {"Room", "Service"}, amount : 0 .. MaxInteger])
  /\ reprices \in 0 .. MaxReprices

AccountingInit ==
  /\ type_price \in [TypeRooms -> Prices] /\ service_price \in [Services -> Prices]
  /\ booking = <<>> /\ used = <<>> /\ bill = <<>> /\ reprices = 0
-----------------------------------------------------------------------------
(* Days *)

Date(t) == t \div Ticks
Distance(d1, d2) == IF d1 <= d2 THEN d2 - d1 ELSE d1 - d2
\* Mutant: rounded down
DaysDiffMutant(d1, d2) == Distance(d1, d2) \div Ticks
\* _daysDiff, of both services: absolute, rounded up
DaysDiff(d1, d2) == (Distance(d1, d2) + Ticks - 1) \div Ticks
\* Date(checkout) - Date(checkin), as SQL has it
DateDiff(d1, d2) == Date(d2) - Date(d1)

Year(t) == Date(t) \div (MonthDays * YearMonths)
Month(t) == 1 + ((Date(t) \div MonthDays) % YearMonths)
-----------------------------------------------------------------------------
(* Amounts *)

Hundredths(price, quantity, days, discount) == price * quantity * days * (100 - discount)
StayAmount(b) ==
  Hundredths(b.price, b.quantity, DaysDiff(b.checkin, b.checkout), b.discount)
\* Mutant: as wide as JavaScript's numbers
FitsMutant(hundredths) == hundredths % 100 = 0
Fits(hundredths) == hundredths % 100 = 0 /\ hundredths \div 100 <= MaxInteger

UsedBy(b) == {u \in DOMAIN used : used[u].booking = b}
RecordedAmount(u) == used[u].price * used[u].quantity
Recorded(uses) == SumFunction([u \in uses |-> RecordedAmount(u)])
CurrentAmount(u) == service_price[used[u].service] * used[u].quantity
-----------------------------------------------------------------------------
(* booking.service.ts *)

\* create and cmsCreate; a bill that does not fit leaves a cancelled booking,
\* or at the desk one without rooms
Book(type, stay, quantity, offer, atDesk) ==
  /\ Len(booking) < MaxBookings
  /\ LET applies == offer # NoOffer /\ type_price[type] * quantity >= offer.condition
         discount == IF applies THEN offer.discount ELSE 0
         amount == Hundredths(type_price[type], quantity,
                              DaysDiff(stay.checkin, stay.checkout), discount)
     IN /\ booking' = Append(booking,
             [type |-> type, checkin |-> stay.checkin, checkout |-> stay.checkout,
              price |-> type_price[type], quantity |-> quantity, discount |-> discount,
              rooms |-> IF Fits(amount) THEN quantity ELSE 0, out |-> FALSE,
              state |-> IF Fits(amount) \/ atDesk THEN "Init" ELSE "Reject"])
        /\ bill' = IF ~Fits(amount) THEN bill
                   ELSE Append(bill, [booking |-> Len(booking) + 1, for |-> "Room",
                                      amount |-> amount \div 100])
  /\ UNCHANGED <<type_price, service_price, used, reprices>>

\* addService, which finished bookings take too
UseService(b, s, quantity) ==
  /\ Len(used) < MaxUses
  /\ used' = Append(used, [booking |-> b, service |-> s,
                           price |-> service_price[s], quantity |-> quantity])
  /\ UNCHANGED <<type_price, service_price, booking, bill, reprices>>

\* Mutant: the services are billed one each
ServiceBillMutant(b) == SumFunction([u \in UsedBy(b) |-> service_price[used[u].service]])
ServiceBill(b) == SumFunction([u \in UsedBy(b) |-> CurrentAmount(u)])

\* checkout of a guest who is in, as often as it is asked for; the booking is
\* saved before a service bill that does not fit fails
CheckOut(b) ==
  /\ booking[b].state # "Reject" /\ Len(bill) < MaxBills
  /\ booking' = [booking EXCEPT ![b].out = TRUE, ![b].state = "Done"]
  /\ bill' = IF ~Fits(100 * ServiceBill(b)) THEN bill
             ELSE Append(bill, [booking |-> b, for |-> "Service", amount |-> ServiceBill(b)])
  /\ UNCHANGED <<type_price, service_price, used, reprices>>

\* response_vnpay about a bill: it accepts in whatever state the booking is, and
\* refuses as long as the guest is not in
Callback(b) ==
  /\ \E n \in DOMAIN bill : bill[n].booking = b /\ bill[n].for = "Room"
  /\ \E state \in {"Success", "Reject"} :
       /\ state = "Reject" => ~booking[b].out
       /\ booking' = [booking EXCEPT ![b].state = state]
  /\ UNCHANGED <<type_price, service_price, used, bill, reprices>>

\* update of the types and of the services
Reprice(price) ==
  /\ reprices < MaxReprices /\ reprices' = reprices + 1
  /\ \/ \E type \in TypeRooms :
          type_price' = [type_price EXCEPT ![type] = price] /\ UNCHANGED service_price
     \/ \E s \in Services :
          service_price' = [service_price EXCEPT ![s] = price] /\ UNCHANGED type_price
  /\ UNCHANGED <<booking, used, bill>>

AccountingNext ==
  \/ \E type \in TypeRooms, stay \in Stays, quantity \in Quantities,
        offer \in Offers \cup {NoOffer}, atDesk \in BOOLEAN :
       Book(type, stay, quantity, offer, atDesk)
  \/ \E b \in Bookings, s \in Services, quantity \in Portions : UseService(b, s, quantity)
  \/ \E b \in Bookings : CheckOut(b) \/ Callback(b)
  \/ \E price \in Prices : Reprice(price)

AccountingSpec == AccountingInit /\ [][AccountingNext]_accounting_vars
-----------------------------------------------------------------------------
(* stats.service.ts: by the date of the checkout, if not said otherwise *)

\* Mutant: services are taken at the price they have now
EarnedMutant(b) == StayAmount(booking[b]) + 100 * ServiceBill(b)
\* revenueStats: what a checked-out booking adds to its month, in hundredths
Earned(b) == StayAmount(booking[b]) + 100 * Recorded(UsedBy(b))
OutIn(year, month) ==
  {b \in Bookings : /\ booking[b].out
                    /\ Year(booking[b].checkout) = year /\ Month(booking[b].checkout) = month}
Revenue(year, month) == SumFunction([b \in OutIn(year, month) |-> Earned(b)])

\* Mutant: from 0, as Array.from counts
MonthsMutant == 0 .. YearMonths - 1
Months == 1 .. YearMonths
\* exportRevenue: the total of the year
YearTotal(year) == SumFunction([month \in Months |-> Revenue(year, month)])

\* What the other reports ask for: Done, and not just checked out
DoneIn(from, to) ==
  {b \in Bookings : booking[b].state = "Done" /\ from <= Date(booking[b].checkout)
                                              /\ Date(booking[b].checkout) <= to}
\* revenueStatsBooking: a count for each of _getDates
CountOn(day) == Cardinality(DoneIn(day, day))
DayTotal(from, to) == SumFunction([day \in from .. to |-> CountOn(day)])

\* serviceStats: usages of one name, price and quantity are added up and one
\* such group, whichever comes first, is reported for the service
UsedIn(s, from, to) == {u \in DOMAIN used : used[u].service = s /\ used[u].booking \in DoneIn(from, to)}
Group(u, from, to) ==
  {v \in UsedIn(used[u].service, from, to) :
     used[v].price = used[u].price /\ used[v].quantity = used[u].quantity}
ServiceFigures(s, from, to) ==
  IF UsedIn(s, from, to) = {} THEN {0}
  ELSE {Recorded(Group(u, from, to)) : u \in UsedIn(s, from, to)}

\* roomStats: a group is one booked room, its figure the one of its booking,
\* and again one is reported; integers are divided towards zero
RoomFigure(b) ==
  LET full == booking[b].price * booking[b].quantity * DateDiff(booking[b].checkin, booking[b].checkout)
      off(x) == IF x < 0 THEN -((-x * booking[b].discount) \div 100) ELSE (x * booking[b].discount) \div 100
  IN full - off(full)
RoomFigures(type, from, to) ==
  LET booked == {b \in DoneIn(from, to) : booking[b].type = type /\ booking[b].rooms > 0}
  IN IF booked = {} THEN {0} ELSE {RoomFigure(b) : b \in booked}

\* caculateBooking, of which the days are missing: by the date of the checkin
ExportRow(b) ==
  Hundredths(booking[b].price, booking[b].quantity, 1, booking[b].discount)
    + 100 * Recorded(UsedBy(b))

\* export of booking.service.ts: what the guest's invoice says
Invoice(b) ==
  Hundredths(type_price[booking[b].type], booking[b].rooms, 1, booking[b].discount)
    + 100 * ServiceBill(b)
-----------------------------------------------------------------------------
RoomBills(b) == {n \in DOMAIN bill : bill[n].booking = b /\ bill[n].for = "Room"}
AsBooked(b) ==
  /\ type_price[booking[b].type] = booking[b].price
  /\ \A u \in UsedBy(b) : service_price[used[u].service] = used[u].price

\* When a guest checks out at the prices of the booking, the two bills come to
\* what the stay adds to the revenue; after a stay of one day the invoice and
\* the list of bookings say the same.
CheckoutBalances ==
  [][\A b \in Bookings :
       /\ booking'[b].out /\ ~booking[b].out /\ bill' # bill
       /\ RoomBills(b) # {} /\ AsBooked(b)
       => LET room == bill[CHOOSE n \in RoomBills(b) : TRUE].amount
              service == bill'[Len(bill')].amount
          IN /\ 100 * (room + service) = Earned(b)'
             /\ DaysDiff(booking[b].checkin, booking[b].checkout) = 1
                  => Invoice(b)' = Earned(b)' /\ ExportRow(b)' = Earned(b)'
    ]_accounting_vars

\* A month's revenue moves with a checkout in it, or with a service added to a
\* booking that was checked out in it, and only upwards: neither prices nor
\* second checkouts nor callbacks touch what was reported.
RevenueStands ==
  [][\A year \in Years, month \in Months :
       /\ Revenue(year, month)' >= Revenue(year, month)
       /\ Revenue(year, month)' # Revenue(year, month) =>
            \E b \in OutIn(year, month)' :
              b \notin OutIn(year, month) \/ UsedBy(b)' # UsedBy(b)]_accounting_vars

\* The year's export has every checked-out booking once; counted by day there
\* are fewer only by those whose state a late callback overwrote.
CountedOnce ==
  \A year \in Years :
    LET first == year * MonthDays * YearMonths
        last == first + MonthDays * YearMonths - 1
        out == {b \in Bookings : booking[b].out /\ Year(booking[b].checkout) = year}
    IN /\ YearTotal(year) = SumFunction([b \in out |-> Earned(b)])
       /\ DayTotal(first, last) = Cardinality({b \in out : booking[b].state = "Done"})

\* The lists of services and types, whichever group comes first in them, never
\* show more than the revenue has for the service or the type.
StatsWithinRevenue ==
  \A year \in Years :
    LET first == year * MonthDays * YearMonths
        last == first + MonthDays * YearMonths - 1
        out == {b \in Bookings : booking[b].out /\ Year(booking[b].checkout) = year}
    IN /\ \A s \in Services : \A figure \in ServiceFigures(s, first, last) :
            figure <= Recorded({u \in DOMAIN used : used[u].service = s /\ used[u].booking \in out})
       /\ \A type \in TypeRooms : \A figure \in RoomFigures(type, first, last) :
            100 * figure <= SumFunction([b \in {c \in out : booking[c].type = type} |-> StayAmount(booking[b])])
=============================================================================
