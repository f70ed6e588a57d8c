# Verification of the hotel booking back end

TLA+ modules, TLC configurations and TLAPS proofs for the NestJS back end in
this repository (`src/src/`). The program keeps a hotel's rooms, takes bookings
from customers and from the reception, lets them be paid through VNPay or in
cash, and closes them at check-out.

## 1. The system

One Node process serves HTTP; all state is in one PostgreSQL database reached
through TypeORM; the VNPay gateway calls back; mails go out through SMTP.
Handlers run without any lock, so two requests interleave at every `await`.

| component | state | operations |
| --- | --- | --- |
| booking (`booking/booking.service.ts`, `booked_room.service.ts`) | tables `booking`, `booked_room`, `used_service`, column `room.is_booking` | `create`, `cmsCreate`, `addService`, `checkin`, `checkout`, `cancel`; read-only `findAll`, `findOne`, `checkRoomExits`, `export` |
| bills and gateway (`bill/bill.service.ts`, `vn-pay.service.ts`, `response_vnpay` in the booking service) | table `bill` | `create` (called by both creates), `response_vnpay` (a public route, meant for the gateway) |
| price of a stay (`booking.service.ts` 101-109, 638-647) | none | `_daysDiff`, amount with discount |
| promotions (`promotion/`) | table `promotion` | `create`, `update`, `remove`, `active`, lookup in `_prepare` |
| rooms and types (`room/`) | tables `room`, `type_room`, `feature_room` | `create`, `update`, `addRoom`, `remove`, lists |
| hotel services (`services/`) | table `service` | `create`, `update`, `active`, lists |
| accounts (`user/`, `auth/`) | table `user` | `register`, `login`, `createUser`, `update`, `active` |
| roles and guards (`role/`, `auth/guard/`) | none (reads the user) | may this request enter this handler? |
| customers (`customer/`) | none of its own | two queries |
| statistics (`bill/stats.service.ts`) | none | totals per service, room type, month; exports |
| pagination (`base/service/paginate/`) | none | page, limit, sort and filter of every list |
| seeder (`shared/seeder/`) | first rows of three tables | runs at start-up |
| mailer, upload, error filter, configuration, logging, swagger (`base/`) | none | I/O and wiring |

How they interact: the booking service calls the bill service, which asks the
VNPay service for a link; it reads rooms, types, promotions, services and users
and writes `room.is_booking`. `response_vnpay` is called back about a payment; its
route is `@Public()`, nothing in `src/` verifies `vnp_SecureHash` or asks the
gateway, and the handler believes the response code of whatever call names the
order of a bill. The statistics read finished bookings.

What is hard here:

* the "transaction" of both creates runs on a query runner no statement goes
  through, so every statement commits alone and nothing is rolled back;
* `entity.save()` reads the row again and writes the columns in which the
  entity read earlier differs, so a stale entity undoes what happened meanwhile
  in the columns it carries, and a save with loaded relations detaches child
  rows that appeared since;
* room marks are kept by check-then-act (`checkoutRoom`) next to loops that set
  them;
* callbacks come at any time, are lost or repeated, may contradict each other,
  and write the booking's state blindly.

Elsewhere the same three patterns come back: a lookup before an insert
(promotions, services, e-mails), a save of an entity loaded a while ago
(accounts, promotions, services, rooms), a sequence of inserts that a crash cuts
short (seeder). `addRoom` has the one transaction its statements run in, and reads
outside of it; several overlap, of one type too. Lists are read page by page while others write, filters are
parsed from what the client sends, and the reports compute from three sources
(prices now, prices then, days) what should be one amount.

`PROJECT.json` lists each of these hazards at its line, with the properties that
cover it or, where none does, the reason.

## 2. Modules

| module | models | content |
| --- | --- | --- |
| `BookingTables` | entities and queries of `booking/` | tables, types, queries, TypeORM's `save()` as operators |
| `BookingService` | `booking.service.ts`, `bill.service.ts` | the seven handlers, one action per statement; failures; `Spec` and `FairSpec` |
| `BookingProperties` | | invariants, action properties, liveness, the instance `Ledger` |
| `PaymentLedger` | | what the books may say, given the calls about payments, as an abstract specification |
| `EntityStore` | TypeORM as the back office uses it | tables as functions of ids, requests, `save()`, `KeptApart` |
| `Promotions` | `promotion.service.ts` | `create`, `update`, `remove`, `active` |
| `Catalogue` | `services.service.ts` | `create`, `update`, `active` |
| `Accounts` | `user.service.ts`, `register`, `shared/seeder/` | accounts; start-up with crashes |
| `RoomAdmin` | `room.service.ts`, `type_room.service.ts` | rooms, types, `addRoom` in its transaction, marks by bookings |
| `BackOffice` | | the four services side by side, and what they have in common |
| `Accounting` | amounts of `booking.service.ts`, `stats.service.ts` | prices, bills, invoice and every report |
| `ListFilter` | `paginate.filter.ts` | parsing and meaning of a client's filter, as functions |
| `Listing` | `paginate.ts` and the ten lists | a client turns pages while rows are written |
| `RequestPipeline` | guards, `main.ts`, exceptions, filter, interceptor, `login` | the way of a request, while accounts change |
| `Api` | | the last two side by side |
| `MCBookingService`, `MCBackOffice`, `MCAccounting`, `MCApi` and `*.cfg` | | instances for TLC |
| `BookingProofs`, `PaymentProofs`, `RoomProofs`, `StayProofs`, `BackOfficeProofs`, `AccountingProofs`, `ApiProofs` | | theorems |

`BackOffice` and `Api` compose modules that share no table. A behaviour of the
composition is a behaviour of one of them, chosen by `desk` or `side` in the
initial state: the interleavings between them would multiply the states and show
nothing, since nothing one does is seen by the other. Where components do share
a table they are one module: bookings mark rooms inside `RoomAdmin`, the seeder
and the account handlers are both in `Accounts`, callbacks and handlers both in
`BookingService`.

### Booking and bills: state and actions

`booking`, `bill`, `link`, `is_booking`, `service_bills`, `charged`, `walk_ins`
are the tables reduced to what the properties tell apart. `link[b]` is the set
of child rows (booked rooms, used services, bills) whose foreign key points to
booking `b`; a detached row is in no set. `order[b]` is not a table but what was
exchanged about the bill: `handed`, the customer has the payment link, and
`codes`, the response codes of the calls that `response_vnpay` heeded (did not
ignore or throw on). `req[s]` is the request that slot `s` works on: the stage it is at,
the entity in its memory (`row`, `rows`) and its local variables.

An action is what runs between two awaits: the code up to and including the
next statement sent to the database. So `create` is `Create` (first query of
`_prepare`), `PrepareShared` (second query, if needed), `InsertBooking`,
`CreateBill`, then `MarkRoom` and `BookRoom` per room, `Reply`; its catch block
is `Thrown`, after which the request goes on with `InsertBooking` or with a
save. `checkin`, `cancel`, `checkout` read the row, decide and change the copy
(`Checkin`, `Cancel`, `Checkout`), save it (`SaveLoad`, the SELECT; `SaveFlush`,
the UPDATE) and go on with `FulfilBills`, `ChargeServices` and, per room in
parallel, `CheckRoom` and `ReleaseRoom`. `response_vnpay` is `ResponseVnpay`,
`BillLoad`, `BillFlush`, `SetState`: it may come as soon as a bill exists, with any
code of `ResponseCodes`, any number of times; bill and state follow the code of
the call (`Outcome`). Requests interleave between any two of
these. `Throw` (a statement of a try block fails), `Abort` (a handler without a
catch block fails, or the process dies) and `FailOne` (one call of a
`Promise.all` fails) may strike wherever a request is.

Reads in sequence that lead to no write and no decision on each other (the room
type, the promotion, the services of `addService`) are one step with the read
that matters.

Left out of these modules: amounts (see `Accounting`), dates other than the stay,
promotions, the text of mails and answers, the read-only handlers. A call about
an order no bill has throws before anything is written, and one without
`vnp_TxnRef` is left out. Momo and Zalopay, for which the code has no link, are one
payment method. Whether a call is true cannot be said in the model, as it cannot
in the code.

### Back office

`EntityStore` has the common shape. A request is `[pc, op, id, mem, diff]`: what
it does next, its operation, the row it is about, the entity in its memory and
the columns its UPDATE will write. An edit is four steps: the handler loads the
row and assigns (`UpdateService`, `ActiveUser`, ...), `Load...` is the SELECT
inside `save()`, which compares, `Flush...` the UPDATE of the columns that
differ. An insert is a lookup (`Create...`) and `Insert...`. `Abort...` is a
statement that fails or a process that dies.

* `Promotions`: days are integers; the discount decides nothing here. `update`
  ends at `CheckUpdate` without saving, because its query is refused by the
  database (`BETWWEN`).
* `Catalogue`: a name not sent is `Null`, for which `findOne` returns any row;
  the unique column refuses what the lookup let pass.
* `Accounts`: `server` goes down, starting, features, users, up; `todo` is what
  a seeder has still to insert. A crash forgets requests and keeps rows.
* `RoomAdmin`: `tx[t]` holds the uncommitted writes of an `addRoom`, the entries
  still to do and the rooms of the type it has not met. Any number overlap, of one
  type as well. `Seen` is what a transaction reads; `ReadEntry` reads `room`
  itself, as the code does. Locks on written rows, names and types hold others
  back until commit or rollback (`MayFlush`), and of two that wait for each other
  one is rolled back (`AbortRooms`). `alone` is a history variable: no other
  `addRoom` of the type has overlapped with this one.

### Accounts of a stay

`Accounting` has whole handlers as actions: the races of bookings are in
`BookingService`, here the question is which amount ends up where. Time is
counted in instants, `Ticks` to a day; amounts with a discount in hundredths.
`Fits` is the integer column of a bill. The reports are functions of the tables:
`Revenue` and `YearTotal`, `CountOn` and `DayTotal`, `ServiceFigures` and
`RoomFigures` (sets, because the group that is reported is whichever the
database returns first), `ExportRow`, `Invoice`.

### Lists and filters

A filter is a sequence of columns with statements; a statement is up to four
words and a value (`"$or:$not:$in:1,2"` has the words `$or`, `$not`, `$in`).
Values are numbers, patterns the sets of values they match, `$btw` has its two
bounds. `$contains` compares arrays, so the database refuses it on these columns
(`Refused`). Of a word without a value the code compares the column with the raw
text, which sorts somewhere among the values (`Bare`). The conditions of a
filter stand in the order of its columns and, in a column, of its statements.
`Listing` has a
table with the columns the lists sort, search and restrict by; `reader` is the
client and the request about its page: `SelectPage`, `SelectRows` (only lists
with joins), `Count`. `row` is written by `AddRow`, `UpdateRow`, `RemoveRow`.
A row's place in a list is the number of rows that `ORDER BY` puts before it;
`TableOK` says that no two rows were written at the same instant, so that the
order is total. The `select` parameter, relations in a filter
and fractional pages are left out.

### Requests

`Routes` has a record per route: public, roles asked, the guard of its
controller, whether its payload is a validated class, whether its handler sends
the answer itself. A request goes through `Authenticate`, `CheckRoles`,
`CheckClass`, `Pipe`, `Handle` (for `login`: `FindUser`, `Login`) and `Respond`;
`held` is a history variable, what the user of the request has been since it
came. What a handler does is in the other modules: here it returns, refuses,
fails, or (`Rethrowing`: both creates and `addRoom`) passes on the message of what
it caught, which may be empty (`Wordless`). A guard that reads the user may fail as
well.

### `Exclusive` and `KeptApart`

The code never keeps two requests apart, and with every handler overlapping
every other the statements about rooms are false: two creates may take the same
room, a create may race `checkoutRoom`, a stale `checkin` may undo a
cancellation. `Exclusive` names operations that come in only while no other
request is in progress. `Exclusive = {}` is the code as deployed; the statements
about money are checked and proved for it. The statements about rooms are
checked for the sets given below, which is what the code relies on without
enforcing it. The parameter makes that reliance explicit: a property under a
non-empty `Exclusive` is a statement about the handlers, not a claim that the
deployment satisfies the condition.

`KeptApart` of `EntityStore` is the same for the back office, by pairs: a set
`{op1, op2}` in it means that these two operations do not run at the same time
(`{op}`: two of the same). `KeptApart = {}` is the code as it is.

## 3. Model checking

The guards that use the bounds (`RowsReserved`, `BillsReserved`, `HasRoom`,
`GuestsReserved`, the `Max...` of the other modules) hold back new requests,
never one in progress. `CHECK_DEADLOCK FALSE` because the system may stop: once
the bounded tables are full nobody need send a request.

| run | instance | shows |
| --- | --- | --- |
| `overlap` | 1 room, 1 booking, 2 overlapping requests of any kind, VNPay and cash, callbacks with the codes 00 and 24 at any time, failures | `TypeOK`, `SuccessWasReported`, `BillMatchesCalls`, `PaidBillKept`, `ImplementsLedger` |
| `rooms_held` | 1 room, 3 bookings, stays that touch and one apart, cash and Momo (whose creates fail), 2 requests; create, cmsCreate, checkin exclusive | `LiveRoomsMarked`, `OnlyAThirdDoubles` |
| `one_at_a_time` | 2 rooms, 2 bookings of 1 or 2 rooms, stays that share a day, failures, 1 request at a time | `LinkHasItsRooms`, `NoDoubleBooking`, `LiveRoomsMarked` |
| `release` | 1 room, 2 bookings with separate stays, 1 service, cash and Momo, 2 requests, no failures, fair; create, cmsCreate, checkin, addService exclusive | `RoomFlagExact`, `CheckoutBillsServices`, `CancelledRoomsComeBack` |
| `progress` | 1 booking, 2 requests, VNPay, no failures, fair | `EveryRequestEnds`, `CallbackRecorded` |
| `back_office` | 2 requests; 2 promotions over 3 days, 2 services, 2 guests beside the seeded users, 3 rooms of 2 types, 4 lists; failures; 2 crashes of the server | `BackOfficeType`, `OnePromotionPerDay`, `RemovedStaysRemoved`, `SeededBeforeServing`, `ListBecomesRooms`, `OnlyItsOwnColumns`, `EventuallyServes` |
| `accounting` | 2 bookings, 2 uses of 1 service, 3 bills, 1 change of price; 2 instants a day, 2 days a month, 2 months a year | `AccountingType`, `CheckoutBalances`, `RevenueStands`, `CountedOnce`, `StatsWithinRevenue` |
| `requests` | 1 request of any route, 3 people, 2 changes of accounts; all ten lists, 4 rows, 2 writes, 9 queries | `ApiType`, `AnswersTruthful`, `AccessAsHeld`, `EveryRequestAnswered`, `NothingMissed`, `NothingRepeated`, `OwnRowsOnly`, `FilterSound` |

Why the bounds are enough.

* Bookings: every race is between two requests on one booking or between two
  bookings of one room. One booking with two slots gives the first kind, two
  bookings of one room the second. Stays matter only by whether they are apart,
  so two stays per instance (sharing a day, or apart) show both answers of
  `Apart`; `rooms_held` has three, and a third booking of the room, because the
  second query may be answered by another booking than the one in the way. Two
  rooms are needed where a request takes several.
* Back office: each pattern (two lookups before two inserts, a stale save) is
  between two requests on one row or one name. The periods contain a day, another
  day, one around both and one that ends before it begins. `Lists` has an insert,
  a rename, a swap of names, a deletion, the id of a room that is not of the
  type, and a room named twice; two types let two `addRoom`s overlap on one type
  and on different ones. Two crashes reach a start that finds what two
  earlier ones left.
* Accounts of a stay: the stays are within a day, over the end of a year, and
  backwards; the prices and the discount make amounts that fit, that are too
  large and that have a fraction; two bookings of the type and two uses of the
  service make a report choose between groups.
* Requests and lists: one request is enough because requests meet only in
  `account`, whose changes by others are `ChangeAccount`. Four rows and a page of
  one make up to four pages, between which two rows are written; the queries have
  pages below 1 and one that begins at the second page, limits missing and above
  the largest, orders that are valid, foreign and doubled, filters as a string, as
  an array, malformed, without a value and refused by the database.

Symmetry is used on slots or rooms, and in no run that checks liveness.

Statements that hold only with operations kept apart: `rooms_held`, `release`
(listed above) and `back_office`, where creates of promotions are apart from each
other, `active` from `remove`, operations that assign different columns of one
table from each other, marks by bookings from renames of rooms, and `update` of a
room from `addRoom` (`Apart` in `MCBackOffice`). Without that they are false: a
stale `save()` then writes back what the other request changed.
`SeededBeforeServing` and everything about money need nothing of the kind.
`one_at_a_time` has a single request. What is kept apart is not covered: the
hazards in `PROJECT.json` that bite only there (two creates taking one room or
one period, a stale `checkin`, two registrations of one e-mail, a lost edit) name no
property, or say in their note which side of them is left open.

What some properties say exactly:

* `SuccessWasReported`, `BillMatchesCalls`, `PaidBillKept` relate the books to the
  calls that were heeded, not to what the gateway did: a call is believed. What
  they exclude is that an overlapping, stale, failing or other booking's request
  puts a payment or a refusal on the books that no call reported, or takes one
  off. After calls with both codes about one bill they promise less, because which
  of the two stands depends on the order of the updates.
* `ListBecomesRooms` leaves out lists that overlapped with another `addRoom` of the
  type (`alone`): each deletes the rooms it read and did not name, neither sees
  what the other inserts, and rooms of both remain that are in neither list as a
  whole.
* `AnswersTruthful`: neither `success` nor `statusCode` tells alone what became of a
  request. An error a handler passes on without a message is answered with
  `success: true` and status 202, an unforeseen one with `statusCode` 200; the
  two together mean success only if the handler came to its end.
* `CheckoutBalances`: room bill and service bill of a first check-out come to
  what the reports add, if no price changed since the booking; the invoice and
  the list agree only for stays of one day, because both leave the days out.
* `StatsWithinRevenue`: the figures per service and per type are at most the
  revenue. They are not equal: one group of several is reported.
* `NothingMissed` holds for a client that begins with the first page, in lists by
  id and by the latest change, as long as no row leaves the list; a list by the
  earliest change misses a row when another
  one is renewed. `NothingRepeated` holds for the lists by the earliest change,
  and for those by id if no row joins the list meanwhile; a list by the latest
  change repeats a row when another is renewed.
* `AccessAsHeld` says nothing about `active`: a token given before an account
  was locked stays good, and no line of the repository says otherwise.

Four runs expect a violation; each is a disagreement between the code and a
line of the repository, found while modelling:

| run | what happens |
| --- | --- |
| `double_booking` | one request at a time, three bookings of one room: the second query of `_prepare` is satisfied by *some* apart booking of the room although another one overlaps the stay |
| `late_payment` | cancel, then the callback of the payment: `is_cancel` with state `Success`, while `Reject` is commented "don bi huy" (cancelled) |
| `late_cancel` | `checkin` between `cancel`'s read and save: a booking in use is cancelled, which `cancel` refuses ("Phòng đang được sử dụng") |
| `late_refusal` | `checkin` between the failed callback's read and its update: a checked-in booking in state `Reject`, which `checkin` refuses ("Đơn đã bị hủy") |

`NoDoubleBooking` passes in `one_at_a_time` and fails in `double_booking`: with
two bookings the answer of the second query is exact, with three it is not.
`OnlyAThirdDoubles` says that this is the whole of it: where two live bookings share
a room on a day there is a third booking of the room, live or not, that lies apart
from one of them.

### Fairness

* `FairSpec`: weak fairness of `Continue(s)` for every slot: the event loop gives
  every resolved promise its turn and the database answers. Nothing is asked of
  clients, of the gateway, or of failures. `progress` and `release` exclude
  failures because a crash legitimately ends a request anywhere.
* `BackOfficeSpec`: weak fairness of `Seed`: a process that is down is started
  again by whoever runs it, and a start goes on. Crashes are bounded, otherwise a
  server could crash at every start.
* `ApiSpec`: weak fairness of `Step(t)` for every request, for the reason given
  first.

### Mutants

Definitions named `...Mutant` are plausible bugs in the definition that follows
them (a room not marked, a loop one short, a lookup left out, a negated null
taken for true). `PROJECT.json` pairs every checked property with one that breaks
it.

## 4. Proofs

The theorems about bookings are about `Spec` with arbitrary constants under
`ConstantsAssumption` and `ServiceAssumption`: any number of rooms, types,
stays, services, bookings and overlapping requests, any `Exclusive`, with or
without failures.

* `TypeCorrect` (`BookingProofs`): `Spec => []TypeOK`. `TypeOK` is inductive as
  it stands because `Request` says that a request past its insert has an id.
* `SuccessIsReported`, `BillAgrees`, `PaidBillIsKept` (`PaymentProofs`): the three
  money properties of `overlap`. Nothing is assumed of who calls the callback,
  with which code, when or how often.

The money properties are not inductive. A handler saves an entity it read a
while ago, so they could be broken by a copy in memory that no table shows.
`PaymentInv` adds what is needed:

* `SlotOK`, of every request: a copy whose state is `Success` was backed when it was
  read, and what backs a booking (`Backed`: a success was heeded and, unless a
  refusal was too, the bill is Fulfilled) is not lost; a copy in `AdminInit`
  belongs to a cms booking, so the cash settlement never touches a customer's
  bill; a create that has made its bill has one that is not Reject unless a call
  said so; the code of a callback in progress is among those heeded;
* `TablesOK`: rows that do not exist yet have no bill, and no bill means no calls
  and no link; only cms bookings are `AdminInit`; a bill that points to a booking
  exists;
* `OneMaker`: no two creates work on the same booking, so that a room is charged
  once.

`SlotStep`, `RowStep` and `BillStep` reduce an action to what it does to the
request, to the row and to the bill; there is one lemma per action on top.

The refinement. `PaymentLedger` has five columns per booking (`handed`, `codes`,
`bill`, `confirmed`, `staff`) and says nothing of requests, statements or rooms: a
booking is entered (`Enter`), charged (`Charge`), offered a link (`Offer`), calls
report about it (`Tell`), one of the reported outcomes is recorded (`Record`), the
desk takes the money (`PayAtDesk`), it is confirmed or not (`Confirm`).
`LedgerIsSound` proves of the ledger alone that who is confirmed was reported to
have paid and that no bill says what no call reported. `BooksAreTheLedger` (also
`PaymentProofs`) proves `Spec => Ledger!Spec` under the mapping
`confirmed == state = "Success"`, `staff == user = "staff"`: under `PaymentInv` every
action of the service is one step of the ledger on one booking or a stutter; one
lemma per action again.

Rooms (`RoomProofs`, `StayProofs`). The hypotheses are those of the runs: under
`MakersAlone` create, cmsCreate and checkin are exclusive (as in `rooms_held` and
`release`; with one slot it is void), under `AddsAlone` addService is, and `~Faults`
says that no statement fails. Cancels, checkouts and callbacks still overlap each
other in any number. Without the hypotheses the properties are false, because of
saves of stale entities and of check-then-act in `checkoutRoom`; with them:

* `RoomsOfTheLiveAreMarked` (`LiveRoomsMarked`). `RoomInv` says what each handler is about to save: a cancel
  saves a booking nobody has checked in, a checkout one somebody has, so the two
  never save the same booking and neither brings one back to life; no save
  detaches a room, since nothing attaches one between the SELECT of the relations
  and the save; a room about to be released is held by no live booking.
* `LinksHaveTheirRooms` (`LinkHasItsRooms`). `LinkInv`: the rooms that a create has
  attached, is at and has still to go through are together as many as its booking
  asks for; the lemmas count the rows of `_prepare`'s two queries.
* `ThirdsAloneDouble` (`OnlyAThirdDoubles`), for any number of bookings. `DoubleInv`
  says of every room that a create has taken and not yet attached that whoever
  lives in it shares no day with the stay, or a third booking of the room lies
  apart: the first query offers rooms nobody lives in (`LiveRoomsMarked`), of the
  second the booking it found is that third. `NoRoomIsDoubled` (`NoDoubleBooking`)
  follows if there can be no such third: with two bookings at most, or if all
  stays share a day. Without either it is false (`double_booking`).
* `RoomFlagsExact` (`RoomFlagExact`). `ExactInv`: a marked room is held by a live
  booking or some handler owes it, because it is about to attach it or has it
  still to release. `~Faults` is needed: a request that dies keeps its marks.
* `ServicesAreBilled` (`CheckoutBillsServices`). `ServiceInv`: a checkout knows the
  services of its booking until it has added them up.

The back office (`BackOfficeProofs`). `DesksAreServices`: the composition behaves,
of each service, as that service alone, so what is proved of `PromotionSpec`,
`CatalogueSpec`, `AccountsSpec` and `RoomAdminSpec` holds of `BackOfficeSpec`, for
any tables and any number of requests and crashes.

* `OnePromotion`, `RemovedIsGone`, if creates are kept apart from each other and
  `active` from `remove`; nothing is asked of `update`. `PromotionInv` adds that a
  period about to be inserted is still free, that an entity about to be saved has
  the period of its row, and that one without a deletion mark belongs to a row
  without one. `ClashesIsComplete` says that the three cases of `create`'s query
  are all the ways two periods can meet, also for periods that end before they
  begin.
* `SeededFirst` (`SeededBeforeServing`) asks nothing. `SeedOK` says how far the seeders
  have come: a start that found an empty table has the admin still to insert or
  has inserted it, wherever earlier ones broke off.
* `ColumnsAreTheirOwn` (`OnlyItsOwnColumns`), if edits that assign different columns
  of one table are kept apart, and marks from `update` of rooms and `addRoom`. `EditsOK`: an entity about to be saved differs from
  its row in no column but those of its operation. `MarksInv` says the same of the
  marks of rooms, also of the rows `addRoom` has not committed. The lemmas about
  edits are stated for any table, and each service cites them.
* `ListsBecomeRooms` (`ListBecomesRooms`), if nobody renames rooms during `addRoom`,
  for any list and any number of `addRoom`s; it speaks of those that were alone
  with their type. `ListInv` relates such a transaction to the part of the list that
  is done, and says that two transactions of different types write no row in common
  (`ApartRows`): an entry that counts has its row, written, about to be written or kept;
  every room of the type that is not to be deleted has its entry; and so has every
  new row.
* `BackOfficeTyped` (`BackOfficeType`) asks nothing. An entity in memory is a row,
  and one that is saved belongs to a row that is there: `RoomAdminInv` has what of
  this is true while `addRoom` deletes rooms.

Accounts of a stay (`AccountingProofs`). The theorems are about `AccountingSpec`
under `AccountingAssumption`: any bookings, uses, bills and changes of price, any
calendar of whole ticks, any largest integer. The amounts are sums over finite
sets of rows, which the community modules define by recursion over the set. The
library's induction over finite sets takes a predicate as parameter, so the
lemmas on sums argue by a least counterexample instead (`LeastOf`: of the subsets of
a finite set for which a statement fails, one is least;
`SumIs`: a sum is what one element adds and the sum of the rest). From these: sums
of naturals are naturals, sums over disjoint parts add up, a part is at most the
whole, equal terms give equal sums, a term more adds itself.

* `AccountsWellTyped` (`AccountingType`): inductive as it stands, once a service
  bill is known to be a number.
* `AccountsInv` adds that only a booking that was checked out is `Done`, that the
  bill of a booking with rooms fits its column, and that a room bill is the amount
  of the stay it is for. From it `CheckoutAddsUp` (`CheckoutBalances`: at the first
  check-out, with no price changed since the booking, the room bill and the
  service bill are together what the reports count), and `RevenueIsFinal`
  (`RevenueStands`: what was reported of a month only grows, and only by a
  check-out or by a service added to a booking checked out in it).
* `EveryStayCountsOnce` (`CountedOnce`): the months of a year are a partition of
  its bookings, because a month is the quotient of an instant; days are a
  partition of its `Done` bookings.
* `ReportsStayWithin` (`StatsWithinRevenue`): a figure is the sum over one group of
  the bookings or uses the revenue sums over.

Requests and lists (`ApiProofs`), under `PipelineAssumption` and
`ListingAssumption`.

* `AnswersAreTruthful` and `AccessIsAsHeld` (`AnswersTruthful`, `AccessAsHeld`) are about `PipelineSpec`, for any number
  of requests, people and changes of accounts. `PipelineInv` says of every request
  that who its user is now, and what a guard has read of it, is among what that
  user has been since the request came, and that past the guard one of these had a
  role of the route. `ApiIsBoth` shows that `ApiSpec` behaves on each side as that
  side alone or not at all; with it `ApiIsTyped` (`ApiType`).
* `ListsMissNothing`, `ListsRepeatNothing` (`NothingMissed`, `NothingRepeated`), for
  tables of any size, any list, query and page, and any number of writes. A row's
  place is counted from the top, so the question is how a write to one row moves
  the others. In lists by id, and by the latest change, no other row moves towards
  the top while none leaves the list; so an untouched row whose place is above what
  the client has reached is among what it got (`AboveIsGot`). In lists by the
  earliest change, and by id while none joins, no other row moves away from the top;
  so what the client got stays above what it has reached (`GotIsAbove`) and a later
  page does not show it again. `OthersMove` is the lemma on places, `RanksCount` and
  `PageLists` say that a page is the rows of consecutive places, `LastPage` that a
  client that stops has reached the end.
* `ListsShowTheirOwn` (`OwnRowsOnly`): a row answered was listed, under the list's
  own restriction, at the statement that read it.
* `FiltersAreSound` (`FilterSound`), for filters of any length: a condition with
  `$and` put last narrows, with `$or` widens, and a statement and its negation
  divide the rows whose column is not null. `RunHolds` says what is needed of a
  chain: it holds if one of its runs between `$or`s does.

Only model-checked: liveness under fairness, and ENABLED, which are beyond the
prover. These are `CancelledRoomsComeBack`, `CallbackRecorded`,
`EveryRequestEnds`, `EventuallyServes` and `EveryRequestAnswered`. The runs that
expect a violation have no theorem either: TLC shows the behaviour. Every
invariant and action property of a passing run is a theorem. `Direction`, what
becomes of the orders a client asks for, is computed by `SelectSeq`, a recursive
operator; the theorems hold whatever it returns, so nothing is said of it but by
TLC.

## 5. Not modelled

* Mailer (that it may throw is part of `BookingService`), file upload,
  configuration, logging, database connection and swagger: I/O and wiring
  without a decision of the hotel.
* How the signed payment link is put together (`vn-pay.service.ts`). The callback has
  no check of a signature in `src/`, so there is none in the model: every call is
  believed.
* `checkRoomExits` and the other read-only handlers of bookings but the list and the
  invoice: `checkRoomExits` adds the results of two separately awaited queries, of
  no one moment, and no handler decides on the sum.
* Passwords and the contents of tokens: the models take them as correct.
* `PermissionGuard` (no route names a permission, so it lets everything pass),
  the refresh strategy, `MulterErrorFilter` and the seed of the permissions,
  which nothing installs or calls; handlers that are stubs.
* How invoices and Excel files look; of `paginate` the parameters no list uses.

TypeORM, PostgreSQL, Nest and the gateway are outside the repository; they are
modelled from how `src/` uses them and marked external in the map. Assumed of
them: a statement is atomic, a serial key is not reused, `save()` compares with
the row it reads, a written row is locked until its transaction ends. Nothing is
assumed of the gateway.

## 6. Plan

Every component that has behaviour is modelled, and every safety property that a
passing run checks is a theorem. What is left:

1. A failed payment rejects a booking without cancelling it, so its rooms stay
   held (`response_vnpay`, `booking.service.ts:571`). No line of the repository says
   whether they should; a property needs that decision.
2. A callback that checks the signature and asks for the state of the bill would
   let the ledger speak of payments instead of calls: `codes` would become what the
   gateway settled, once.
3. Amounts and races are in different modules (`Accounting`, `BookingService`). A
   composition would say how much a lost update costs.
4. If handlers are given real transactions or locks, `Exclusive` and `KeptApart`
   should shrink to the empty set, and with them the hypotheses of the theorems
   about rooms and the back office.
