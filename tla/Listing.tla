-------------------------------- MODULE Listing --------------------------------
(***************************************************************************)
(* paginate.ts: a client turns the pages of a list while the rows change.   *)
(*                                                                         *)
(* A page is read by two or three statements, which are not one snapshot:   *)
(* the ids of the page (the rows themselves if the list joins nothing), the *)
(* rows of those ids, and the number of all rows.                           *)
(***************************************************************************)
EXTENDS ListFilter

CONSTANTS
  DefaultLimit, MaxLimit,  \* DEFAULT_LIMIT, DEFAULT_MAX_LIMIT
  RowIds,      \* ids of rows
  RowNames,    \* contents of the column that is filtered and searched
  Tables,      \* tables there may be when the client begins
  Queries,     \* what the client asks for
  Malformed,   \* a filter that is no JSON object of strings
  MaxWrites    \* bound: changes of rows while the client reads

\* A filter that can be parsed: columns with statements
FilterOK(filter) ==
  /\ filter \in Seq(Range(filter))
  /\ \A entry \in Range(filter) : entry.input.statements \in Seq(Range(entry.input.statements))
\* ListDto: a limit is positive, a page any number
QueryOK(query) ==
  /\ query.page \in Int \cup {Null} /\ query.limit \in (Nat \ {0}) \cup {Null}
  /\ query.period \in BOOLEAN
  /\ query.filter # Malformed => FilterOK(query.filter)

ListRow == [updatedAt : Nat, name : RowNames \cup {Null}, shown : BOOLEAN]

\* A table: every row was written at a time of its own, before this one
TableOK(table, time) ==
  /\ table \in [DOMAIN table -> ListRow] /\ DOMAIN table \subseteq RowIds
  /\ \A i \in DOMAIN table : table[i].updatedAt < time
  /\ \A i, j \in DOMAIN table : table[i].updatedAt = table[j].updatedAt => i = j

ASSUME ListingAssumption ==
  /\ \A query \in Queries : QueryOK(query)
  /\ {DefaultLimit, MaxLimit} \subseteq Nat \ {0} /\ MaxWrites \in Nat
  /\ Bare \in Int /\ RowIds \subseteq Nat /\ IsFiniteSet(RowIds) /\ Null \notin RowIds \cup RowNames
  /\ Null \notin [words : Seq(Words), value : RowNames \cup {Null}]
  /\ \A table \in Tables : TableOK(table, 1 + Cardinality(RowIds))

VARIABLES
  row,      \* the table
  now,      \* the time updatedAt takes next
  reader,   \* the client and the request about its page
  seen,     \* ids on the pages it got, in their order
  touched,  \* ids written since it began
  left,     \* whether a row left the list since it began
  joined    \* whether a row of the table joined the list since it began

listing_vars == <<row, now, reader, seen, touched, left, joined>>
-----------------------------------------------------------------------------
(* The lists of the services; "where" is a condition on active or role *)

A(sort, dir, searchable, where, joins) ==
  [sort |-> sort, dir |-> dir, searchable |-> searchable, where |-> where, joins |-> joins]
Rooms == A("id", "ASC", {}, FALSE, FALSE)
FeatureRooms == A("id", "ASC", {}, FALSE, FALSE)
TypeRooms == A("id", "ASC", {"name"}, FALSE, TRUE)
Bookings == A("updatedAt", "DESC", {"customer"}, FALSE, TRUE)
ServiceList == A("updatedAt", "DESC", {"name"}, FALSE, FALSE)
ServicesForUser == A("updatedAt", "DESC", {"name"}, TRUE, FALSE)
PromotionList == A("updatedAt", "ASC", {"name"}, FALSE, FALSE)
PromotionsForUser == A("updatedAt", "ASC", {"name"}, TRUE, FALSE)
Users == A("updatedAt", "ASC", {"name"}, TRUE, FALSE)
Customers == A("updatedAt", "ASC", {"name"}, TRUE, FALSE)
Lists == {Rooms, FeatureRooms, TypeRooms, Bookings, ServiceList, ServicesForUser,
          PromotionList, PromotionsForUser, Users, Customers}
-----------------------------------------------------------------------------
(* paginate *)

PositiveOrDefault(value, default, min) == IF value = Null \/ value < min THEN default ELSE value
Lower(a, b) == IF a <= b THEN a ELSE b
FirstPage(query) == PositiveOrDefault(query.page, 1, 1)
Limit(query) ==
  LET asked == PositiveOrDefault(query.limit, DefaultLimit, 0)
  IN Lower(IF asked = 0 THEN DefaultLimit ELSE asked, MaxLimit)

\* Orders of other columns are passed over; of one column the last one counts
Direction(list, query) ==
  LET valid == SelectSeq(query.sortBy, LAMBDA o : o[1] = list.sort /\ o[2] \in {"ASC", "DESC"})
  IN IF valid = <<>> THEN list.dir ELSE Last(valid)[2]

\* Mutant: a stable order whatever the list asks for
SortedMutant(list, query, ids, table) == SetToSortSeq(ids, <)
\* ORDER BY: a row's place is the number of the rows before it
Key(list, i, table) == IF list.sort = "id" THEN i ELSE table[i].updatedAt
Ahead(list, query, ids, table, i) ==
  IF Direction(list, query) = "ASC"
  THEN {j \in ids : Key(list, j, table) < Key(list, i, table)}
  ELSE {j \in ids : Key(list, j, table) > Key(list, i, table)}
Sorted(list, query, ids, table) ==
  [n \in 1 .. Cardinality(ids) |->
     CHOOSE i \in ids : Cardinality(Ahead(list, query, ids, table, i)) = n - 1]

SearchedColumns(list, query) ==
  IF query.searchBy = Null THEN list.searchable ELSE list.searchable \cap query.searchBy
Searched(list, query, r) ==
  \/ query.search = Null \/ SearchedColumns(list, query) = {}
  \/ \E c \in SearchedColumns(list, query) : r[c] \in query.search

\* Mutant: the filter's conditions are chained to the list's own, without brackets
WhereMutant(list, query, r) ==
  LET own == (list.where => r.shown) /\ Searched(list, query, r)
      chain == Conditions(query.filter)
  IN IF chain = <<>> THEN own
     ELSE \E run \in Runs(chain) : (1 \in run => own) /\ \A i \in run : Holds(chain[i], r)
Where(list, query, r) ==
  (list.where => r.shown) /\ Searched(list, query, r) /\ Picks(query.filter, r)
Listed(list, query, table) == {i \in DOMAIN table : Where(list, query, table[i])}

\* Mutant: pages are counted from 0
PageMutant(list, query, page, table) ==
  LET all == Sorted(list, query, Listed(list, query, table), table)
  IN SubSeq(all, page * Limit(query) + 1, Lower((page + 1) * Limit(query), Len(all)))
\* Mutant: skip without take
PageRestMutant(list, query, page, table) ==
  LET all == Sorted(list, query, Listed(list, query, table), table)
  IN SubSeq(all, (page - 1) * Limit(query) + 1, Len(all))
\* take and skip
Page(list, query, page, table) ==
  LET all == Sorted(list, query, Listed(list, query, table), table)
  IN SubSeq(all, (page - 1) * Limit(query) + 1, Lower(page * Limit(query), Len(all)))

TotalPages(total, limit) == (total + limit - 1) \div limit

\* Whether the name a column is given is one of the statement: the booking
\* list joins the customer under another one
HasAlias(column) == column # "customer"
\* What the database or JSON.parse refuses; the period of the booking list
\* names a table that is not in the statement either
Unanswerable(list, query) ==
  \/ query.filter = Malformed
  \/ list = Bookings /\ query.period
  \/ Refused(query.filter)
  \/ query.search # Null /\ \E c \in SearchedColumns(list, query) : ~HasAlias(c)
-----------------------------------------------------------------------------
ListingType ==
  /\ now \in Nat /\ TableOK(row, now)
  /\ reader.list \in Lists /\ reader.query \in Queries
  /\ reader.pc \in {"ask", "rows", "count", "done", "failed"}
  /\ Len(reader.items) <= Limit(reader.query)
  /\ Range(seen) \cup touched \subseteq RowIds

ListingInit ==
  /\ row \in Tables /\ now = 1 + Cardinality(RowIds)
  /\ reader \in {[list |-> list, query |-> query, pc |-> "ask", page |-> FirstPage(query), items |-> <<>>] :
                   list \in Lists, query \in Queries}
  /\ seen = <<>> /\ touched = {} /\ left = FALSE /\ joined = FALSE

SelectPage ==
  /\ reader.pc = "ask"
  /\ reader' = IF Unanswerable(reader.list, reader.query) THEN [reader EXCEPT !.pc = "failed"]
               ELSE [reader EXCEPT !.pc = IF reader.list.joins THEN "rows" ELSE "count",
                                   !.items = Page(reader.list, reader.query, reader.page, row)]
  /\ UNCHANGED <<row, now, seen, touched, left, joined>>

\* Of the ids those that are still listed, in the order they have by now
SelectRows ==
  /\ reader.pc = "rows"
  /\ LET listed == Range(reader.items) \cap Listed(reader.list, reader.query, row)
     IN reader' = [reader EXCEPT !.pc = "count",
                                 !.items = Sorted(reader.list, reader.query, listed, row)]
  /\ UNCHANGED <<row, now, seen, touched, left, joined>>

\* The answer says which page it is and how many there are: the client asks
\* for the next one until there is none
Count ==
  /\ reader.pc = "count" /\ seen' = seen \o reader.items
  /\ LET total == Cardinality(Listed(reader.list, reader.query, row)) IN
     reader' = IF reader.page < TotalPages(total, Limit(reader.query))
               THEN [reader EXCEPT !.pc = "ask", !.page = @ + 1, !.items = <<>>]
               ELSE [reader EXCEPT !.pc = "done", !.items = <<>>]
  /\ UNCHANGED <<row, now, touched, left, joined>>

\* What the services do to rows in the meantime; an update or a new row takes
\* the time, a row that is removed goes, and its id does not come again
Rewrite(table, i) ==
  /\ reader.pc \notin {"done", "failed"} /\ now <= Cardinality(RowIds) + MaxWrites
  /\ row' = table /\ now' = now + 1 /\ touched' = touched \cup {i}
  /\ LET before == IF Unanswerable(reader.list, reader.query) THEN {}
                   ELSE Listed(reader.list, reader.query, row)
         after == IF Unanswerable(reader.list, reader.query) THEN {}
                  ELSE Listed(reader.list, reader.query, table)
     IN /\ left' = (left \/ before \ after # {})
        /\ joined' = (joined \/ (after \ before) \cap DOMAIN row # {})
  /\ UNCHANGED <<reader, seen>>

AddRow ==
  \E i \in RowIds \ DOMAIN row, name \in RowNames :
    /\ \A j \in DOMAIN row \cup touched : j < i
    /\ Rewrite([j \in DOMAIN row \cup {i} |->
                  IF j = i THEN [updatedAt |-> now, name |-> name, shown |-> TRUE] ELSE row[j]], i)
UpdateRow ==
  \E i \in DOMAIN row, name \in RowNames, shown \in BOOLEAN :
    Rewrite([row EXCEPT ![i] = [updatedAt |-> now, name |-> name, shown |-> shown]], i)
RemoveRow ==
  \E i \in DOMAIN row : Rewrite([j \in DOMAIN row \ {i} |-> row[j]], i)

ListingNext == SelectPage \/ SelectRows \/ Count \/ AddRow \/ UpdateRow \/ RemoveRow
-----------------------------------------------------------------------------
Order == <<reader.list.sort, Direction(reader.list, reader.query)>>

\* Lists by id and lists by the latest change: as long as no row leaves the
\* list, whoever turns all pages from the first has seen every row that was
\* not changed.
NothingMissed ==
  /\ reader.pc = "done" /\ ~left /\ FirstPage(reader.query) = 1
  /\ Order \in {<<"id", "ASC">>, <<"id", "DESC">>, <<"updatedAt", "DESC">>}
  => Listed(reader.list, reader.query, row) \ touched \subseteq Range(seen)

\* Lists by the earliest change, and by id if no row joins the list: no row
\* that was not changed is on two pages, or twice on one.
NothingRepeated ==
  Order = <<"updatedAt", "ASC">> \/ (Order = <<"id", "ASC">> /\ ~joined)
  => \A m, n \in DOMAIN seen : seen[m] = seen[n] /\ m # n => seen[m] \in touched

\* Whatever the filter says, the lists that are restricted to active rows or
\* to a role show no others.
OwnRowsOnly ==
  [][reader.list.where =>
       \A i \in Range(reader'.items) \ Range(reader.items) : row[i].shown]_listing_vars
=============================================================================
