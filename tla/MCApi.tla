--------------------------------- MODULE MCApi ---------------------------------
(***************************************************************************)
(* An instance of the interface for TLC.                                    *)
(***************************************************************************)
EXTENDS Api

CONSTANTS ann, eve, bob, c1

SomeStaff == ann :> "Accountant" @@ eve :> "Receptionist"

Row(updatedAt, name, shown) == [updatedAt |-> updatedAt, name |-> name, shown |-> shown]
\* Changed in another order than inserted; with a null and a row that is not listed
SomeTables ==
  {<<Row(2, 1, TRUE), Row(1, 2, TRUE), Row(3, 1, TRUE)>>,
   <<Row(1, 1, TRUE), Row(3, 2, TRUE), Row(2, Null, FALSE)>>}

Query(page, limit, sortBy, search, filter) ==
  [page |-> page, limit |-> limit, sortBy |-> sortBy, search |-> search, searchBy |-> Null,
   filter |-> filter, period |-> FALSE]
Statement(words, value) == [words |-> words, value |-> value]
On(array, statements) == <<[column |-> "name", input |-> [array |-> array, statements |-> statements]]>>

\* One row a page; 1 or 2; a choice of columns; not above 1, of an array that
\* does not allow it and of one that does; from the second page; what is refused
SomeQueries ==
  {Query(Null, 1, <<>>, Null, <<>>),
   Query(0, 2, <<<<"id", "DESC">>>>, Null,
         On(TRUE, <<Statement(<<>>, 1), Null, Statement(<<"$or", "$not", "$eq">>, 1), Statement(<<"$or">>, 2)>>)),
   [Query(-1, Null, <<<<"updatedAt", "ASC">>, <<"name", "ASC">>, <<"updatedAt", "DESC">>>>, {1}, <<>>)
    EXCEPT !.searchBy = {"name"}],
   Query(1, 7, <<>>, Null, On(FALSE, <<Statement(<<"$not", "$gt">>, 1)>>)),
   Query(1, 1, <<>>, Null, On(TRUE, <<Statement(<<"$not">>, 1), Statement(<<"$not">>, Null),
                                      Statement(<<"$or", "$btw">>, <<1, 1>>)>>)),
   Query(2, 1, <<<<"updatedAt", "DESC">>, <<"id", "DESC">>>>, Null,
         On(FALSE, <<Statement(<<"$gt">>, Null)>>)),
   Query(1, 1, <<>>, Null, Malformed),
   Query(1, 1, <<>>, Null, On(FALSE, <<Statement(<<"$contains">>, {1})>>)),
   [Query(1, 1, <<>>, {1}, <<>>) EXCEPT !.period = TRUE]}
=============================================================================
