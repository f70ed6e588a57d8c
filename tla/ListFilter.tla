------------------------------ MODULE ListFilter ------------------------------
(***************************************************************************)
(* paginate.filter.ts: the conditions a client puts on a list.              *)
(*                                                                         *)
(* A filter is a JSON object of columns.  What stands for a column is one   *)
(* statement or an array of them; a statement is up to four words and a     *)
(* value, divided by colons ("$or:$not:$in:1,2").  No list says which       *)
(* operators its columns allow, so the code takes what stands in the filter *)
(* itself for the list of them.  Values are numbers and sets of numbers: a  *)
(* pattern of $ilike or $sw is the set of values it matches, and a $btw has *)
(* two bounds.                                                              *)
(***************************************************************************)
EXTENDS Integers, SequencesExt

CONSTANTS
  Null,  \* what a row has in a column that is not set, no value, no statement
  Bare   \* where the words of a statement stand among the values, taken for one

Comparators == {"$and", "$or"}
Comparing == {"$eq", "$gt", "$gte", "$lt", "$lte"}
Containing == {"$in", "$ilike", "$sw"}
Operators == Comparing \cup Containing \cup {"$btw", "$contains", "$null"}
Words == Comparators \cup Operators \cup {"$not"}
-----------------------------------------------------------------------------
(* getFilterTokens *)

LastOf(words, choice, default) ==
  LET chosen == {i \in DOMAIN words : words[i] \in choice}
  IN IF chosen = {} THEN default ELSE words[Max(chosen)]

\* The last word of a kind counts, in whatever order they stand
Token(column, raw) ==
  [column |-> column,
   comparator |-> LastOf(raw.words, Comparators, "$and"),
   negated |-> "$not" \in Range(raw.words),
   operator |-> LastOf(raw.words, Operators, "$eq"),
   value |-> raw.value]
-----------------------------------------------------------------------------
(* parseFilter *)

\* A string includes its own words; an array includes a word that is one of
\* its statements
AllowedIn(input, word) ==
  input.array => \E i \in DOMAIN input.statements : input.statements[i] = [words |-> <<word>>, value |-> Null]

\* $eq is always allowed, other operators and $not only if the input has them;
\* what is not allowed is left out without a word
Kept(input, token) ==
  /\ token.operator = "$eq" \/ AllowedIn(input, token.operator)
  /\ token.negated => AllowedIn(input, "$not")

TokenAt(filter, p) == Token(filter[p[1]].column, filter[p[1]].input.statements[p[2]])
\* Where in the filter there are conditions: a column, and one of its statements
Places(filter) ==
  {p \in UNION {{k} \X DOMAIN filter[k].input.statements : k \in DOMAIN filter} :
     /\ filter[p[1]].input.statements[p[2]] # Null
     /\ Kept(filter[p[1]].input, TokenAt(filter, p))}
Earlier(p, q) == p[1] < q[1] \/ (p[1] = q[1] /\ p[2] < q[2])

\* Column by column, and of one column statement by statement
Conditions(filter) ==
  [n \in 1 .. Cardinality(Places(filter)) |->
     TokenAt(filter, CHOOSE p \in Places(filter) :
                       Cardinality({q \in Places(filter) : Earlier(q, p)}) = n - 1)]
-----------------------------------------------------------------------------
(* addWhereCondition and what the database makes of it *)

\* $contains is for columns that are arrays; any other is refused with it
Refused(filter) ==
  \E n \in DOMAIN Conditions(filter) : Conditions(filter)[n].operator = "$contains"

\* Without a value the words themselves are what a column is compared with
Compare(operator, x, v) ==
  LET one == IF v = Null THEN Bare ELSE v IN
  \/ operator = "$eq" /\ x = one
  \/ operator = "$gt" /\ x > one
  \/ operator = "$gte" /\ x >= one
  \/ operator = "$lt" /\ x < one
  \/ operator = "$lte" /\ x <= one
  \/ operator = "$btw" /\ v[1] <= x /\ x <= v[2]
  \/ operator \in Containing /\ x \in (IF v = Null THEN {Bare} ELSE v)

\* Mutant: the negation of what is unknown is taken for true
HoldsMutant(condition, row) ==
  LET x == row[condition.column] IN
  IF condition.operator = "$null" THEN (x = Null) # condition.negated
  ELSE (x # Null /\ Compare(condition.operator, x, condition.value)) # condition.negated
\* Comparing with null is neither true nor false, and neither is its negation
Holds(condition, row) ==
  LET x == row[condition.column] IN
  IF condition.operator = "$null" THEN (x = Null) # condition.negated
  ELSE x # Null /\ Compare(condition.operator, x, condition.value) # condition.negated

\* Conditions are chained as they come and the first one's comparator does not
\* count: a chain is a choice of runs of and
Runs(chain) ==
  LET starts == {i \in DOMAIN chain : i = 1 \/ chain[i].comparator = "$or"} IN
  {{j \in DOMAIN chain : j >= i /\ \A k \in starts : i < k => j < k} : i \in starts}
ChainHolds(chain, row) ==
  chain = <<>> \/ \E run \in Runs(chain) : \A i \in run : Holds(chain[i], row)
-----------------------------------------------------------------------------
(* What a client relies on *)

One(column, words, value) ==
  <<[column |-> column, input |-> [array |-> FALSE, statements |-> <<[words |-> words, value |-> value]>>]]>>
Picks(filter, row) == ChainHolds(Conditions(filter), row)

\* A column put last with $and only narrows the list, one put last with $or
\* only widens it if there was a condition; no row is picked by a statement as
\* well as by its negation, nor by neither unless the column is null.
FilterLaws(filter, column, values, rows) ==
  LET chain == Conditions(filter) IN
  \A operator \in Comparing, v \in values :
    LET is == Conditions(One(column, <<operator>>, v))
        isNot == Conditions(One(column, <<"$not", operator>>, v))
        orIs == Conditions(One(column, <<"$or", operator>>, v))
        isNull == Conditions(One(column, <<"$null">>, Null))
    IN \A row \in rows :
         /\ ~(ChainHolds(is, row) /\ ChainHolds(isNot, row))
         /\ (ChainHolds(is, row) \/ ChainHolds(isNot, row)) <=> ~ChainHolds(isNull, row)
         /\ ChainHolds(chain \o is, row) => ChainHolds(chain, row)
         /\ ChainHolds(chain, row) /\ chain # <<>> => ChainHolds(chain \o orIs, row)
=============================================================================
