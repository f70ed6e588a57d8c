---------------------------- MODULE MCAccounting ----------------------------
(***************************************************************************)
(* An instance of the accounts for TLC: two instants a day, two days a      *)
(* month, two months a year, two years.                                     *)
(***************************************************************************)
EXTENDS Accounting

\* Within a day, over the end of the year, and backwards
SomeStays ==
  {[checkin |-> i, checkout |-> o] : <<i, o>> \in {<<0, 1>>, <<3, 8>>, <<6, 4>>}}

\* A quarter off leaves a fraction of some amounts
SomeOffers == {[discount |-> 25, condition |-> 4]}
=============================================================================
