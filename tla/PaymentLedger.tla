---------------------------- MODULE PaymentLedger ----------------------------
(***************************************************************************)
(* What the booking service promises about money, with nothing said of      *)
(* requests, statements, saves or rooms: five columns per booking, each     *)
(* step touching one booking.  What callbacks report is all the ledger      *)
(* knows of a payment; it says what the books may hold, given the reports.  *)
(* BookingService implements it (the instance Ledger of BookingProperties), *)
(* which TLC checks and PaymentProofs proves.                               *)
(***************************************************************************)
EXTENDS TLAPS

CONSTANTS Ids, ResponseCodes

VARIABLES
  handed,     \* the customer has the payment link
  codes,      \* the response codes of the calls heeded about the bill
  bill,       \* the room bill: None, Pending, Fulfilled or Reject
  confirmed,  \* the booking is confirmed as paid
  staff       \* the booking was entered by the staff

ledger == <<handed, codes, bill, confirmed, staff>>

Init ==
  /\ handed = [b \in Ids |-> FALSE]
  /\ codes = [b \in Ids |-> {}]
  /\ bill = [b \in Ids |-> "None"]
  /\ confirmed = [b \in Ids |-> FALSE]
  /\ staff = [b \in Ids |-> FALSE]
-----------------------------------------------------------------------------
\* A booking is entered unconfirmed, before its room is charged
Enter(b) ==
  /\ bill[b] = "None"
  /\ \E by_staff \in BOOLEAN : staff' = [staff EXCEPT ![b] = by_staff]
  /\ confirmed' = [confirmed EXCEPT ![b] = FALSE]
  /\ UNCHANGED <<handed, codes, bill>>

\* Its room is charged once, or the charge fails at once
Charge(b) ==
  /\ bill[b] = "None"
  /\ \E outcome \in {"Pending", "Reject"} : bill' = [bill EXCEPT ![b] = outcome]
  /\ UNCHANGED <<handed, codes, confirmed, staff>>

\* The customer gets the payment link, never for a charge that failed: if the
\* bill is Reject by then, a call said so
Offer(b) ==
  /\ bill[b] # "None"
  /\ bill[b] = "Reject" => codes[b] \ {"00"} # {}
  /\ handed' = [handed EXCEPT ![b] = TRUE]
  /\ UNCHANGED <<codes, bill, confirmed, staff>>

\* A call reports the outcome of the payment of a bill
Tell(b) ==
  /\ bill[b] # "None"
  /\ \E code \in ResponseCodes : codes' = [codes EXCEPT ![b] = @ \cup {code}]
  /\ UNCHANGED <<handed, bill, confirmed, staff>>

\* One of the outcomes that were reported is put on the books
Record(b) ==
  /\ \E code \in codes[b] :
       bill' = [bill EXCEPT ![b] = IF code = "00" THEN "Fulfilled" ELSE "Reject"]
  /\ UNCHANGED <<handed, codes, confirmed, staff>>

\* The desk takes the money for a booking of its own
PayAtDesk(b) ==
  /\ staff[b] /\ bill[b] # "None"
  /\ bill' = [bill EXCEPT ![b] = "Fulfilled"]
  /\ UNCHANGED <<handed, codes, confirmed, staff>>

\* What is on the books after nothing but successes were reported
Booked(b) == "00" \in codes[b] /\ (codes[b] = {"00"} => bill[b] = "Fulfilled")

\* A booking is confirmed on a reported and booked payment only; it may lose
\* that state
Confirm(b) ==
  /\ \E yes \in BOOLEAN : /\ yes => Booked(b)
                          /\ confirmed' = [confirmed EXCEPT ![b] = yes]
  /\ UNCHANGED <<handed, codes, bill, staff>>

Next == \E b \in Ids : \/ Enter(b) \/ Charge(b) \/ Offer(b) \/ Tell(b)
                       \/ Record(b) \/ PayAtDesk(b) \/ Confirm(b)

Spec == Init /\ [][Next]_ledger
-----------------------------------------------------------------------------
Type ==
  /\ handed \in [Ids -> BOOLEAN]
  /\ codes \in [Ids -> SUBSET ResponseCodes]
  /\ bill \in [Ids -> {"None", "Pending", "Fulfilled", "Reject"}]
  /\ confirmed \in [Ids -> BOOLEAN]
  /\ staff \in [Ids -> BOOLEAN]

\* The ledger is sound: who is confirmed was reported to have paid, what is on
\* the books as paid was reported or taken at the desk, and what is on them as
\* refused after the link went out was reported as refused.
Sound ==
  \A b \in Ids :
    /\ bill[b] = "None" => codes[b] = {} /\ ~handed[b]
    /\ confirmed[b] => Booked(b)
    /\ bill[b] = "Fulfilled" /\ ~staff[b] => "00" \in codes[b]
    /\ bill[b] = "Reject" /\ handed[b] => codes[b] \ {"00"} # {}

\* The ledger keeps its promise, so whoever implements it does.
THEOREM LedgerIsSound == Spec => [](Type /\ Sound)
<1>1. Init => Type /\ Sound
  BY DEF Init, Type, Sound
<1>2. Type /\ Sound /\ [Next]_ledger => (Type /\ Sound)'
  <2> SUFFICES ASSUME Type, Sound, [Next]_ledger PROVE (Type /\ Sound)'
    OBVIOUS
  <2>1. ASSUME NEW b \in Ids, Enter(b) \/ Confirm(b) PROVE (Type /\ Sound)'
    BY <2>1 DEF Enter, Confirm, Booked, Type, Sound
  <2>2. ASSUME NEW b \in Ids, Charge(b) \/ PayAtDesk(b)
        PROVE  (Type /\ Sound)'
    BY <2>2 DEF Charge, PayAtDesk, Booked, Type, Sound
  <2>3. ASSUME NEW b \in Ids, Record(b) PROVE (Type /\ Sound)'
    BY <2>3 DEF Record, Booked, Type, Sound
  <2>4. ASSUME NEW b \in Ids, Offer(b) PROVE (Type /\ Sound)'
    BY <2>4 DEF Offer, Booked, Type, Sound
  <2>5. ASSUME NEW b \in Ids, Tell(b) PROVE (Type /\ Sound)'
    <3>1. PICK code \in ResponseCodes : codes' = [codes EXCEPT ![b] = @ \cup {code}]
      BY <2>5 DEF Tell
    <3>2. Type'
      BY <2>5, <3>1 DEF Tell, Type
    <3>3. ASSUME NEW c \in Ids
          PROVE  /\ codes[c] \subseteq codes'[c]
                 /\ Booked(c) => Booked(c)'
      BY <2>5, <3>1 DEF Tell, Booked, Type
    <3>4. Sound'
      BY <2>5, <3>1, <3>3 DEF Tell, Type, Sound
    <3> QED BY <3>2, <3>4
  <2>6. CASE UNCHANGED ledger
    BY <2>6 DEF ledger, Booked, Type, Sound
  <2> QED BY <2>1, <2>2, <2>3, <2>4, <2>5, <2>6 DEF Next
<1> QED BY <1>1, <1>2, PTL DEF Spec
=============================================================================
