--------------------------- MODULE MCBookingService ---------------------------
(***************************************************************************)
(* Instances of the booking service for TLC.  Stays are days of one week.   *)
(***************************************************************************)
EXTENDS BookingProperties, TLC

CONSTANTS r1, r2, s1, s2, u1

\* All rooms are of one type
OneType == [r \in Rooms |-> "single"]
Stay(in, out) == [checkin |-> in, checkout |-> out]

\* One stay; two stays that share a day; two that do not; all of them
OneStay == {Stay(2, 3)}
TouchingStays == {Stay(1, 2), Stay(2, 3)}
ApartStays == {Stay(1, 2), Stay(5, 6)}
AllStays == TouchingStays \cup ApartStays

SlotSymmetry == Permutations(Slots)
RoomSymmetry == Permutations(Rooms)
=============================================================================
