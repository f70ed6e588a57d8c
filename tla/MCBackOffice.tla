----------------------------- MODULE MCBackOffice -----------------------------
(***************************************************************************)
(* An instance of the back office for TLC.                                  *)
(***************************************************************************)
EXTENDS BackOffice

CONSTANTS t1, t2

\* create asks what insert relies on; the others assign different columns of
\* one table
Apart == {{"createPromotion"}, {"activePromotion", "removePromotion"},
          {"updateService", "activeService"},
          {"cmsUpdateUser", "updateUser"}, {"cmsUpdateUser", "activeUser"},
          {"updateUser", "activeUser"},
          {"mark", "updateRoom"}, {"mark", "addRoom"}, {"updateRoom", "addRoom"}}

\* What addRoom is sent: two new rooms, a new one in place of all, a swap of two
\* names, a rename with a room of no or of another type and a room named twice
RoomLists ==
  LET E(id, name) == [id |-> id, name |-> name] IN
  {<<E(Null, "A"), E(Null, "B")>>, <<E(Null, "B")>>, <<E(1, "B"), E(2, "A")>>,
   <<E(3, "B"), E(1, "B"), E(1, "A")>>}

\* A day, another, one around both, and one that ends before it begins
SomePeriods ==
  {[start |-> s, end |-> e] : <<s, e>> \in {<<1, 1>>, <<2, 2>>, <<1, 3>>, <<3, 1>>}}
=============================================================================
