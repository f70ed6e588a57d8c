------------------------------ MODULE BackOffice ------------------------------
(***************************************************************************)
(* The services of the back office side by side.  They share no table, so  *)
(* nothing one of them does is seen by another: a behaviour is a behaviour  *)
(* of one desk, and the other tables stay as they were.                     *)
(***************************************************************************)
EXTENDS Promotions, Catalogue, Accounts, RoomAdmin

VARIABLE desk

back_office_vars == <<desk, promotion_vars, catalogue_vars, account_vars, room_vars>>

BackOfficeInit ==
  /\ desk \in {"promotions", "catalogue", "accounts", "rooms"}
  /\ PromotionInit /\ CatalogueInit /\ AccountsInit /\ RoomAdminInit

BackOfficeNext ==
  /\ UNCHANGED desk
  /\ \/ /\ desk = "promotions" /\ PromotionNext
        /\ UNCHANGED <<catalogue_vars, account_vars, room_vars>>
     \/ /\ desk = "catalogue" /\ CatalogueNext
        /\ UNCHANGED <<promotion_vars, account_vars, room_vars>>
     \/ /\ desk = "accounts" /\ AccountsNext
        /\ UNCHANGED <<promotion_vars, catalogue_vars, room_vars>>
     \/ /\ desk = "rooms" /\ RoomAdminNext
        /\ UNCHANGED <<promotion_vars, catalogue_vars, account_vars>>

\* The process is started whenever it is down, and a start goes on
BackOfficeSpec ==
  /\ BackOfficeInit /\ [][BackOfficeNext]_back_office_vars
  /\ WF_back_office_vars(desk = "accounts" /\ Seed /\
       UNCHANGED <<desk, promotion_vars, catalogue_vars, room_vars>>)
-----------------------------------------------------------------------------
BackOfficeType == PromotionType /\ CatalogueType /\ AccountsType /\ RoomAdminType

\* The columns an operation assigns
Assigned(op) ==
  CASE op \in {"activePromotion", "activeService", "activeUser"} -> {"active"}
    [] op = "removePromotion" -> {"deleted"}
    [] op = "updateService" -> {"name", "image"}
    [] op = "cmsUpdateUser" -> {"role"}
    [] op = "updateUser" -> {"first_login"}
    [] OTHER -> {}

\* What the request that ends in this step changed is what its operation assigns
WritesItsOwn(table, table2, req, req2) ==
  \A t \in Tasks :
    req[t].pc = "flush" /\ req2[t].pc = "idle" =>
      \A i \in DOMAIN table : Changed(table2[i], table[i]) \subseteq Assigned(req[t].op)

\* With the operations that assign different columns of one table kept apart: a
\* request never writes back what another one changed since it loaded the row;
\* a user switched off stays so while profiles are saved, a service while its
\* price is, and a room is marked and released by bookings only.
OnlyItsOwnColumns ==
  [][/\ WritesItsOwn(promotion, promotion', promotion_req, promotion_req')
     /\ WritesItsOwn(service, service', service_req, service_req')
     /\ server' # "down" => WritesItsOwn(user, user', user_req, user_req')
     /\ room_req' # room_req =>
          \A i \in DOMAIN room \cap DOMAIN room' : room'[i].marked = room[i].marked
    ]_back_office_vars

\* Crashes during a start do not keep the server from serving.
EventuallyServes == desk = "accounts" => <>[](server = "up")
=============================================================================
