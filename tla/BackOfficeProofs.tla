---------------------------- MODULE BackOfficeProofs ----------------------------
(***************************************************************************)
(* The services of the back office, proved for any tables, any number of    *)
(* requests and of crashes.                                                 *)
(*                                                                         *)
(* What another request may do between two statements of a request is in    *)
(* the invariants: they hold of what requests have in memory as well.       *)
(***************************************************************************)
EXTENDS BackOffice, TLAPS

(***************************************************************************)
(* Promotions: at most one covers a day, for any periods, when creates are  *)
(* kept apart from each other and active from remove.  Nothing is asked of  *)
(* update, which is never kept apart from anything: it saves nothing.       *)
(*                                                                         *)
(* A period found free is free until it is inserted, because nobody else    *)
(* inserts and nothing that was removed comes back; and nothing comes back  *)
(* because an entity that is saved without deletedAt is one whose row has   *)
(* none.                                                                    *)
(***************************************************************************)

\* The two kinds of overlap that must not happen
CreatesApart == {"createPromotion"} \in KeptApart
ActiveApart == {"activePromotion", "removePromotion"} \in KeptApart

Disjoint(row1, row2) == \A day \in Days : ~(Between(day, row1) /\ Between(day, row2))

\* What is true of a request q
PromotionReqOK(q) ==
  /\ q.pc = "insert" =>
       /\ q.op = "createPromotion" /\ q.mem \in PromotionRow
       /\ \A i \in Found : Disjoint(q.mem, promotion[i])
  /\ q.pc = "check" => q.op = "updatePromotion"
  /\ q.pc \in {"load", "flush"} =>
       /\ q.id \in DOMAIN promotion /\ q.mem \in PromotionRow
       /\ q.mem.start = promotion[q.id].start /\ q.mem.end = promotion[q.id].end
       /\ q.mem.deleted => q.op = "removePromotion"
       /\ ~q.mem.deleted => q.op = "activePromotion" /\ q.id \in Found

\* Overlaps that do not happen
NoTwo ==
  \A t, u \in Tasks :
    /\ promotion_req[t].pc = "insert" /\ promotion_req[u].pc = "insert" => t = u
    /\ promotion_req[t].pc # "idle" /\ promotion_req[u].pc # "idle" =>
         ~(promotion_req[t].op = "activePromotion" /\ promotion_req[u].op = "removePromotion")

PromotionInv ==
  /\ promotion \in [DOMAIN promotion -> PromotionRow]
  /\ DOMAIN promotion_req = Tasks /\ promotion_req = [t \in Tasks |-> promotion_req[t]]
  /\ \A i, j \in Found : i # j => Disjoint(promotion[i], promotion[j])
  /\ \A t \in Tasks : PromotionReqOK(promotion_req[t])
  /\ NoTwo
-----------------------------------------------------------------------------
\* The three cases of create's query are all the ways two periods can meet.
LEMMA ClashesIsComplete ==
  ASSUME NEW p \in PromotionRow, NEW row \in PromotionRow, ~Clashes(p.start, p.end, row)
  PROVE  Disjoint(p, row)
<1> SUFFICES ASSUME NEW day \in Days, Between(day, p), Between(day, row) PROVE FALSE
  BY DEF Disjoint
<1>1. day \in Int /\ p.start \in Int /\ p.end \in Int /\ row.start \in Int /\ row.end \in Int
  BY PromotionsAssumption DEF PromotionRow
<1> QED BY <1>1 DEF Clashes, Between

\* A step of a request that leaves the table alone preserves the invariant if
\* what it goes on with is all right.
LEMMA SameTable ==
  ASSUME PromotionInv, NEW t \in Tasks, NEW q, UNCHANGED promotion,
         promotion_req' = [promotion_req EXCEPT ![t] = q], PromotionReqOK(q),
         \/ q.pc = "idle"
         \/ q.op = promotion_req[t].op /\ promotion_req[t].pc # "idle" /\ q.pc # "insert"
         \/ MayStart(promotion_req, t, q.op) /\ CreatesApart /\ ActiveApart
  PROVE  PromotionInv'
<1>1. \A u \in Tasks : promotion_req'[u] = IF u = t THEN q ELSE promotion_req[u]
  BY DEF PromotionInv
<1>2. Found' = Found
  BY DEF Found
<1>3. \A u \in Tasks : PromotionReqOK(promotion_req[u])'
  BY <1>1, <1>2 DEF PromotionInv, PromotionReqOK
<1>4. NoTwo'
  <2>1. CASE q.pc = "idle"
    BY <1>1, <2>1 DEF PromotionInv, NoTwo
  <2>2. CASE q.op = promotion_req[t].op /\ promotion_req[t].pc # "idle" /\ q.pc # "insert"
    BY <1>1, <2>2 DEF PromotionInv, NoTwo
  <2>3. CASE MayStart(promotion_req, t, q.op) /\ CreatesApart /\ ActiveApart
    <3>1. \A u \in Tasks : u # t /\ promotion_req[u].pc # "idle"
                             => {q.op, promotion_req[u].op} \notin KeptApart
      BY <2>3 DEF MayStart
    <3>2. \A u \in Tasks : u # t /\ promotion_req[u].pc # "idle" /\ q.op = "createPromotion"
                             => promotion_req[u].op # "createPromotion"
      <4>1. {"createPromotion", "createPromotion"} = {"createPromotion"}
        OBVIOUS
      <4> QED BY <2>3, <3>1, <4>1 DEF CreatesApart
    <3>3. \A u \in Tasks : u # t /\ promotion_req[u].pc # "idle"
            => /\ q.op = "activePromotion" => promotion_req[u].op # "removePromotion"
               /\ q.op = "removePromotion" => promotion_req[u].op # "activePromotion"
      <4>1. {"removePromotion", "activePromotion"} = {"activePromotion", "removePromotion"}
        OBVIOUS
      <4> QED BY <2>3, <3>1, <4>1 DEF ActiveApart
    <3>4. \A u \in Tasks : promotion_req[u].pc = "insert" => promotion_req[u].op = "createPromotion"
      BY DEF PromotionInv, PromotionReqOK
    <3>5. q.pc = "insert" => q.op = "createPromotion"
      BY DEF PromotionReqOK
    <3>6. \A u, v \in Tasks :
            promotion_req'[u].pc = "insert" /\ promotion_req'[v].pc = "insert" => u = v
      BY <1>1, <3>2, <3>4, <3>5 DEF PromotionInv, NoTwo
    <3>7. \A u, v \in Tasks :
            promotion_req'[u].pc # "idle" /\ promotion_req'[v].pc # "idle" =>
              ~(promotion_req'[u].op = "activePromotion" /\ promotion_req'[v].op = "removePromotion")
      BY <1>1, <3>3 DEF PromotionInv, NoTwo
    <3> QED BY <3>6, <3>7 DEF NoTwo
  <2> QED BY <2>1, <2>2, <2>3
<1> QED BY <1>1, <1>2, <1>3, <1>4 DEF PromotionInv

\* The inserter was found free of clashes, and the others that are about to save
\* write the period their row has.
LEMMA InsertStep ==
  ASSUME PromotionInv, NEW t \in Tasks, InsertPromotion(t)
  PROVE  PromotionInv'
<1> DEFINE q == promotion_req[t]
<1>1. PICK i \in NextIds(Promotions, DOMAIN promotion) : promotion' = Put(promotion, i, q.mem)
  BY DEF InsertPromotion
<1>2. i \notin DOMAIN promotion
  BY <1>1 DEF NextIds
<1>3. q.pc = "insert" /\ q.mem \in PromotionRow /\ \A j \in Found : Disjoint(q.mem, promotion[j])
  BY DEF InsertPromotion, PromotionInv, PromotionReqOK
<1>4. /\ DOMAIN promotion' = DOMAIN promotion \cup {i} /\ promotion'[i] = q.mem
      /\ \A j \in DOMAIN promotion : promotion'[j] = promotion[j]
      /\ promotion' \in [DOMAIN promotion' -> PromotionRow]
  BY <1>1, <1>2, <1>3 DEF Put, PromotionInv
<1>5. Found' \subseteq Found \cup {i} /\ Found \subseteq Found'
  BY <1>4, <1>2 DEF Found
<1>6. \A u \in Tasks : promotion_req'[u] = IF u = t THEN Idle ELSE promotion_req[u]
  BY DEF InsertPromotion, PromotionInv
<1>7. DOMAIN promotion_req' = Tasks /\ promotion_req' = [u \in Tasks |-> promotion_req'[u]]
  BY DEF InsertPromotion, PromotionInv
<1>8. \A j, k \in Found' : j # k => Disjoint(promotion'[j], promotion'[k])
  <2>1. \A j \in Found : j \in DOMAIN promotion /\ j # i
    BY <1>2 DEF Found
  <2> QED BY <1>3, <1>4, <1>5, <2>1 DEF PromotionInv, Disjoint
<1>9. ASSUME NEW u \in Tasks PROVE PromotionReqOK(promotion_req[u])'
  <2>1. CASE u = t
    BY <1>6, <2>1 DEF PromotionReqOK, Idle
  <2>2. CASE u # t
    <3>1. promotion_req'[u] = promotion_req[u] /\ promotion_req[u].pc # "insert"
      BY <1>3, <1>6, <2>2 DEF PromotionInv, NoTwo
    <3> QED BY <1>4, <1>5, <3>1 DEF PromotionInv, PromotionReqOK
  <2> QED BY <2>1, <2>2
<1>10. NoTwo'
  BY <1>6 DEF PromotionInv, NoTwo, Idle
<1> QED BY <1>4, <1>7, <1>8, <1>9, <1>10 DEF PromotionInv

\* The UPDATE changes at most active, or sets deletedAt: while a removal is
\* under way no copy without it is.
LEMMA FlushStep ==
  ASSUME PromotionInv, NEW t \in Tasks, FlushPromotion(t)
  PROVE  PromotionInv' /\ \A i \in DOMAIN promotion : promotion[i].deleted => promotion'[i].deleted
<1> DEFINE q == promotion_req[t]
<1>1. q.pc = "flush" /\ promotion' = [promotion EXCEPT ![q.id] = Flushed(q, @)]
  BY DEF FlushPromotion
<1>2. /\ q.id \in DOMAIN promotion /\ q.mem \in PromotionRow
      /\ q.mem.start = promotion[q.id].start /\ q.mem.end = promotion[q.id].end
      /\ q.mem.deleted => q.op = "removePromotion"
      /\ ~q.mem.deleted => q.op = "activePromotion" /\ q.id \in Found
  BY <1>1 DEF PromotionInv, PromotionReqOK
<1>3. promotion[q.id] \in PromotionRow
  BY <1>2 DEF PromotionInv
<1> DEFINE row == Flushed(q, promotion[q.id])
<1>4. /\ row \in PromotionRow
      /\ row.start = promotion[q.id].start /\ row.end = promotion[q.id].end
      /\ row.deleted \in {promotion[q.id].deleted, q.mem.deleted}
  BY <1>2, <1>3 DEF Flushed, Saved, PromotionRow
<1>5. /\ DOMAIN promotion' = DOMAIN promotion /\ promotion'[q.id] = row
      /\ \A j \in DOMAIN promotion : j # q.id => promotion'[j] = promotion[j]
      /\ promotion' \in [DOMAIN promotion' -> PromotionRow]
  BY <1>1, <1>2, <1>4 DEF PromotionInv
<1>6. \A i \in DOMAIN promotion : promotion[i].deleted => promotion'[i].deleted
  BY <1>2, <1>4, <1>5 DEF Found
<1>7. Found' \subseteq Found
  BY <1>5, <1>6 DEF Found
<1>8. \A i \in DOMAIN promotion : /\ promotion'[i].start = promotion[i].start
                                  /\ promotion'[i].end = promotion[i].end
  BY <1>4, <1>5
<1>9. \A u \in Tasks : promotion_req'[u] = IF u = t THEN Idle ELSE promotion_req[u]
  BY DEF FlushPromotion, PromotionInv
<1>10. DOMAIN promotion_req' = Tasks /\ promotion_req' = [u \in Tasks |-> promotion_req'[u]]
  BY DEF FlushPromotion, PromotionInv
<1>11. \A j, k \in Found' : j # k => Disjoint(promotion'[j], promotion'[k])
  <2>1. \A j \in Found : j \in DOMAIN promotion
    BY DEF Found
  <2> QED BY <1>7, <1>8, <2>1 DEF PromotionInv, Disjoint, Between
<1>12. ASSUME NEW u \in Tasks PROVE PromotionReqOK(promotion_req[u])'
  <2>1. CASE u = t
    BY <1>9, <2>1 DEF PromotionReqOK, Idle
  <2>2. CASE u # t
    <3>1. promotion_req'[u] = promotion_req[u] /\ PromotionReqOK(promotion_req[u])
      BY <1>9, <2>2 DEF PromotionInv
    <3>2. CASE promotion_req[u].pc = "insert"
      <4>1. \A j \in Found : j \in DOMAIN promotion
        BY DEF Found
      <4> QED BY <1>7, <1>8, <3>1, <3>2, <4>1 DEF PromotionReqOK, Disjoint, Between
    <3>3. CASE promotion_req[u].pc \in {"load", "flush"}
      <4>1. q.mem.deleted /\ ~promotion_req[u].mem.deleted => FALSE
        BY <1>1, <1>2, <3>1, <3>3 DEF PromotionInv, PromotionReqOK, NoTwo
      <4>2. ~promotion_req[u].mem.deleted => promotion_req[u].id \in Found'
        <5>1. HAVE ~promotion_req[u].mem.deleted
        <5>2. promotion_req[u].id \in Found
          BY <3>1, <3>3, <5>1 DEF PromotionReqOK
        <5>3. ~promotion'[promotion_req[u].id].deleted
          BY <1>4, <1>5, <4>1, <5>1, <5>2 DEF Found
        <5> QED BY <1>5, <5>2, <5>3 DEF Found
      <4> QED BY <1>5, <1>8, <3>1, <3>3, <4>2 DEF PromotionReqOK
    <3> QED BY <3>1, <3>2, <3>3 DEF PromotionReqOK
  <2> QED BY <2>1, <2>2
<1>13. NoTwo'
  BY <1>9 DEF PromotionInv, NoTwo, Idle
<1> QED BY <1>5, <1>6, <1>10, <1>11, <1>12, <1>13 DEF PromotionInv

\* Every step of the service preserves the invariant and keeps what was
\* removed.
LEMMA PromotionStep ==
  ASSUME PromotionInv, CreatesApart, ActiveApart, PromotionNext
  PROVE  /\ PromotionInv'
         /\ \A i \in DOMAIN promotion : promotion[i].deleted => promotion'[i].deleted
<1>1. PICK t \in Tasks :
        \/ CreatePromotion(t) \/ InsertPromotion(t) \/ CheckUpdate(t)
        \/ LoadPromotion(t) \/ FlushPromotion(t) \/ AbortPromotion(t)
        \/ \E i \in Found :
             UpdatePromotion(t, i) \/ RemovePromotion(t, i) \/ ActivePromotion(t, i)
  BY DEF PromotionNext
<1>2. CASE CreatePromotion(t)
  <2>1. PICK p \in Periods :
          /\ \A i \in Found : ~Clashes(p.start, p.end, promotion[i])
          /\ promotion_req' = [promotion_req EXCEPT ![t] = Inserting("createPromotion",
               [start |-> p.start, end |-> p.end, active |-> TRUE, deleted |-> FALSE])]
    BY <1>2 DEF CreatePromotion
  <2> DEFINE row == [start |-> p.start, end |-> p.end, active |-> TRUE, deleted |-> FALSE]
             q == Inserting("createPromotion", row)
  <2>2. row \in PromotionRow
    BY PromotionsAssumption DEF PromotionRow
  <2>3. \A i \in Found : promotion[i] \in PromotionRow
    BY DEF PromotionInv, Found
  <2>4. \A i \in Found : Disjoint(row, promotion[i])
    <3> SUFFICES ASSUME NEW i \in Found PROVE Disjoint(row, promotion[i])
      OBVIOUS
    <3>1. ~Clashes(row.start, row.end, promotion[i])
      BY <2>1
    <3> QED BY <2>2, <2>3, <3>1, ClashesIsComplete
  <2>5. q.pc = "insert" /\ q.op = "createPromotion" /\ q.mem = row
    BY DEF Inserting, Idle
  <2>6. PromotionReqOK(q)
    BY <2>2, <2>4, <2>5 DEF PromotionReqOK
  <2>7. MayStart(promotion_req, t, q.op) /\ UNCHANGED promotion
    BY <1>2, <2>5 DEF CreatePromotion
  <2> QED BY <2>1, <2>6, <2>7, SameTable
<1>3. CASE InsertPromotion(t)
  <2>1. \A i \in DOMAIN promotion : promotion'[i] = promotion[i]
    BY <1>3 DEF InsertPromotion, Put, NextIds
  <2> QED BY <1>3, <2>1, InsertStep
<1>4. CASE CheckUpdate(t) \/ AbortPromotion(t)
  <2>1. UNCHANGED promotion /\ promotion_req' = [promotion_req EXCEPT ![t] = Idle]
    BY <1>4 DEF CheckUpdate, AbortPromotion
  <2>2. PromotionReqOK(Idle) /\ Idle.pc = "idle"
    BY DEF PromotionReqOK, Idle
  <2> QED BY <2>1, <2>2, SameTable
<1>5. CASE LoadPromotion(t)
  <2> DEFINE r == promotion_req[t]
             q == Selected(r, promotion[r.id])
  <2>1. UNCHANGED promotion /\ promotion_req' = [promotion_req EXCEPT ![t] = q] /\ r.pc = "load"
    BY <1>5 DEF LoadPromotion
  <2>2. q = [r EXCEPT !.pc = "flush", !.diff = Changed(r.mem, promotion[r.id])]
    BY DEF Selected
  <2>3. q.pc = "flush" /\ q.op = r.op /\ q.id = r.id /\ q.mem = r.mem
    BY <2>2
  <2>4. PromotionReqOK(q)
    BY <2>1, <2>3 DEF PromotionInv, PromotionReqOK
  <2> QED BY <2>1, <2>3, <2>4, SameTable
<1>6. CASE FlushPromotion(t)
  BY <1>6, FlushStep
<1>7. CASE AbortPromotion(t)
  BY <1>4, <1>7
<1>8. ASSUME NEW i \in Found, UpdatePromotion(t, i) PROVE PromotionInv' /\ UNCHANGED promotion
  <2>1. PICK row : promotion_req' = [promotion_req EXCEPT ![t] =
          [Saving("updatePromotion", i, row) EXCEPT !.pc = "check"]]
    BY <1>8 DEF UpdatePromotion
  <2> DEFINE q == [Saving("updatePromotion", i, row) EXCEPT !.pc = "check"]
  <2>2. q.pc = "check" /\ q.op = "updatePromotion"
    BY DEF Saving, Idle
  <2>3. PromotionReqOK(q)
    BY <2>2 DEF PromotionReqOK
  <2> QED BY <1>8, <2>1, <2>2, <2>3, SameTable DEF UpdatePromotion
<1>9. ASSUME NEW i \in Found, RemovePromotion(t, i) PROVE PromotionInv' /\ UNCHANGED promotion
  <2> DEFINE row == [promotion[i] EXCEPT !.deleted = TRUE]
             q == Saving("removePromotion", i, row)
  <2>1. promotion_req' = [promotion_req EXCEPT ![t] = q] /\ UNCHANGED promotion
    BY <1>9 DEF RemovePromotion
  <2>2. q.pc = "load" /\ q.op = "removePromotion" /\ q.id = i /\ q.mem = row
    BY DEF Saving, Idle
  <2>3. i \in DOMAIN promotion /\ promotion[i] \in PromotionRow
    BY DEF PromotionInv, Found
  <2>4. row \in PromotionRow /\ row.start = promotion[i].start /\ row.end = promotion[i].end
        /\ row.deleted
    BY <2>3 DEF PromotionRow
  <2>5. PromotionReqOK(q)
    BY <2>2, <2>3, <2>4 DEF PromotionReqOK
  <2> QED BY <1>9, <2>1, <2>2, <2>5, SameTable DEF RemovePromotion
<1>10. ASSUME NEW i \in Found, ActivePromotion(t, i) PROVE PromotionInv' /\ UNCHANGED promotion
  <2>1. PICK on \in BOOLEAN : promotion_req' = [promotion_req EXCEPT ![t] =
          Saving("activePromotion", i, [promotion[i] EXCEPT !.active = on])]
    BY <1>10 DEF ActivePromotion
  <2> DEFINE row == [promotion[i] EXCEPT !.active = on]
             q == Saving("activePromotion", i, row)
  <2>2. q.pc = "load" /\ q.op = "activePromotion" /\ q.id = i /\ q.mem = row
    BY DEF Saving, Idle
  <2>3. i \in DOMAIN promotion /\ promotion[i] \in PromotionRow /\ ~promotion[i].deleted
    BY DEF PromotionInv, Found
  <2>4. row \in PromotionRow /\ row.start = promotion[i].start /\ row.end = promotion[i].end
        /\ ~row.deleted
    BY <2>3 DEF PromotionRow
  <2>5. PromotionReqOK(q)
    BY <2>2, <2>3, <2>4 DEF PromotionReqOK
  <2> QED BY <1>10, <2>1, <2>2, <2>5, SameTable DEF ActivePromotion
<1> QED BY <1>1, <1>2, <1>3, <1>4, <1>5, <1>6, <1>7, <1>8, <1>9, <1>10

\* With creates kept apart, and active from remove, the invariant always holds.
LEMMA PromotionInvHolds ==
  ASSUME CreatesApart, ActiveApart
  PROVE  PromotionSpec => []PromotionInv
<1>1. PromotionInit => PromotionInv
  BY DEF PromotionInit, PromotionInv, PromotionReqOK, NoTwo, Found, Idle
<1>2. PromotionInv /\ UNCHANGED promotion_vars => PromotionInv'
  BY DEF PromotionInv, PromotionReqOK, NoTwo, Found, promotion_vars
<1>3. PromotionInv /\ [PromotionNext]_promotion_vars => PromotionInv'
  BY <1>2, PromotionStep
<1> QED BY <1>1, <1>3, PTL DEF PromotionSpec
-----------------------------------------------------------------------------
\* No day is covered by two promotions: whatever the periods, however many
\* creates, updates, removals and switches overlap otherwise, and wherever a
\* request breaks off (promotion.service.ts).
THEOREM OnePromotion ==
  ASSUME CreatesApart, ActiveApart
  PROVE  PromotionSpec => []OnePromotionPerDay
<1>1. PromotionInv => OnePromotionPerDay
  BY DEF PromotionInv, OnePromotionPerDay, Offered, Disjoint
<1> QED BY <1>1, PromotionInvHolds, PTL

\* A removed promotion stays removed, although every save of a copy loaded
\* before the removal would write its empty deletedAt back.
THEOREM RemovedIsGone ==
  ASSUME CreatesApart, ActiveApart
  PROVE  PromotionSpec => RemovedStaysRemoved
<1>1. PromotionInv /\ [PromotionNext]_promotion_vars =>
        [\A i \in DOMAIN promotion : promotion[i].deleted => promotion'[i].deleted]_promotion_vars
  BY PromotionStep
<1> QED BY <1>1, PromotionInvHolds, PTL DEF PromotionSpec, RemovedStaysRemoved
-----------------------------------------------------------------------------
(* The desks *)

\* Side by side, each service behaves as it does alone: they share no table, so
\* what is proved of one holds of the back office.
THEOREM DesksAreServices ==
  BackOfficeSpec => PromotionSpec /\ CatalogueSpec /\ AccountsSpec /\ RoomAdminSpec
<1>1. BackOfficeInit => PromotionInit /\ CatalogueInit /\ AccountsInit /\ RoomAdminInit
  BY DEF BackOfficeInit
<1>2. [BackOfficeNext]_back_office_vars =>
        /\ [PromotionNext]_promotion_vars /\ [CatalogueNext]_catalogue_vars
        /\ [AccountsNext]_account_vars /\ [RoomAdminNext]_room_vars
  BY DEF BackOfficeNext, back_office_vars
<1> QED BY <1>1, <1>2, PTL DEF BackOfficeSpec, PromotionSpec, CatalogueSpec, AccountsSpec, RoomAdminSpec
-----------------------------------------------------------------------------
(* Accounts: the seeder fills an empty table only, the admin first, and no   *)
(* request runs while it does; an email never changes and no row goes, so    *)
(* who was there when the server last listened still is.                     *)

AdminThere == Registered(Seeds[1].email) # {}

\* What is true of a request q
AccountReqOK(q) ==
  /\ q \in Requests({"insert", "load", "flush"}, UserOps, Users, UserRow)
  /\ q.pc = "idle" <=> q.op = "none"
  /\ q.pc = "insert" <=> q.op \in Creating
  /\ q.pc # "idle" => q.mem \in UserRow
  /\ q.pc \in {"load", "flush"} => q.id \in DOMAIN user /\ q.mem.email = user[q.id].email

\* How far the seeders have come
SeedOK ==
  /\ server \in {"down", "starting", "features", "users", "up"}
  /\ feature_room \subseteq Features
  /\ server = "features" => todo \subseteq Features /\ (feature_room # {} \/ todo # {})
  /\ server = "users" => todo \subseteq 1 .. Len(Seeds) /\ (AdminThere \/ 1 \in todo)
  /\ server \in {"users", "up"} => feature_room # {}
  /\ server = "up" => AdminThere
  /\ server \notin {"features", "users"} => todo = {}
  /\ DOMAIN user # {} => AdminThere

AccountsInv ==
  /\ IsTable(user, Users, UserRow)
  /\ user_req \in [Tasks -> Requests({"insert", "load", "flush"}, UserOps, Users, UserRow)]
  /\ \A t \in Tasks : AccountReqOK(user_req[t])
  /\ SeedOK
  /\ server # "up" => \A t \in Tasks : user_req[t].pc = "idle"
  /\ crashes \in 0 .. MaxCrashes

\* The accounts of user.seed.ts are users.
LEMMA SeedsAreUsers ==
  /\ Len(Seeds) \in Nat /\ 1 \in 1 .. Len(Seeds)
  /\ \A n \in 1 .. Len(Seeds) : NewUser(Seeds[n].email, Seeds[n].role) \in UserRow
<1>1. Len(Seeds) = 3
  BY DEF Seeds
<1>2. \A n \in 1 .. 3 : Seeds[n].role \in Roles
  BY DEF Seeds, Roles
<1> QED BY <1>1, <1>2 DEF NewUser, UserRow

\* Rows are added and changed, but their emails.
Keeps == DOMAIN user \subseteq DOMAIN user'
           /\ \A i \in DOMAIN user : user'[i].email = user[i].email

\* What was true of a request and who was registered stays so.
LEMMA KeepsOK ==
  ASSUME Keeps
  PROVE  /\ \A q : AccountReqOK(q) => AccountReqOK(q)'
         /\ \A email : Registered(email) \subseteq Registered(email)'
<1>1. ASSUME NEW q, AccountReqOK(q)
      PROVE  AccountReqOK(q)'
  BY <1>1 DEF Keeps, AccountReqOK
<1>2. ASSUME NEW email
      PROVE  Registered(email) \subseteq Registered(email)'
  BY DEF Keeps, Registered
<1> QED BY <1>1, <1>2

\* A row put where none was.
LEMMA PutKeeps ==
  ASSUME AccountsInv, NEW i \in NextIds(Users, DOMAIN user), NEW row \in UserRow,
         user' = Put(user, i, row)
  PROVE  /\ Keeps /\ IsTable(user, Users, UserRow)'
         /\ i \in DOMAIN user' /\ user'[i] = row
         /\ DOMAIN user' = DOMAIN user \cup {i}
<1>1. i \in Users /\ i \notin DOMAIN user
  BY DEF NextIds
<1> QED BY <1>1 DEF Put, Keeps, IsTable, AccountsInv

\* The start of the server.
LEMMA SeedStep ==
  ASSUME AccountsInv, Seed \/ Crash
  PROVE  AccountsInv' /\ Keeps
<1>1. CASE SeedUser
  <2>1. PICK n \in todo, i \in NextIds(Users, DOMAIN user) :
          /\ \A m \in todo : n <= m
          /\ user' = Put(user, i, NewUser(Seeds[n].email, Seeds[n].role))
          /\ todo' = todo \ {n}
    BY <1>1 DEF SeedUser
  <2>2. n \in 1 .. Len(Seeds) /\ server = "users" /\ UNCHANGED <<user_req, feature_room, server, crashes>>
    BY <1>1, <2>1 DEF SeedUser, AccountsInv, SeedOK
  <2>3. /\ Keeps /\ IsTable(user, Users, UserRow)' /\ i \in DOMAIN user'
        /\ user'[i] = NewUser(Seeds[n].email, Seeds[n].role)
    BY <2>1, <2>2, SeedsAreUsers, PutKeeps
  <2>4. AdminThere'
    <3>1. CASE AdminThere
      BY <2>3, <3>1, KeepsOK DEF AdminThere
    <3>2. CASE ~AdminThere
      <4>1. n = 1
        BY <2>1, <2>2, <3>2, SeedsAreUsers DEF AccountsInv, SeedOK
      <4> QED BY <2>3, <4>1 DEF AdminThere, Registered, NewUser
    <3> QED BY <3>1, <3>2
  <2>5. SeedOK'
    BY <2>1, <2>2, <2>4 DEF AccountsInv, SeedOK
  <2>6. \A t \in Tasks : AccountReqOK(user_req[t])'
    BY <2>2, <2>3, KeepsOK DEF AccountsInv
  <2> QED BY <2>2, <2>3, <2>5, <2>6 DEF AccountsInv
<1>2. CASE Start \/ CountFeatures \/ SeedFeature \/ CountUsers \/ Listen
  <2>1. UNCHANGED <<user, user_req, crashes>> /\ server # "up"
    BY <1>2 DEF Start, CountFeatures, SeedFeature, CountUsers, Listen
  <2>2. Keeps
    BY <2>1 DEF Keeps
  <2>3. AdminThere' = AdminThere
    BY <2>1 DEF AdminThere, Registered
  <2>4. SeedOK'
    <3>1. CASE Start \/ CountFeatures \/ SeedFeature
      BY <2>1, <2>3, <3>1, AccountsAssumption
      DEF Start, CountFeatures, SeedFeature, AccountsInv, SeedOK
    <3>2. CASE CountUsers \/ Listen
      BY <2>1, <2>3, <3>2, SeedsAreUsers DEF CountUsers, Listen, AccountsInv, SeedOK
    <3> QED BY <1>2, <3>1, <3>2
  <2>5. \A t \in Tasks : AccountReqOK(user_req[t])'
    BY <2>1, <2>2, KeepsOK DEF AccountsInv
  <2> QED BY <2>1, <2>2, <2>4, <2>5 DEF AccountsInv
<1>3. CASE Crash
  <2>1. UNCHANGED <<user, feature_room>> /\ server' = "down" /\ todo' = {}
        /\ user_req' = [t \in Tasks |-> Idle] /\ crashes' \in 0 .. MaxCrashes
    BY <1>3, AccountsAssumption DEF Crash, AccountsInv
  <2>2. Keeps
    BY <2>1 DEF Keeps
  <2>3. AdminThere' = AdminThere
    BY <2>1 DEF AdminThere, Registered
  <2>4. SeedOK'
    BY <2>1, <2>3 DEF AccountsInv, SeedOK
  <2>5. Idle \in Requests({"insert", "load", "flush"}, UserOps, Users, UserRow)
    BY DEF Idle, Requests
  <2>6. AccountReqOK(Idle)' /\ Idle.pc = "idle"
    BY <2>5 DEF AccountReqOK, Idle, Creating
  <2>7. \A t \in Tasks : user_req'[t] = Idle
    BY <2>1
  <2>8. \A t \in Tasks : AccountReqOK(user_req[t])'
    BY <2>6, <2>7 DEF AccountReqOK
  <2> QED BY <2>1, <2>2, <2>4, <2>5, <2>6, <2>8 DEF AccountsInv, IsTable
<1> QED BY <1>1, <1>2, <1>3 DEF Seed

\* A request goes on with q.
LEMMA ServeStep ==
  ASSUME AccountsInv, server = "up", UNCHANGED seed_vars, Keeps, IsTable(user, Users, UserRow)',
         NEW t \in Tasks, NEW q, user_req' = [user_req EXCEPT ![t] = q], AccountReqOK(q)
  PROVE  AccountsInv'
<1>1. \A u \in Tasks : user_req'[u] = IF u = t THEN q ELSE user_req[u]
  BY DEF AccountsInv
<1>2. user_req' \in [Tasks -> Requests({"insert", "load", "flush"}, UserOps, Users, UserRow)]
  BY DEF AccountsInv, AccountReqOK
<1>3. ASSUME NEW u \in Tasks
      PROVE  AccountReqOK(user_req[u])'
  <2> PICK p : p = user_req'[u]
    OBVIOUS
  <2>1. AccountReqOK(p)
    BY <1>1 DEF AccountsInv
  <2>2. AccountReqOK(p)'
    BY <2>1, KeepsOK
  <2> QED BY <2>2 DEF AccountReqOK
<1>4. AdminThere' /\ DOMAIN user \subseteq DOMAIN user'
  BY KeepsOK DEF AccountsInv, SeedOK, AdminThere, Keeps
<1>5. SeedOK'
  BY <1>4 DEF AccountsInv, SeedOK, seed_vars
<1> QED BY <1>2, <1>3, <1>5 DEF AccountsInv, seed_vars

\* What a request may be saving or inserting.
LEMMA SavingOK ==
  ASSUME AccountsInv, NEW i \in DOMAIN user, NEW op \in UserOps \ Creating, NEW row \in UserRow,
         row.email = user[i].email
  PROVE  AccountReqOK(Saving(op, i, row))
BY DEF AccountReqOK, Saving, Idle, Requests, AccountsInv, IsTable, Creating, UserOps

LEMMA InsertingOK ==
  ASSUME NEW op \in Creating, NEW row \in UserRow
  PROVE  /\ AccountReqOK(Inserting(op, row))
         /\ Inserting(op, row).op = op /\ Inserting(op, row).mem = row
BY DEF AccountReqOK, Inserting, Idle, Requests, Creating, UserOps

LEMMA IdleOK == AccountReqOK(Idle) /\ Idle.op = "none" /\ Idle.pc = "idle"
BY DEF AccountReqOK, Idle, Requests, Creating

\* The steps of a request that change the table.
LEMMA WriteUserStep ==
  ASSUME AccountsInv, server = "up", NEW t \in Tasks, InsertUser(t) \/ FlushUser(t)
  PROVE  AccountsInv' /\ Keeps
<1> PICK q : q = user_req[t]
  OBVIOUS
<1>1. /\ AccountReqOK(q) /\ UNCHANGED seed_vars /\ user_req' = [user_req EXCEPT ![t] = Idle]
      /\ q.pc # "idle" /\ q.mem \in UserRow
  BY DEF InsertUser, FlushUser, AccountsInv, AccountReqOK
<1>2. CASE InsertUser(t)
  <2>1. PICK i \in NextIds(Users, DOMAIN user) : user' = Put(user, i, q.mem)
    BY <1>2 DEF InsertUser
  <2>2. Keeps /\ IsTable(user, Users, UserRow)'
    BY <1>1, <2>1, PutKeeps
  <2> QED BY <1>1, <2>2, IdleOK, ServeStep
<1>3. CASE FlushUser(t)
  <2> PICK row : row = Flushed(q, user[q.id])
    OBVIOUS
  <2>1. user' = [user EXCEPT ![q.id] = row] /\ q.pc = "flush"
    BY <1>3 DEF FlushUser
  <2>2. q.id \in DOMAIN user /\ q.mem.email = user[q.id].email /\ user[q.id] \in UserRow
    BY <1>1, <2>1 DEF AccountReqOK, AccountsInv, IsTable
  <2>3. row \in UserRow /\ row.email = user[q.id].email
    BY <1>1, <2>2 DEF Flushed, Saved, UserRow
  <2>4. Keeps /\ IsTable(user, Users, UserRow)'
    BY <2>1, <2>2, <2>3 DEF Keeps, IsTable, AccountsInv
  <2> QED BY <1>1, <2>4, IdleOK, ServeStep
<1> QED BY <1>2, <1>3

\* The steps that leave the table alone.
LEMMA ReadUserStep ==
  ASSUME AccountsInv, server = "up", NEW t \in Tasks,
         \/ Register(t) \/ CmsCreateUser(t) \/ LoadUser(t)
         \/ \E i \in Guests : CmsUpdateUser(t, i) \/ UpdateUser(t, i) \/ ActiveUser(t, i)
  PROVE  /\ AccountsInv' /\ UNCHANGED user
         /\ \E q : user_req' = [user_req EXCEPT ![t] = q]
<1>1. UNCHANGED <<user, seed_vars>>
  BY DEF Register, CmsCreateUser, LoadUser, CmsUpdateUser, UpdateUser, ActiveUser
<1>2. Keeps /\ IsTable(user, Users, UserRow)'
  BY <1>1 DEF Keeps, AccountsInv, IsTable
<1>3. \A email \in Emails, role \in Roles : NewUser(email, role) \in UserRow
  BY DEF NewUser, UserRow
<1>4. CASE Register(t) \/ CmsCreateUser(t)
  <2>1. PICK op \in Creating, row \in UserRow : user_req' = [user_req EXCEPT ![t] = Inserting(op, row)]
    <3>1. CASE Register(t)
      BY <1>3, <3>1 DEF Register, Creating, Roles
    <3>2. CASE CmsCreateUser(t)
      BY <1>3, <3>2, AccountsAssumption DEF CmsCreateUser, Creating
    <3> QED BY <1>4, <3>1, <3>2
  <2> QED BY <1>1, <1>2, <2>1, InsertingOK, ServeStep
<1>5. CASE LoadUser(t)
  <2> PICK p, q : p = user_req[t] /\ q = Selected(p, user[p.id])
    OBVIOUS
  <2>1. user_req' = [user_req EXCEPT ![t] = q] /\ AccountReqOK(p) /\ p.pc = "load"
    BY <1>5 DEF LoadUser, AccountsInv
  <2>2. user[p.id] \in UserRow
    BY <2>1 DEF AccountReqOK, AccountsInv, IsTable
  <2>3. Changed(p.mem, user[p.id]) \subseteq {"email", "role", "active", "first_login"}
    BY <2>2 DEF Changed, UserRow
  <2>4. AccountReqOK(q)
    BY <2>1, <2>3 DEF AccountReqOK, Selected, Requests, Creating
  <2> QED BY <1>1, <1>2, <2>1, <2>4, ServeStep
<1>6. ASSUME NEW i \in Guests, CmsUpdateUser(t, i) \/ UpdateUser(t, i) \/ ActiveUser(t, i)
      PROVE  AccountsInv' /\ \E q : user_req' = [user_req EXCEPT ![t] = q]
  <2>1. i \in DOMAIN user /\ user[i] \in UserRow
    BY <1>6 DEF Guests, Registered, AccountsInv, IsTable
  <2>2. PICK op \in UserOps \ Creating, row \in UserRow :
          row.email = user[i].email /\ user_req' = [user_req EXCEPT ![t] = Saving(op, i, row)]
    <3>1. CASE CmsUpdateUser(t, i)
      <4>1. PICK role \in Roles :
              user_req' = [user_req EXCEPT ![t] = Saving("cmsUpdateUser", i, [user[i] EXCEPT !.role = role])]
        BY <2>1, <3>1, AccountsAssumption DEF CmsUpdateUser, UserRow
      <4>2. PICK op, row : op = "cmsUpdateUser" /\ row = [user[i] EXCEPT !.role = role]
        OBVIOUS
      <4>3. op \in UserOps \ Creating /\ row \in UserRow /\ row.email = user[i].email
        BY <2>1, <4>2 DEF UserOps, Creating, UserRow
      <4> QED BY <4>1, <4>2, <4>3
    <3>2. CASE UpdateUser(t, i)
      <4>1. PICK op, row : op = "updateUser" /\ row = [user[i] EXCEPT !.first_login = FALSE]
        OBVIOUS
      <4>2. op \in UserOps \ Creating /\ row \in UserRow /\ row.email = user[i].email
        BY <2>1, <4>1 DEF UserOps, Creating, UserRow
      <4> QED BY <3>2, <4>1, <4>2 DEF UpdateUser
    <3>3. CASE ActiveUser(t, i)
      <4>1. PICK on \in BOOLEAN :
              user_req' = [user_req EXCEPT ![t] = Saving("activeUser", i, [user[i] EXCEPT !.active = on])]
        BY <3>3 DEF ActiveUser
      <4>2. PICK op, row : op = "activeUser" /\ row = [user[i] EXCEPT !.active = on]
        OBVIOUS
      <4>3. op \in UserOps \ Creating /\ row \in UserRow /\ row.email = user[i].email
        BY <2>1, <4>2 DEF UserOps, Creating, UserRow
      <4> QED BY <4>1, <4>2, <4>3
    <3> QED BY <1>6, <3>1, <3>2, <3>3
  <2> QED BY <1>1, <1>2, <2>1, <2>2, SavingOK, ServeStep
<1> QED BY <1>1, <1>4, <1>5, <1>6

\* Every step of the server preserves it, and keeps who is registered.
LEMMA AccountsStep == AccountsInv /\ [AccountsNext]_account_vars => AccountsInv' /\ Keeps
<1> SUFFICES ASSUME AccountsInv, [AccountsNext]_account_vars PROVE AccountsInv' /\ Keeps
  OBVIOUS
<1>1. CASE Serve
  <2>1. PICK t \in Tasks :
          \/ InsertUser(t) \/ FlushUser(t)
          \/ \/ Register(t) \/ CmsCreateUser(t) \/ LoadUser(t)
             \/ \E i \in Guests : CmsUpdateUser(t, i) \/ UpdateUser(t, i) \/ ActiveUser(t, i)
    BY <1>1 DEF Serve
  <2>2. server = "up"
    BY <1>1 DEF Serve
  <2>3. CASE InsertUser(t) \/ FlushUser(t)
    BY <2>2, <2>3, WriteUserStep
  <2>4. CASE ~(InsertUser(t) \/ FlushUser(t))
    BY <2>1, <2>2, <2>4, ReadUserStep DEF Keeps
  <2> QED BY <2>3, <2>4
<1>2. CASE UNCHANGED account_vars
  <2>1. UNCHANGED <<user, user_req, feature_room, server, todo, crashes>>
    BY <1>2 DEF account_vars
  <2>2. Keeps
    BY <2>1 DEF Keeps
  <2>3. \A t \in Tasks : AccountReqOK(user_req[t])'
    BY <2>1 DEF AccountsInv, AccountReqOK
  <2>4. SeedOK'
    BY <2>1 DEF AccountsInv, SeedOK, AdminThere, Registered
  <2> QED BY <2>1, <2>2, <2>3, <2>4 DEF AccountsInv, IsTable
<1> QED BY <1>1, <1>2, SeedStep DEF AccountsNext

LEMMA AccountsStart == AccountsInit => AccountsInv
<1> SUFFICES ASSUME AccountsInit PROVE AccountsInv
  OBVIOUS
<1>1. \A t \in Tasks : user_req[t] = Idle
  BY DEF AccountsInit
<1>2. Idle \in Requests({"insert", "load", "flush"}, UserOps, Users, UserRow)
  BY DEF Idle, Requests
<1> QED BY <1>1, <1>2, IdleOK, AccountsAssumption
        DEF AccountsInit, AccountsInv, IsTable, SeedOK

LEMMA AccountsHold == AccountsSpec => []AccountsInv
BY AccountsStart, AccountsStep, PTL DEF AccountsSpec

\* A server that takes requests has the admin's account and features of rooms,
\* wherever earlier starts broke off (seeder.service.ts).
THEOREM SeededFirst == AccountsSpec => []SeededBeforeServing
<1>1. AccountsInv => SeededBeforeServing
  BY DEF AccountsInv, SeedOK, SeededBeforeServing, AdminThere
<1> QED BY <1>1, AccountsHold, PTL

-----------------------------------------------------------------------------
(* Columns: what the services with save() have in common.  An entity that is  *)
(* about to be saved differs from its row in no column but those its operation*)
(* assigns, as long as edits that assign other columns do not overlap with it.*)

EditsApart(edits) == \A op1, op2 \in edits : op1 # op2 => {op1, op2} \in KeptApart

\* What is true of a request q of a table
EditOK(table, q, edits) ==
  /\ DOMAIN q = DOMAIN Idle
  /\ q.pc \in {"load", "flush"} =>
       /\ q.op \in edits /\ q.id \in DOMAIN table
       /\ \A c \in DOMAIN table[q.id] \ Assigned(q.op) : q.mem[c] = table[q.id][c]

EditsOK(table, req, edits) ==
  /\ table = [i \in DOMAIN table |-> table[i]] /\ req = [t \in Tasks |-> req[t]]
  /\ \A t \in Tasks : EditOK(table, req[t], edits)
  /\ \A t, u \in Tasks :
       /\ req[t].pc # "idle" /\ req[u].pc # "idle"
       /\ req[t].op \in edits /\ req[u].op \in edits
       => req[t].op = req[u].op

KeepsColumns(table, req, table2, req2, edits) ==
  EditsOK(table2, req2, edits) /\ WritesItsOwn(table, table2, req, req2)

\* The UPDATE of a save, if the database does not refuse it
Flushes(table, req, table2, req2, t) ==
  /\ req[t].pc = "flush" /\ req2 = [req EXCEPT ![t] = Idle]
  /\ \/ table2 = table
     \/ table2 = [table EXCEPT ![req[t].id] = Flushed(req[t], table[req[t].id])]

\* It leaves the entities in memory as good as they were.
LEMMA EditFlushes ==
  ASSUME NEW table, NEW req, NEW edits, NEW t \in Tasks, NEW table2, NEW req2,
         EditsOK(table, req, edits), Flushes(table, req, table2, req2, t)
  PROVE  KeepsColumns(table, req, table2, req2, edits)
<1> PICK q, row, row2 : /\ q = req[t] /\ row = table[q.id]
                        /\ row2 = IF table2 = table THEN row ELSE Flushed(q, row)
  OBVIOUS
<1>1. /\ \A u \in Tasks : req2[u] = IF u = t THEN Idle ELSE req[u]
      /\ req2 = [u \in Tasks |-> req2[u]]
  BY DEF EditsOK, Flushes
<1>2. /\ q.pc = "flush" /\ q.op \in edits /\ q.id \in DOMAIN table
      /\ \A c \in DOMAIN row \ Assigned(q.op) : q.mem[c] = row[c]
  BY DEF EditsOK, EditOK, Flushes
<1>3. /\ DOMAIN table2 = DOMAIN table /\ table2 = [i \in DOMAIN table2 |-> table2[i]]
      /\ \A i \in DOMAIN table : table2[i] = IF i = q.id THEN row2 ELSE table[i]
  BY <1>2 DEF EditsOK, Flushes
<1>4. DOMAIN row2 = DOMAIN row /\ \A c \in DOMAIN row \ Assigned(q.op) : row2[c] = row[c]
  BY <1>2 DEF Flushed, Saved
<1>5. Idle.pc = "idle"
  BY DEF Idle
<1>6. ASSUME NEW u \in Tasks
      PROVE  EditOK(table2, req2[u], edits)
  <2>1. CASE u = t
    BY <1>1, <1>5, <2>1 DEF EditOK
  <2>2. CASE u # t
    <3>1. req2[u] = req[u] /\ EditOK(table, req[u], edits)
      BY <1>1, <2>2 DEF EditsOK
    <3>2. req[u].pc \in {"load", "flush"} => req[u].op = q.op
      BY <1>2, <3>1 DEF EditsOK, EditOK
    <3> QED BY <1>3, <1>4, <3>1, <3>2 DEF EditOK
  <2> QED BY <2>1, <2>2
<1>7. \A u, v \in Tasks :
        /\ req2[u].pc # "idle" /\ req2[v].pc # "idle" /\ req2[u].op \in edits /\ req2[v].op \in edits
        => req2[u].op = req2[v].op
  BY <1>1, <1>5 DEF EditsOK
<1>8. WritesItsOwn(table, table2, req, req2)
  <2> SUFFICES ASSUME NEW u \in Tasks, req[u].pc = "flush", req2[u].pc = "idle",
                      NEW i \in DOMAIN table, NEW c \in DOMAIN table[i], table2[i][c] # table[i][c]
               PROVE  c \in Assigned(req[u].op)
    BY DEF WritesItsOwn, Changed
  <2>1. u = t
    BY <1>1
  <2> QED BY <1>3, <1>4, <2>1
<1> QED BY <1>1, <1>3, <1>6, <1>7, <1>8 DEF EditsOK, KeepsColumns

\* Any other step of a request: rows may be added.
LEMMA EditGoes ==
  ASSUME NEW table, NEW req, NEW edits, NEW t \in Tasks, NEW table2, NEW req2, NEW q,
         EditsApart(edits), EditsOK(table, req, edits), req2 = [req EXCEPT ![t] = q],
         EditOK(table, q, edits), DOMAIN table \subseteq DOMAIN table2,
         table2 = [i \in DOMAIN table2 |-> table2[i]], \A i \in DOMAIN table : table2[i] = table[i],
         \/ q.pc = "idle" \/ q.op \notin edits
         \/ q.op = req[t].op /\ req[t].pc # "idle"
         \/ MayStart(req, t, q.op)
  PROVE  KeepsColumns(table, req, table2, req2, edits)
<1>1. /\ \A u \in Tasks : req2[u] = IF u = t THEN q ELSE req[u]
      /\ req2 = [u \in Tasks |-> req2[u]]
  BY DEF EditsOK
<1>2. ASSUME NEW u \in Tasks
      PROVE  EditOK(table2, req2[u], edits)
  <2>1. EditOK(table, req2[u], edits)
    BY <1>1 DEF EditsOK
  <2> QED BY <2>1 DEF EditOK
<1>3. ASSUME NEW u \in Tasks, u # t, q.pc # "idle", req[u].pc # "idle", q.op \in edits, req[u].op \in edits
      PROVE  q.op = req[u].op
  <2>1. CASE q.op = req[t].op /\ req[t].pc # "idle"
    BY <1>3, <2>1 DEF EditsOK
  <2>2. CASE MayStart(req, t, q.op)
    BY <1>3, <2>2 DEF MayStart, EditsApart
  <2> QED BY <1>3, <2>1, <2>2
<1>4. \A u, v \in Tasks :
        /\ req2[u].pc # "idle" /\ req2[v].pc # "idle" /\ req2[u].op \in edits /\ req2[v].op \in edits
        => req2[u].op = req2[v].op
  BY <1>1, <1>3 DEF EditsOK
<1>5. WritesItsOwn(table, table2, req, req2)
  BY DEF WritesItsOwn, Changed
<1> QED BY <1>1, <1>2, <1>4, <1>5 DEF EditsOK, KeepsColumns

\* The SELECT of a save leaves the entity as it is.
LEMMA SelectedSame ==
  ASSUME NEW q, NEW row, NEW p, DOMAIN q = DOMAIN Idle, p = Selected(q, row)
  PROVE  /\ p.pc = "flush" /\ p.op = q.op /\ p.id = q.id /\ p.mem = q.mem
         /\ DOMAIN p = DOMAIN Idle
BY DEF Selected, Idle

LEMMA SavingIs ==
  ASSUME NEW op, NEW i, NEW row, NEW q, q = Saving(op, i, row)
  PROVE  q.pc = "load" /\ q.op = op /\ q.id = i /\ q.mem = row /\ DOMAIN q = DOMAIN Idle
BY DEF Saving, Idle

LEMMA InsertingIs ==
  ASSUME NEW op, NEW row, NEW q, q = Inserting(op, row)
  PROVE  q.pc = "insert" /\ q.op = op /\ DOMAIN q = DOMAIN Idle
BY DEF Inserting, Idle

\* An entity with other values in the columns of its operation.
LEMMA EditIs ==
  ASSUME NEW table, NEW edits, NEW op \in edits, NEW i \in DOMAIN table, NEW row,
         \A c \in DOMAIN table[i] \ Assigned(op) : row[c] = table[i][c]
  PROVE  EditOK(table, Saving(op, i, row), edits)
<1> PICK q : q = Saving(op, i, row)
  OBVIOUS
<1>1. q.op = op /\ q.id = i /\ q.mem = row /\ DOMAIN q = DOMAIN Idle
  BY SavingIs
<1> QED BY <1>1 DEF EditOK

\* An edit begins
Starts(table, req, table2, req2, t, op, i, row) ==
  /\ MayStart(req, t, op) /\ i \in DOMAIN table /\ table2 = table
  /\ req2 = [req EXCEPT ![t] = Saving(op, i, row)]
  /\ \A c \in DOMAIN table[i] \ Assigned(op) : row[c] = table[i][c]

LEMMA EditStarts ==
  ASSUME NEW table, NEW req, NEW edits, NEW t \in Tasks, NEW table2, NEW req2,
         NEW op \in edits, NEW i, NEW row, EditsApart(edits), EditsOK(table, req, edits),
         Starts(table, req, table2, req2, t, op, i, row)
  PROVE  KeepsColumns(table, req, table2, req2, edits)
<1> PICK q : q = Saving(op, i, row)
  OBVIOUS
<1>1. q.op = op /\ q.id = i /\ q.mem = row /\ DOMAIN q = DOMAIN Idle
  BY SavingIs
<1>2. EditOK(table, q, edits)
  BY EditIs DEF Starts
<1>3. table = [j \in DOMAIN table |-> table[j]]
  BY DEF EditsOK
<1> QED BY <1>1, <1>2, <1>3, EditGoes DEF Starts

\* So does the SELECT of its save.
LEMMA EditLoads ==
  ASSUME NEW table, NEW req, NEW edits, NEW t \in Tasks, NEW table2, NEW req2,
         EditsApart(edits), EditsOK(table, req, edits), req[t].pc = "load", table2 = table,
         req2 = [req EXCEPT ![t] = Selected(req[t], table[req[t].id])]
  PROVE  KeepsColumns(table, req, table2, req2, edits)
<1> PICK q, p : q = req[t] /\ p = Selected(q, table[q.id])
  OBVIOUS
<1>1. EditOK(table, q, edits) /\ table = [j \in DOMAIN table |-> table[j]]
  BY DEF EditsOK
<1>2. p.op = q.op /\ p.id = q.id /\ p.mem = q.mem /\ DOMAIN p = DOMAIN Idle
  BY <1>1, SelectedSame DEF EditOK
<1>3. EditOK(table, p, edits)
  BY <1>1, <1>2 DEF EditOK
<1> QED BY <1>1, <1>2, <1>3, EditGoes

PromotionEdits == {"removePromotion", "activePromotion"}
ServiceEdits == {"updateService", "activeService"}
UserEdits == {"cmsUpdateUser", "updateUser", "activeUser"}

PromotionColumns == EditsOK(promotion, promotion_req, PromotionEdits)
UserColumns == EditsOK(user, user_req, UserEdits)

\* Promotions: remove and active assign different columns.
LEMMA PromotionColumnsStep ==
  ASSUME EditsApart(PromotionEdits), PromotionColumns, [PromotionNext]_promotion_vars
  PROVE  /\ PromotionColumns'
         /\ WritesItsOwn(promotion, promotion', promotion_req, promotion_req')
<1> SUFFICES KeepsColumns(promotion, promotion_req, promotion', promotion_req', PromotionEdits)
  BY DEF PromotionColumns, EditsOK, EditOK, KeepsColumns
<1>1. EditsOK(promotion, promotion_req, PromotionEdits)
  BY DEF PromotionColumns
<1>2. \A t \in Tasks : EditOK(promotion, promotion_req[t], PromotionEdits)
  BY <1>1 DEF EditsOK
<1>3. promotion = [i \in DOMAIN promotion |-> promotion[i]]
  BY <1>1 DEF EditsOK
<1>4. EditOK(promotion, Idle, PromotionEdits) /\ Idle.pc = "idle"
  BY DEF EditOK, Idle
<1>5. ASSUME NEW t \in Tasks, FlushPromotion(t)
      PROVE  KeepsColumns(promotion, promotion_req, promotion', promotion_req', PromotionEdits)
  <2>1. Flushes(promotion, promotion_req, promotion', promotion_req', t)
    BY <1>5 DEF FlushPromotion, Flushes
  <2> QED BY <1>1, <2>1, EditFlushes
<1>6. ASSUME NEW t \in Tasks, InsertPromotion(t)
      PROVE  KeepsColumns(promotion, promotion_req, promotion', promotion_req', PromotionEdits)
  <2>1. PICK i \in NextIds(Promotions, DOMAIN promotion) :
          promotion' = Put(promotion, i, promotion_req[t].mem)
    BY <1>6 DEF InsertPromotion
  <2>2. /\ DOMAIN promotion \subseteq DOMAIN promotion'
        /\ promotion' = [j \in DOMAIN promotion' |-> promotion'[j]]
        /\ \A j \in DOMAIN promotion : promotion'[j] = promotion[j]
    BY <2>1 DEF Put, NextIds
  <2> QED BY <1>1, <1>4, <1>6, <2>2, EditGoes DEF InsertPromotion
<1>7. ASSUME NEW t \in Tasks, NEW q, UNCHANGED promotion, promotion_req' = [promotion_req EXCEPT ![t] = q],
             EditOK(promotion, q, PromotionEdits),
             \/ q.pc = "idle" \/ q.op \notin PromotionEdits
             \/ q.op = promotion_req[t].op /\ promotion_req[t].pc # "idle"
             \/ MayStart(promotion_req, t, q.op)
      PROVE  KeepsColumns(promotion, promotion_req, promotion', promotion_req', PromotionEdits)
  BY <1>1, <1>3, <1>7, EditGoes
<1>8. ASSUME NEW t \in Tasks, CreatePromotion(t) \/ CheckUpdate(t) \/ AbortPromotion(t)
      PROVE  KeepsColumns(promotion, promotion_req, promotion', promotion_req', PromotionEdits)
  <2>1. CASE CreatePromotion(t)
    <3>1. PICK row : promotion_req' = [promotion_req EXCEPT ![t] = Inserting("createPromotion", row)]
      BY <2>1 DEF CreatePromotion
    <3> PICK q : q = Inserting("createPromotion", row)
      OBVIOUS
    <3>2. q.pc = "insert" /\ q.op = "createPromotion" /\ DOMAIN q = DOMAIN Idle
      BY InsertingIs
    <3> QED BY <1>7, <2>1, <3>1, <3>2 DEF CreatePromotion, EditOK, PromotionEdits
  <2>2. CASE CheckUpdate(t) \/ AbortPromotion(t)
    BY <1>4, <1>7, <2>2 DEF CheckUpdate, AbortPromotion
  <2> QED BY <1>8, <2>1, <2>2
<1>9. ASSUME NEW t \in Tasks, LoadPromotion(t)
      PROVE  KeepsColumns(promotion, promotion_req, promotion', promotion_req', PromotionEdits)
  BY <1>1, <1>9, EditLoads DEF LoadPromotion
<1>10. ASSUME NEW t \in Tasks, NEW i \in Found,
              UpdatePromotion(t, i) \/ RemovePromotion(t, i) \/ ActivePromotion(t, i)
       PROVE  KeepsColumns(promotion, promotion_req, promotion', promotion_req', PromotionEdits)
  <2>1. CASE UpdatePromotion(t, i)
    <3>1. PICK row : promotion_req' = [promotion_req EXCEPT ![t] =
                       [Saving("updatePromotion", i, row) EXCEPT !.pc = "check"]]
      BY <2>1 DEF UpdatePromotion
    <3> PICK q : q = [Saving("updatePromotion", i, row) EXCEPT !.pc = "check"]
      OBVIOUS
    <3>2. q.pc = "check" /\ q.op = "updatePromotion" /\ DOMAIN q = DOMAIN Idle
      BY DEF Saving, Idle
    <3> QED BY <1>7, <2>1, <3>1, <3>2 DEF UpdatePromotion, EditOK, PromotionEdits
  <2>2. CASE RemovePromotion(t, i) \/ ActivePromotion(t, i)
    <3>2. Assigned("removePromotion") = {"deleted"} /\ Assigned("activePromotion") = {"active"}
      BY DEF Assigned
    <3>3. CASE RemovePromotion(t, i)
      <4> PICK row : row = [promotion[i] EXCEPT !.deleted = TRUE]
        OBVIOUS
      <4>1. promotion_req' = [promotion_req EXCEPT ![t] = Saving("removePromotion", i, row)]
        BY <3>3 DEF RemovePromotion
      <4>2. \A c \in DOMAIN promotion[i] \ {"deleted"} : row[c] = promotion[i][c]
        OBVIOUS
      <4>3. Starts(promotion, promotion_req, promotion', promotion_req', t, "removePromotion", i, row)
        BY <3>2, <3>3, <4>1, <4>2 DEF RemovePromotion, Starts, Found
      <4> QED BY <1>1, <4>3, EditStarts DEF PromotionEdits
    <3>4. CASE ActivePromotion(t, i)
      <4>1. PICK on \in BOOLEAN : promotion_req' = [promotion_req EXCEPT ![t] =
              Saving("activePromotion", i, [promotion[i] EXCEPT !.active = on])]
        BY <3>4 DEF ActivePromotion
      <4> PICK row : row = [promotion[i] EXCEPT !.active = on]
        OBVIOUS
      <4>2. \A c \in DOMAIN promotion[i] \ {"active"} : row[c] = promotion[i][c]
        OBVIOUS
      <4>3. Starts(promotion, promotion_req, promotion', promotion_req', t, "activePromotion", i, row)
        BY <3>2, <3>4, <4>1, <4>2 DEF ActivePromotion, Starts, Found
      <4> QED BY <1>1, <4>3, EditStarts DEF PromotionEdits
    <3> QED BY <2>2, <3>3, <3>4
  <2> QED BY <1>10, <2>1, <2>2
<1>11. CASE UNCHANGED promotion_vars
  BY <1>1, <1>11 DEF promotion_vars, WritesItsOwn, KeepsColumns
<1> QED BY <1>5, <1>6, <1>8, <1>9, <1>10, <1>11 DEF PromotionNext

\* The names of an update are looked up, then its row is loaded.
Finds ==
  /\ service_req = [t \in Tasks |-> service_req[t]]
  /\ \A t \in Tasks : service_req[t].pc = "find" =>
       service_req[t].op = "updateService" /\ service_req[t].id \in DOMAIN service

ServiceColumns == EditsOK(service, service_req, ServiceEdits) /\ Finds

LEMMA FindsStep == Finds /\ [CatalogueNext]_catalogue_vars => Finds'
<1> SUFFICES ASSUME Finds, [CatalogueNext]_catalogue_vars PROVE Finds'
  OBVIOUS
<1>1. ASSUME NEW t \in Tasks, NEW q, service_req' = [service_req EXCEPT ![t] = q],
             DOMAIN service \subseteq DOMAIN service',
             q.pc = "find" => q.op = "updateService" /\ q.id \in DOMAIN service
      PROVE  Finds'
  BY <1>1 DEF Finds
<1>2. Idle.pc = "idle"
  BY DEF Idle
<1>3. ASSUME NEW t \in Tasks, InsertService(t) \/ FlushService(t) \/ AbortService(t)
      PROVE  Finds'
  <2>1. service_req' = [service_req EXCEPT ![t] = Idle]
    BY <1>3 DEF InsertService, FlushService, AbortService
  <2>2. CASE InsertService(t)
    <3>1. service' = service \/ \E i \in NextIds(Services, DOMAIN service) :
                                  service' = Put(service, i, service_req[t].mem)
      BY <2>2 DEF InsertService
    <3>2. DOMAIN service \subseteq DOMAIN service'
      BY <3>1 DEF Put
    <3> QED BY <1>1, <1>2, <2>1, <3>2
  <2>3. CASE FlushService(t) \/ AbortService(t)
    <3>1. DOMAIN service' = DOMAIN service
      BY <2>3 DEF FlushService, AbortService
    <3> QED BY <1>1, <1>2, <2>1, <3>1
  <2> QED BY <1>3, <2>2, <2>3
<1>4. ASSUME NEW t \in Tasks, CreateService(t) \/ FindService(t) \/ LoadService(t)
      PROVE  Finds'
  <2>1. PICK q : /\ UNCHANGED service /\ service_req' = [service_req EXCEPT ![t] = q]
                 /\ q.pc # "find"
    <3>1. CASE CreateService(t)
      <4>1. PICK row : service_req' = [service_req EXCEPT ![t] = Inserting("createService", row)]
        BY <3>1 DEF CreateService
      <4> QED BY <3>1, <4>1, InsertingIs DEF CreateService
    <3>2. CASE FindService(t)
      <4> PICK p : p = service_req[t]
        OBVIOUS
      <4> PICK row : row = [service[p.id] EXCEPT !.name = IF p.mem.name = Null THEN @ ELSE p.mem.name,
                                                 !.image = p.mem.image]
        OBVIOUS
      <4> PICK q : q = Saving(p.op, p.id, row)
        OBVIOUS
      <4>1. service_req' = [service_req EXCEPT ![t] = q] /\ UNCHANGED service
        BY <3>2 DEF FindService
      <4>2. q.pc = "load"
        BY SavingIs
      <4> QED BY <4>1, <4>2
    <3>3. CASE LoadService(t)
      <4> PICK q : q = Selected(service_req[t], service[service_req[t].id])
        OBVIOUS
      <4>1. q.pc # "find"
        BY <3>3 DEF Selected, LoadService
      <4> QED BY <3>3, <4>1 DEF LoadService
    <3> QED BY <1>4, <3>1, <3>2, <3>3
  <2> QED BY <1>1, <2>1
<1>5. ASSUME NEW t \in Tasks, NEW i \in DOMAIN service, UpdateService(t, i)
      PROVE  Finds'
  <2>1. PICK row : service_req' = [service_req EXCEPT ![t] =
                     [Saving("updateService", i, row) EXCEPT !.pc = "find"]]
    BY <1>5 DEF UpdateService
  <2> PICK q : q = [Saving("updateService", i, row) EXCEPT !.pc = "find"]
    OBVIOUS
  <2>2. q.op = "updateService" /\ q.id = i
    BY DEF Saving, Idle
  <2> QED BY <1>1, <1>5, <2>1, <2>2 DEF UpdateService
<1>6. ASSUME NEW t \in Tasks, NEW i \in DOMAIN service, ActiveService(t, i)
      PROVE  Finds'
  <2>1. PICK on \in BOOLEAN : service_req' = [service_req EXCEPT ![t] =
          Saving("activeService", i, [service[i] EXCEPT !.active = on])]
    BY <1>6 DEF ActiveService
  <2> PICK row : row = [service[i] EXCEPT !.active = on]
    OBVIOUS
  <2> PICK q : q = Saving("activeService", i, row)
    OBVIOUS
  <2>2. q.pc = "load"
    BY SavingIs
  <2> QED BY <1>1, <1>6, <2>1, <2>2 DEF ActiveService
<1>7. CASE UNCHANGED catalogue_vars
  BY <1>7 DEF catalogue_vars, Finds
<1> QED BY <1>3, <1>4, <1>5, <1>6, <1>7 DEF CatalogueNext

\* Services: update and active assign different columns.
LEMMA ServiceColumnsStep ==
  ASSUME EditsApart(ServiceEdits), ServiceColumns, [CatalogueNext]_catalogue_vars
  PROVE  ServiceColumns' /\ WritesItsOwn(service, service', service_req, service_req')
<1>1. EditsOK(service, service_req, ServiceEdits)
  BY DEF ServiceColumns
<1>2. \A t \in Tasks : EditOK(service, service_req[t], ServiceEdits)
  BY <1>1 DEF EditsOK
<1>3. service = [i \in DOMAIN service |-> service[i]]
  BY <1>1 DEF EditsOK
<1>4. EditOK(service, Idle, ServiceEdits) /\ Idle.pc = "idle"
  BY DEF EditOK, Idle
<1>5. SUFFICES KeepsColumns(service, service_req, service', service_req', ServiceEdits)
  BY FindsStep DEF ServiceColumns, EditsOK, EditOK, KeepsColumns
<1>6. ASSUME NEW t \in Tasks, FlushService(t)
      PROVE  KeepsColumns(service, service_req, service', service_req', ServiceEdits)
  <2>1. Flushes(service, service_req, service', service_req', t)
    BY <1>6 DEF FlushService, Flushes
  <2> QED BY <1>1, <2>1, EditFlushes
<1>7. ASSUME NEW t \in Tasks, InsertService(t)
      PROVE  KeepsColumns(service, service_req, service', service_req', ServiceEdits)
  <2>1. service' = service \/ \E i \in NextIds(Services, DOMAIN service) :
                                service' = Put(service, i, service_req[t].mem)
    BY <1>7 DEF InsertService
  <2>2. /\ DOMAIN service \subseteq DOMAIN service'
        /\ service' = [j \in DOMAIN service' |-> service'[j]]
        /\ \A j \in DOMAIN service : service'[j] = service[j]
    BY <1>3, <2>1 DEF Put, NextIds
  <2> QED BY <1>1, <1>4, <1>7, <2>2, EditGoes DEF InsertService
<1>8. ASSUME NEW t \in Tasks, NEW q, UNCHANGED service, service_req' = [service_req EXCEPT ![t] = q],
             EditOK(service, q, ServiceEdits),
             \/ q.pc = "idle" \/ q.op \notin ServiceEdits
             \/ q.op = service_req[t].op /\ service_req[t].pc # "idle"
             \/ MayStart(service_req, t, q.op)
      PROVE  KeepsColumns(service, service_req, service', service_req', ServiceEdits)
  BY <1>1, <1>3, <1>8, EditGoes
<1>9. ASSUME NEW t \in Tasks, CreateService(t)
      PROVE  KeepsColumns(service, service_req, service', service_req', ServiceEdits)
  <2>1. PICK row : service_req' = [service_req EXCEPT ![t] = Inserting("createService", row)]
    BY <1>9 DEF CreateService
  <2> PICK q : q = Inserting("createService", row)
    OBVIOUS
  <2>2. q.pc = "insert" /\ q.op = "createService" /\ DOMAIN q = DOMAIN Idle
    BY InsertingIs
  <2> QED BY <1>8, <1>9, <2>1, <2>2 DEF CreateService, EditOK, ServiceEdits
<1>10. ASSUME NEW t \in Tasks, LoadService(t) \/ AbortService(t)
       PROVE  KeepsColumns(service, service_req, service', service_req', ServiceEdits)
  <2>1. CASE LoadService(t)
    BY <1>1, <2>1, EditLoads DEF LoadService
  <2>2. CASE AbortService(t)
    BY <1>4, <1>8, <2>2 DEF AbortService
  <2> QED BY <1>10, <2>1, <2>2
<1>11. /\ Assigned("updateService") = {"name", "image"}
       /\ Assigned("activeService") = {"active"}
  BY DEF Assigned
<1>12. ASSUME NEW t \in Tasks, FindService(t)
       PROVE  KeepsColumns(service, service_req, service', service_req', ServiceEdits)
  <2> PICK p : p = service_req[t]
    OBVIOUS
  <2>1. p.pc = "find" /\ p.op = "updateService" /\ p.id \in DOMAIN service
    BY <1>12 DEF FindService, ServiceColumns, Finds
  <2> PICK row : row = service[p.id]
    OBVIOUS
  <2> PICK new : new = [row EXCEPT !.name = IF p.mem.name = Null THEN row.name ELSE p.mem.name,
                                   !.image = p.mem.image]
    OBVIOUS
  <2> PICK q : q = Saving(p.op, p.id, new)
    OBVIOUS
  <2>2. q.op = p.op /\ q.id = p.id /\ q.mem = new /\ DOMAIN q = DOMAIN Idle
    BY SavingIs
  <2>3. \A c \in DOMAIN row \ {"name", "image"} : new[c] = row[c]
    OBVIOUS
  <2>4. EditOK(service, q, ServiceEdits)
    <3>1. p.op \in ServiceEdits /\ Assigned(p.op) = {"name", "image"}
      BY <1>11, <2>1 DEF ServiceEdits
    <3> QED BY <2>1, <2>3, <3>1, EditIs
  <2>5. UNCHANGED service /\ service_req' = [service_req EXCEPT ![t] = q]
    BY <1>12 DEF FindService
  <2> QED BY <1>8, <2>1, <2>2, <2>4, <2>5
<1>13. ASSUME NEW t \in Tasks, NEW i \in DOMAIN service, UpdateService(t, i) \/ ActiveService(t, i)
       PROVE  KeepsColumns(service, service_req, service', service_req', ServiceEdits)
  <2>1. CASE UpdateService(t, i)
    <3>1. PICK row : service_req' = [service_req EXCEPT ![t] =
                       [Saving("updateService", i, row) EXCEPT !.pc = "find"]]
      BY <2>1 DEF UpdateService
    <3> PICK q : q = [Saving("updateService", i, row) EXCEPT !.pc = "find"]
      OBVIOUS
    <3>2. q.pc = "find" /\ q.op = "updateService" /\ DOMAIN q = DOMAIN Idle
      BY DEF Saving, Idle
    <3> QED BY <1>8, <2>1, <3>1, <3>2 DEF UpdateService, EditOK, ServiceEdits
  <2>2. CASE ActiveService(t, i)
    <3>1. PICK on \in BOOLEAN : service_req' = [service_req EXCEPT ![t] =
            Saving("activeService", i, [service[i] EXCEPT !.active = on])]
      BY <2>2 DEF ActiveService
    <3> PICK row : row = [service[i] EXCEPT !.active = on]
      OBVIOUS
    <3>2. \A c \in DOMAIN service[i] \ {"active"} : row[c] = service[i][c]
      OBVIOUS
    <3>3. Starts(service, service_req, service', service_req', t, "activeService", i, row)
      BY <1>11, <2>2, <3>1, <3>2 DEF ActiveService, Starts
    <3> QED BY <1>1, <3>3, EditStarts DEF ServiceEdits
  <2> QED BY <1>13, <2>1, <2>2
<1>14. CASE UNCHANGED catalogue_vars
  BY <1>1, <1>14 DEF catalogue_vars, WritesItsOwn, KeepsColumns
<1> QED BY <1>6, <1>7, <1>9, <1>10, <1>12, <1>13, <1>14 DEF CatalogueNext

\* Accounts: the cms assigns the role, the user the profile, the admin the switch.
LEMMA UserColumnsServe ==
  ASSUME EditsApart(UserEdits), UserColumns, Serve
  PROVE  KeepsColumns(user, user_req, user', user_req', UserEdits)
<1>1. EditsOK(user, user_req, UserEdits)
  BY DEF UserColumns
<1>2. user = [i \in DOMAIN user |-> user[i]]
  BY <1>1 DEF EditsOK
<1>3. EditOK(user, Idle, UserEdits) /\ Idle.pc = "idle"
  BY DEF EditOK, Idle
<1>4. ASSUME NEW t \in Tasks, Register(t) \/ CmsCreateUser(t)
      PROVE  KeepsColumns(user, user_req, user', user_req', UserEdits)
  <2>1. PICK op \in Creating : \E row : user_req' = [user_req EXCEPT ![t] = Inserting(op, row)]
    BY <1>4 DEF Register, CmsCreateUser, Creating
  <2>2. PICK row : user_req' = [user_req EXCEPT ![t] = Inserting(op, row)]
    BY <2>1
  <2> PICK q : q = Inserting(op, row)
    OBVIOUS
  <2>3. q.pc = "insert" /\ q.op \notin UserEdits /\ DOMAIN q = DOMAIN Idle
    BY InsertingIs DEF Creating, UserEdits
  <2>4. EditOK(user, q, UserEdits) /\ UNCHANGED user
    BY <1>4, <2>3 DEF EditOK, Register, CmsCreateUser
  <2> QED BY <1>1, <1>2, <2>2, <2>3, <2>4, EditGoes
<1>5. ASSUME NEW t \in Tasks, InsertUser(t)
      PROVE  KeepsColumns(user, user_req, user', user_req', UserEdits)
  <2>1. PICK i \in NextIds(Users, DOMAIN user) : user' = Put(user, i, user_req[t].mem)
    BY <1>5 DEF InsertUser
  <2>2. /\ DOMAIN user \subseteq DOMAIN user'
        /\ user' = [j \in DOMAIN user' |-> user'[j]]
        /\ \A j \in DOMAIN user : user'[j] = user[j]
    BY <2>1 DEF Put, NextIds
  <2> QED BY <1>1, <1>3, <1>5, <2>2, EditGoes DEF InsertUser
<1>6. ASSUME NEW t \in Tasks, LoadUser(t) \/ FlushUser(t)
      PROVE  KeepsColumns(user, user_req, user', user_req', UserEdits)
  <2>1. CASE LoadUser(t)
    BY <1>1, <2>1, EditLoads DEF LoadUser
  <2>2. CASE FlushUser(t)
    <3>1. Flushes(user, user_req, user', user_req', t)
      BY <2>2 DEF FlushUser, Flushes
    <3> QED BY <1>1, <3>1, EditFlushes
  <2> QED BY <1>6, <2>1, <2>2
<1>7. ASSUME NEW t \in Tasks, NEW i \in DOMAIN user, CmsUpdateUser(t, i) \/ UpdateUser(t, i) \/ ActiveUser(t, i)
      PROVE  KeepsColumns(user, user_req, user', user_req', UserEdits)
  <2>1. /\ Assigned("cmsUpdateUser") = {"role"} /\ Assigned("updateUser") = {"first_login"}
        /\ Assigned("activeUser") = {"active"}
    BY DEF Assigned
  <2>2. CASE CmsUpdateUser(t, i)
    <3>1. PICK role \in GivenRoles \cup {user[i].role} : user_req' = [user_req EXCEPT ![t] =
            Saving("cmsUpdateUser", i, [user[i] EXCEPT !.role = role])]
      BY <2>2 DEF CmsUpdateUser
    <3> PICK row : row = [user[i] EXCEPT !.role = role]
      OBVIOUS
    <3>2. \A c \in DOMAIN user[i] \ {"role"} : row[c] = user[i][c]
      OBVIOUS
    <3>3. Starts(user, user_req, user', user_req', t, "cmsUpdateUser", i, row)
      BY <2>1, <2>2, <3>1, <3>2 DEF CmsUpdateUser, Starts
    <3> QED BY <1>1, <3>3, EditStarts DEF UserEdits
  <2>3. CASE UpdateUser(t, i)
    <3> PICK row : row = [user[i] EXCEPT !.first_login = FALSE]
      OBVIOUS
    <3>1. user_req' = [user_req EXCEPT ![t] = Saving("updateUser", i, row)]
      BY <2>3 DEF UpdateUser
    <3>2. \A c \in DOMAIN user[i] \ {"first_login"} : row[c] = user[i][c]
      OBVIOUS
    <3>3. Starts(user, user_req, user', user_req', t, "updateUser", i, row)
      BY <2>1, <2>3, <3>1, <3>2 DEF UpdateUser, Starts
    <3> QED BY <1>1, <3>3, EditStarts DEF UserEdits
  <2>4. CASE ActiveUser(t, i)
    <3>1. PICK on \in BOOLEAN : user_req' = [user_req EXCEPT ![t] =
            Saving("activeUser", i, [user[i] EXCEPT !.active = on])]
      BY <2>4 DEF ActiveUser
    <3> PICK row : row = [user[i] EXCEPT !.active = on]
      OBVIOUS
    <3>2. \A c \in DOMAIN user[i] \ {"active"} : row[c] = user[i][c]
      OBVIOUS
    <3>3. Starts(user, user_req, user', user_req', t, "activeUser", i, row)
      BY <2>1, <2>4, <3>1, <3>2 DEF ActiveUser, Starts
    <3> QED BY <1>1, <3>3, EditStarts DEF UserEdits
  <2> QED BY <1>7, <2>2, <2>3, <2>4
<1>8. Guests \subseteq DOMAIN user
  BY DEF Guests, Registered
<1> QED BY <1>4, <1>5, <1>6, <1>7, <1>8 DEF Serve

\* A start adds rows, a crash forgets the requests.
LEMMA UserColumnsStep ==
  ASSUME EditsApart(UserEdits), UserColumns, [AccountsNext]_account_vars
  PROVE  UserColumns' /\ (server' # "down" => WritesItsOwn(user, user', user_req, user_req'))
<1>1. EditsOK(user, user_req, UserEdits)
  BY DEF UserColumns
<1>2. SUFFICES /\ EditsOK(user', user_req', UserEdits)
               /\ server' # "down" => WritesItsOwn(user, user', user_req, user_req')
  BY DEF UserColumns, EditsOK, EditOK
<1>3. CASE Serve
  BY <1>3, UserColumnsServe DEF KeepsColumns
<1>4. CASE SeedUser
  <2>1. PICK n \in todo, i \in NextIds(Users, DOMAIN user) :
          user' = Put(user, i, NewUser(Seeds[n].email, Seeds[n].role))
    BY <1>4 DEF SeedUser
  <2>2. /\ DOMAIN user \subseteq DOMAIN user' /\ UNCHANGED user_req
        /\ user' = [j \in DOMAIN user' |-> user'[j]]
        /\ \A j \in DOMAIN user : user'[j] = user[j]
    BY <1>4, <2>1 DEF Put, NextIds, SeedUser
  <2>3. \A t \in Tasks : EditOK(user', user_req'[t], UserEdits)
    BY <1>1, <2>2 DEF EditsOK, EditOK
  <2> QED BY <1>1, <2>2, <2>3 DEF EditsOK, WritesItsOwn
<1>5. CASE Crash
  <2>1. UNCHANGED user /\ server' = "down" /\ user_req' = [t \in Tasks |-> Idle]
    BY <1>5 DEF Crash
  <2>2. \A t \in Tasks : EditOK(user', user_req'[t], UserEdits) /\ user_req'[t].pc = "idle"
    BY <2>1 DEF EditOK, Idle
  <2> QED BY <1>1, <2>1, <2>2 DEF EditsOK
<1>6. CASE UNCHANGED <<user, user_req>>
  BY <1>1, <1>6 DEF WritesItsOwn
<1>7. Start \/ CountFeatures \/ SeedFeature \/ CountUsers \/ Listen \/ UNCHANGED account_vars
        => UNCHANGED <<user, user_req>>
  BY DEF Start, CountFeatures, SeedFeature, CountUsers, Listen, account_vars
<1> QED BY <1>3, <1>4, <1>5, <1>6, <1>7 DEF AccountsNext, Seed
-----------------------------------------------------------------------------
(* Rooms: what a request of table room may be at, and what of addRoom's       *)
(* transaction.                                                               *)

\* What is true of a request q
RoomReqOK(q) ==
  /\ q \in Requests({"insert", "load", "flush", "entry", "write"}, RoomOps, HotelRooms \cup Kinds,
                    RoomRow \cup KindRow)
  /\ q.pc = "idle" <=> q.op = "none"
  /\ q.pc = "insert" <=> q.op = "createRoom"
  /\ q.pc = "write" <=> q.op \in {"updateType", "removeType"}
  /\ q.pc \in {"load", "flush"} => q.op \in {"updateRoom", "addRoom"} /\ q.id \in room_ids /\ q.mem \in RoomRow
  /\ q.pc = "entry" => q.op = "addRoom"
  /\ q.op = "createRoom" => q.mem \in RoomRow
  /\ q.op \in {"updateType", "removeType"} => q.id \in Kinds
  /\ q.op = "updateType" => q.mem \in KindRow

RoomTablesOK ==
  /\ IsTable(room, HotelRooms, RoomRow) /\ IsTable(type_room, Kinds, KindRow)
  /\ booked \subseteq room_ids /\ DOMAIN room \subseteq room_ids /\ room_ids \subseteq HotelRooms

\* ... and of its transaction x: rooms are deleted once the list is done
TxOK(q, x) ==
  /\ x # Null <=> q.op = "addRoom"
  /\ x # Null => /\ x \in Transactions /\ DOMAIN x.put \subseteq room_ids /\ x.had \subseteq room_ids
                 /\ x.todo # <<>> => x.gone = {}

RoomAdminInv ==
  /\ RoomTablesOK
  /\ room_req = [t \in Tasks |-> room_req[t]] /\ tx = [t \in Tasks |-> tx[t]]
  /\ \A t \in Tasks : RoomReqOK(room_req[t]) /\ TxOK(room_req[t], tx[t])

\* What is written are rows of the table.
LEMMA WrittenIs == \A put : put \in Written <=> IsTable(put, HotelRooms, RoomRow)
BY DEF Written, IsTable

LEMMA PutIs ==
  ASSUME NEW table, NEW Ids, NEW Row, IsTable(table, Ids, Row), NEW i \in Ids, NEW row \in Row
  PROVE  IsTable(Put(table, i, row), Ids, Row)
BY DEF Put, IsTable

\* A step of the request of t, which becomes q and its transaction x.
LEMMA RoomGoes ==
  ASSUME RoomAdminInv, NEW t \in Tasks, NEW q, NEW x, room_req' = [room_req EXCEPT ![t] = q],
         tx' = [tx EXCEPT ![t] = x], RoomReqOK(q)', TxOK(q, x)', RoomTablesOK', room_ids \subseteq room_ids'
  PROVE  RoomAdminInv'
<1>1. /\ \A u \in Tasks : room_req'[u] = IF u = t THEN q ELSE room_req[u]
      /\ \A u \in Tasks : tx'[u] = IF u = t THEN x ELSE tx[u]
      /\ room_req' = [u \in Tasks |-> room_req'[u]] /\ tx' = [u \in Tasks |-> tx'[u]]
  BY DEF RoomAdminInv
<1>2. ASSUME NEW u \in Tasks
      PROVE  (RoomReqOK(room_req[u]) /\ TxOK(room_req[u], tx[u]))'
  <2>1. CASE u = t
    <3>1. room_req'[u] = q /\ tx'[u] = x
      BY <1>1, <2>1
    <3> QED BY <3>1 DEF RoomReqOK, TxOK
  <2>2. CASE u # t
    <3> PICK p, y : p = room_req[u] /\ y = tx[u]
      OBVIOUS
    <3>1. RoomReqOK(p) /\ TxOK(p, y) /\ p = room_req'[u] /\ y = tx'[u]
      BY <1>1, <2>2 DEF RoomAdminInv
    <3> QED BY <3>1 DEF RoomReqOK, TxOK
  <2> QED BY <2>1, <2>2
<1> QED BY <1>1, <1>2 DEF RoomAdminInv

\* ... and touches neither the rows nor a transaction.
LEMMA RoomReads ==
  ASSUME RoomAdminInv, NEW t \in Tasks, NEW q, room_req' = [room_req EXCEPT ![t] = q], RoomReqOK(q),
         UNCHANGED <<room, type_room, booked, room_ids, tx>>,
         q.op = "addRoom" <=> room_req[t].op = "addRoom"
  PROVE  RoomAdminInv'
<1> PICK x : x = tx[t]
  OBVIOUS
<1>1. RoomReqOK(q)' /\ RoomTablesOK'
  BY DEF RoomReqOK, RoomTablesOK, RoomAdminInv
<1>2. TxOK(q, x)' /\ tx' = [tx EXCEPT ![t] = x]
  BY DEF TxOK, RoomAdminInv
<1> QED BY <1>1, <1>2, RoomGoes

LEMMA RoomIdle == RoomReqOK(Idle) /\ Idle.op = "none" /\ Idle.pc = "idle"
BY DEF RoomReqOK, Idle, Requests

\* ... and gives its transaction up, or had none.
LEMMA RoomEnds ==
  ASSUME RoomAdminInv, NEW t \in Tasks, room_req' = [room_req EXCEPT ![t] = Idle], RoomTablesOK',
         room_ids \subseteq room_ids',
         tx' = [tx EXCEPT ![t] = Null] \/ (tx' = tx /\ room_req[t].op # "addRoom")
  PROVE  RoomAdminInv'
<1> PICK q, x : q = Idle /\ x = Null
  OBVIOUS
<1>1. RoomReqOK(q)' /\ q.op = "none"
  BY RoomIdle DEF RoomReqOK
<1>2. TxOK(q, x)'
  BY <1>1 DEF TxOK
<1>3. tx' = [tx EXCEPT ![t] = x]
  BY DEF RoomAdminInv, TxOK
<1> QED BY <1>1, <1>2, <1>3, RoomGoes

\* A request that may start is at nothing.
LEMMA RoomStarts ==
  ASSUME RoomAdminInv, NEW t \in Tasks, room_req[t].pc = "idle"
  PROVE  room_req[t].op = "none" /\ tx[t] = Null
BY DEF RoomAdminInv, RoomReqOK, TxOK

\* The columns of a row.
LEMMA RowIs ==
  ASSUME NEW row \in RoomRow
  PROVE  /\ DOMAIN row = {"name", "marked", "type"}
         /\ row.name \in Labels /\ row.marked \in BOOLEAN /\ row.type \in Kinds \cup {Null}
BY DEF RoomRow

LEMMA FlushedRow ==
  ASSUME NEW q, NEW row \in RoomRow, q.mem \in RoomRow
  PROVE  /\ Flushed(q, row) \in RoomRow
         /\ \A c \in {"name", "marked", "type"} : Flushed(q, row)[c] = IF c \in q.diff THEN q.mem[c] ELSE row[c]
<1>1. DOMAIN row = {"name", "marked", "type"} /\ DOMAIN q.mem = {"name", "marked", "type"}
  BY RowIs
<1>2. \A c \in {"name", "marked", "type"} : Flushed(q, row)[c] = IF c \in q.diff THEN q.mem[c] ELSE row[c]
  BY <1>1 DEF Flushed, Saved
<1>3. Flushed(q, row) \in RoomRow
  BY DEF Flushed, Saved, RoomRow
<1> QED BY <1>2, <1>3

\* What the SELECT of save() makes of a request
LEMMA Selects ==
  ASSUME NEW q, RoomReqOK(q), q.pc = "load", NEW table, IsTable(table, HotelRooms, RoomRow),
         NEW p, p = SelectedRoom(q, table)
  PROVE  /\ RoomReqOK(p) /\ p.op = q.op /\ p.pc = "flush" /\ p.id = q.id
         /\ p.mem.name = q.mem.name /\ p.mem.marked = q.mem.marked /\ p.mem.type \in {q.mem.type, Null}
         /\ q.id \in DOMAIN table =>
              p.mem = q.mem /\ p.diff = Changed(q.mem, table[q.id]) \ {"type"}
<1>1. q.mem \in RoomRow /\ DOMAIN q = DOMAIN Idle /\ q.op \in {"updateRoom", "addRoom"} /\ q.id \in room_ids
  BY DEF RoomReqOK, Requests, Idle
<1>2. PICK mem \in RoomRow, diff \in SUBSET {"name", "marked", "type"} :
        /\ p = [q EXCEPT !.pc = "flush", !.mem = mem, !.diff = diff]
        /\ mem.name = q.mem.name /\ mem.marked = q.mem.marked /\ mem.type \in {q.mem.type, Null}
        /\ q.id \in DOMAIN table => mem = q.mem /\ diff = Changed(q.mem, table[q.id]) \ {"type"}
  <2>1. CASE q.id \in DOMAIN table
    <3> PICK diff : diff = Changed(q.mem, table[q.id]) \ {"type"}
      OBVIOUS
    <3>1. table[q.id] \in RoomRow
      BY <2>1 DEF IsTable
    <3>2. diff \subseteq {"name", "marked", "type"}
      BY <3>1, RowIs DEF Changed
    <3>3. p = [[q EXCEPT !.pc = "flush", !.diff = Changed(q.mem, table[q.id])] EXCEPT !.diff = diff]
      BY <1>1, <2>1 DEF SelectedRoom, Selected, Idle
    <3>4. p = [q EXCEPT !.pc = "flush", !.mem = q.mem, !.diff = diff]
      BY <3>3 DEF RoomReqOK, Requests
    <3> QED BY <1>1, <3>2, <3>4
  <2>2. CASE q.id \notin DOMAIN table
    <3> PICK mem, diff : mem = [q.mem EXCEPT !.type = Null] /\ diff = DOMAIN q.mem
      OBVIOUS
    <3>1. /\ mem \in RoomRow /\ diff \subseteq {"name", "marked", "type"}
          /\ mem.name = q.mem.name /\ mem.marked = q.mem.marked /\ mem.type = Null
      BY <1>1 DEF RoomRow
    <3>2. p = [q EXCEPT !.pc = "flush", !.mem = mem, !.diff = diff]
      BY <2>2 DEF SelectedRoom
    <3> QED BY <2>2, <3>1, <3>2
  <2> QED BY <2>1, <2>2
<1>3. /\ p.pc = "flush" /\ p.mem = mem /\ p.diff = diff /\ p.op = q.op /\ p.id = q.id
      /\ p \in Requests({"insert", "load", "flush", "entry", "write"}, RoomOps, HotelRooms \cup Kinds,
                        RoomRow \cup KindRow)
  BY <1>1, <1>2 DEF RoomReqOK, Requests, Idle
<1>4. RoomReqOK(p)
  BY <1>1, <1>3 DEF RoomReqOK
<1> QED BY <1>2, <1>3, <1>4

\* ... and what its UPDATE, or INSERT, writes
LEMMA Writes ==
  ASSUME NEW q, NEW table, IsTable(table, HotelRooms, RoomRow), q.mem \in RoomRow, WritesRow(q, table),
         NEW row, row = RowOf(q, table)
  PROVE  /\ row \in RoomRow
         /\ IF Inserts(q) THEN row = q.mem
            ELSE /\ q.id \in DOMAIN table
                 /\ row.type = table[q.id].type
                 /\ row.name = IF "name" \in q.diff THEN q.mem.name ELSE table[q.id].name
                 /\ row.marked \in {q.mem.marked, table[q.id].marked}
<1>1. CASE Inserts(q)
  BY <1>1 DEF RowOf
<1>2. CASE ~Inserts(q)
  <2>1. q.id \in DOMAIN table /\ row = Flushed(q, table[q.id]) /\ "type" \notin q.diff
    BY <1>2 DEF WritesRow, Inserts, RowOf
  <2>2. table[q.id] \in RoomRow
    BY <2>1 DEF IsTable
  <2>3. /\ row \in RoomRow
        /\ \A c \in {"name", "marked", "type"} : row[c] = IF c \in q.diff THEN q.mem[c] ELSE table[q.id][c]
    BY <2>1, <2>2, FlushedRow
  <2>4. /\ row.type = table[q.id].type
        /\ row.name = IF "name" \in q.diff THEN q.mem.name ELSE table[q.id].name
        /\ row.marked = IF "marked" \in q.diff THEN q.mem.marked ELSE table[q.id].marked
    BY <2>1, <2>3
  <2> QED BY <1>2, <2>1, <2>3, <2>4
<1> QED BY <1>1, <1>2

\* Bookings mark and release.
LEMMA MarkStep ==
  ASSUME RoomAdminInv, NEW i \in DOMAIN room, Mark(i) \/ Unmark(i)
  PROVE  RoomAdminInv'
<1>1. PICK mark \in BOOLEAN : /\ room' = [room EXCEPT ![i].marked = mark]
                              /\ booked' \subseteq booked \cup {i}
  BY DEF Mark, Unmark
<1>2. UNCHANGED <<type_room, room_ids, room_req, tx>>
  BY DEF Mark, Unmark
<1> PICK row : row = [room[i] EXCEPT !.marked = mark]
  OBVIOUS
<1>3. room' = [room EXCEPT ![i] = row] /\ row \in RoomRow
  BY <1>1 DEF RoomRow, RoomAdminInv, RoomTablesOK, IsTable
<1>4. RoomTablesOK'
  BY <1>1, <1>2, <1>3 DEF RoomTablesOK, RoomAdminInv, IsTable
<1>5. \A t \in Tasks : RoomReqOK(room_req[t])' /\ TxOK(room_req[t], tx[t])'
  BY <1>2 DEF RoomAdminInv, TxOK, RoomReqOK
<1> QED BY <1>2, <1>4, <1>5 DEF RoomAdminInv

\* create
LEMMA CreateRoomStep ==
  ASSUME RoomAdminInv, NEW t \in Tasks, CreateRoom(t) \/ InsertRoom(t)
  PROVE  RoomAdminInv'
<1>1. CASE CreateRoom(t)
  <2>1. PICK name \in Labels : room_req' = [room_req EXCEPT ![t] =
          Inserting("createRoom", [name |-> name, marked |-> FALSE, type |-> Null])]
    BY <1>1 DEF CreateRoom
  <2> PICK row : row = [name |-> name, marked |-> FALSE, type |-> Null]
    OBVIOUS
  <2> PICK q : q = Inserting("createRoom", row)
    OBVIOUS
  <2>2. row \in RoomRow
    BY DEF RoomRow
  <2>3. RoomReqOK(q) /\ q.op = "createRoom"
    BY <2>2 DEF RoomReqOK, Inserting, Idle, Requests, RoomOps
  <2>4. room_req[t].op = "none"
    BY <1>1, RoomStarts DEF CreateRoom, MayStart
  <2> QED BY <1>1, <2>1, <2>3, <2>4, RoomReads DEF CreateRoom
<1>2. CASE InsertRoom(t)
  <2> PICK row : row = room_req[t].mem
    OBVIOUS
  <2>1. row \in RoomRow /\ room_req[t].op # "addRoom"
    BY <1>2 DEF InsertRoom, RoomAdminInv, RoomReqOK
  <2>2. CASE UNCHANGED <<room, room_ids>>
    BY <1>2, <2>1, <2>2, RoomEnds DEF InsertRoom, RoomAdminInv, RoomTablesOK
  <2>3. CASE ~UNCHANGED <<room, room_ids>>
    <3>1. PICK i \in NextIds(HotelRooms, room_ids) : room' = Put(room, i, row) /\ room_ids' = room_ids \cup {i}
      BY <1>2, <2>3 DEF InsertRoom
    <3>2. i \in HotelRooms /\ DOMAIN room' = DOMAIN room \cup {i}
      BY <3>1 DEF NextIds, Put
    <3>3. IsTable(room, HotelRooms, RoomRow)'
      BY <2>1, <3>1, <3>2, PutIs DEF RoomAdminInv, RoomTablesOK
    <3>4. RoomTablesOK'
      BY <1>2, <3>1, <3>2, <3>3 DEF RoomAdminInv, RoomTablesOK, InsertRoom
    <3> QED BY <1>2, <2>1, <3>1, <3>2, <3>4, RoomEnds DEF InsertRoom
  <2> QED BY <2>2, <2>3
<1> QED BY <1>1, <1>2

\* update
LEMMA UpdateRoomStep ==
  ASSUME RoomAdminInv, NEW t \in Tasks,
         LoadRoom(t) \/ FlushRoom(t) \/ \E i \in DOMAIN room : UpdateRoom(t, i)
  PROVE  RoomAdminInv'
<1>0. IsTable(room, HotelRooms, RoomRow) /\ DOMAIN room \subseteq room_ids
  BY DEF RoomAdminInv, RoomTablesOK
<1>1. ASSUME NEW i \in DOMAIN room, UpdateRoom(t, i)
      PROVE  RoomAdminInv'
  <2>1. PICK name \in Labels : room_req' = [room_req EXCEPT ![t] =
          Saving("updateRoom", i, [room[i] EXCEPT !.name = name])]
    BY <1>1 DEF UpdateRoom
  <2> PICK row : row = [room[i] EXCEPT !.name = name]
    OBVIOUS
  <2> PICK q : q = Saving("updateRoom", i, row)
    OBVIOUS
  <2>2. row \in RoomRow /\ i \in room_ids /\ i \in HotelRooms
    BY DEF RoomRow, RoomAdminInv, RoomTablesOK, IsTable
  <2>3. RoomReqOK(q) /\ q.op = "updateRoom"
    BY <2>2 DEF RoomReqOK, Saving, Idle, Requests, RoomOps
  <2>4. room_req[t].op = "none"
    BY <1>1, RoomStarts DEF UpdateRoom, MayStart
  <2> QED BY <1>1, <2>1, <2>3, <2>4, RoomReads DEF UpdateRoom
<1> PICK q : q = room_req[t]
  OBVIOUS
<1>2. ASSUME q.op = "updateRoom", q.pc \in {"load", "flush"}
      PROVE  RoomReqOK(q) /\ q.mem \in RoomRow /\ q.id \in room_ids
  BY <1>2 DEF RoomAdminInv, RoomReqOK
<1>3. CASE LoadRoom(t)
  <2>1. q.op = "updateRoom" /\ q.pc = "load" /\ RoomReqOK(q)
    BY <1>2, <1>3 DEF LoadRoom
  <2> PICK p : p = SelectedRoom(q, room)
    OBVIOUS
  <2>2. RoomReqOK(p) /\ p.op = q.op
    BY <1>0, <2>1, Selects
  <2> QED BY <1>3, <2>1, <2>2, RoomReads DEF LoadRoom
<1>4. CASE FlushRoom(t)
  <2>1. q.mem \in RoomRow /\ q.id \in room_ids /\ q.id \in HotelRooms /\ q.op = "updateRoom"
    BY <1>2, <1>4 DEF FlushRoom, RoomAdminInv, RoomTablesOK
  <2>2. IsTable(room, HotelRooms, RoomRow)' /\ DOMAIN room' \subseteq room_ids
    <3> PICK row : row = RowOf(q, room)
      OBVIOUS
    <3>1. CASE room' = room
      BY <1>0, <3>1
    <3>2. CASE WritesRow(q, room) /\ room' = Put(room, q.id, row)
      <4>1. row \in RoomRow
        BY <1>0, <2>1, <3>2, Writes
      <4>2. DOMAIN room' = DOMAIN room \cup {q.id}
        BY <3>2 DEF Put
      <4>3. IsTable(room', HotelRooms, RoomRow)
        BY <1>0, <2>1, <3>2, <4>1, PutIs
      <4> QED BY <1>0, <2>1, <4>2, <4>3
    <3> QED BY <1>4, <3>1, <3>2 DEF FlushRoom
  <2> QED BY <1>4, <2>1, <2>2, RoomEnds DEF FlushRoom, RoomAdminInv, RoomTablesOK
<1> QED BY <1>1, <1>3, <1>4

\* Types
LEMMA TypeStep ==
  ASSUME RoomAdminInv, NEW t \in Tasks,
         \/ InsertType(t) \/ WriteType(t)
         \/ \E k \in DOMAIN type_room : UpdateType(t, k) \/ RemoveType(t, k)
  PROVE  RoomAdminInv'
<1>1. CASE InsertType(t)
  <2>1. PICK k \in Kinds \ DOMAIN type_room, name \in Labels : type_room' = Put(type_room, k, [name |-> name])
    BY <1>1 DEF InsertType
  <2> PICK row : row = [name |-> name]
    OBVIOUS
  <2>2. row \in KindRow
    BY DEF KindRow
  <2>3. IsTable(type_room, Kinds, KindRow)'
    BY <2>1, <2>2, PutIs DEF RoomAdminInv, RoomTablesOK
  <2> QED BY <1>1, <2>3 DEF InsertType, RoomAdminInv, RoomTablesOK, TxOK, RoomReqOK
<1>2. CASE WriteType(t)
  <2> PICK q : q = room_req[t]
    OBVIOUS
  <2>1. /\ q.pc = "write" /\ q.op \in {"updateType", "removeType"} /\ q.id \in Kinds
        /\ q.op = "updateType" => q.mem \in KindRow
    BY <1>2 DEF WriteType, RoomAdminInv, RoomReqOK
  <2>2. \/ type_room' = type_room \/ type_room' = Drop(type_room, {q.id})
        \/ q.op = "updateType" /\ type_room' = Put(type_room, q.id, q.mem)
    BY <1>2, <2>1 DEF WriteType
  <2>3. IsTable(type_room, Kinds, KindRow)
    BY DEF RoomAdminInv, RoomTablesOK
  <2>4. IsTable(type_room, Kinds, KindRow)'
    <3>1. CASE type_room' = Drop(type_room, {q.id})
      BY <2>3, <3>1 DEF IsTable, Drop
    <3>2. CASE q.op = "updateType" /\ type_room' = Put(type_room, q.id, q.mem)
      BY <2>1, <2>3, <3>2, PutIs
    <3> QED BY <2>2, <2>3, <3>1, <3>2
  <2> QED BY <1>2, <2>1, <2>4, RoomEnds DEF WriteType, RoomAdminInv, RoomTablesOK
<1>3. ASSUME NEW k \in DOMAIN type_room, UpdateType(t, k) \/ RemoveType(t, k)
      PROVE  RoomAdminInv'
  <2>1. PICK op \in {"updateType", "removeType"}, row \in KindRow \cup {Null} :
          /\ op = "updateType" => row \in KindRow
          /\ room_req' = [room_req EXCEPT ![t] = [Saving(op, k, row) EXCEPT !.pc = "write"]]
    <3>1. CASE UpdateType(t, k)
      <4>1. PICK name \in Labels : room_req' = [room_req EXCEPT ![t] =
              [Saving("updateType", k, [name |-> name]) EXCEPT !.pc = "write"]]
        BY <3>1 DEF UpdateType
      <4> PICK row : row = [name |-> name]
        OBVIOUS
      <4>2. row \in KindRow
        BY DEF KindRow
      <4> QED BY <4>1, <4>2
    <3>2. CASE RemoveType(t, k)
      BY <3>2 DEF RemoveType
    <3> QED BY <1>3, <3>1, <3>2
  <2> PICK q : q = [Saving(op, k, row) EXCEPT !.pc = "write"]
    OBVIOUS
  <2>2. k \in Kinds
    BY DEF RoomAdminInv, RoomTablesOK, IsTable
  <2>3. RoomReqOK(q) /\ q.op = op
    BY <2>1, <2>2 DEF RoomReqOK, Saving, Idle, Requests, RoomOps
  <2>4. room_req[t].op = "none"
    BY <1>3, RoomStarts DEF UpdateType, RemoveType, MayStart
  <2> QED BY <1>3, <2>1, <2>3, <2>4, RoomReads DEF UpdateType, RemoveType
<1> QED BY <1>1, <1>2, <1>3

\* What another addRoom of the type makes of a transaction: it is not alone.
LEMMA MeetsIs ==
  ASSUME NEW x \in Transactions, NEW k
  PROVE  /\ Meets(x, k) \in Transactions /\ Meets(x, k) # Null
         /\ Meets(x, k).type = x.type /\ Meets(x, k).list = x.list /\ Meets(x, k).todo = x.todo
         /\ Meets(x, k).had = x.had /\ Meets(x, k).ids = x.ids /\ Meets(x, k).put = x.put
         /\ Meets(x, k).gone = x.gone /\ (Meets(x, k).alone <=> x.alone /\ x.type # k)
<1> PICK alone \in BOOLEAN : alone <=> x.alone /\ x.type # k
  OBVIOUS
<1>1. x.alone \in BOOLEAN
  BY DEF Transactions
<1>2. (x.alone /\ x.type # k) = alone
  BY <1>1
<1>3. Meets(x, k) = [x EXCEPT !.alone = alone]
  BY <1>2 DEF Meets
<1>4. Meets(x, k) \in Transactions /\ Meets(x, k).alone = alone
  BY <1>3 DEF Transactions
<1>5. Meets(x, k) # Null
  BY <1>4, RoomAdminAssumption
<1> QED BY <1>3, <1>4, <1>5 DEF Transactions

\* addRoom begins with a transaction of its own.
LEMMA Begins ==
  ASSUME RoomAdminInv, NEW t \in Tasks, NEW k \in DOMAIN type_room, AddRoom(t, k)
  PROVE  /\ tx' = [u \in Tasks |-> tx'[u]]
         /\ tx'[t] \in Transactions /\ tx'[t] # Null
         /\ tx'[t].type = k /\ tx'[t].todo = tx'[t].list /\ tx'[t].had = RoomsOf(k) /\ tx'[t].ids = RoomsOf(k)
         /\ DOMAIN tx'[t].put = {} /\ tx'[t].gone = {} /\ (tx'[t].alone <=> Rivals(k) = {})
         /\ \A u \in Tasks \ {t} : tx'[u] = IF tx[u] = Null THEN Null ELSE Meets(tx[u], k)
<1>1. PICK list \in Lists :
        tx' = [u \in Tasks |->
                CASE u = t -> [type |-> k, list |-> list, todo |-> list, had |-> RoomsOf(k),
                               ids |-> RoomsOf(k), put |-> [i \in {} |-> Null], gone |-> {},
                               alone |-> Rivals(k) = {}]
                  [] u \in Open \ {t} -> Meets(tx[u], k)
                  [] OTHER -> Null]
  BY DEF AddRoom
<1>2. k \in Kinds /\ list \in Entries /\ RoomsOf(k) \subseteq HotelRooms
  BY RoomAdminAssumption DEF RoomsOf, RoomAdminInv, RoomTablesOK, IsTable
<1> PICK put : put = [i \in {} |-> Null]
  OBVIOUS
<1> PICK alone \in BOOLEAN : alone = (Rivals(k) = {})
  OBVIOUS
<1>0. alone <=> Rivals(k) = {}
  OBVIOUS
<1>3. DOMAIN put = {} /\ put \in Written
  BY WrittenIs DEF IsTable
<1>4. tx'[t] = [type |-> k, list |-> list, todo |-> list, had |-> RoomsOf(k), ids |-> RoomsOf(k),
                put |-> put, gone |-> {}, alone |-> alone]
  BY <1>1
<1>5. tx'[t] \in Transactions
  BY <1>2, <1>3, <1>4 DEF Transactions
<1>6. tx'[t] # Null
  BY <1>5, RoomAdminAssumption
<1>7. ASSUME NEW u \in Tasks \ {t}
      PROVE  tx'[u] = IF tx[u] = Null THEN Null ELSE Meets(tx[u], k)
  <2>1. CASE tx[u] = Null
    BY <1>1, <1>7, <2>1 DEF Open
  <2>2. CASE tx[u] # Null
    BY <1>1, <1>7, <2>2 DEF Open
  <2> QED BY <2>1, <2>2
<1>8. tx' = [u \in Tasks |-> tx'[u]]
  BY <1>1
<1>9. /\ tx'[t].type = k /\ tx'[t].todo = tx'[t].list /\ tx'[t].had = RoomsOf(k) /\ tx'[t].ids = RoomsOf(k)
      /\ DOMAIN tx'[t].put = {} /\ tx'[t].gone = {} /\ tx'[t].alone = alone
  BY <1>3, <1>4
<1> QED BY <1>0, <1>5, <1>6, <1>7, <1>8, <1>9

LEMMA AddRoomStep ==
  ASSUME RoomAdminInv, NEW t \in Tasks, NEW k \in DOMAIN type_room, AddRoom(t, k)
  PROVE  RoomAdminInv'
<1> PICK q : q = [Saving("addRoom", k, Null) EXCEPT !.pc = "entry"]
  OBVIOUS
<1>1. room_req' = [room_req EXCEPT ![t] = q] /\ UNCHANGED <<room, type_room, booked, room_ids>>
  BY DEF AddRoom
<1>2. k \in Kinds /\ RoomsOf(k) \subseteq room_ids
  BY DEF RoomsOf, RoomAdminInv, RoomTablesOK, IsTable
<1>3. RoomReqOK(q)' /\ q.op = "addRoom"
  BY <1>2 DEF RoomReqOK, Saving, Idle, Requests, RoomOps
<1>4. \A u \in Tasks : room_req'[u] = IF u = t THEN q ELSE room_req[u]
  BY <1>1 DEF RoomAdminInv
<1>5. ASSUME NEW u \in Tasks
      PROVE  (RoomReqOK(room_req[u]) /\ TxOK(room_req[u], tx[u]))'
  <2>1. CASE u = t
    <3> PICK x : x = tx'[t]
      OBVIOUS
    <3>1. /\ x \in Transactions /\ x # Null /\ DOMAIN x.put = {} /\ x.gone = {} /\ x.had = RoomsOf(k)
          /\ tx'[u] = x /\ room_req'[u] = q
      BY <1>4, <2>1, Begins
    <3>2. TxOK(q, x)'
      BY <1>1, <1>2, <1>3, <3>1 DEF TxOK
    <3> QED BY <1>3, <3>1, <3>2 DEF RoomReqOK, TxOK
  <2>2. CASE u # t /\ tx[u] = Null
    <3>1. tx'[u] = Null /\ room_req'[u] = room_req[u]
      BY <1>4, <2>2, Begins
    <3> QED BY <1>1, <2>2, <3>1 DEF RoomAdminInv, RoomReqOK, TxOK
  <2>3. CASE u # t /\ tx[u] # Null
    <3> PICK p, x, y : p = room_req[u] /\ x = tx[u] /\ y = Meets(tx[u], k)
      OBVIOUS
    <3>1. RoomReqOK(p) /\ TxOK(p, x) /\ x # Null
      BY <2>3 DEF RoomAdminInv
    <3>2. x \in Transactions /\ y = Meets(x, k)
      BY <3>1 DEF TxOK
    <3>3. y \in Transactions /\ y # Null /\ y.put = x.put /\ y.had = x.had /\ y.todo = x.todo /\ y.gone = x.gone
      BY <3>2, MeetsIs
    <3>4. room_req'[u] = p /\ tx'[u] = y
      <4>1. \A v \in Tasks \ {t} : tx'[v] = IF tx[v] = Null THEN Null ELSE Meets(tx[v], k)
        BY Begins
      <4>2. room_req'[u] = p
        BY <1>4, <2>3
      <4>3. u \in Tasks \ {t} /\ tx[u] = x /\ x # Null /\ y = Meets(tx[u], k)
        BY <2>3
      <4>4. tx'[u] = y
        BY <4>1, <4>3
      <4> QED BY <4>2, <4>4
    <3>5. RoomReqOK(p)'
      BY <1>1, <3>1 DEF RoomReqOK
    <3>6. TxOK(p, y)'
      BY <1>1, <3>1, <3>3 DEF TxOK
    <3> QED BY <3>4, <3>5, <3>6 DEF RoomReqOK, TxOK
  <2> QED BY <2>1, <2>2, <2>3
<1>6. tx' = [u \in Tasks |-> tx'[u]] /\ room_req' = [u \in Tasks |-> room_req'[u]]
  BY <1>1, Begins DEF RoomAdminInv
<1>7. RoomTablesOK'
  BY <1>1 DEF RoomTablesOK, RoomAdminInv
<1> QED BY <1>5, <1>6, <1>7 DEF RoomAdminInv

\* What holds whenever a request is at addRoom.
LEMMA Adding ==
  ASSUME RoomAdminInv, NEW t \in Tasks, room_req[t].op = "addRoom" \/ tx[t] # Null
  PROVE  /\ tx[t] \in Transactions /\ tx[t] # Null /\ room_req[t].op = "addRoom"
         /\ DOMAIN tx[t].put \subseteq room_ids /\ tx[t].had \subseteq room_ids
         /\ tx[t].todo # <<>> => tx[t].gone = {}
         /\ IsTable(tx[t].put, HotelRooms, RoomRow)
         /\ DOMAIN tx[t] = {"type", "list", "todo", "had", "ids", "put", "gone", "alone"}
<1>1. /\ tx[t] \in Transactions /\ tx[t] # Null /\ room_req[t].op = "addRoom"
      /\ DOMAIN tx[t].put \subseteq room_ids /\ tx[t].had \subseteq room_ids
      /\ tx[t].todo # <<>> => tx[t].gone = {}
  BY DEF RoomAdminInv, TxOK
<1>2. tx[t].put \in Written /\ DOMAIN tx[t] = {"type", "list", "todo", "had", "ids", "put", "gone", "alone"}
  BY <1>1 DEF Transactions
<1> QED BY <1>1, <1>2, WrittenIs

LEMMA SeenTyped ==
  ASSUME RoomAdminInv, NEW t \in Tasks, tx[t] # Null
  PROVE  /\ IsTable(Seen(t), HotelRooms, RoomRow) /\ DOMAIN Seen(t) \subseteq room_ids
         /\ DOMAIN Seen(t) = (DOMAIN room \cup DOMAIN tx[t].put) \ tx[t].gone
         /\ \A i \in DOMAIN Seen(t) :
              Seen(t)[i] = IF i \in DOMAIN tx[t].put THEN tx[t].put[i] ELSE room[i]
<1>1. IsTable(tx[t].put, HotelRooms, RoomRow) /\ DOMAIN tx[t].put \subseteq room_ids
  BY Adding
<1>2. /\ DOMAIN Seen(t) = (DOMAIN room \cup DOMAIN tx[t].put) \ tx[t].gone
      /\ \A i \in DOMAIN Seen(t) : Seen(t)[i] = IF i \in DOMAIN tx[t].put THEN tx[t].put[i] ELSE room[i]
      /\ Seen(t) = [i \in DOMAIN Seen(t) |-> Seen(t)[i]]
  BY DEF Seen
<1>3. IsTable(room, HotelRooms, RoomRow) /\ DOMAIN room \subseteq room_ids
  BY DEF RoomAdminInv, RoomTablesOK
<1> QED BY <1>1, <1>2, <1>3 DEF IsTable

\* What the statements of addRoom do: one gives up, or its request becomes q and
\* its transaction x, and the rows stay.
LEMMA EntryDone ==
  ASSUME RoomAdminInv, NEW t \in Tasks, tx[t] # Null, UNCHANGED <<room, type_room, booked>>,
         room_ids \subseteq room_ids', room_ids' \subseteq HotelRooms, NEW q, NEW x, RoomReqOK(q)',
         q.op = "addRoom", room_req' = [room_req EXCEPT ![t] = q], tx' = [tx EXCEPT ![t] = x],
         x \in Transactions, DOMAIN x.put \subseteq room_ids', x.had = tx[t].had, x.todo # <<>> => x.gone = {}
  PROVE  RoomAdminInv'
<1>1. RoomTablesOK'
  BY DEF RoomTablesOK, RoomAdminInv
<1>2. TxOK(q, x)'
  BY Adding, RoomAdminAssumption DEF TxOK
<1> QED BY <1>1, <1>2, RoomGoes

LEMMA RoomRollsBack ==
  ASSUME RoomAdminInv, NEW t \in Tasks, Rollback(t), UNCHANGED <<room, type_room, booked>>,
         room_ids' = room_ids
  PROVE  RoomAdminInv'
BY RoomEnds DEF Rollback, RoomAdminInv, RoomTablesOK

LEMMA HeadTail ==
  ASSUME NEW S, NEW seq \in Seq(S), seq # <<>>
  PROVE  Head(seq) \in S /\ Tail(seq) \in Seq(S)
OBVIOUS

\* The entry that comes next
LEMMA NextIs ==
  ASSUME NEW x \in Transactions, x.todo # <<>>, NEW e, NEW rest, e = Head(x.todo), rest = Tail(x.todo)
  PROVE  e.id \in HotelRooms \cup {Null} /\ e.name \in Labels /\ rest \in Entries
<1>1. x.todo \in Seq([id : HotelRooms \cup {Null}, name : Labels])
  BY DEF Transactions, Entries
<1>2. e \in [id : HotelRooms \cup {Null}, name : Labels] /\ rest \in Entries
  BY <1>1, HeadTail DEF Entries
<1> QED BY <1>2

\* An entry is added: a row of a new id i ...
Added(t, i, row, put, x) ==
  /\ i \in HotelRooms /\ i \notin room_ids /\ room_ids' = room_ids \cup {i}
  /\ row \in RoomRow /\ row.name = Head(tx[t].todo).name /\ row.marked = FALSE
  /\ row.type = tx[t].type
  /\ put = Put(tx[t].put, i, row) /\ put \in Written
  /\ DOMAIN put = DOMAIN tx[t].put \cup {i} /\ put[i] = row
  /\ \A j \in DOMAIN tx[t].put : put[j] = tx[t].put[j]
  /\ tx' = [tx EXCEPT ![t] = x] /\ x \in Transactions
  /\ x = [tx[t] EXCEPT !.todo = Tail(tx[t].todo), !.put = put]
  /\ room_req' = [room_req EXCEPT ![t] = room_req[t]]

LEMMA Adds ==
  ASSUME RoomAdminInv, NEW t \in Tasks, AddEntry(t), ~(Rollback(t) /\ UNCHANGED room_ids)
  PROVE  \E i, row, put, x : Added(t, i, row, put, x)
<1>1. tx[t].todo # <<>> /\ room_req[t].op = "addRoom"
  BY DEF AddEntry, AtEntry, RoomAdminInv, RoomReqOK
<1>2. tx[t] \in Transactions /\ DOMAIN tx[t].put \subseteq room_ids /\ IsTable(tx[t].put, HotelRooms, RoomRow)
  BY <1>1, Adding
<1> PICK e, rest : e = Head(tx[t].todo) /\ rest = Tail(tx[t].todo)
  OBVIOUS
<1>3. e.name \in Labels /\ rest \in Entries /\ tx[t].type \in Kinds
  BY <1>1, <1>2, NextIs DEF Transactions
<1> PICK row : row = [name |-> e.name, marked |-> FALSE, type |-> tx[t].type]
  OBVIOUS
<1>4. PICK i \in NextIds(HotelRooms, room_ids) :
        /\ tx' = [tx EXCEPT ![t] = [tx[t] EXCEPT !.todo = rest, !.put = Put(tx[t].put, i, row)]]
        /\ room_ids' = room_ids \cup {i} /\ UNCHANGED room_req
  BY DEF AddEntry
<1> PICK put, x : put = Put(tx[t].put, i, row) /\ x = [tx[t] EXCEPT !.todo = rest, !.put = put]
  OBVIOUS
<1>5. row \in RoomRow /\ row.name = e.name /\ row.marked = FALSE /\ row.type = tx[t].type
  BY <1>3 DEF RoomRow
<1>6. i \in HotelRooms /\ i \notin room_ids
  BY <1>4 DEF NextIds
<1>7. /\ put \in Written /\ DOMAIN put = DOMAIN tx[t].put \cup {i} /\ put[i] = row
      /\ \A j \in DOMAIN tx[t].put : put[j] = tx[t].put[j]
  <2>1. IsTable(put, HotelRooms, RoomRow)
    BY <1>2, <1>5, <1>6, PutIs
  <2> QED BY <1>2, <1>6, <2>1, WrittenIs DEF Put
<1>8. x \in Transactions /\ tx' = [tx EXCEPT ![t] = x]
  BY <1>2, <1>3, <1>4, <1>7 DEF Transactions
<1>9. room_req' = [room_req EXCEPT ![t] = room_req[t]]
  BY <1>4 DEF RoomAdminInv
<1>10. Added(t, i, row, put, x)
  BY <1>4, <1>5, <1>6, <1>7, <1>8, <1>9 DEF Added
<1> QED BY <1>10

\* ... or it is passed over, kept or about to be renamed
HasRead(t, e, ids, x, q) ==
  /\ ids \subseteq tx[t].ids
  /\ x = [tx[t] EXCEPT !.todo = Tail(tx[t].todo), !.ids = ids] /\ x \in Transactions
  /\ tx' = [tx EXCEPT ![t] = x] /\ room_req' = [room_req EXCEPT ![t] = q]
  /\ RoomReqOK(q) /\ q.op = "addRoom"
  /\ \/ q = room_req[t] /\ e.id \notin tx[t].ids /\ ids = tx[t].ids
     \/ /\ e.id \in tx[t].ids /\ e.id \in DOMAIN room /\ ids = tx[t].ids \ {e.id}
        /\ \/ q = room_req[t] /\ room[e.id].name = e.name
           \/ /\ q.pc = "load" /\ q.id = e.id
              /\ q.mem \in RoomRow /\ q.mem.name = e.name
              /\ q.mem.marked = room[e.id].marked /\ q.mem.type = room[e.id].type

LEMMA Reads ==
  ASSUME RoomAdminInv, NEW t \in Tasks, ReadEntry(t), ~Rollback(t), NEW e, e = Head(tx[t].todo)
  PROVE  \E ids, x, q : HasRead(t, e, ids, x, q)
<1>1. tx[t].todo # <<>> /\ room_req[t].op = "addRoom" /\ RoomReqOK(room_req[t]) /\ e.id # Null
  BY DEF ReadEntry, AtEntry, RoomAdminInv, RoomReqOK
<1>2. tx[t] \in Transactions
  BY <1>1, Adding
<1> PICK rest : rest = Tail(tx[t].todo)
  OBVIOUS
<1>3. e.id \in HotelRooms /\ e.name \in Labels /\ rest \in Entries
  BY <1>1, <1>2, NextIs
<1>4. ASSUME NEW ids \in SUBSET tx[t].ids
      PROVE  [tx[t] EXCEPT !.todo = rest, !.ids = ids] \in Transactions
  BY <1>2, <1>3 DEF Transactions
<1>5. room_req = [room_req EXCEPT ![t] = room_req[t]]
  BY DEF RoomAdminInv
<1>6. CASE e.id \notin tx[t].ids
  <2> PICK x : x = [tx[t] EXCEPT !.todo = rest, !.ids = tx[t].ids]
    OBVIOUS
  <2>1. tx' = [tx EXCEPT ![t] = [tx[t] EXCEPT !.todo = rest]] /\ UNCHANGED room_req
    BY <1>6 DEF ReadEntry
  <2>2. tx' = [tx EXCEPT ![t] = x]
    BY <1>2, <2>1 DEF Transactions
  <2>3. HasRead(t, e, tx[t].ids, x, room_req[t])
    BY <1>1, <1>4, <1>5, <1>6, <2>1, <2>2 DEF HasRead
  <2> QED BY <2>3
<1>7. CASE e.id \in tx[t].ids
  <2> PICK ids : ids = tx[t].ids \ {e.id}
    OBVIOUS
  <2> PICK x : x = [tx[t] EXCEPT !.todo = rest, !.ids = ids]
    OBVIOUS
  <2>1. e.id \in DOMAIN room /\ tx' = [tx EXCEPT ![t] = x] /\ x \in Transactions
    BY <1>4, <1>7 DEF ReadEntry
  <2>2. CASE room[e.id].name = e.name
    <3>1. UNCHANGED room_req
      BY <1>7, <2>1, <2>2 DEF ReadEntry
    <3>2. HasRead(t, e, ids, x, room_req[t])
      BY <1>1, <1>5, <1>7, <2>1, <2>2, <3>1 DEF HasRead
    <3> QED BY <3>2
  <2>3. CASE room[e.id].name # e.name
    <3> PICK mem : mem = [room[e.id] EXCEPT !.name = e.name]
      OBVIOUS
    <3> PICK q : q = [room_req[t] EXCEPT !.pc = "load", !.id = e.id, !.mem = mem]
      OBVIOUS
    <3>1. room_req' = [room_req EXCEPT ![t] = q]
      BY <1>7, <2>1, <2>3 DEF ReadEntry
    <3>2. room[e.id] \in RoomRow /\ e.id \in room_ids
      BY <2>1 DEF RoomAdminInv, RoomTablesOK, IsTable
    <3>3. mem \in RoomRow /\ mem.name = e.name /\ mem.marked = room[e.id].marked /\ mem.type = room[e.id].type
      BY <1>3, <3>2 DEF RoomRow
    <3>4. q \in Requests({"insert", "load", "flush", "entry", "write"}, RoomOps, HotelRooms \cup Kinds,
                        RoomRow \cup KindRow)
      BY <1>1, <1>3, <3>3 DEF RoomReqOK, Requests
    <3>5. q.pc = "load" /\ q.op = "addRoom" /\ q.id = e.id /\ q.mem = mem
      BY <1>1 DEF RoomReqOK, Requests
    <3>6. RoomReqOK(q)
      BY <3>2, <3>3, <3>4, <3>5 DEF RoomReqOK
    <3>7. HasRead(t, e, ids, x, q)
      BY <1>7, <2>1, <3>1, <3>3, <3>5, <3>6 DEF HasRead
    <3> QED BY <3>7
  <2> QED BY <2>2, <2>3
<1> QED BY <1>6, <1>7

\* The save of an entry writes a row, or none.
HasSaved(t, q, p, x, put) ==
  /\ p = [q EXCEPT !.pc = "entry", !.mem = Null, !.diff = {}]
  /\ RoomReqOK(p) /\ p.op = "addRoom" /\ p.pc = "entry"
  /\ room_req' = [room_req EXCEPT ![t] = p] /\ tx' = [tx EXCEPT ![t] = x]
  /\ x = [tx[t] EXCEPT !.put = put] /\ x \in Transactions /\ put \in Written
  /\ \/ /\ WritesRow(q, Seen(t))
        /\ put = Put(tx[t].put, q.id, RowOf(q, Seen(t)))
        /\ DOMAIN put = DOMAIN tx[t].put \cup {q.id}
        /\ put[q.id] = RowOf(q, Seen(t))
        /\ \A i \in DOMAIN tx[t].put \ {q.id} : put[i] = tx[t].put[i]
     \/ ~WritesRow(q, Seen(t)) /\ ~Inserts(q) /\ put = tx[t].put

LEMMA Saves ==
  ASSUME RoomAdminInv, NEW t \in Tasks, FlushEntry(t), ~Rollback(t), NEW q, q = room_req[t]
  PROVE  \E p, x, put : HasSaved(t, q, p, x, put)
<1>1. q.op = "addRoom" /\ q.pc = "flush" /\ RoomReqOK(q) /\ q.mem \in RoomRow /\ q.id \in room_ids
  BY DEF FlushEntry, RoomAdminInv, RoomReqOK
<1>2. /\ tx[t] \in Transactions /\ tx[t] # Null /\ IsTable(tx[t].put, HotelRooms, RoomRow)
      /\ tx[t].put \in Written
  BY <1>1, Adding DEF Transactions
<1>3. q.id \in HotelRooms
  BY <1>1 DEF RoomAdminInv, RoomTablesOK
<1> PICK p : p = [q EXCEPT !.pc = "entry", !.mem = Null, !.diff = {}]
  OBVIOUS
<1>4. RoomReqOK(p) /\ p.op = "addRoom" /\ p.pc = "entry"
  BY <1>1 DEF RoomReqOK, Requests
<1>5. room_req' = [room_req EXCEPT ![t] = p]
  BY DEF FlushEntry
<1>6. CASE WritesRow(q, Seen(t))
  <2> PICK row, put : row = RowOf(q, Seen(t)) /\ put = Put(tx[t].put, q.id, row)
    OBVIOUS
  <2> PICK x : x = [tx[t] EXCEPT !.put = put]
    OBVIOUS
  <2>1. tx' = [tx EXCEPT ![t] = x]
    BY <1>6 DEF FlushEntry
  <2>2. row \in RoomRow
    BY <1>1, <1>2, <1>6, SeenTyped, Writes
  <2>3. put \in Written
    <3>1. IsTable(put, HotelRooms, RoomRow)
      BY <1>2, <1>3, <2>2, PutIs
    <3> QED BY <3>1, WrittenIs
  <2>4. x \in Transactions
    BY <1>2, <2>3 DEF Transactions
  <2>5. /\ DOMAIN put = DOMAIN tx[t].put \cup {q.id} /\ put[q.id] = row
        /\ \A i \in DOMAIN tx[t].put \ {q.id} : put[i] = tx[t].put[i]
    BY DEF Put
  <2>6. HasSaved(t, q, p, x, put)
    BY <1>4, <1>5, <1>6, <2>1, <2>3, <2>4, <2>5 DEF HasSaved
  <2> QED BY <2>6
<1>7. CASE ~WritesRow(q, Seen(t))
  <2> PICK put : put = tx[t].put
    OBVIOUS
  <2> PICK x : x = [tx[t] EXCEPT !.put = put]
    OBVIOUS
  <2>1. tx' = tx /\ ~Inserts(q)
    BY <1>7 DEF FlushEntry
  <2>2. x = tx[t]
    BY <1>2 DEF Transactions
  <2>3. tx' = [tx EXCEPT ![t] = x]
    BY <2>1, <2>2 DEF RoomAdminInv
  <2>4. HasSaved(t, q, p, x, put)
    BY <1>2, <1>4, <1>5, <1>7, <2>1, <2>2, <2>3 DEF HasSaved
  <2> QED BY <2>4
<1> QED BY <1>6, <1>7

\* A room that is not in the list is deleted, if it is still there.
Deleted(t, i, ids, gone, x) ==
  /\ i \in tx[t].ids /\ i # Null /\ ids = tx[t].ids \ {i} /\ gone = tx[t].gone \cup ({i} \cap DOMAIN room)
  /\ x = [tx[t] EXCEPT !.ids = ids, !.gone = gone] /\ x \in Transactions
  /\ tx' = [tx EXCEPT ![t] = x] /\ room_req' = [room_req EXCEPT ![t] = room_req[t]]

LEMMA Deletes ==
  ASSUME RoomAdminInv, NEW t \in Tasks, DeleteRoom(t), ~Rollback(t)
  PROVE  \E i, ids, gone, x : Deleted(t, i, ids, gone, x)
<1>1. room_req[t].op = "addRoom"
  BY DEF DeleteRoom, AtEnd, RoomAdminInv, RoomReqOK
<1>2. tx[t] \in Transactions
  BY <1>1, Adding
<1>3. PICK i \in tx[t].ids :
        /\ tx' = [tx EXCEPT ![t] = [tx[t] EXCEPT !.ids = @ \ {i}, !.gone = @ \cup ({i} \cap DOMAIN room)]]
        /\ UNCHANGED room_req
  BY DEF DeleteRoom
<1> PICK ids, gone : ids = tx[t].ids \ {i} /\ gone = tx[t].gone \cup ({i} \cap DOMAIN room)
  OBVIOUS
<1> PICK x : x = [tx[t] EXCEPT !.ids = ids, !.gone = gone]
  OBVIOUS
<1>4. ids \subseteq HotelRooms /\ gone \subseteq HotelRooms /\ i # Null
  BY <1>2, <1>3, RoomAdminAssumption DEF Transactions
<1>5. x \in Transactions /\ tx' = [tx EXCEPT ![t] = x]
  BY <1>2, <1>3, <1>4 DEF Transactions
<1>6. room_req' = [room_req EXCEPT ![t] = room_req[t]]
  BY <1>3 DEF RoomAdminInv
<1>7. Deleted(t, i, ids, gone, x)
  BY <1>3, <1>4, <1>5, <1>6 DEF Deleted
<1> QED BY <1>7

\* The statements of addRoom
LEMMA EntryStep ==
  ASSUME RoomAdminInv, NEW t \in Tasks,
         AddEntry(t) \/ ReadEntry(t) \/ LoadEntry(t) \/ FlushEntry(t) \/ DeleteRoom(t)
  PROVE  RoomAdminInv'
<1> PICK q, y : q = room_req[t] /\ y = tx[t]
  OBVIOUS
<1>1. q.op = "addRoom" /\ RoomReqOK(q) /\ UNCHANGED <<room, type_room, booked>>
  BY DEF AddEntry, ReadEntry, LoadEntry, FlushEntry, DeleteRoom, AtEntry, AtEnd, RoomAdminInv, RoomReqOK
<1>2. /\ y \in Transactions /\ y # Null /\ DOMAIN y.put \subseteq room_ids
      /\ y.todo # <<>> => y.gone = {}
  BY <1>1, Adding
<1>3. room_ids \subseteq HotelRooms
  BY DEF RoomAdminInv, RoomTablesOK
<1>4. CASE Rollback(t) /\ UNCHANGED room_ids
  BY <1>1, <1>4, RoomRollsBack
<1>5. CASE AddEntry(t) /\ ~(Rollback(t) /\ UNCHANGED room_ids)
  <2>0. PICK i, row, put, x : Added(t, i, row, put, x)
    BY <1>5, Adds
  <2>1. /\ i \in HotelRooms /\ room_ids' = room_ids \cup {i}
        /\ put \in Written /\ DOMAIN put = DOMAIN y.put \cup {i}
        /\ tx' = [tx EXCEPT ![t] = x] /\ x \in Transactions
        /\ x = [y EXCEPT !.todo = Tail(y.todo), !.put = put]
        /\ room_req' = [room_req EXCEPT ![t] = q]
    BY <2>0 DEF Added
  <2>2. x.put = put /\ x.had = y.had /\ x.gone = y.gone
    BY <1>2, <2>1 DEF Transactions
  <2>3. y.gone = {}
    BY <1>2, <1>5 DEF AddEntry, AtEntry
  <2>4. RoomReqOK(q)'
    BY <1>1, <2>1 DEF RoomReqOK
  <2> QED BY <1>1, <1>2, <1>3, <2>1, <2>2, <2>3, <2>4, EntryDone
<1>6. CASE ReadEntry(t) /\ ~Rollback(t)
  <2> PICK e : e = Head(tx[t].todo)
    OBVIOUS
  <2>0. PICK ids, x, p : HasRead(t, e, ids, x, p)
    BY <1>6, Reads
  <2>1. /\ x = [y EXCEPT !.todo = Tail(y.todo), !.ids = ids] /\ x \in Transactions
        /\ tx' = [tx EXCEPT ![t] = x] /\ room_req' = [room_req EXCEPT ![t] = p]
        /\ RoomReqOK(p) /\ p.op = "addRoom"
    BY <2>0 DEF HasRead
  <2>2. x.put = y.put /\ x.had = y.had /\ x.gone = y.gone
    BY <1>2, <2>1 DEF Transactions
  <2>3. y.gone = {} /\ room_ids' = room_ids
    BY <1>2, <1>6 DEF ReadEntry, AtEntry
  <2>4. RoomReqOK(p)'
    BY <2>1, <2>3 DEF RoomReqOK
  <2> QED BY <1>1, <1>2, <1>3, <2>1, <2>2, <2>3, <2>4, EntryDone
<1>7. CASE LoadEntry(t)
  <2> PICK p : p = SelectedRoom(q, Seen(t))
    OBVIOUS
  <2> PICK seen : seen = Seen(t)
    OBVIOUS
  <2>0. IsTable(seen, HotelRooms, RoomRow) /\ q.pc = "load"
    BY <1>2, <1>7, SeenTyped DEF LoadEntry
  <2>1. RoomReqOK(p) /\ p.op = q.op
    BY <1>1, <2>0, Selects
  <2> QED BY <1>1, <1>7, <2>1, RoomReads DEF LoadEntry
<1>8. CASE FlushEntry(t) /\ ~Rollback(t)
  <2>0. PICK p, x, put : HasSaved(t, q, p, x, put)
    BY <1>8, Saves
  <2>1. /\ RoomReqOK(p) /\ p.op = "addRoom"
        /\ room_req' = [room_req EXCEPT ![t] = p] /\ tx' = [tx EXCEPT ![t] = x]
        /\ x = [y EXCEPT !.put = put] /\ x \in Transactions
        /\ DOMAIN put \subseteq DOMAIN y.put \cup {q.id}
    BY <2>0 DEF HasSaved
  <2>2. x.put = put /\ x.had = y.had /\ x.gone = y.gone /\ x.todo = y.todo
    BY <1>2, <2>1 DEF Transactions
  <2>3. room_ids' = room_ids /\ q.id \in room_ids
    BY <1>1, <1>8 DEF FlushEntry, RoomReqOK
  <2>4. RoomReqOK(p)'
    BY <2>1, <2>3 DEF RoomReqOK
  <2> QED BY <1>1, <1>2, <1>3, <2>1, <2>2, <2>3, <2>4, EntryDone
<1>9. CASE DeleteRoom(t) /\ ~Rollback(t)
  <2>0. PICK i, ids, gone, x : Deleted(t, i, ids, gone, x)
    BY <1>9, Deletes
  <2>1. /\ x = [y EXCEPT !.ids = ids, !.gone = gone] /\ x \in Transactions
        /\ tx' = [tx EXCEPT ![t] = x] /\ room_req' = [room_req EXCEPT ![t] = q]
    BY <2>0 DEF Deleted
  <2>2. x.put = y.put /\ x.had = y.had /\ x.todo = y.todo
    BY <1>2, <2>1 DEF Transactions
  <2>3. y.todo = <<>> /\ room_ids' = room_ids
    BY <1>9 DEF DeleteRoom, AtEnd
  <2>4. RoomReqOK(q)'
    BY <1>1, <2>3 DEF RoomReqOK
  <2> QED BY <1>1, <1>2, <1>3, <2>1, <2>2, <2>3, <2>4, EntryDone
<1>10. AddEntry(t) \/ room_ids' = room_ids
  BY DEF ReadEntry, LoadEntry, FlushEntry, DeleteRoom
<1> QED BY <1>4, <1>5, <1>6, <1>7, <1>8, <1>9, <1>10

\* ... and its end
LEMMA AddRoomEnds ==
  ASSUME RoomAdminInv, NEW t \in Tasks, CommitRooms(t) \/ AbortRooms(t)
  PROVE  RoomAdminInv'
<1>1. CASE CommitRooms(t)
  <2>1. room_req[t].op = "addRoom" /\ room' = Seen(t) /\ Rollback(t) /\ UNCHANGED <<type_room, booked, room_ids>>
    BY <1>1 DEF CommitRooms, AtEnd, RoomAdminInv, RoomReqOK
  <2>2. IsTable(room, HotelRooms, RoomRow)' /\ DOMAIN room' \subseteq room_ids
    BY <2>1, Adding, SeenTyped DEF IsTable
  <2>3. RoomTablesOK'
    BY <2>1, <2>2 DEF RoomTablesOK, RoomAdminInv
  <2> QED BY <2>1, <2>3, RoomEnds DEF Rollback
<1>2. CASE AbortRooms(t)
  BY <1>2, RoomRollsBack DEF AbortRooms
<1> QED BY <1>1, <1>2

\* Every step of the two services preserves it.
LEMMA RoomAdminStep == RoomAdminInv /\ [RoomAdminNext]_room_vars => RoomAdminInv'
<1>1. ASSUME RoomAdminInv, UNCHANGED room_vars
      PROVE  RoomAdminInv'
  BY <1>1 DEF room_vars, RoomAdminInv, RoomTablesOK, TxOK, RoomReqOK
<1> QED BY <1>1, MarkStep, CreateRoomStep, UpdateRoomStep, TypeStep, AddRoomStep, EntryStep,
           AddRoomEnds DEF RoomAdminNext

LEMMA RoomAdminHolds == RoomAdminSpec => []RoomAdminInv
<1>1. RoomAdminInit => RoomAdminInv
  <2>1. ASSUME RoomAdminInit
        PROVE  RoomTablesOK /\ \A t \in Tasks : room_req[t] = Idle /\ tx[t] = Null /\ RoomReqOK(room_req[t])
    BY <2>1, RoomIdle DEF RoomAdminInit, RoomTablesOK, IsTable
  <2> QED BY <2>1, RoomIdle DEF RoomAdminInit, RoomAdminInv, TxOK
<1> QED BY <1>1, RoomAdminStep, PTL DEF RoomAdminSpec
-----------------------------------------------------------------------------
(* Marks: whoever has a room's mark - the table, a request about to save the  *)
(* room, a transaction that wrote it - has the same, as long as bookings mark *)
(* no room meanwhile.  So it may be written back by anyone.                   *)

MarksApart == {{"mark", "updateRoom"}, {"mark", "addRoom"}} \subseteq KeptApart

HasMark(table, i, m) == i \in DOMAIN table /\ table[i].marked = m
Carries(q, x, i, m) ==
  \/ q.pc \in {"load", "flush"} /\ q.id = i /\ q.mem.marked = m
  \/ x # Null /\ HasMark(x.put, i, m)
Sees(i, m) == HasMark(room, i, m) \/ \E t \in Tasks : Carries(room_req[t], tx[t], i, m)

MarksInv == RoomAdminInv /\ \A i, m, m2 : Sees(i, m) /\ Sees(i, m2) => m = m2

\* A request at q with a transaction x has seen all its marks already, but m0.
Learns(table, q, x, m0) ==
  \A i, m : HasMark(table, i, m) \/ Carries(q, x, i, m) =>
              Sees(i, m) \/ (i \notin room_ids /\ m = m0)

\* A room that stays keeps its mark.
MarksStay == \A i \in DOMAIN room \cap DOMAIN room' : room'[i].marked = room[i].marked

\* Only rooms that were ever inserted are seen.
LEMMA SeenWere == ASSUME RoomAdminInv, NEW i, NEW m, Sees(i, m) PROVE i \in room_ids
<1>1. CASE HasMark(room, i, m)
  BY <1>1 DEF HasMark, RoomAdminInv, RoomTablesOK
<1>2. ASSUME NEW t \in Tasks, Carries(room_req[t], tx[t], i, m)
      PROVE  i \in room_ids
  BY <1>2 DEF Carries, HasMark, RoomAdminInv, RoomReqOK, TxOK
<1> QED BY <1>1, <1>2 DEF Sees

\* A step after which nobody sees anything new, but on a row of a new id.
LEMMA MarksNext ==
  ASSUME MarksInv, RoomAdminInv', NEW m0,
         \A i, m : Sees(i, m)' => Sees(i, m) \/ (i \notin room_ids /\ m = m0)
  PROVE  MarksInv' /\ MarksStay
<1>1. RoomAdminInv
  BY DEF MarksInv
<1>2. ASSUME NEW i, NEW m, NEW m2, Sees(i, m)', Sees(i, m2)'
      PROVE  m = m2
  <2>1. CASE i \in room_ids
    BY <1>2, <2>1 DEF MarksInv
  <2>2. CASE i \notin room_ids
    <3>1. ~Sees(i, m) /\ ~Sees(i, m2)
      BY <1>1, <2>2, SeenWere
    <3> QED BY <1>2, <3>1
  <2> QED BY <2>1, <2>2
<1>3. ASSUME NEW i \in DOMAIN room \cap DOMAIN room'
      PROVE  room'[i].marked = room[i].marked
  <2> PICK m, m2 : m = room[i].marked /\ m2 = room'[i].marked
    OBVIOUS
  <2>1. Sees(i, m) /\ Sees(i, m2)'
    BY DEF Sees, HasMark
  <2>2. i \in room_ids
    BY <1>1, <2>1, SeenWere
  <2>3. Sees(i, m2)
    BY <2>1, <2>2
  <2> QED BY <2>1, <2>3 DEF MarksInv
<1> QED BY <1>2, <1>3 DEF MarksInv, MarksStay

\* A step of the request of t, which becomes q and its transaction x.
LEMMA MarksGo ==
  ASSUME MarksInv, RoomAdminInv', NEW t \in Tasks, NEW q, NEW x, NEW m0,
         room_req' = [room_req EXCEPT ![t] = q], tx' = [tx EXCEPT ![t] = x],
         Learns(room', q, x, m0)
  PROVE  MarksInv' /\ MarksStay
<1>1. \A u \in Tasks : /\ room_req'[u] = IF u = t THEN q ELSE room_req[u]
                       /\ tx'[u] = IF u = t THEN x ELSE tx[u]
  BY DEF MarksInv, RoomAdminInv
<1>2. ASSUME NEW i, NEW m, Sees(i, m)'
      PROVE  Sees(i, m) \/ (i \notin room_ids /\ m = m0)
  <2>1. CASE HasMark(room', i, m)
    BY <2>1 DEF Learns
  <2>2. ASSUME NEW u \in Tasks, Carries(room_req'[u], tx'[u], i, m)
        PROVE  Sees(i, m) \/ (i \notin room_ids /\ m = m0)
    <3>1. CASE u = t
      BY <1>1, <2>2, <3>1 DEF Learns
    <3>2. CASE u # t
      <4>1. Carries(room_req[u], tx[u], i, m)
        BY <1>1, <2>2, <3>2
      <4> QED BY <4>1 DEF Sees
    <3> QED BY <3>1, <3>2
  <2> QED BY <1>2, <2>1, <2>2 DEF Sees, HasMark, Carries
<1> QED BY <1>2, MarksNext

\* ... and leaves the rooms and its transaction alone.
LEMMA MarksRead ==
  ASSUME MarksInv, RoomAdminInv', NEW t \in Tasks, NEW q, room_req' = [room_req EXCEPT ![t] = q],
         UNCHANGED <<room, tx>>,
         q.pc \in {"load", "flush"} => Sees(q.id, q.mem.marked)
  PROVE  MarksInv' /\ MarksStay
<1> PICK x : x = tx[t]
  OBVIOUS
<1>1. tx' = [tx EXCEPT ![t] = x]
  BY DEF MarksInv, RoomAdminInv
<1>2. Learns(room', q, x, FALSE)
  BY DEF Learns, Sees, Carries
<1> QED BY <1>1, <1>2, MarksGo

\* ... or ends.
LEMMA MarksEnd ==
  ASSUME MarksInv, RoomAdminInv', NEW t \in Tasks, room_req' = [room_req EXCEPT ![t] = Idle],
         UNCHANGED room, tx' = tx \/ tx' = [tx EXCEPT ![t] = Null]
  PROVE  MarksInv' /\ MarksStay
<1> PICK q, x : q = Idle /\ x = Null
  OBVIOUS
<1>1. q.pc = "idle"
  BY RoomIdle
<1>2. CASE tx' = tx
  BY <1>1, <1>2, MarksRead
<1>3. CASE tx' = [tx EXCEPT ![t] = x]
  <2>1. Learns(room', q, x, FALSE)
    BY <1>1 DEF Learns, Sees, Carries
  <2> QED BY <1>3, <2>1, MarksGo
<1> QED BY <1>2, <1>3

\* Bookings mark no room while one is being saved.
LEMMA MarksMark ==
  ASSUME MarksApart, MarksInv, RoomAdminInv', NEW i \in DOMAIN room, Mark(i) \/ Unmark(i)
  PROVE  MarksInv' /\ UNCHANGED room_req
<1>1. UNCHANGED <<room_req, tx>>
  BY DEF Mark, Unmark
<1>2. \A t \in Tasks : room_req[t].op \notin {"updateRoom", "addRoom"}
  <2>1. \A t \in Tasks : room_req[t].pc # "idle" => {"mark", room_req[t].op} \notin KeptApart
    BY DEF Mark, Unmark, MayMark
  <2>2. \A t \in Tasks : room_req[t].pc = "idle" <=> room_req[t].op = "none"
    BY DEF MarksInv, RoomAdminInv, RoomReqOK
  <2> QED BY <2>1, <2>2 DEF MarksApart
<1>3. \A t \in Tasks : room_req[t].pc \notin {"load", "flush"} /\ tx[t] = Null
  BY <1>2 DEF MarksInv, RoomAdminInv, RoomReqOK, TxOK
<1>4. \A j, m : Sees(j, m)' => HasMark(room', j, m)
  BY <1>1, <1>3 DEF Sees, Carries, HasMark
<1> QED BY <1>1, <1>4 DEF MarksInv, HasMark

\* create and update
LEMMA MarksRoom ==
  ASSUME MarksInv, RoomAdminInv', NEW t \in Tasks,
         \/ CreateRoom(t) \/ InsertRoom(t) \/ LoadRoom(t) \/ FlushRoom(t)
         \/ \E i \in DOMAIN room : UpdateRoom(t, i)
  PROVE  MarksInv' /\ MarksStay
<1> PICK q, idle, x : q = room_req[t] /\ idle = Idle /\ x = tx[t]
  OBVIOUS
<1>1. RoomReqOK(q) /\ RoomTablesOK /\ IsTable(room, HotelRooms, RoomRow) /\ idle.pc = "idle"
  BY RoomIdle DEF MarksInv, RoomAdminInv, RoomTablesOK
<1>2. tx' = tx => tx' = [tx EXCEPT ![t] = x]
  BY DEF MarksInv, RoomAdminInv
<1>3. q.pc \in {"load", "flush"} => Sees(q.id, q.mem.marked)
  BY DEF Sees, Carries
<1>4. CASE CreateRoom(t)
  <2>1. PICK row : room_req' = [room_req EXCEPT ![t] = Inserting("createRoom", row)]
    BY <1>4 DEF CreateRoom
  <2> PICK p : p = Inserting("createRoom", row)
    OBVIOUS
  <2>2. p.pc = "insert"
    BY DEF Inserting, Idle
  <2> QED BY <1>4, <2>1, <2>2, MarksRead DEF CreateRoom
<1>5. CASE InsertRoom(t)
  <2>1. CASE UNCHANGED room
    BY <1>5, <2>1, MarksEnd DEF InsertRoom
  <2>2. CASE ~UNCHANGED room
    <3>1. PICK i \in NextIds(HotelRooms, room_ids) : room' = Put(room, i, q.mem)
      BY <1>5, <2>2 DEF InsertRoom
    <3> PICK m0 : m0 = q.mem.marked
      OBVIOUS
    <3>2. /\ i \notin room_ids /\ DOMAIN room' = DOMAIN room \cup {i} /\ room'[i] = q.mem
          /\ \A j \in DOMAIN room : j # i => room'[j] = room[j]
      BY <3>1 DEF NextIds, Put
    <3>3. Learns(room', idle, x, m0)
      BY <1>1, <3>2 DEF Learns, Sees, Carries, HasMark
    <3>4. room_req' = [room_req EXCEPT ![t] = idle] /\ tx' = [tx EXCEPT ![t] = x]
      BY <1>2, <1>5 DEF InsertRoom
    <3> QED BY <3>3, <3>4, MarksGo
  <2> QED BY <2>1, <2>2
<1>6. CASE LoadRoom(t)
  <2> PICK p : p = SelectedRoom(q, room)
    OBVIOUS
  <2>1. room_req' = [room_req EXCEPT ![t] = p] /\ UNCHANGED <<room, tx>> /\ q.pc = "load"
    BY <1>6 DEF LoadRoom
  <2>2. p.id = q.id /\ p.mem.marked = q.mem.marked
    BY <1>1, <2>1, Selects
  <2> QED BY <1>3, <2>1, <2>2, MarksRead
<1>7. CASE FlushRoom(t)
  <2> PICK row : row = RowOf(q, room)
    OBVIOUS
  <2>1. q.pc = "flush" /\ q.mem \in RoomRow /\ room_req' = [room_req EXCEPT ![t] = idle] /\ tx' = tx
    BY <1>1, <1>7 DEF FlushRoom, RoomReqOK
  <2>2. CASE UNCHANGED room
    BY <2>1, <2>2, MarksEnd
  <2>3. CASE WritesRow(q, room) /\ room' = Put(room, q.id, row)
    <3>1. row.marked = q.mem.marked \/ (q.id \in DOMAIN room /\ row.marked = room[q.id].marked)
      <4>1. IF Inserts(q) THEN row = q.mem
            ELSE q.id \in DOMAIN room /\ row.marked \in {q.mem.marked, room[q.id].marked}
        BY <1>1, <2>1, <2>3, Writes
      <4> QED BY <4>1
    <3>2. DOMAIN room' = DOMAIN room \cup {q.id} /\ room'[q.id] = row /\ \A j \in DOMAIN room \ {q.id} : room'[j] = room[j]
      BY <2>3 DEF Put
    <3>3. HasMark(room, q.id, row.marked) \/ Carries(q, x, q.id, row.marked)
      BY <2>1, <3>1 DEF HasMark, Carries
    <3>4. \A j, m : HasMark(room', j, m) => HasMark(room, j, m) \/ Carries(q, x, j, m)
      BY <3>2, <3>3 DEF HasMark
    <3>5. Learns(room', idle, x, FALSE)
      BY <1>1, <3>4 DEF Learns, Sees, Carries
    <3> QED BY <1>2, <2>1, <3>5, MarksGo
  <2> QED BY <1>7, <2>2, <2>3 DEF FlushRoom
<1>8. ASSUME NEW i \in DOMAIN room, UpdateRoom(t, i)
      PROVE  MarksInv' /\ MarksStay
  <2>1. PICK name \in Labels : room_req' = [room_req EXCEPT ![t] =
          Saving("updateRoom", i, [room[i] EXCEPT !.name = name])]
    BY <1>8 DEF UpdateRoom
  <2> PICK row : row = [room[i] EXCEPT !.name = name]
    OBVIOUS
  <2> PICK p : p = Saving("updateRoom", i, row)
    OBVIOUS
  <2>2. p.id = i /\ p.mem = row
    BY SavingIs
  <2>3. row.marked = room[i].marked
    BY <1>1 DEF IsTable, RoomRow
  <2>4. Sees(p.id, p.mem.marked)
    BY <2>2, <2>3 DEF Sees, HasMark
  <2> QED BY <1>8, <2>1, <2>4, MarksRead DEF UpdateRoom
<1> QED BY <1>4, <1>5, <1>6, <1>7, <1>8

\* Types
LEMMA MarksType ==
  ASSUME MarksInv, RoomAdminInv', NEW t \in Tasks,
         \/ WriteType(t)
         \/ \E k \in DOMAIN type_room : UpdateType(t, k) \/ RemoveType(t, k)
  PROVE  MarksInv' /\ MarksStay
<1>1. CASE WriteType(t)
  BY <1>1, MarksEnd DEF WriteType
<1>2. ASSUME NEW k \in DOMAIN type_room, UpdateType(t, k) \/ RemoveType(t, k)
      PROVE  MarksInv' /\ MarksStay
  <2>1. PICK op, row : room_req' = [room_req EXCEPT ![t] = [Saving(op, k, row) EXCEPT !.pc = "write"]]
    BY <1>2 DEF UpdateType, RemoveType
  <2> PICK p : p = [Saving(op, k, row) EXCEPT !.pc = "write"]
    OBVIOUS
  <2>2. p.pc = "write"
    BY DEF Saving, Idle
  <2> QED BY <1>2, <2>1, <2>2, MarksRead DEF UpdateType, RemoveType
<1> QED BY <1>1, <1>2

\* The start of addRoom
LEMMA MarksAddRoom ==
  ASSUME MarksInv, RoomAdminInv', NEW t \in Tasks, NEW k \in DOMAIN type_room, AddRoom(t, k)
  PROVE  MarksInv' /\ MarksStay
<1> PICK q : q = [Saving("addRoom", k, Null) EXCEPT !.pc = "entry"]
  OBVIOUS
<1>1. room_req' = [room_req EXCEPT ![t] = q] /\ UNCHANGED room /\ q.pc = "entry"
  BY DEF AddRoom, Saving, Idle
<1>2. \A u \in Tasks : room_req'[u] = IF u = t THEN q ELSE room_req[u]
  BY <1>1 DEF MarksInv, RoomAdminInv
<1>3. ASSUME NEW u \in Tasks, NEW i, NEW m, Carries(room_req'[u], tx'[u], i, m)
      PROVE  Carries(room_req[u], tx[u], i, m)
  <2>0. /\ DOMAIN tx'[t].put = {}
        /\ \A v \in Tasks \ {t} : tx'[v] = IF tx[v] = Null THEN Null ELSE Meets(tx[v], k)
    BY Begins DEF MarksInv
  <2>1. u # t
    BY <1>1, <1>2, <1>3, <2>0 DEF Carries, HasMark
  <2>2. CASE tx[u] = Null
    BY <1>2, <1>3, <2>0, <2>1, <2>2
  <2>3. CASE tx[u] # Null
    <3> PICK x, y : x = tx[u] /\ y = Meets(x, k)
      OBVIOUS
    <3>1. tx[u] \in Transactions
      BY <2>3 DEF MarksInv, RoomAdminInv, TxOK
    <3>2. y.put = x.put
      BY <3>1, MeetsIs
    <3>3. tx'[u] = y /\ room_req'[u] = room_req[u]
      BY <1>2, <2>0, <2>1, <2>3
    <3> QED BY <1>3, <2>3, <3>2, <3>3 DEF Carries
  <2> QED BY <2>2, <2>3
<1>4. ASSUME NEW i, NEW m, Sees(i, m)'
      PROVE  Sees(i, m)
  <2>1. CASE HasMark(room, i, m)
    BY <2>1 DEF Sees
  <2>2. ASSUME NEW u \in Tasks, Carries(room_req'[u], tx'[u], i, m)
        PROVE  Sees(i, m)
    BY <1>3, <2>2 DEF Sees
  <2> QED BY <1>1, <1>4, <2>1, <2>2 DEF Sees, HasMark, Carries
<1> QED BY <1>4, MarksNext

\* The list of addRoom
LEMMA MarksEntry ==
  ASSUME MarksInv, RoomAdminInv', NEW t \in Tasks,
         AddEntry(t) \/ ReadEntry(t) \/ LoadEntry(t) \/ FlushEntry(t) \/ DeleteRoom(t)
  PROVE  MarksInv' /\ MarksStay
<1> PICK q, y, seen : q = room_req[t] /\ y = tx[t] /\ seen = Seen(t)
  OBVIOUS
<1>1. RoomReqOK(q) /\ q.op = "addRoom" /\ UNCHANGED room /\ RoomAdminInv
  BY DEF AddEntry, ReadEntry, LoadEntry, FlushEntry, DeleteRoom, AtEntry, AtEnd, MarksInv, RoomAdminInv, RoomReqOK
<1>2. y \in Transactions /\ y # Null
  BY <1>1, Adding
<1>3. \A i, m : HasMark(room, i, m) \/ Carries(q, y, i, m) => Sees(i, m)
  BY DEF Sees
<1>4. q.pc \in {"load", "flush"} => Carries(q, y, q.id, q.mem.marked)
  BY DEF Carries
<1>5. /\ IsTable(seen, HotelRooms, RoomRow)
      /\ \A i, m : HasMark(seen, i, m) => HasMark(room, i, m) \/ Carries(q, y, i, m)
  <2>1. /\ IsTable(seen, HotelRooms, RoomRow)
        /\ DOMAIN seen = (DOMAIN room \cup DOMAIN y.put) \ y.gone
        /\ \A i \in DOMAIN seen : seen[i] = IF i \in DOMAIN y.put THEN y.put[i] ELSE room[i]
    BY <1>1, <1>2, SeenTyped
  <2> QED BY <1>2, <2>1 DEF HasMark, Carries
<1>6. CASE Rollback(t)
  BY <1>1, <1>6, MarksEnd DEF Rollback
<1>7. CASE AddEntry(t) /\ ~(Rollback(t) /\ UNCHANGED room_ids)
  <2>0. PICK i, row, put, x : Added(t, i, row, put, x)
    BY <1>1, <1>7, Adds
  <2>1. /\ i \notin room_ids /\ row.marked = FALSE
        /\ DOMAIN put = DOMAIN y.put \cup {i} /\ put[i] = row
        /\ \A j \in DOMAIN y.put : put[j] = y.put[j]
        /\ tx' = [tx EXCEPT ![t] = x] /\ x = [y EXCEPT !.todo = Tail(y.todo), !.put = put]
        /\ room_req' = [room_req EXCEPT ![t] = q]
    BY <2>0 DEF Added
  <2>2. x.put = put
    BY <1>2, <2>1 DEF Transactions
  <2>3. \A j, m : HasMark(put, j, m) => HasMark(y.put, j, m) \/ (j \notin room_ids /\ m = FALSE)
    BY <2>1 DEF HasMark
  <2>4. \A j, m : Carries(q, x, j, m) => Carries(q, y, j, m) \/ (j \notin room_ids /\ m = FALSE)
    BY <1>2, <2>2, <2>3 DEF Carries
  <2>5. Learns(room', q, x, FALSE)
    BY <1>1, <1>3, <2>4 DEF Learns
  <2> QED BY <2>1, <2>5, MarksGo
<1>8. CASE ReadEntry(t) /\ ~Rollback(t)
  <2> PICK e : e = Head(tx[t].todo)
    OBVIOUS
  <2>0. PICK ids, x, p : HasRead(t, e, ids, x, p)
    BY <1>1, <1>8, Reads
  <2>1. /\ x = [y EXCEPT !.todo = Tail(y.todo), !.ids = ids]
        /\ tx' = [tx EXCEPT ![t] = x] /\ room_req' = [room_req EXCEPT ![t] = p]
        /\ \/ p = q
           \/ p.id = e.id /\ e.id \in DOMAIN room /\ p.mem.marked = room[e.id].marked
    BY <2>0 DEF HasRead
  <2>2. x.put = y.put
    BY <1>2, <2>1 DEF Transactions
  <2>3. \A i, m : Carries(p, x, i, m) => Carries(q, y, i, m) \/ HasMark(room, i, m)
    BY <1>2, <2>1, <2>2 DEF Carries, HasMark
  <2>4. Learns(room', p, x, FALSE)
    BY <1>1, <1>3, <2>3 DEF Learns
  <2> QED BY <2>1, <2>4, MarksGo
<1>9. CASE LoadEntry(t)
  <2> PICK p : p = SelectedRoom(q, seen)
    OBVIOUS
  <2>1. room_req' = [room_req EXCEPT ![t] = p] /\ UNCHANGED <<room, tx>> /\ q.pc = "load"
    BY <1>9 DEF LoadEntry
  <2>2. p.id = q.id /\ p.mem.marked = q.mem.marked
    BY <1>1, <1>5, <2>1, Selects
  <2>3. Sees(p.id, p.mem.marked)
    BY <1>3, <1>4, <2>1, <2>2
  <2> QED BY <2>1, <2>3, MarksRead
<1>10. CASE FlushEntry(t) /\ ~Rollback(t)
  <2>0. PICK p, x, put : HasSaved(t, q, p, x, put)
    BY <1>1, <1>10, Saves
  <2>1. /\ p.pc = "entry" /\ room_req' = [room_req EXCEPT ![t] = p] /\ tx' = [tx EXCEPT ![t] = x]
        /\ x = [y EXCEPT !.put = put]
        /\ \/ /\ WritesRow(q, seen)
              /\ DOMAIN put = DOMAIN y.put \cup {q.id}
              /\ put[q.id] = RowOf(q, seen)
              /\ \A i \in DOMAIN y.put \ {q.id} : put[i] = y.put[i]
           \/ put = y.put
    BY <2>0 DEF HasSaved
  <2>2. x.put = put
    BY <1>2, <2>1 DEF Transactions
  <2>3. ASSUME WritesRow(q, seen), NEW row, row = RowOf(q, seen)
        PROVE  HasMark(room, q.id, row.marked) \/ Carries(q, y, q.id, row.marked)
    <3>1. q.mem \in RoomRow /\ q.pc = "flush"
      BY <1>1, <1>10 DEF FlushEntry, RoomReqOK
    <3>2. row.marked = q.mem.marked \/ (q.id \in DOMAIN seen /\ row.marked = seen[q.id].marked)
      <4>1. IF Inserts(q) THEN row = q.mem
            ELSE q.id \in DOMAIN seen /\ row.marked \in {q.mem.marked, seen[q.id].marked}
        BY <1>5, <2>3, <3>1, Writes
      <4> QED BY <4>1
    <3>3. Carries(q, y, q.id, q.mem.marked)
      BY <1>4, <3>1
    <3>4. q.id \in DOMAIN seen => HasMark(seen, q.id, seen[q.id].marked)
      BY DEF HasMark
    <3> QED BY <1>5, <3>2, <3>3, <3>4
  <2>4. \A i, m : HasMark(put, i, m) => HasMark(room, i, m) \/ Carries(q, y, i, m)
    <3>1. CASE put = y.put
      BY <1>2, <3>1 DEF Carries
    <3>2. CASE put # y.put
      <4>1. \A i \in DOMAIN put : i # q.id => HasMark(y.put, i, put[i].marked)
        BY <2>1, <3>2 DEF HasMark
      <4>2. ASSUME NEW i, NEW m, HasMark(put, i, m), i # q.id
            PROVE  Carries(q, y, i, m)
        <5>1. HasMark(y.put, i, m)
          BY <4>1, <4>2 DEF HasMark
        <5> QED BY <1>2, <5>1 DEF Carries
      <4>3. ASSUME NEW m, HasMark(put, q.id, m)
            PROVE  HasMark(room, q.id, m) \/ Carries(q, y, q.id, m)
        <5> PICK row : row = RowOf(q, seen)
          OBVIOUS
        <5>1. WritesRow(q, seen) /\ put[q.id] = row
          BY <2>1, <3>2
        <5>2. m = row.marked
          BY <4>3, <5>1 DEF HasMark
        <5> QED BY <2>3, <5>1, <5>2
      <4> QED BY <4>2, <4>3
    <3> QED BY <3>1, <3>2
  <2>5. \A i, m : Carries(p, x, i, m) => HasMark(put, i, m)
    BY <2>1, <2>2 DEF Carries
  <2>6. Learns(room', p, x, FALSE)
    BY <1>1, <1>3, <2>4, <2>5 DEF Learns
  <2> QED BY <2>1, <2>6, MarksGo
<1>11. CASE DeleteRoom(t) /\ ~Rollback(t)
  <2>0. PICK i, ids, gone, x : Deleted(t, i, ids, gone, x)
    BY <1>1, <1>11, Deletes
  <2>1. x = [y EXCEPT !.ids = ids, !.gone = gone] /\ tx' = [tx EXCEPT ![t] = x] /\ room_req' = [room_req EXCEPT ![t] = q]
    BY <2>0 DEF Deleted
  <2>2. x.put = y.put
    BY <1>2, <2>1 DEF Transactions
  <2>3. \A j, m : Carries(q, x, j, m) => Carries(q, y, j, m)
    BY <1>2, <2>2 DEF Carries
  <2>4. Learns(room', q, x, FALSE)
    BY <1>1, <1>3, <2>3 DEF Learns
  <2> QED BY <2>1, <2>4, MarksGo
<1> QED BY <1>6, <1>7, <1>8, <1>9, <1>10, <1>11

\* Every step of the two services preserves it, and marks no room if it is one
\* of a request.
LEMMA MarksStep ==
  ASSUME MarksApart, MarksInv, RoomAdminInv', [RoomAdminNext]_room_vars
  PROVE  MarksInv' /\ (room_req' # room_req => MarksStay)
<1>1. ASSUME UNCHANGED <<room, room_req, tx>>
      PROVE  MarksInv' /\ room_req' = room_req
  <2>1. \A i, m : Sees(i, m)' <=> Sees(i, m)
    BY <1>1 DEF Sees, HasMark, Carries
  <2> QED BY <1>1, <2>1 DEF MarksInv
<1>2. ASSUME NEW t \in Tasks, CommitRooms(t)
      PROVE  MarksInv' /\ MarksStay
  <2> PICK q, y, idle, none, seen : q = room_req[t] /\ y = tx[t] /\ idle = Idle /\ none = Null /\ seen = Seen(t)
    OBVIOUS
  <2>1. /\ room' = seen /\ tx' = [tx EXCEPT ![t] = none] /\ room_req' = [room_req EXCEPT ![t] = idle]
        /\ RoomAdminInv /\ q.op = "addRoom"
    BY <1>2 DEF CommitRooms, Rollback, AtEnd, MarksInv, RoomAdminInv, RoomReqOK
  <2>2. y # Null
    BY <2>1, Adding
  <2>3. /\ DOMAIN seen = (DOMAIN room \cup DOMAIN y.put) \ y.gone
        /\ \A i \in DOMAIN seen : seen[i] = IF i \in DOMAIN y.put THEN y.put[i] ELSE room[i]
    BY <2>1, <2>2, SeenTyped
  <2>4. \A i, m : HasMark(seen, i, m) => HasMark(room, i, m) \/ Carries(q, y, i, m)
    BY <2>2, <2>3 DEF HasMark, Carries
  <2>5. \A i, m : ~Carries(idle, none, i, m)
    BY RoomIdle DEF Carries
  <2>6. Learns(room', idle, none, FALSE)
    BY <2>1, <2>4, <2>5 DEF Learns, Sees
  <2> QED BY <2>1, <2>6, MarksGo
<1>3. ASSUME NEW t \in Tasks, AbortRooms(t)
      PROVE  MarksInv' /\ MarksStay
  BY <1>3, MarksEnd DEF AbortRooms, Rollback
<1>4. CASE UNCHANGED room_vars
  BY <1>1, <1>4 DEF room_vars
<1>5. ASSUME NEW t \in Tasks, InsertType(t)
      PROVE  MarksInv' /\ room_req' = room_req
  BY <1>1, <1>5 DEF InsertType
<1> QED BY <1>2, <1>3, <1>4, <1>5, MarksMark, MarksRoom, MarksType, MarksAddRoom, MarksEntry DEF RoomAdminNext

LEMMA MarksHold == ASSUME MarksApart PROVE RoomAdminSpec => []MarksInv
<1>1. RoomAdminInit => (RoomAdminInv => MarksInv)
  <2> SUFFICES ASSUME RoomAdminInit, RoomAdminInv PROVE MarksInv
    OBVIOUS
  <2>1. \A i, m : ~Sees(i, m)
    BY RoomIdle DEF RoomAdminInit, Sees, HasMark, Carries
  <2> QED BY <2>1 DEF MarksInv
<1>2. MarksInv /\ RoomAdminInv' /\ [RoomAdminNext]_room_vars => MarksInv'
  BY MarksStep
<1> QED BY <1>1, <1>2, RoomAdminHolds, PTL DEF RoomAdminSpec

-----------------------------------------------------------------------------
\* With edits of one table that assign other columns kept apart, and marks from
\* renames (run back_office): no save writes back what another request, or a
\* booking, changed since the row was loaded.
THEOREM ColumnsAreTheirOwn ==
  ASSUME EditsApart(PromotionEdits), EditsApart(ServiceEdits), EditsApart(UserEdits), MarksApart
  PROVE  BackOfficeSpec => OnlyItsOwnColumns
<1>1. PromotionInit /\ CatalogueInit /\ AccountsInit => PromotionColumns /\ ServiceColumns /\ UserColumns
  BY DEF PromotionInit, CatalogueInit, AccountsInit, PromotionColumns, ServiceColumns, UserColumns, Finds,
         EditsOK, EditOK, Idle
<1>2. /\ PromotionColumns /\ [PromotionNext]_promotion_vars => PromotionColumns'
      /\ ServiceColumns /\ [CatalogueNext]_catalogue_vars => ServiceColumns'
      /\ UserColumns /\ [AccountsNext]_account_vars => UserColumns'
  BY PromotionColumnsStep, ServiceColumnsStep, UserColumnsStep
<1>3. PromotionSpec /\ CatalogueSpec /\ AccountsSpec => [](PromotionColumns /\ ServiceColumns /\ UserColumns)
  BY <1>1, <1>2, PTL DEF PromotionSpec, CatalogueSpec, AccountsSpec
<1>4. RoomAdminSpec => []MarksInv /\ []RoomAdminInv
  BY MarksHold, RoomAdminHolds, PTL
<1>5. /\ PromotionColumns /\ ServiceColumns /\ UserColumns /\ MarksInv /\ RoomAdminInv'
      /\ [PromotionNext]_promotion_vars /\ [CatalogueNext]_catalogue_vars
      /\ [AccountsNext]_account_vars /\ [RoomAdminNext]_room_vars
      => [/\ WritesItsOwn(promotion, promotion', promotion_req, promotion_req')
          /\ WritesItsOwn(service, service', service_req, service_req')
          /\ server' # "down" => WritesItsOwn(user, user', user_req, user_req')
          /\ room_req' # room_req =>
               \A i \in DOMAIN room \cap DOMAIN room' : room'[i].marked = room[i].marked
         ]_back_office_vars
  BY PromotionColumnsStep, ServiceColumnsStep, UserColumnsStep, MarksStep DEF MarksStay
<1> QED
  BY <1>3, <1>4, <1>5, DesksAreServices, PTL
  DEF OnlyItsOwnColumns, PromotionSpec, CatalogueSpec, AccountsSpec, RoomAdminSpec
-----------------------------------------------------------------------------
(* Types of the back office: an entity in memory is a row, of a row that is   *)
(* there if it is saved.                                                      *)

PromotionTyped ==
  /\ PromotionType
  /\ \A t \in Tasks :
       /\ promotion_req[t].pc # "idle" => promotion_req[t].mem \in PromotionRow
       /\ promotion_req[t].pc \in {"load", "flush"} => promotion_req[t].id \in DOMAIN promotion

LEMMA PromotionTypedStep == PromotionTyped /\ [PromotionNext]_promotion_vars => PromotionTyped'
<1> SUFFICES ASSUME PromotionTyped, [PromotionNext]_promotion_vars PROVE PromotionTyped'
  OBVIOUS
<1> DEFINE Reqs == Requests({"insert", "check", "load", "flush"}, PromotionOps, Promotions, PromotionRow)
<1>1. IsTable(promotion, Promotions, PromotionRow) /\ promotion_req \in [Tasks -> Reqs]
  BY DEF PromotionTyped, PromotionType
<1>2. ASSUME NEW t \in Tasks, NEW q \in Reqs, promotion_req' = [promotion_req EXCEPT ![t] = q],
             IsTable(promotion, Promotions, PromotionRow)', DOMAIN promotion \subseteq DOMAIN promotion',
             q.pc # "idle" => q.mem \in PromotionRow,
             q.pc \in {"load", "flush"} => q.id \in DOMAIN promotion
      PROVE  PromotionTyped'
  <2>1. \A u \in Tasks : promotion_req'[u] = IF u = t THEN q ELSE promotion_req[u]
    BY <1>1, <1>2
  <2>2. promotion_req' \in [Tasks -> Reqs]
    BY <1>1, <1>2
  <2>3. PromotionType'
    BY <1>2, <2>2 DEF PromotionType
  <2> QED BY <1>2, <2>1, <2>3 DEF PromotionTyped
<1>3. Idle \in Reqs /\ Idle.pc = "idle"
  BY DEF Idle, Requests
<1>4. ASSUME NEW op \in PromotionOps, NEW i \in DOMAIN promotion, NEW row \in PromotionRow
      PROVE  /\ Saving(op, i, row) \in Reqs
             /\ Saving(op, i, row).mem = row /\ Saving(op, i, row).id = i
  <2>1. i \in Promotions
    BY <1>1 DEF IsTable
  <2> QED BY <2>1 DEF Saving, Idle, Requests
<1>5. ASSUME NEW t \in Tasks, CreatePromotion(t)
      PROVE  PromotionTyped'
  <2>1. PICK p \in Periods : promotion_req' = [promotion_req EXCEPT ![t] =
          Inserting("createPromotion", [start |-> p.start, end |-> p.end, active |-> TRUE, deleted |-> FALSE])]
    BY <1>5 DEF CreatePromotion
  <2> PICK row : row = [start |-> p.start, end |-> p.end, active |-> TRUE, deleted |-> FALSE]
    OBVIOUS
  <2> PICK q : q = Inserting("createPromotion", row)
    OBVIOUS
  <2>2. row \in PromotionRow
    BY PromotionsAssumption DEF PromotionRow
  <2>3. q \in Reqs /\ q.mem = row /\ q.pc = "insert"
    BY <2>2 DEF Inserting, Idle, Requests, PromotionOps
  <2> QED BY <1>1, <1>2, <1>5, <2>1, <2>2, <2>3 DEF CreatePromotion, IsTable
<1>6. ASSUME NEW t \in Tasks, InsertPromotion(t)
      PROVE  PromotionTyped'
  <2> PICK row : row = promotion_req[t].mem
    OBVIOUS
  <2>1. PICK i \in NextIds(Promotions, DOMAIN promotion) : promotion' = Put(promotion, i, row)
    BY <1>6 DEF InsertPromotion
  <2>2. row \in PromotionRow /\ i \in Promotions
    BY <1>6, <2>1 DEF InsertPromotion, PromotionTyped, NextIds
  <2>3. IsTable(promotion, Promotions, PromotionRow)' /\ DOMAIN promotion \subseteq DOMAIN promotion'
    <3>1. IsTable(promotion', Promotions, PromotionRow)
      BY <1>1, <2>1, <2>2, PutIs
    <3> QED BY <2>1, <3>1 DEF Put
  <2> QED BY <1>2, <1>3, <1>6, <2>3 DEF InsertPromotion
<1>7. ASSUME NEW t \in Tasks, CheckUpdate(t) \/ AbortPromotion(t)
      PROVE  PromotionTyped'
  <2>1. UNCHANGED promotion /\ promotion_req' = [promotion_req EXCEPT ![t] = Idle]
    BY <1>7 DEF CheckUpdate, AbortPromotion
  <2> QED BY <1>1, <1>2, <1>3, <2>1 DEF IsTable
<1>8. ASSUME NEW t \in Tasks, LoadPromotion(t) \/ FlushPromotion(t)
      PROVE  PromotionTyped'
  <2> PICK p, old : p = promotion_req[t] /\ old = promotion[p.id]
    OBVIOUS
  <2>1. p \in Reqs /\ p.mem \in PromotionRow /\ p.id \in DOMAIN promotion /\ old \in PromotionRow
    BY <1>1, <1>8 DEF PromotionTyped, LoadPromotion, FlushPromotion, IsTable
  <2>2. CASE LoadPromotion(t)
    <3> PICK q : q = Selected(p, old)
      OBVIOUS
    <3>1. Changed(p.mem, old) \subseteq {"start", "end", "active", "deleted"}
      BY <2>1 DEF Changed, PromotionRow
    <3>2. q \in Reqs /\ q.mem = p.mem /\ q.id = p.id
      BY <2>1, <3>1 DEF Selected, Requests
    <3> QED BY <1>1, <1>2, <2>1, <2>2, <3>2 DEF LoadPromotion, IsTable
  <2>3. CASE FlushPromotion(t)
    <3> PICK row : row = Flushed(p, old)
      OBVIOUS
    <3>1. row \in PromotionRow
      BY <2>1 DEF Flushed, Saved, PromotionRow
    <3>2. promotion' = [promotion EXCEPT ![p.id] = row]
      BY <2>3 DEF FlushPromotion
    <3>3. promotion_req' = [promotion_req EXCEPT ![t] = Idle]
      BY <2>3 DEF FlushPromotion
    <3>4. DOMAIN promotion' = DOMAIN promotion /\ IsTable(promotion', Promotions, PromotionRow)
      BY <1>1, <2>1, <3>1, <3>2 DEF IsTable
    <3> QED BY <1>2, <1>3, <3>3, <3>4
  <2> QED BY <1>8, <2>2, <2>3
<1>9. ASSUME NEW t \in Tasks, NEW i \in Found,
             UpdatePromotion(t, i) \/ RemovePromotion(t, i) \/ ActivePromotion(t, i)
      PROVE  PromotionTyped'
  <2>1. i \in DOMAIN promotion /\ promotion[i] \in PromotionRow /\ UNCHANGED promotion
    BY <1>1, <1>9 DEF Found, IsTable, UpdatePromotion, RemovePromotion, ActivePromotion
  <2>2. CASE UpdatePromotion(t, i)
    <3>1. PICK p \in Periods : promotion_req' = [promotion_req EXCEPT ![t] =
            [Saving("updatePromotion", i, [promotion[i] EXCEPT !.start = p.start, !.end = p.end])
             EXCEPT !.pc = "check"]]
      BY <2>2 DEF UpdatePromotion
    <3> PICK row : row = [promotion[i] EXCEPT !.start = p.start, !.end = p.end]
      OBVIOUS
    <3> PICK s, q : s = Saving("updatePromotion", i, row) /\ q = [s EXCEPT !.pc = "check"]
      OBVIOUS
    <3>2. row \in PromotionRow
      BY <2>1, PromotionsAssumption DEF PromotionRow
    <3>3. s \in Reqs /\ s.mem = row
      BY <1>4, <2>1, <3>2 DEF PromotionOps
    <3>4. q \in Reqs /\ q.mem = row /\ q.pc = "check"
      BY <3>3 DEF Requests
    <3> QED BY <1>1, <1>2, <2>1, <3>1, <3>2, <3>4 DEF IsTable
  <2>3. CASE RemovePromotion(t, i)
    <3> PICK row : row = [promotion[i] EXCEPT !.deleted = TRUE]
      OBVIOUS
    <3> PICK q : q = Saving("removePromotion", i, row)
      OBVIOUS
    <3>1. row \in PromotionRow /\ promotion_req' = [promotion_req EXCEPT ![t] = q]
      BY <2>1, <2>3 DEF PromotionRow, RemovePromotion
    <3>2. q \in Reqs /\ q.mem = row /\ q.id = i
      BY <1>4, <2>1, <3>1 DEF PromotionOps
    <3> QED BY <1>1, <1>2, <2>1, <3>1, <3>2 DEF IsTable
  <2>4. CASE ActivePromotion(t, i)
    <3>1. PICK on \in BOOLEAN : promotion_req' = [promotion_req EXCEPT ![t] =
            Saving("activePromotion", i, [promotion[i] EXCEPT !.active = on])]
      BY <2>4 DEF ActivePromotion
    <3> PICK row : row = [promotion[i] EXCEPT !.active = on]
      OBVIOUS
    <3> PICK q : q = Saving("activePromotion", i, row)
      OBVIOUS
    <3>2. row \in PromotionRow
      BY <2>1 DEF PromotionRow
    <3>3. q \in Reqs /\ q.mem = row /\ q.id = i
      BY <1>4, <2>1, <3>2 DEF PromotionOps
    <3> QED BY <1>1, <1>2, <2>1, <3>1, <3>2, <3>3 DEF IsTable
  <2> QED BY <1>9, <2>2, <2>3, <2>4
<1>10. CASE UNCHANGED promotion_vars
  BY <1>10 DEF promotion_vars, PromotionTyped, PromotionType, IsTable
<1> QED BY <1>5, <1>6, <1>7, <1>8, <1>9, <1>10 DEF PromotionNext

CatalogueTyped ==
  /\ CatalogueType
  /\ \A t \in Tasks :
       /\ service_req[t].pc \in {"insert", "load", "flush"} => service_req[t].mem \in ServiceRow
       /\ service_req[t].pc = "find" =>
            service_req[t].mem \in [name : Names \cup {Null}, image : BOOLEAN, active : BOOLEAN]
       /\ service_req[t].pc \in {"find", "load", "flush"} => service_req[t].id \in DOMAIN service

LEMMA CatalogueTypedStep == CatalogueTyped /\ [CatalogueNext]_catalogue_vars => CatalogueTyped'
<1> SUFFICES ASSUME CatalogueTyped, [CatalogueNext]_catalogue_vars PROVE CatalogueTyped'
  OBVIOUS
<1> DEFINE Sent == [name : Names \cup {Null}, image : BOOLEAN, active : BOOLEAN]
           Reqs == Requests({"insert", "find", "load", "flush"}, ServiceOps, Services, Sent)
<1>1. IsTable(service, Services, ServiceRow) /\ service_req \in [Tasks -> Reqs]
  BY DEF CatalogueTyped, CatalogueType
<1>2. ASSUME NEW t \in Tasks, NEW q \in Reqs, service_req' = [service_req EXCEPT ![t] = q],
             IsTable(service, Services, ServiceRow)', DOMAIN service \subseteq DOMAIN service',
             q.pc \in {"insert", "load", "flush"} => q.mem \in ServiceRow,
             q.pc = "find" => q.mem \in Sent,
             q.pc \in {"find", "load", "flush"} => q.id \in DOMAIN service
      PROVE  CatalogueTyped'
  <2>1. \A u \in Tasks : service_req'[u] = IF u = t THEN q ELSE service_req[u]
    BY <1>1, <1>2
  <2>2. service_req' \in [Tasks -> Reqs]
    BY <1>1, <1>2
  <2>3. CatalogueType'
    BY <1>2, <2>2 DEF CatalogueType
  <2> QED BY <1>2, <2>1, <2>3 DEF CatalogueTyped
<1>3. Idle \in Reqs /\ Idle.pc = "idle"
  BY DEF Idle, Requests
<1>4. \A row \in ServiceRow : row \in Sent
  BY DEF ServiceRow
<1>5. ASSUME NEW op \in ServiceOps, NEW i \in DOMAIN service, NEW row \in Sent
      PROVE  /\ Saving(op, i, row) \in Reqs
             /\ Saving(op, i, row).mem = row /\ Saving(op, i, row).id = i
             /\ Saving(op, i, row).pc = "load"
  <2>1. i \in Services
    BY <1>1 DEF IsTable
  <2> QED BY <2>1 DEF Saving, Idle, Requests
<1>6. ASSUME NEW t \in Tasks, CreateService(t)
      PROVE  CatalogueTyped'
  <2>1. PICK name \in Names, image \in BOOLEAN : service_req' = [service_req EXCEPT ![t] =
          Inserting("createService", [name |-> name, image |-> image, active |-> TRUE])]
    BY <1>6 DEF CreateService
  <2> PICK row : row = [name |-> name, image |-> image, active |-> TRUE]
    OBVIOUS
  <2> PICK q : q = Inserting("createService", row)
    OBVIOUS
  <2>2. row \in ServiceRow /\ row \in Sent
    BY DEF ServiceRow
  <2>3. q \in Reqs /\ q.mem = row /\ q.pc = "insert"
    BY <2>2 DEF Inserting, Idle, Requests, ServiceOps
  <2>4. UNCHANGED service
    BY <1>6 DEF CreateService
  <2> QED BY <1>1, <1>2, <2>1, <2>2, <2>3, <2>4 DEF IsTable
<1>7. ASSUME NEW t \in Tasks, InsertService(t)
      PROVE  CatalogueTyped'
  <2> PICK row : row = service_req[t].mem
    OBVIOUS
  <2>1. service_req' = [service_req EXCEPT ![t] = Idle]
    BY <1>7 DEF InsertService
  <2>2. CASE Taken(row.name, Null)
    BY <1>1, <1>2, <1>3, <1>7, <2>1, <2>2 DEF InsertService, IsTable
  <2>3. CASE ~Taken(row.name, Null)
    <3>1. PICK i \in NextIds(Services, DOMAIN service) : service' = Put(service, i, row)
      BY <1>7, <2>3 DEF InsertService
    <3>2. row \in ServiceRow /\ i \in Services
      BY <1>7, <3>1 DEF InsertService, CatalogueTyped, NextIds
    <3>3. IsTable(service, Services, ServiceRow)' /\ DOMAIN service \subseteq DOMAIN service'
      <4>1. IsTable(service', Services, ServiceRow)
        BY <1>1, <3>1, <3>2, PutIs
      <4> QED BY <3>1, <4>1 DEF Put
    <3> QED BY <1>2, <1>3, <2>1, <3>3
  <2> QED BY <2>2, <2>3
<1>8. ASSUME NEW t \in Tasks, AbortService(t)
      PROVE  CatalogueTyped'
  BY <1>1, <1>2, <1>3, <1>8 DEF AbortService, IsTable
<1>9. ASSUME NEW t \in Tasks, LoadService(t) \/ FlushService(t)
      PROVE  CatalogueTyped'
  <2> PICK p, old : p = service_req[t] /\ old = service[p.id]
    OBVIOUS
  <2>1. p \in Reqs /\ p.mem \in ServiceRow /\ p.id \in DOMAIN service /\ old \in ServiceRow
    BY <1>1, <1>9 DEF CatalogueTyped, LoadService, FlushService, IsTable
  <2>2. CASE LoadService(t)
    <3> PICK q : q = Selected(p, old)
      OBVIOUS
    <3>1. Changed(p.mem, old) \subseteq {"name", "image", "active"}
      BY <2>1 DEF Changed, ServiceRow
    <3>2. q \in Reqs /\ q.mem = p.mem /\ q.id = p.id /\ q.pc = "flush"
      BY <2>1, <3>1 DEF Selected, Requests
    <3> QED BY <1>1, <1>2, <2>1, <2>2, <3>2 DEF LoadService, IsTable
  <2>3. CASE FlushService(t)
    <3> PICK row : row = Flushed(p, old)
      OBVIOUS
    <3>1. row \in ServiceRow
      BY <2>1 DEF Flushed, Saved, ServiceRow
    <3>2. service' = service \/ service' = [service EXCEPT ![p.id] = row]
      BY <2>3 DEF FlushService
    <3>3. service_req' = [service_req EXCEPT ![t] = Idle]
      BY <2>3 DEF FlushService
    <3>4. DOMAIN service' = DOMAIN service /\ IsTable(service', Services, ServiceRow)
      BY <1>1, <2>1, <3>1, <3>2 DEF IsTable
    <3> QED BY <1>2, <1>3, <3>3, <3>4
  <2> QED BY <1>9, <2>2, <2>3
<1>10. ASSUME NEW t \in Tasks, FindService(t)
      PROVE  CatalogueTyped'
  <2> PICK p, old : p = service_req[t] /\ old = service[p.id]
    OBVIOUS
  <2>1. p \in Reqs /\ p.mem \in Sent /\ p.id \in DOMAIN service /\ old \in ServiceRow
    BY <1>1, <1>10 DEF CatalogueTyped, FindService, IsTable
  <2>2. p.pc = "find" /\ p.op \in ServiceOps \cup {"none"}
    BY <1>10, <2>1 DEF FindService, Requests
  <2> PICK row : row = [old EXCEPT !.name = IF p.mem.name = Null THEN old.name ELSE p.mem.name,
                                   !.image = p.mem.image]
    OBVIOUS
  <2> PICK q : q = Saving(p.op, p.id, row)
    OBVIOUS
  <2>3. row \in ServiceRow
    BY <2>1 DEF ServiceRow
  <2>4. q \in Reqs /\ q.mem = row /\ q.id = p.id /\ q.pc = "load"
    <3>1. p.id \in Services
      BY <1>1, <2>1 DEF IsTable
    <3> QED BY <1>4, <2>2, <2>3, <3>1 DEF Saving, Idle, Requests
  <2>5. service_req' = [service_req EXCEPT ![t] = q] /\ UNCHANGED service
    BY <1>10 DEF FindService
  <2> QED BY <1>1, <1>2, <2>1, <2>3, <2>4, <2>5 DEF IsTable
<1>11. ASSUME NEW t \in Tasks, NEW i \in DOMAIN service, UpdateService(t, i)
      PROVE  CatalogueTyped'
  <2>1. PICK name \in Names \cup {Null}, image \in BOOLEAN : service_req' = [service_req EXCEPT ![t] =
          [Saving("updateService", i, [name |-> name, image |-> image, active |-> TRUE])
           EXCEPT !.pc = "find"]]
    BY <1>11 DEF UpdateService
  <2> PICK row : row = [name |-> name, image |-> image, active |-> TRUE]
    OBVIOUS
  <2> PICK s, q : s = Saving("updateService", i, row) /\ q = [s EXCEPT !.pc = "find"]
    OBVIOUS
  <2>2. row \in Sent
    OBVIOUS
  <2>3. s \in Reqs /\ s.mem = row /\ s.id = i
    <3>1. "updateService" \in ServiceOps
      BY DEF ServiceOps
    <3> HIDE DEF Reqs, Sent
    <3> QED BY <1>5, <2>2, <3>1
  <2>4. q \in Reqs /\ q.mem = row /\ q.id = i /\ q.pc = "find"
    BY <2>3 DEF Requests
  <2>5. UNCHANGED service
    BY <1>11 DEF UpdateService
  <2> QED BY <1>1, <1>2, <2>1, <2>2, <2>4, <2>5 DEF IsTable
<1>12. ASSUME NEW t \in Tasks, NEW i \in DOMAIN service, ActiveService(t, i)
      PROVE  CatalogueTyped'
  <2>1. PICK on \in BOOLEAN : service_req' = [service_req EXCEPT ![t] =
          Saving("activeService", i, [service[i] EXCEPT !.active = on])]
    BY <1>12 DEF ActiveService
  <2> PICK row : row = [service[i] EXCEPT !.active = on]
    OBVIOUS
  <2> PICK q : q = Saving("activeService", i, row)
    OBVIOUS
  <2>2. row \in ServiceRow
    BY <1>1 DEF ServiceRow, IsTable
  <2>3. q \in Reqs /\ q.mem = row /\ q.id = i /\ q.pc = "load"
    <3>1. "activeService" \in ServiceOps
      BY DEF ServiceOps
    <3>2. row \in Sent
      BY <1>4, <2>2
    <3> HIDE DEF Reqs, Sent
    <3> QED BY <1>5, <3>2, <3>1
  <2>4. UNCHANGED service
    BY <1>12 DEF ActiveService
  <2> QED BY <1>1, <1>2, <2>1, <2>2, <2>3, <2>4 DEF IsTable
<1>13. CASE UNCHANGED catalogue_vars
  BY <1>13 DEF catalogue_vars, CatalogueTyped, CatalogueType, IsTable
<1> QED BY <1>6, <1>7, <1>8, <1>9, <1>10, <1>11, <1>12, <1>13 DEF CatalogueNext

\* Every table of the back office keeps rows of its own kind under ids it gave
\* out, and every request in flight holds the entity its next statement needs,
\* however the requests of the services overlap, fail and are started again.
THEOREM BackOfficeTyped == BackOfficeSpec => []BackOfficeType
<1>1. PromotionInit => PromotionTyped
  <2> SUFFICES ASSUME PromotionInit PROVE PromotionTyped
    OBVIOUS
  <2>1. Idle \in Requests({"insert", "check", "load", "flush"}, PromotionOps, Promotions, PromotionRow)
    BY DEF Idle, Requests
  <2> QED BY <2>1 DEF PromotionInit, PromotionTyped, PromotionType, IsTable, Idle
<1>2. CatalogueInit => CatalogueTyped
  <2> SUFFICES ASSUME CatalogueInit PROVE CatalogueTyped
    OBVIOUS
  <2>1. Idle \in Requests({"insert", "find", "load", "flush"}, ServiceOps, Services,
                          [name : Names \cup {Null}, image : BOOLEAN, active : BOOLEAN])
    BY DEF Idle, Requests
  <2> QED BY <2>1 DEF CatalogueInit, CatalogueTyped, CatalogueType, IsTable, Idle
<1>3. AccountsInv => AccountsType
  <2> SUFFICES ASSUME AccountsInv PROVE AccountsType
    OBVIOUS
  <2>1. todo \subseteq Features \cup 1 .. Len(Seeds)
    BY DEF AccountsInv, SeedOK
  <2> QED BY <2>1 DEF AccountsInv, SeedOK, AccountsType
<1>4. RoomAdminInv => RoomAdminType
  <2> SUFFICES ASSUME RoomAdminInv PROVE RoomAdminType
    OBVIOUS
  <2>1. room_req \in [Tasks -> Requests({"insert", "load", "flush", "entry", "write"},
                                        RoomOps, HotelRooms \cup Kinds, RoomRow \cup KindRow)]
    BY DEF RoomAdminInv, RoomReqOK
  <2>2. tx \in [Tasks -> Transactions \cup {Null}]
    BY DEF RoomAdminInv, TxOK
  <2> QED BY <2>1, <2>2 DEF RoomAdminInv, RoomTablesOK, RoomAdminType
<1>5. PromotionSpec => []PromotionTyped
  BY <1>1, PromotionTypedStep, PTL DEF PromotionSpec
<1>6. CatalogueSpec => []CatalogueTyped
  BY <1>2, CatalogueTypedStep, PTL DEF CatalogueSpec
<1>7. PromotionTyped /\ CatalogueTyped /\ AccountsInv /\ RoomAdminInv => BackOfficeType
  BY <1>3, <1>4 DEF PromotionTyped, CatalogueTyped, BackOfficeType
<1> QED BY <1>5, <1>6, <1>7, DesksAreServices, AccountsHold, RoomAdminHolds, PTL
-----------------------------------------------------------------------------
(* addRoom: how far the list is done, as long as nobody else renames rooms    *)
(* and no other addRoom of the type overlaps.  An entry that counts and is    *)
(* done has its row, written or kept; every room of the type that is not to   *)
(* be deleted has its entry, and so has every row that is new.                *)

RenamesApart == {"updateRoom", "addRoom"} \in KeptApart

DoneOf(x) == Len(x.list) - Len(x.todo)
\* The request is about to write this room, under the name it has in memory
Writing(q, i) == q.pc \in {"load", "flush"} /\ q.id = i
\* The name a room has, or is about to have, when q has come as far as x
NameOf(q, x, table, i) ==
  IF Writing(q, i) THEN q.mem.name
  ELSE IF i \in DOMAIN x.put THEN x.put[i].name ELSE table[i].name

\* Which rooms the transaction is about
RoomsOK(q, x, table) ==
  /\ x.had = {i \in DOMAIN table : table[i].type = x.type}
  /\ x.ids \subseteq x.had /\ x.gone \subseteq x.had /\ x.ids \cap x.gone = {}
  /\ \A i \in DOMAIN x.put :
       /\ i \notin x.ids \cup x.gone /\ x.put[i].type = x.type
       /\ i \in DOMAIN table => i \in x.had
  /\ q.pc \in {"load", "flush"} =>
       /\ q.id \in x.had \ (x.ids \cup x.gone \cup DOMAIN x.put)
       /\ q.mem.type = x.type
  /\ q.pc = "flush" =>
       ~Inserts(q) /\ ("name" \in q.diff \/ q.mem.name = table[q.id].name)

\* What is still to do is the end of the list
Aligned(x) ==
  /\ Len(x.todo) <= Len(x.list)
  /\ \A n \in 1 .. Len(x.todo) : x.todo[n] = x.list[DoneOf(x) + n]

\* What of the list is done
DoneOK(done, q, x, table) ==
  /\ \A n \in done : x.list[n].id \notin x.ids
  /\ \A n \in done \cap Wanted(x) :
       LET e == x.list[n] IN
       IF e.id = Null THEN \E i \in DOMAIN x.put \ x.had : x.put[i].name = e.name
       ELSE e.id \notin x.gone /\ NameOf(q, x, table, e.id) = e.name
  /\ \A i \in x.had \ (x.ids \cup x.gone) : \E n \in done \cap Wanted(x) : x.list[n].id = i
  /\ \A i \in DOMAIN x.put \ x.had :
       \E n \in done : x.list[n].id = Null /\ x.list[n].name = x.put[i].name

ListOK(q, x, table) ==
  RoomsOK(q, x, table) /\ Aligned(x) /\ DoneOK(1 .. DoneOf(x), q, x, table)

\* The entry that comes next is the one after those done.
LEMMA NextEntry ==
  ASSUME NEW x \in Transactions, NEW x2 \in Transactions, Aligned(x), x.todo # <<>>,
         x2.list = x.list, x2.had = x.had, x2.todo = Tail(x.todo)
  PROVE  \E n \in DOMAIN x.list :
           /\ x.list[n] = Head(x.todo) /\ Aligned(x2) /\ Wanted(x2) = Wanted(x)
           /\ n \notin 1 .. DoneOf(x) /\ 1 .. DoneOf(x2) = (1 .. DoneOf(x)) \cup {n}
           /\ n \in Wanted(x) <=>
                \/ x.list[n].id = Null
                \/ x.list[n].id \in x.had /\ \A m \in 1 .. DoneOf(x) : x.list[m].id # x.list[n].id
<1> DEFINE n == DoneOf(x) + 1
<1>1. x.list \in Entries /\ x.todo \in Entries /\ x2.todo \in Entries
  BY RoomAdminAssumption DEF Transactions
<1>2. /\ Len(x.list) \in Nat /\ DOMAIN x.list = 1 .. Len(x.list)
      /\ Len(x.todo) \in Nat /\ Len(x.todo) > 0 /\ Head(x.todo) = x.todo[1]
  BY <1>1 DEF Entries
<1>3. Len(x2.todo) = Len(x.todo) - 1 /\ \A m \in 1 .. Len(x2.todo) : x2.todo[m] = x.todo[m + 1]
  BY <1>1, <1>2 DEF Entries
<1>4. DoneOf(x) \in Nat /\ DoneOf(x2) = n /\ n \in DOMAIN x.list /\ n - 1 = DoneOf(x)
  <2>1. \A a, b \in Nat : b > 0 /\ b <= a =>
          /\ a - b \in Nat /\ a - (b - 1) = (a - b) + 1 /\ (a - b) + 1 \in 1 .. a
          /\ ((a - b) + 1) - 1 = a - b
    OBVIOUS
  <2>2. Len(x.todo) <= Len(x.list)
    BY DEF Aligned
  <2>3. /\ DoneOf(x) \in Nat /\ Len(x.list) - (Len(x.todo) - 1) = DoneOf(x) + 1
        /\ DoneOf(x) + 1 \in 1 .. Len(x.list) /\ (DoneOf(x) + 1) - 1 = DoneOf(x)
    BY <1>2, <2>1, <2>2 DEF DoneOf
  <2>4. DoneOf(x2) = Len(x.list) - (Len(x.todo) - 1)
    BY <1>3 DEF DoneOf
  <2> QED BY <1>2, <2>3, <2>4
<1>5. x.list[n] = Head(x.todo)
  BY <1>2 DEF Aligned
<1>6. Aligned(x2)
  <2>1. Len(x2.todo) <= Len(x2.list)
    BY <1>2, <1>3 DEF Aligned
  <2>2. ASSUME NEW m \in 1 .. Len(x2.todo)
        PROVE  x2.todo[m] = x2.list[DoneOf(x2) + m]
    <3>1. m + 1 \in 1 .. Len(x.todo) /\ x2.todo[m] = x.todo[m + 1]
      BY <1>2, <1>3
    <3>2. x.todo[m + 1] = x.list[DoneOf(x) + (m + 1)]
      BY <3>1 DEF Aligned
    <3>3. DoneOf(x) + (m + 1) = DoneOf(x2) + m
      BY <1>4
    <3> QED BY <3>1, <3>2, <3>3
  <2> QED BY <2>1, <2>2 DEF Aligned
<1>7. 1 .. DoneOf(x2) = (1 .. DoneOf(x)) \cup {n} /\ n \notin 1 .. DoneOf(x)
  BY <1>4
<1>8. Wanted(x2) = Wanted(x)
  BY DEF Wanted
<1>9. n \in Wanted(x) <=>
        \/ x.list[n].id = Null
        \/ x.list[n].id \in x.had /\ \A m \in 1 .. DoneOf(x) : x.list[m].id # x.list[n].id
  BY <1>4 DEF Wanted
<1> HIDE DEF n
<1> QED BY <1>4, <1>5, <1>6, <1>7, <1>8, <1>9

\* Others leave the rooms the type had alone, and bring none of the type.
LEMMA ListKept ==
  ASSUME NEW q, NEW x, NEW table, NEW table2, ListOK(q, x, table),
         \A i \in x.had : /\ i \in DOMAIN table2
                          /\ table2[i].name = table[i].name /\ table2[i].type = table[i].type,
         \A i \in DOMAIN table2 \ x.had : table2[i].type # x.type /\ i \notin DOMAIN x.put
  PROVE  ListOK(q, x, table2)
<1>1. RoomsOK(q, x, table) /\ Aligned(x) /\ DoneOK(1 .. DoneOf(x), q, x, table)
  BY DEF ListOK
<1>2. RoomsOK(q, x, table2)
  <2>1. x.had = {i \in DOMAIN table2 : table2[i].type = x.type}
    BY <1>1 DEF RoomsOK
  <2> QED BY <1>1, <2>1 DEF RoomsOK
<1>3. \A i \in x.had : NameOf(q, x, table2, i) = NameOf(q, x, table, i)
  BY <1>1 DEF RoomsOK, NameOf
<1>4. \A n \in Wanted(x) : x.list[n].id # Null => x.list[n].id \in x.had
  BY DEF Wanted
<1>5. DoneOK(1 .. DoneOf(x), q, x, table2)
  BY <1>1, <1>3, <1>4 DEF DoneOK
<1> QED BY <1>1, <1>2, <1>5 DEF ListOK

\* Whether it is alone does not matter to how far it is.
LEMMA ListSame ==
  ASSUME NEW q, NEW x, NEW x2, NEW table, ListOK(q, x, table),
         x2.type = x.type, x2.list = x.list, x2.todo = x.todo, x2.had = x.had, x2.ids = x.ids,
         x2.put = x.put, x2.gone = x.gone
  PROVE  ListOK(q, x2, table)
<1>1. RoomsOK(q, x, table) /\ Aligned(x) /\ DoneOK(1 .. DoneOf(x), q, x, table)
  BY DEF ListOK
<1>2. RoomsOK(q, x2, table)
  BY <1>1 DEF RoomsOK
<1>3. Aligned(x2) /\ DoneOf(x2) = DoneOf(x) /\ Wanted(x2) = Wanted(x)
  BY <1>1 DEF Aligned, DoneOf, Wanted
<1>4. \A i : NameOf(q, x2, table, i) = NameOf(q, x, table, i)
  BY DEF NameOf
<1>5. DoneOK(1 .. DoneOf(x), q, x2, table)
  BY <1>1, <1>3, <1>4 DEF DoneOK
<1> QED BY <1>2, <1>3, <1>5 DEF ListOK

\* In the beginning nothing is done.
LEMMA ListBegins ==
  ASSUME NEW q, NEW x \in Transactions, NEW table, q.pc = "entry", x.todo = x.list,
         x.had = {i \in DOMAIN table : table[i].type = x.type}, x.ids = x.had, x.gone = {},
         DOMAIN x.put = {}
  PROVE  ListOK(q, x, table)
<1>1. x.list \in Entries
  BY RoomAdminAssumption DEF Transactions
<1>2. Len(x.list) \in Nat
  BY <1>1 DEF Entries
<1>3. DoneOf(x) = 0 /\ Aligned(x)
  BY <1>2 DEF DoneOf, Aligned
<1>4. 1 .. DoneOf(x) = {}
  BY <1>3
<1> QED BY <1>3, <1>4 DEF ListOK, RoomsOK, DoneOK

\* An entry of a new room
LEMMA NewDone ==
  ASSUME NEW q, NEW x \in Transactions, NEW x2 \in Transactions, NEW table, ListOK(q, x, table),
         q.pc = "entry", x.todo # <<>>, Head(x.todo).id = Null,
         x2.list = x.list, x2.had = x.had, x2.ids = x.ids, x2.gone = x.gone, x2.type = x.type,
         x2.todo = Tail(x.todo), NEW i, i \notin DOMAIN table \cup DOMAIN x.put, NEW row,
         row.name = Head(x.todo).name, row.type = x.type, x2.put = Put(x.put, i, row)
  PROVE  ListOK(q, x2, table)
<1>1. RoomsOK(q, x, table) /\ Aligned(x) /\ DoneOK(1 .. DoneOf(x), q, x, table)
  BY DEF ListOK
<1>2. PICK n \in DOMAIN x.list :
        /\ x.list[n] = Head(x.todo) /\ Aligned(x2) /\ Wanted(x2) = Wanted(x)
        /\ 1 .. DoneOf(x2) = (1 .. DoneOf(x)) \cup {n}
        /\ n \in Wanted(x) <=> 
             \/ x.list[n].id = Null
             \/ x.list[n].id \in x.had /\ \A m \in 1 .. DoneOf(x) : x.list[m].id # x.list[n].id
  BY <1>1, NextEntry
<1>3. /\ DOMAIN x2.put = DOMAIN x.put \cup {i} /\ x2.put[i] = row
      /\ \A j \in DOMAIN x.put : x2.put[j] = x.put[j]
  BY DEF Put
<1>4. x.had \subseteq DOMAIN table /\ Null \notin x.ids /\ n \in Wanted(x)
  BY <1>1, <1>2, RoomAdminAssumption DEF RoomsOK, Transactions
<1>5. RoomsOK(q, x2, table)
  BY <1>1, <1>3, <1>4 DEF RoomsOK
<1>6. \A j \in x.had : NameOf(q, x2, table, j) = NameOf(q, x, table, j)
  BY <1>3, <1>4 DEF NameOf
<1>7. \A m \in Wanted(x) : x.list[m].id # Null => x.list[m].id \in x.had
  BY DEF Wanted
<1>8. DoneOK((1 .. DoneOf(x)) \cup {n}, q, x2, table)
  <2> DEFINE done == 1 .. DoneOf(x)
  <2> HIDE DEF done
  <2>1. DoneOK(done, q, x, table)
    BY <1>1 DEF done
  <2>2. \A m \in done \cup {n} : x2.list[m].id \notin x2.ids
    BY <1>2, <1>4, <2>1 DEF DoneOK
  <2>3. ASSUME NEW m \in (done \cup {n}) \cap Wanted(x2)
        PROVE  IF x2.list[m].id = Null
               THEN \E j \in DOMAIN x2.put \ x2.had : x2.put[j].name = x2.list[m].name
               ELSE x2.list[m].id \notin x2.gone /\ NameOf(q, x2, table, x2.list[m].id) = x2.list[m].name
    BY <1>2, <1>3, <1>4, <1>6, <1>7, <2>1, <2>3 DEF DoneOK
  <2>4. \A j \in x2.had \ (x2.ids \cup x2.gone) :
          \E m \in (done \cup {n}) \cap Wanted(x2) : x2.list[m].id = j
    BY <1>2, <2>1 DEF DoneOK
  <2>5. \A j \in DOMAIN x2.put \ x2.had :
          \E m \in done \cup {n} : x2.list[m].id = Null /\ x2.list[m].name = x2.put[j].name
    BY <1>2, <1>3, <2>1 DEF DoneOK
  <2>6. DoneOK(done \cup {n}, q, x2, table)
    BY <2>2, <2>3, <2>4, <2>5 DEF DoneOK
  <2> QED BY <2>6 DEF done
<1> QED BY <1>2, <1>5, <1>8 DEF ListOK

\* An entry of no room of the type, or of one the list named before
LEMMA PassedOver ==
  ASSUME NEW q, NEW x \in Transactions, NEW x2 \in Transactions, NEW table, ListOK(q, x, table),
         q.pc = "entry", x.todo # <<>>, x.gone = {}, Head(x.todo).id \notin x.ids \cup {Null},
         x2.list = x.list, x2.had = x.had, x2.ids = x.ids, x2.gone = x.gone, x2.type = x.type,
         x2.put = x.put, x2.todo = Tail(x.todo)
  PROVE  ListOK(q, x2, table)
<1>1. RoomsOK(q, x, table) /\ Aligned(x) /\ DoneOK(1 .. DoneOf(x), q, x, table)
  BY DEF ListOK
<1>2. PICK n \in DOMAIN x.list :
        /\ x.list[n] = Head(x.todo) /\ Aligned(x2) /\ Wanted(x2) = Wanted(x)
        /\ 1 .. DoneOf(x2) = (1 .. DoneOf(x)) \cup {n}
        /\ n \in Wanted(x) <=>
             \/ x.list[n].id = Null
             \/ x.list[n].id \in x.had /\ \A m \in 1 .. DoneOf(x) : x.list[m].id # x.list[n].id
  BY <1>1, NextEntry
<1> DEFINE done == 1 .. DoneOf(x)
<1> HIDE DEF done
<1>3. DoneOK(done, q, x, table)
  BY <1>1 DEF done
<1>4. n \notin Wanted(x)
  <2>1. x.list[n].id \in x.had => \E m \in done : x.list[m].id = x.list[n].id
    BY <1>2, <1>3 DEF DoneOK
  <2> QED BY <1>2, <2>1 DEF done
<1>5. RoomsOK(q, x2, table)
  BY <1>1 DEF RoomsOK
<1>6. \A j \in x.had : NameOf(q, x2, table, j) = NameOf(q, x, table, j)
  BY DEF NameOf
<1>7. \A m \in Wanted(x) : x.list[m].id # Null => x.list[m].id \in x.had
  BY DEF Wanted
<1>8. DoneOK(done \cup {n}, q, x2, table)
  BY <1>2, <1>3, <1>4, <1>6, <1>7 DEF DoneOK
<1> QED BY <1>2, <1>5, <1>8 DEF ListOK, done

\* An entry of a room of the type: kept, or about to be renamed
LEMMA MetDone ==
  ASSUME NEW q, NEW q2, NEW x \in Transactions, NEW x2 \in Transactions, NEW table, ListOK(q, x, table),
         q.pc = "entry", x.todo # <<>>, Head(x.todo).id \in x.ids,
         x2.list = x.list, x2.had = x.had, x2.ids = x.ids \ {Head(x.todo).id}, x2.gone = x.gone,
         x2.type = x.type, x2.put = x.put, x2.todo = Tail(x.todo), x.gone = {},
         \/ q2 = q /\ table[Head(x.todo).id].name = Head(x.todo).name
         \/ /\ q2.pc = "load" /\ q2.id = Head(x.todo).id
            /\ q2.mem.name = Head(x.todo).name /\ q2.mem.type = x.type
  PROVE  ListOK(q2, x2, table)
<1>1. RoomsOK(q, x, table) /\ Aligned(x) /\ DoneOK(1 .. DoneOf(x), q, x, table)
  BY DEF ListOK
<1>2. PICK n \in DOMAIN x.list :
        /\ x.list[n] = Head(x.todo) /\ Aligned(x2) /\ Wanted(x2) = Wanted(x)
        /\ 1 .. DoneOf(x2) = (1 .. DoneOf(x)) \cup {n}
        /\ n \in Wanted(x) <=>
             \/ x.list[n].id = Null
             \/ x.list[n].id \in x.had /\ \A m \in 1 .. DoneOf(x) : x.list[m].id # x.list[n].id
  BY <1>1, NextEntry
<1> DEFINE done == 1 .. DoneOf(x)
<1> HIDE DEF done
<1> PICK e : e = Head(x.todo)
  OBVIOUS
<1>3. DoneOK(done, q, x, table)
  BY <1>1 DEF done
<1>4. n \in Wanted(x)
  <2>1. e.id \in x.had /\ \A m \in done : x.list[m].id # e.id
    BY <1>1, <1>3 DEF RoomsOK, DoneOK
  <2> QED BY <1>2, <2>1 DEF done
<1>5. RoomsOK(q2, x2, table)
  <2>1. e.id \in x.had /\ e.id \in x.ids /\ e.id \notin DOMAIN x.put \cup x.gone
    BY <1>1 DEF RoomsOK
  <2> QED BY <1>1, <2>1 DEF RoomsOK
<1>6. /\ \A j \in x.had \ {e.id} : NameOf(q2, x2, table, j) = NameOf(q, x, table, j)
      /\ NameOf(q2, x2, table, e.id) = e.name
  <2>1. e.id \notin DOMAIN x.put
    BY <1>1 DEF RoomsOK
  <2> QED BY <2>1 DEF NameOf, Writing
<1>7. \A m \in Wanted(x) : x.list[m].id # Null => x.list[m].id \in x.had
  BY DEF Wanted
<1>8. DoneOK(done \cup {n}, q2, x2, table)
  <2>1. \A m \in done \cup {n} : x2.list[m].id \notin x2.ids
    BY <1>2, <1>3 DEF DoneOK
  <2>2. \A m \in done : x.list[m].id # e.id
    BY <1>3 DEF DoneOK
  <2>3. e.id # Null
    BY <1>1, RoomAdminAssumption DEF Transactions
  <2>4. ASSUME NEW m \in (done \cup {n}) \cap Wanted(x2)
        PROVE  IF x2.list[m].id = Null
               THEN \E j \in DOMAIN x2.put \ x2.had : x2.put[j].name = x2.list[m].name
               ELSE x2.list[m].id \notin x2.gone /\ NameOf(q2, x2, table, x2.list[m].id) = x2.list[m].name
    BY <1>2, <1>3, <1>6, <1>7, <2>2, <2>3, <2>4 DEF DoneOK
  <2>5. \A j \in x2.had \ (x2.ids \cup x2.gone) :
          \E m \in (done \cup {n}) \cap Wanted(x2) : x2.list[m].id = j
    BY <1>2, <1>3, <1>4 DEF DoneOK
  <2>6. \A j \in DOMAIN x2.put \ x2.had :
          \E m \in done \cup {n} : x2.list[m].id = Null /\ x2.list[m].name = x2.put[j].name
    BY <1>2, <1>3 DEF DoneOK
  <2> QED BY <2>1, <2>4, <2>5, <2>6 DEF DoneOK
<1> QED BY <1>2, <1>5, <1>8 DEF ListOK, done

\* The SELECT of its save
LEMMA ListLoads ==
  ASSUME NEW q, NEW q2, NEW x, NEW table, ListOK(q, x, table), q.pc = "load",
         q2.pc = "flush", q2.id = q.id, q2.mem = q.mem, ~Inserts(q2),
         "name" \in q2.diff \/ q.mem.name = table[q.id].name
  PROVE  ListOK(q2, x, table)
<1>1. RoomsOK(q, x, table) /\ Aligned(x) /\ DoneOK(1 .. DoneOf(x), q, x, table)
  BY DEF ListOK
<1>2. RoomsOK(q2, x, table)
  BY <1>1 DEF RoomsOK
<1>3. \A i : NameOf(q2, x, table, i) = NameOf(q, x, table, i)
  BY DEF NameOf, Writing
<1>4. DoneOK(1 .. DoneOf(x), q2, x, table)
  BY <1>1, <1>3 DEF DoneOK
<1> QED BY <1>1, <1>2, <1>4 DEF ListOK

\* ... and its UPDATE
LEMMA ListWrites ==
  ASSUME NEW q, NEW q2, NEW x, NEW x2, NEW table, ListOK(q, x, table), q.pc = "flush", q2.pc = "entry",
         x2.list = x.list, x2.had = x.had, x2.ids = x.ids, x2.gone = x.gone, x2.type = x.type,
         x2.todo = x.todo, NEW row, row.name = q.mem.name, row.type = x.type,
         x2.put = Put(x.put, q.id, row)
  PROVE  ListOK(q2, x2, table)
<1>1. RoomsOK(q, x, table) /\ Aligned(x) /\ DoneOK(1 .. DoneOf(x), q, x, table)
  BY DEF ListOK
<1>2. /\ DOMAIN x2.put = DOMAIN x.put \cup {q.id} /\ x2.put[q.id] = row
      /\ q.id \in x.had \ (x.ids \cup x.gone \cup DOMAIN x.put)
      /\ \A j \in DOMAIN x.put : x2.put[j] = x.put[j]
  BY <1>1 DEF Put, RoomsOK
<1>3. RoomsOK(q2, x2, table)
  BY <1>1, <1>2 DEF RoomsOK
<1>4. Aligned(x2) /\ DoneOf(x2) = DoneOf(x) /\ Wanted(x2) = Wanted(x)
  BY <1>1 DEF Aligned, DoneOf, Wanted
<1>5. \A i : NameOf(q2, x2, table, i) = NameOf(q, x, table, i)
  BY <1>2 DEF NameOf, Writing
<1>6. DoneOK(1 .. DoneOf(x), q2, x2, table)
  BY <1>1, <1>2, <1>4, <1>5 DEF DoneOK
<1> QED BY <1>3, <1>4, <1>6 DEF ListOK

\* ... or nothing, if the room has that name by then
LEMMA ListSkips ==
  ASSUME NEW q, NEW q2, NEW x, NEW table, ListOK(q, x, table), q.pc = "flush", q2.pc = "entry",
         q.mem.name = table[q.id].name
  PROVE  ListOK(q2, x, table)
<1>1. RoomsOK(q, x, table) /\ Aligned(x) /\ DoneOK(1 .. DoneOf(x), q, x, table)
  BY DEF ListOK
<1>2. RoomsOK(q2, x, table) /\ q.id \notin DOMAIN x.put
  BY <1>1 DEF RoomsOK
<1>3. \A i : NameOf(q2, x, table, i) = NameOf(q, x, table, i)
  BY <1>2 DEF NameOf, Writing
<1>4. DoneOK(1 .. DoneOf(x), q2, x, table)
  BY <1>1, <1>3 DEF DoneOK
<1> QED BY <1>1, <1>2, <1>4 DEF ListOK

\* A room that is not in the list is deleted.
LEMMA ListDeletes ==
  ASSUME NEW q, NEW x, NEW x2, NEW table, ListOK(q, x, table), q.pc = "entry", NEW i \in x.ids, i # Null,
         x2.list = x.list, x2.had = x.had, x2.ids = x.ids \ {i}, x2.gone = x.gone \cup {i},
         x2.type = x.type, x2.todo = x.todo, x2.put = x.put
  PROVE  ListOK(q, x2, table)
<1>1. RoomsOK(q, x, table) /\ Aligned(x) /\ DoneOK(1 .. DoneOf(x), q, x, table)
  BY DEF ListOK
<1>2. RoomsOK(q, x2, table)
  BY <1>1 DEF RoomsOK
<1>3. Aligned(x2) /\ DoneOf(x2) = DoneOf(x) /\ Wanted(x2) = Wanted(x)
  BY <1>1 DEF Aligned, DoneOf, Wanted
<1>4. \A j : NameOf(q, x2, table, j) = NameOf(q, x, table, j)
  BY DEF NameOf
<1>5. DoneOK(1 .. DoneOf(x), q, x2, table)
  BY <1>1, <1>3, <1>4 DEF DoneOK
<1> QED BY <1>2, <1>3, <1>5 DEF ListOK

\* The commit: all of the list is done, and the type has the rooms now.
Commits(q, x, table, table2, now) ==
  /\ q.pc = "entry" /\ x.todo = <<>> /\ x.ids = {}
  /\ DOMAIN table2 = (DOMAIN table \cup DOMAIN x.put) \ x.gone
  /\ \A i \in DOMAIN table2 : table2[i] = IF i \in DOMAIN x.put THEN x.put[i] ELSE table[i]
  /\ now = {i \in DOMAIN table2 : table2[i].type = x.type}

\* These are the rooms of the list, under its names.
AsListed(x, table2, now) ==
  /\ \A i \in now : \E n \in Wanted(x) : x.list[n].name = table2[i].name
  /\ \A n \in Wanted(x) : \E i \in now : table2[i].name = x.list[n].name
  /\ \A n \in Wanted(x) :
       x.list[n].id # Null => x.list[n].id \in now /\ table2[x.list[n].id].name = x.list[n].name

LEMMA ListCommits ==
  ASSUME NEW q, NEW x \in Transactions, NEW table, ListOK(q, x, table), NEW table2, NEW now,
         Commits(q, x, table, table2, now)
  PROVE  AsListed(x, table2, now)
<1> USE DEF Commits
<1>1. RoomsOK(q, x, table) /\ DoneOK(1 .. DoneOf(x), q, x, table)
  BY DEF ListOK
<1>2. 1 .. DoneOf(x) = DOMAIN x.list
  <2>1. x.list \in Entries /\ Len(x.todo) = 0
    BY RoomAdminAssumption DEF Transactions
  <2>2. Len(x.list) \in Nat /\ DOMAIN x.list = 1 .. Len(x.list)
    BY <2>1 DEF Entries
  <2>3. DoneOf(x) = Len(x.list)
    BY <2>1, <2>2 DEF DoneOf
  <2> QED BY <2>2, <2>3
<1>3. DoneOK(DOMAIN x.list, q, x, table)
  BY <1>1, <1>2
<1>4. /\ DOMAIN table2 = (DOMAIN table \cup DOMAIN x.put) \ x.gone
      /\ \A i \in DOMAIN table2 : table2[i] = IF i \in DOMAIN x.put THEN x.put[i] ELSE table[i]
      /\ \A i \in DOMAIN table2 : table2[i].name = NameOf(q, x, table, i)
  BY DEF NameOf, Writing
<1>5. now = (x.had \ x.gone) \cup DOMAIN x.put
  <2>1. \A i \in DOMAIN x.put : i \in DOMAIN table2 /\ table2[i].type = x.type
    BY <1>1, <1>4 DEF RoomsOK
  <2>2. \A i \in DOMAIN table2 \ DOMAIN x.put : table2[i].type = x.type <=> i \in x.had
    BY <1>1, <1>4 DEF RoomsOK
  <2>3. \A i \in x.had \ x.gone : i \in DOMAIN table2
    BY <1>1, <1>4 DEF RoomsOK
  <2> QED BY <1>4, <2>1, <2>2, <2>3
<1>6. \A n \in Wanted(x) : n \in DOMAIN x.list /\ (x.list[n].id # Null => x.list[n].id \in x.had)
  BY DEF Wanted
<1>7. Null \notin x.had
  BY RoomAdminAssumption DEF Transactions
<1>8. ASSUME NEW i \in now
      PROVE  \E n \in Wanted(x) : x.list[n].name = table2[i].name
  <2>1. CASE i \in x.had
    <3>1. i \in x.had \ (x.ids \cup x.gone) /\ i \in DOMAIN table2
      BY <1>1, <1>5, <2>1 DEF RoomsOK
    <3>2. PICK n \in Wanted(x) : x.list[n].id = i
      BY <1>3, <3>1 DEF DoneOK
    <3>3. NameOf(q, x, table, i) = x.list[n].name
      BY <1>3, <1>6, <1>7, <2>1, <3>2 DEF DoneOK
    <3> QED BY <1>4, <3>1, <3>2, <3>3
  <2>2. CASE i \notin x.had
    <3>1. i \in DOMAIN x.put \ x.had
      BY <1>5, <2>2
    <3>2. PICK n \in DOMAIN x.list : x.list[n].id = Null /\ x.list[n].name = x.put[i].name
      BY <1>3, <3>1 DEF DoneOK
    <3>3. n \in Wanted(x)
      BY <3>2 DEF Wanted
    <3>4. table2[i] = x.put[i]
      BY <1>4, <3>1
    <3> QED BY <3>2, <3>3, <3>4
  <2> QED BY <2>1, <2>2
<1>9. ASSUME NEW n \in Wanted(x), x.list[n].id # Null
      PROVE  x.list[n].id \in now /\ table2[x.list[n].id].name = x.list[n].name
  <2>1. x.list[n].id \in x.had \ x.gone /\ NameOf(q, x, table, x.list[n].id) = x.list[n].name
    BY <1>3, <1>6, <1>9 DEF DoneOK
  <2>2. x.list[n].id \in now /\ x.list[n].id \in DOMAIN table2
    BY <1>5, <2>1
  <2> QED BY <1>4, <2>1, <2>2
<1>10. ASSUME NEW n \in Wanted(x)
       PROVE  \E i \in now : table2[i].name = x.list[n].name
  <2>1. CASE x.list[n].id = Null
    <3>1. PICK i \in DOMAIN x.put \ x.had : x.put[i].name = x.list[n].name
      BY <1>3, <1>6, <2>1 DEF DoneOK
    <3>2. i \in now /\ table2[i] = x.put[i]
      BY <1>4, <1>5, <3>1
    <3> QED BY <3>1, <3>2
  <2>2. CASE x.list[n].id # Null
    BY <1>9, <2>2
  <2> QED BY <2>1, <2>2
<1> QED BY <1>8, <1>9, <1>10 DEF AsListed

\* Whose rooms a transaction has, alone or not: those its type had, and new ones.
OwnRows(q, x, table) ==
  /\ x.ids \subseteq x.had /\ x.gone \subseteq x.had
  /\ \A i \in x.had \cap DOMAIN table : table[i].type \in {x.type, Null}
  /\ \A i \in DOMAIN x.put : x.put[i].type \in {x.type, Null} /\ (i \in DOMAIN table => i \in x.had)
  /\ q.pc \in {"load", "flush"} => q.id \in x.had /\ q.mem.type \in {x.type, Null}

MineOK(q, x, table) == OwnRows(q, x, table) /\ (x.alone => ListOK(q, x, table))

\* Two transactions of different types have no room in common.
ApartRows(x, y) ==
  /\ \A i \in DOMAIN x.put \cap (y.had \cup DOMAIN y.put) : i \in x.had
  /\ x.type # y.type => x.had \cap y.had = {}
  /\ x.alone => x.type # y.type

NoRenames == \A t, u \in Tasks : ~(room_req[t].op = "addRoom" /\ room_req[u].op = "updateRoom")

ListInv ==
  /\ NoRenames
  /\ \A t \in Tasks : room_req[t].op = "createRoom" => room_req[t].mem.type = Null
  /\ \A t \in Tasks : tx[t] # Null => MineOK(room_req[t], tx[t], room)
  /\ \A t, u \in Tasks : t # u /\ tx[t] # Null /\ tx[u] # Null => ApartRows(tx[t], tx[u])

\* Rooms keep their names and types, and those that come have none.
RowsStay ==
  /\ DOMAIN room \subseteq DOMAIN room'
  /\ \A i \in DOMAIN room : room'[i].name = room[i].name /\ room'[i].type = room[i].type
  /\ \A i \in DOMAIN room' \ DOMAIN room : i \notin room_ids /\ room'[i].type = Null

LEMMA MineStays ==
  ASSUME RoomAdminInv, ListInv, RowsStay, NEW u \in Tasks, tx[u] # Null
  PROVE  MineOK(room_req[u], tx[u], room')
<1> PICK q, x : q = room_req[u] /\ x = tx[u]
  OBVIOUS
<1>1. OwnRows(q, x, room) /\ (x.alone => ListOK(q, x, room))
  BY DEF ListInv, MineOK
<1>2. x \in Transactions /\ DOMAIN x.put \subseteq room_ids /\ x.had \subseteq room_ids
  BY Adding
<1>3. x.type # Null
  BY <1>2, RoomAdminAssumption DEF Transactions
<1>4. OwnRows(q, x, room')
  BY <1>1, <1>2 DEF OwnRows, RowsStay
<1>5. ASSUME x.alone
      PROVE  ListOK(q, x, room')
  <2>1. x.had = {i \in DOMAIN room : room[i].type = x.type} /\ ListOK(q, x, room)
    BY <1>1, <1>5 DEF ListOK, RoomsOK
  <2>2. \A i \in x.had : i \in DOMAIN room' /\ room'[i].name = room[i].name /\ room'[i].type = room[i].type
    BY <2>1 DEF RowsStay
  <2>3. \A i \in DOMAIN room' \ x.had : room'[i].type # x.type /\ i \notin DOMAIN x.put
    BY <1>1, <1>2, <1>3, <2>1 DEF RowsStay, OwnRows
  <2> QED BY <2>1, <2>2, <2>3, ListKept
<1> QED BY <1>4, <1>5 DEF MineOK

\* Renames and addRoom do not come together.
LEMMA Unmixed ==
  ASSUME RenamesApart, RoomAdminInv, NoRenames, NEW t \in Tasks, NEW q,
         room_req' = [room_req EXCEPT ![t] = q],
         q.op \in {"addRoom", "updateRoom"} => q.op = room_req[t].op \/ MayStart(room_req, t, q.op)
  PROVE  NoRenames'
<1>1. \A u \in Tasks : room_req'[u] = IF u = t THEN q ELSE room_req[u]
  BY DEF RoomAdminInv
<1>2. ASSUME NEW u \in Tasks, u # t, NEW op \in {"addRoom", "updateRoom"}, q.op = op,
             {op, room_req[u].op} = {"updateRoom", "addRoom"}, room_req[u].op # op
      PROVE  FALSE
  <2>1. CASE op = room_req[t].op
    BY <1>2, <2>1 DEF NoRenames
  <2>2. CASE MayStart(room_req, t, op)
    <3>1. room_req[u].pc # "idle"
      BY <1>2 DEF RoomAdminInv, RoomReqOK
    <3>2. {op, room_req[u].op} \notin KeptApart
      BY <1>2, <2>2, <3>1 DEF MayStart
    <3> QED BY <1>2, <3>2 DEF RenamesApart
  <2> QED BY <1>2, <2>1, <2>2
<1>3. ASSUME NEW u \in Tasks, NEW v \in Tasks, room_req'[u].op = "addRoom", room_req'[v].op = "updateRoom"
      PROVE  FALSE
  <2>1. CASE u = t
    <3>1. v # t /\ room_req[v].op = "updateRoom" /\ q.op = "addRoom"
      BY <1>1, <1>3, <2>1
    <3> QED BY <1>2, <3>1
  <2>2. CASE v = t
    <3>1. u # t /\ room_req[u].op = "addRoom" /\ q.op = "updateRoom"
      BY <1>1, <1>3, <2>2
    <3> QED BY <1>2, <3>1
  <2>3. CASE u # t /\ v # t
    BY <1>1, <1>3, <2>3 DEF NoRenames
  <2> QED BY <2>1, <2>2, <2>3
<1> QED BY <1>3 DEF NoRenames

\* A step of the request of t, which becomes q and its transaction x.
LEMMA ListGoes ==
  ASSUME RoomAdminInv, ListInv, NEW t \in Tasks, NEW q, NEW x,
         room_req' = [room_req EXCEPT ![t] = q], tx' = [tx EXCEPT ![t] = x],
         NoRenames', q.op = "createRoom" => q.mem.type = Null,
         x # Null => MineOK(q, x, room'),
         \A u \in Tasks \ {t} : tx[u] # Null =>
            /\ MineOK(room_req[u], tx[u], room')
            /\ x # Null => ApartRows(x, tx[u]) /\ ApartRows(tx[u], x)
  PROVE  ListInv'
<1>1. \A u \in Tasks : /\ room_req'[u] = IF u = t THEN q ELSE room_req[u]
                       /\ tx'[u] = IF u = t THEN x ELSE tx[u]
  BY DEF RoomAdminInv
<1>2. \A u \in Tasks : room_req'[u].op = "createRoom" => room_req'[u].mem.type = Null
  BY <1>1 DEF ListInv
<1>3. \A u \in Tasks : tx'[u] # Null => MineOK(room_req'[u], tx'[u], room')
  BY <1>1
<1>4. ASSUME NEW u \in Tasks, NEW v \in Tasks, u # v, tx'[u] # Null, tx'[v] # Null
      PROVE  ApartRows(tx'[u], tx'[v])
  <2>1. CASE u = t
    BY <1>1, <1>4, <2>1
  <2>2. CASE v = t
    BY <1>1, <1>4, <2>2
  <2>3. CASE u # t /\ v # t
    BY <1>1, <1>4, <2>3 DEF ListInv
  <2> QED BY <2>1, <2>2, <2>3
<1> QED BY <1>2, <1>3, <1>4 DEF ListInv

\* A statement of addRoom's: rooms stay, and its transaction is about the same,
\* and new ones.
LEMMA EntryGoes ==
  ASSUME RenamesApart, RoomAdminInv, ListInv, UNCHANGED room, NEW t \in Tasks, NEW q, NEW x,
         room_req' = [room_req EXCEPT ![t] = q], tx' = [tx EXCEPT ![t] = x],
         tx[t] # Null, q.op = "addRoom", MineOK(q, x, room),
         x.had = tx[t].had, x.type = tx[t].type, x.alone = tx[t].alone,
         \A i \in DOMAIN x.put : i \in DOMAIN tx[t].put \cup x.had \/ i \notin room_ids
  PROVE  ListInv'
<1>1. room_req[t].op = "addRoom" /\ RowsStay
  BY Adding DEF RowsStay
<1>2. NoRenames'
  BY <1>1, Unmixed DEF ListInv
<1>3. ASSUME NEW u \in Tasks \ {t}, tx[u] # Null
      PROVE  ApartRows(x, tx[u]) /\ ApartRows(tx[u], x)
  <2> PICK y, z : y = tx[t] /\ z = tx[u]
    OBVIOUS
  <2>1. ApartRows(y, z) /\ ApartRows(z, y)
    BY <1>3 DEF ListInv
  <2>2. DOMAIN z.put \subseteq room_ids /\ z.had \subseteq room_ids
    BY <1>3, Adding
  <2> QED BY <2>1, <2>2 DEF ApartRows
<1>4. \A u \in Tasks \ {t} : tx[u] # Null => MineOK(room_req[u], tx[u], room')
  BY <1>1, MineStays
<1> QED BY <1>2, <1>3, <1>4, ListGoes

\* ... its last
LEMMA ListEnds ==
  ASSUME RenamesApart, RoomAdminInv, ListInv, UNCHANGED room, NEW t \in Tasks, Rollback(t)
  PROVE  ListInv'
<1> PICK q, x : q = Idle /\ x = Null
  OBVIOUS
<1>1. room_req' = [room_req EXCEPT ![t] = q] /\ tx' = [tx EXCEPT ![t] = x] /\ q.op = "none" /\ RowsStay
  BY RoomIdle DEF Rollback, RowsStay
<1>2. NoRenames'
  BY <1>1, Unmixed DEF ListInv
<1>3. \A u \in Tasks \ {t} : tx[u] # Null => MineOK(room_req[u], tx[u], room')
  BY <1>1, MineStays
<1> QED BY <1>1, <1>2, <1>3, ListGoes

\* A step of another handler
LEMMA ListOthers ==
  ASSUME RenamesApart, RoomAdminInv, ListInv, NEW t \in Tasks, NEW q,
         room_req' = [room_req EXCEPT ![t] = q], room_req[t].op # "addRoom", q.op # "addRoom",
         q.op = "updateRoom" => room_req[t].op = "updateRoom" \/ MayStart(room_req, t, "updateRoom"),
         q.op = "createRoom" => q.mem.type = Null, tx' = tx, RowsStay \/ room_req[t].op = "updateRoom"
  PROVE  ListInv'
<1> PICK x : x = tx[t]
  OBVIOUS
<1>1. x = Null /\ tx' = [tx EXCEPT ![t] = x]
  BY DEF RoomAdminInv, TxOK
<1>2. NoRenames'
  BY Unmixed DEF ListInv
<1>3. ASSUME NEW u \in Tasks \ {t}, tx[u] # Null
      PROVE  MineOK(room_req[u], tx[u], room')
  <2>1. room_req[u].op = "addRoom"
    BY <1>3, Adding
  <2>2. RowsStay
    BY <2>1 DEF ListInv, NoRenames
  <2> QED BY <1>3, <2>2, MineStays
<1> QED BY <1>1, <1>2, <1>3, ListGoes

LEMMA ListUnread ==
  ASSUME RoomAdminInv, ListInv, RowsStay, UNCHANGED <<room_req, tx>>
  PROVE  ListInv'
<1>1. \A u \in Tasks : tx[u] # Null => MineOK(room_req[u], tx[u], room')
  BY MineStays
<1> QED BY <1>1 DEF ListInv, NoRenames

\* The start of addRoom: of who is at its type none is alone any more.
LEMMA ListAddRoom ==
  ASSUME RenamesApart, RoomAdminInv, ListInv, NEW t \in Tasks, NEW k \in DOMAIN type_room, AddRoom(t, k)
  PROVE  ListInv'
<1> PICK q, x : q = [Saving("addRoom", k, Null) EXCEPT !.pc = "entry"] /\ x = tx'[t]
  OBVIOUS
<1>1. /\ room_req' = [room_req EXCEPT ![t] = q] /\ room' = room /\ MayStart(room_req, t, "addRoom")
      /\ q.op = "addRoom" /\ q.pc = "entry"
  BY DEF AddRoom, Saving, Idle
<1>2. /\ \A u \in Tasks : room_req'[u] = IF u = t THEN q ELSE room_req[u]
      /\ NoRenames'
  BY <1>1, Unmixed DEF RoomAdminInv, ListInv
<1>3. /\ x \in Transactions /\ x.type = k /\ x.todo = x.list /\ x.had = RoomsOf(k) /\ x.ids = RoomsOf(k)
      /\ DOMAIN x.put = {} /\ x.gone = {} /\ (x.alone <=> Rivals(k) = {})
      /\ \A u \in Tasks \ {t} : tx'[u] = IF tx[u] = Null THEN Null ELSE Meets(tx[u], k)
  BY Begins
<1>4. k # Null
  BY RoomAdminAssumption DEF RoomAdminInv, RoomTablesOK, IsTable
<1>5. x.had = {i \in DOMAIN room : room[i].type = k}
  BY <1>3 DEF RoomsOf
<1>6. MineOK(q, x, room)
  <2>1. OwnRows(q, x, room)
    BY <1>1, <1>3, <1>5 DEF OwnRows
  <2>2. ListOK(q, x, room)
    BY <1>1, <1>3, <1>5, ListBegins
  <2> QED BY <2>1, <2>2 DEF MineOK
<1>7. ASSUME NEW u \in Tasks \ {t}, tx'[u] # Null, NEW y, y = tx[u], NEW z, z = tx'[u]
      PROVE  /\ y \in Transactions /\ y # Null /\ OwnRows(room_req[u], y, room)
             /\ y.alone => ListOK(room_req[u], y, room)
             /\ z.type = y.type /\ z.list = y.list /\ z.todo = y.todo /\ z.had = y.had /\ z.ids = y.ids
             /\ z.put = y.put /\ z.gone = y.gone /\ (z.alone <=> y.alone /\ y.type # k)
             /\ x.alone => y.type # k
  <2>1. y # Null /\ z = Meets(y, k)
    BY <1>3, <1>7
  <2>2. y \in Transactions
    BY <1>7, <2>1, Adding
  <2>3. OwnRows(room_req[u], y, room) /\ (y.alone => ListOK(room_req[u], y, room))
    BY <1>7, <2>1 DEF ListInv, MineOK
  <2>4. x.alone => y.type # k
    BY <1>3, <1>7, <2>1 DEF Rivals, Open
  <2> QED BY <2>1, <2>2, <2>3, <2>4, MeetsIs
<1>8. ASSUME NEW u \in Tasks, tx'[u] # Null
      PROVE  MineOK(room_req'[u], tx'[u], room')
  <2>1. CASE u = t
    BY <1>1, <1>2, <1>6, <2>1
  <2>2. CASE u # t
    <3> PICK p, y, z : p = room_req[u] /\ y = tx[u] /\ z = tx'[u]
      OBVIOUS
    <3>1. /\ OwnRows(p, y, room) /\ (y.alone => ListOK(p, y, room))
          /\ z.type = y.type /\ z.list = y.list /\ z.todo = y.todo /\ z.had = y.had /\ z.ids = y.ids
          /\ z.put = y.put /\ z.gone = y.gone /\ (z.alone => y.alone)
      BY <1>7, <1>8, <2>2
    <3>2. OwnRows(p, z, room)
      BY <3>1 DEF OwnRows
    <3>3. z.alone => ListOK(p, z, room)
      BY <3>1, ListSame
    <3>4. room_req'[u] = p
      BY <1>2, <2>2
    <3> QED BY <1>1, <3>2, <3>3, <3>4 DEF MineOK
  <2> QED BY <2>1, <2>2
<1>9. ASSUME NEW u \in Tasks \ {t}, tx'[u] # Null
      PROVE  ApartRows(x, tx'[u]) /\ ApartRows(tx'[u], x)
  <2> PICK y, z : y = tx[u] /\ z = tx'[u]
    OBVIOUS
  <2>1. /\ OwnRows(room_req[u], y, room) /\ z.type = y.type /\ z.had = y.had /\ z.put = y.put
        /\ (z.alone => y.type # k) /\ (x.alone => y.type # k)
    BY <1>7, <1>9
  <2>2. \A i \in z.had \cap DOMAIN room : room[i].type \in {z.type, Null}
    BY <2>1 DEF OwnRows
  <2>3. z.type # k => x.had \cap z.had = {}
    BY <1>4, <1>5, <2>2
  <2>4. \A i \in DOMAIN z.put \cap x.had : i \in z.had
    BY <1>5, <2>1 DEF OwnRows
  <2> QED BY <1>3, <2>1, <2>3, <2>4 DEF ApartRows
<1>10. ASSUME NEW u \in Tasks, NEW v \in Tasks, u # v, tx'[u] # Null, tx'[v] # Null
       PROVE  ApartRows(tx'[u], tx'[v])
  <2>1. CASE u = t \/ v = t
    BY <1>9, <1>10, <2>1
  <2>2. CASE u # t /\ v # t
    <3> PICK y, z, y2, z2 : y = tx[u] /\ z = tx[v] /\ y2 = tx'[u] /\ z2 = tx'[v]
      OBVIOUS
    <3>1. /\ y # Null /\ y2.type = y.type /\ y2.had = y.had /\ y2.put = y.put /\ (y2.alone => y.alone)
          /\ z # Null /\ z2.type = z.type /\ z2.had = z.had /\ z2.put = z.put
      BY <1>7, <1>10, <2>2
    <3>2. ApartRows(y, z)
      BY <1>10, <3>1 DEF ListInv
    <3>3. ApartRows(y2, z2)
      BY <3>1, <3>2 DEF ApartRows
    <3> QED BY <3>3
  <2> QED BY <2>1, <2>2
<1>11. \A u \in Tasks : room_req'[u].op = "createRoom" => room_req'[u].mem.type = Null
  BY <1>1, <1>2 DEF ListInv
<1> QED BY <1>2, <1>8, <1>10, <1>11 DEF ListInv

\* The entries of the list
LEMMA ListEntry ==
  ASSUME RenamesApart, RoomAdminInv, ListInv, NEW t \in Tasks, AddEntry(t) \/ ReadEntry(t)
  PROVE  ListInv'
<1> PICK q, y, e, rest : q = room_req[t] /\ y = tx[t] /\ e = Head(tx[t].todo) /\ rest = Tail(tx[t].todo)
  OBVIOUS
<1>1. q.pc = "entry" /\ q.op = "addRoom" /\ y.todo # <<>> /\ UNCHANGED room
  BY DEF AddEntry, ReadEntry, AtEntry, RoomAdminInv, RoomReqOK
<1>2. y \in Transactions /\ y # Null /\ DOMAIN y.put \subseteq room_ids /\ y.gone = {} /\ DOMAIN room \subseteq room_ids
  BY <1>1, Adding DEF RoomAdminInv, RoomTablesOK
<1>3. OwnRows(q, y, room) /\ (y.alone => ListOK(q, y, room))
  BY <1>2 DEF ListInv, MineOK
<1>4. CASE Rollback(t)
  BY <1>1, <1>4, ListEnds
<1>5. CASE AddEntry(t) /\ ~Rollback(t)
  <2>0. PICK i, row, put, x : Added(t, i, row, put, x)
    BY <1>5, Adds
  <2>1. /\ i \notin room_ids /\ row.name = e.name /\ row.type = y.type
        /\ put = Put(y.put, i, row) /\ DOMAIN put = DOMAIN y.put \cup {i} /\ put[i] = row
        /\ \A j \in DOMAIN y.put : put[j] = y.put[j]
        /\ tx' = [tx EXCEPT ![t] = x] /\ x \in Transactions
        /\ x = [y EXCEPT !.todo = rest, !.put = put]
        /\ room_req' = [room_req EXCEPT ![t] = q]
    BY <2>0 DEF Added
  <2>2. /\ x.list = y.list /\ x.had = y.had /\ x.ids = y.ids /\ x.gone = y.gone /\ x.type = y.type
        /\ x.todo = rest /\ x.put = put /\ x.alone = y.alone
    BY <1>2, <2>1 DEF Transactions
  <2>3. e.id = Null
    BY <1>5 DEF AddEntry
  <2>4. OwnRows(q, x, room)
    BY <1>2, <1>3, <2>1, <2>2 DEF OwnRows
  <2>5. ASSUME y.alone
        PROVE  ListOK(q, x, room)
    <3>1. /\ ListOK(q, y, room) /\ q.pc = "entry" /\ y.todo # <<>> /\ Head(y.todo).id = Null
          /\ y \in Transactions /\ x \in Transactions
          /\ x.list = y.list /\ x.had = y.had /\ x.ids = y.ids /\ x.gone = y.gone /\ x.type = y.type
          /\ x.todo = Tail(y.todo) /\ x.put = Put(y.put, i, row)
          /\ row.name = Head(y.todo).name /\ row.type = y.type
      BY <1>1, <1>2, <1>3, <2>1, <2>2, <2>3, <2>5
    <3>2. i \notin DOMAIN room \cup DOMAIN y.put
      BY <1>2, <2>1
    <3> QED BY <3>1, <3>2, NewDone
  <2>6. MineOK(q, x, room)
    BY <2>2, <2>4, <2>5 DEF MineOK
  <2>7. \A j \in DOMAIN x.put : j \in DOMAIN y.put \cup x.had \/ j \notin room_ids
    BY <2>1, <2>2
  <2> QED BY <1>1, <1>2, <2>1, <2>2, <2>6, <2>7, EntryGoes
<1>6. CASE ReadEntry(t) /\ ~Rollback(t)
  <2>0. PICK ids, x, p : HasRead(t, e, ids, x, p)
    BY <1>6, Reads
  <2>1. /\ ids \subseteq y.ids /\ x = [y EXCEPT !.todo = rest, !.ids = ids] /\ x \in Transactions
        /\ tx' = [tx EXCEPT ![t] = x] /\ room_req' = [room_req EXCEPT ![t] = p] /\ p.op = "addRoom"
        /\ \/ p = q /\ e.id \notin y.ids /\ ids = y.ids
           \/ /\ e.id \in y.ids /\ e.id \in DOMAIN room /\ ids = y.ids \ {e.id}
              /\ \/ p = q /\ room[e.id].name = e.name
                 \/ p.pc = "load" /\ p.id = e.id /\ p.mem.name = e.name /\ p.mem.type = room[e.id].type
    BY <2>0 DEF HasRead
  <2>2. /\ x.list = y.list /\ x.had = y.had /\ x.ids = ids /\ x.gone = y.gone /\ x.type = y.type
        /\ x.todo = rest /\ x.put = y.put /\ x.alone = y.alone
    BY <1>2, <2>1 DEF Transactions
  <2>3. e.id # Null
    BY <1>6 DEF ReadEntry
  <2>4. OwnRows(p, x, room)
    BY <1>1, <1>3, <2>1, <2>2 DEF OwnRows
  <2>5. ASSUME y.alone
        PROVE  ListOK(p, x, room)
    <3>1. CASE p = q /\ e.id \notin y.ids /\ ids = y.ids
      <4>1. /\ ListOK(q, y, room) /\ q.pc = "entry" /\ y.todo # <<>> /\ y.gone = {}
            /\ Head(y.todo).id \notin y.ids \cup {Null} /\ x.ids = y.ids /\ x.todo = Tail(y.todo)
        BY <1>1, <1>2, <1>3, <2>2, <2>3, <2>5, <3>1
      <4>2. ListOK(q, x, room)
        BY <1>2, <2>1, <2>2, <4>1, PassedOver
      <4> QED BY <3>1, <4>2
    <3>2. CASE /\ e.id \in y.ids /\ e.id \in DOMAIN room /\ ids = y.ids \ {e.id}
               /\ \/ p = q /\ room[e.id].name = e.name
                  \/ p.pc = "load" /\ p.id = e.id /\ p.mem.name = e.name /\ p.mem.type = room[e.id].type
      <4>1. room[e.id].type = y.type
        BY <1>3, <2>5, <3>2 DEF ListOK, RoomsOK
      <4>2. \/ p = q /\ room[e.id].name = e.name
            \/ p.pc = "load" /\ p.id = e.id /\ p.mem.name = e.name /\ p.mem.type = y.type
        BY <3>2, <4>1
      <4>3. /\ ListOK(q, y, room) /\ q.pc = "entry" /\ y.todo # <<>> /\ Head(y.todo).id \in y.ids
            /\ y \in Transactions /\ x \in Transactions
            /\ x.list = y.list /\ x.had = y.had /\ x.ids = y.ids \ {Head(y.todo).id} /\ x.gone = y.gone
            /\ x.type = y.type /\ x.put = y.put /\ x.todo = Tail(y.todo) /\ y.gone = {}
        BY <1>1, <1>2, <1>3, <2>1, <2>2, <2>5, <3>2
      <4>4. \/ p = q /\ room[Head(y.todo).id].name = Head(y.todo).name
            \/ /\ p.pc = "load" /\ p.id = Head(y.todo).id
               /\ p.mem.name = Head(y.todo).name /\ p.mem.type = y.type
        BY <4>2
      <4> QED BY <4>3, <4>4, MetDone
    <3> QED BY <2>1, <3>1, <3>2
  <2>6. MineOK(p, x, room)
    BY <2>2, <2>4, <2>5 DEF MineOK
  <2> QED BY <1>1, <1>2, <2>1, <2>2, <2>6, EntryGoes
<1> QED BY <1>4, <1>5, <1>6

\* The save of an entry
LEMMA ListSave ==
  ASSUME RenamesApart, RoomAdminInv, ListInv, NEW t \in Tasks, LoadEntry(t) \/ FlushEntry(t)
  PROVE  ListInv'
<1> PICK q, y, seen : q = room_req[t] /\ y = tx[t] /\ seen = Seen(t)
  OBVIOUS
<1>1. /\ q.op = "addRoom" /\ UNCHANGED room /\ RoomReqOK(q)
      /\ q.pc \in {"load", "flush"} /\ q.mem \in RoomRow
  BY DEF LoadEntry, FlushEntry, RoomAdminInv, RoomReqOK
<1>2. y \in Transactions /\ y # Null
  BY <1>1, Adding
<1>3. OwnRows(q, y, room) /\ (y.alone => ListOK(q, y, room))
  BY <1>2 DEF ListInv, MineOK
<1>4. /\ IsTable(seen, HotelRooms, RoomRow)
      /\ DOMAIN seen = (DOMAIN room \cup DOMAIN y.put) \ y.gone
      /\ \A i \in DOMAIN seen : seen[i] = IF i \in DOMAIN y.put THEN y.put[i] ELSE room[i]
  BY <1>2, SeenTyped
<1>5. ASSUME y.alone
      PROVE  /\ q.id \in DOMAIN room /\ q.id \in DOMAIN seen /\ seen[q.id] = room[q.id] /\ room[q.id] \in RoomRow
             /\ q.mem.type = y.type /\ room[q.id].type = y.type /\ ListOK(q, y, room)
  <2>1. /\ q.id \in DOMAIN room /\ q.id \notin DOMAIN y.put \cup y.gone
        /\ q.mem.type = y.type /\ room[q.id].type = y.type
    BY <1>1, <1>3, <1>5 DEF ListOK, RoomsOK
  <2>2. q.id \in DOMAIN seen /\ seen[q.id] = room[q.id]
    BY <1>4, <2>1
  <2>3. room[q.id] \in RoomRow
    BY <1>4, <2>2 DEF IsTable
  <2> QED BY <1>3, <1>5, <2>1, <2>2, <2>3
<1>6. CASE LoadEntry(t)
  <2> PICK p : p = SelectedRoom(q, seen)
    OBVIOUS
  <2>1. room_req' = [room_req EXCEPT ![t] = p] /\ tx' = tx /\ q.pc = "load"
    BY <1>6 DEF LoadEntry
  <2>2. /\ p.pc = "flush" /\ p.id = q.id /\ p.op = q.op /\ p.mem.type \in {q.mem.type, Null}
        /\ q.id \in DOMAIN seen => p.mem = q.mem /\ p.diff = Changed(q.mem, seen[q.id]) \ {"type"}
    BY <1>1, <1>4, <2>1, Selects
  <2>3. OwnRows(p, y, room)
    BY <1>1, <1>3, <2>2 DEF OwnRows
  <2>4. ASSUME y.alone
        PROVE  ListOK(p, y, room)
    <3>1. p.mem = q.mem /\ p.diff = Changed(q.mem, room[q.id]) \ {"type"}
      BY <1>5, <2>2, <2>4
    <3>2. ~Inserts(p)
      BY <3>1 DEF Inserts
    <3>3. "name" \in p.diff \/ q.mem.name = room[q.id].name
      BY <1>1, <1>5, <2>4, <3>1, RowIs DEF Changed
    <3> QED BY <1>5, <2>1, <2>2, <2>4, <3>1, <3>2, <3>3, ListLoads
  <2>5. MineOK(p, y, room) /\ tx' = [tx EXCEPT ![t] = y]
    BY <2>1, <2>3, <2>4 DEF MineOK, RoomAdminInv
  <2>6. \A i \in DOMAIN y.put : i \in DOMAIN y.put \cup y.had \/ i \notin room_ids
    OBVIOUS
  <2> QED BY <1>1, <1>2, <2>1, <2>2, <2>5, <2>6, EntryGoes
<1>7. CASE FlushEntry(t) /\ Rollback(t)
  BY <1>1, <1>7, ListEnds
<1>8. CASE FlushEntry(t) /\ ~Rollback(t)
  <2>0. PICK p, x, put : HasSaved(t, q, p, x, put)
    BY <1>8, Saves
  <2> PICK row : row = RowOf(q, seen)
    OBVIOUS
  <2>1. /\ p.pc = "entry" /\ p.op = "addRoom"
        /\ room_req' = [room_req EXCEPT ![t] = p] /\ tx' = [tx EXCEPT ![t] = x]
        /\ x = [y EXCEPT !.put = put] /\ x \in Transactions
        /\ \/ /\ WritesRow(q, seen)
              /\ put = Put(y.put, q.id, row)
              /\ DOMAIN put = DOMAIN y.put \cup {q.id} /\ put[q.id] = row
              /\ \A i \in DOMAIN y.put \ {q.id} : put[i] = y.put[i]
           \/ ~WritesRow(q, seen) /\ ~Inserts(q) /\ put = y.put
    BY <2>0 DEF HasSaved
  <2>2. /\ x.list = y.list /\ x.had = y.had /\ x.ids = y.ids /\ x.gone = y.gone /\ x.type = y.type
        /\ x.todo = y.todo /\ x.put = put /\ x.alone = y.alone
    BY <1>2, <2>1 DEF Transactions
  <2>3. q.id \in y.had /\ q.mem.type \in {y.type, Null} /\ q.pc = "flush"
    BY <1>1, <1>3, <1>8 DEF OwnRows, FlushEntry
  <2>4. ASSUME WritesRow(q, seen)
        PROVE  IF Inserts(q) THEN row = q.mem
               ELSE /\ q.id \in DOMAIN seen /\ row.type = seen[q.id].type
                    /\ row.name = IF "name" \in q.diff THEN q.mem.name ELSE seen[q.id].name
    BY <1>1, <1>4, <2>4, Writes
  <2>5. \A i \in DOMAIN seen : i \in y.had \cup DOMAIN y.put => seen[i].type \in {y.type, Null}
    BY <1>3, <1>4 DEF OwnRows
  <2>6. WritesRow(q, seen) => row.type \in {y.type, Null}
    BY <2>3, <2>4, <2>5
  <2>7. OwnRows(p, x, room)
    <3>1. CASE put = y.put
      BY <1>3, <2>1, <2>2, <3>1 DEF OwnRows
    <3>2. CASE put # y.put
      <4>1. \A i \in DOMAIN put : IF i = q.id THEN put[i] = row ELSE i \in DOMAIN y.put /\ put[i] = y.put[i]
        BY <2>1, <3>2
      <4>2. row.type \in {y.type, Null}
        BY <2>1, <2>6, <3>2
      <4> QED BY <1>3, <2>1, <2>2, <2>3, <4>1, <4>2 DEF OwnRows
    <3> QED BY <3>1, <3>2
  <2>8. ASSUME y.alone
        PROVE  ListOK(p, x, room)
    <3>1. ~Inserts(q) /\ ("name" \in q.diff \/ q.mem.name = room[q.id].name)
      BY <1>5, <2>3, <2>8 DEF ListOK, RoomsOK
    <3>2. CASE WritesRow(q, seen)
      <4>1. row.type = y.type /\ row.name = q.mem.name
        BY <1>5, <2>4, <2>8, <3>1, <3>2
      <4>2. x.put = Put(y.put, q.id, row)
        BY <2>1, <2>2, <3>2
      <4>3. /\ ListOK(q, y, room) /\ q.pc = "flush" /\ p.pc = "entry"
            /\ x.list = y.list /\ x.had = y.had /\ x.ids = y.ids /\ x.gone = y.gone /\ x.type = y.type
            /\ x.todo = y.todo
        BY <1>5, <2>1, <2>2, <2>3, <2>8
      <4> QED BY <4>1, <4>2, <4>3, ListWrites
    <3>3. CASE ~WritesRow(q, seen)
      <4>1. q.diff = {}
        BY <1>5, <2>8, <3>1, <3>3 DEF WritesRow, Inserts
      <4>2. q.mem.name = room[q.id].name
        BY <3>1, <4>1
      <4>3. ListOK(p, y, room)
        BY <1>5, <2>1, <2>3, <2>8, <4>2, ListSkips
      <4>4. x.put = y.put
        BY <2>1, <2>2, <3>3
      <4> QED BY <2>2, <4>3, <4>4, ListSame
    <3> QED BY <3>2, <3>3
  <2>9. MineOK(p, x, room)
    BY <2>2, <2>7, <2>8 DEF MineOK
  <2>10. \A i \in DOMAIN x.put : i \in DOMAIN y.put \cup x.had \/ i \notin room_ids
    BY <2>1, <2>2, <2>3
  <2> QED BY <1>1, <1>2, <2>1, <2>2, <2>9, <2>10, EntryGoes
<1> QED BY <1>6, <1>7, <1>8

\* The rooms that are not in the list
LEMMA ListDelete ==
  ASSUME RenamesApart, RoomAdminInv, ListInv, NEW t \in Tasks, DeleteRoom(t)
  PROVE  ListInv'
<1> PICK q, y : q = room_req[t] /\ y = tx[t]
  OBVIOUS
<1>1. q.op = "addRoom" /\ q.pc = "entry" /\ UNCHANGED room
  BY DEF DeleteRoom, AtEnd, RoomAdminInv, RoomReqOK
<1>2. y \in Transactions /\ y # Null
  BY <1>1, Adding
<1>3. OwnRows(q, y, room) /\ (y.alone => ListOK(q, y, room))
  BY <1>2 DEF ListInv, MineOK
<1>4. CASE Rollback(t)
  BY <1>1, <1>4, ListEnds
<1>5. CASE ~Rollback(t)
  <2>0. PICK i, ids, gone, x : Deleted(t, i, ids, gone, x)
    BY <1>5, Deletes
  <2>1. /\ i \in y.ids /\ i # Null /\ ids = y.ids \ {i} /\ gone = y.gone \cup ({i} \cap DOMAIN room)
        /\ x = [y EXCEPT !.ids = ids, !.gone = gone] /\ x \in Transactions
        /\ tx' = [tx EXCEPT ![t] = x] /\ room_req' = [room_req EXCEPT ![t] = q]
    BY <2>0 DEF Deleted
  <2>2. /\ x.list = y.list /\ x.had = y.had /\ x.ids = ids /\ x.gone = gone /\ x.type = y.type
        /\ x.todo = y.todo /\ x.put = y.put /\ x.alone = y.alone
    BY <1>2, <2>1 DEF Transactions
  <2>3. OwnRows(q, x, room)
    BY <1>1, <1>3, <2>1, <2>2 DEF OwnRows
  <2>4. ASSUME y.alone
        PROVE  ListOK(q, x, room)
    <3>1. i \in DOMAIN room /\ ListOK(q, y, room)
      BY <1>3, <2>1, <2>4 DEF ListOK, RoomsOK
    <3>2. x.gone = y.gone \cup {i} /\ x.ids = y.ids \ {i}
      BY <2>1, <2>2, <3>1
    <3> QED BY <1>1, <2>1, <2>2, <3>1, <3>2, ListDeletes
  <2>5. MineOK(q, x, room)
    BY <2>2, <2>3, <2>4 DEF MineOK
  <2>6. \A j \in DOMAIN x.put : j \in DOMAIN y.put \cup x.had \/ j \notin room_ids
    BY <2>2
  <2> QED BY <1>1, <1>2, <2>1, <2>2, <2>5, <2>6, EntryGoes
<1> QED BY <1>4, <1>5

\* The commit leaves the lists of other types as they are.
LEMMA ListCommit ==
  ASSUME RenamesApart, RoomAdminInv, ListInv, NEW t \in Tasks, CommitRooms(t)
  PROVE  ListInv'
<1> PICK q, y, idle, none : q = room_req[t] /\ y = tx[t] /\ idle = Idle /\ none = Null
  OBVIOUS
<1>1. /\ q.op = "addRoom" /\ room' = Seen(t) /\ idle.op = "none"
      /\ room_req' = [room_req EXCEPT ![t] = idle] /\ tx' = [tx EXCEPT ![t] = none]
  BY RoomIdle DEF CommitRooms, AtEnd, Rollback, RoomAdminInv, RoomReqOK
<1>2. y \in Transactions /\ y # Null /\ y.type # Null
  BY <1>1, Adding, RoomAdminAssumption DEF Transactions
<1>3. OwnRows(q, y, room)
  BY <1>2 DEF ListInv, MineOK
<1>4. /\ DOMAIN room' = (DOMAIN room \cup DOMAIN y.put) \ y.gone
      /\ \A i \in DOMAIN room' : room'[i] = IF i \in DOMAIN y.put THEN y.put[i] ELSE room[i]
  BY <1>1, <1>2, SeenTyped
<1>5. NoRenames'
  BY <1>1, Unmixed DEF ListInv
<1>6. ASSUME NEW u \in Tasks \ {t}, tx[u] # Null
      PROVE  MineOK(room_req[u], tx[u], room')
  <2> PICK p, x : p = room_req[u] /\ x = tx[u]
    OBVIOUS
  <2>1. OwnRows(p, x, room) /\ (x.alone => ListOK(p, x, room))
    BY <1>6 DEF ListInv, MineOK
  <2>2. ApartRows(x, y) /\ ApartRows(y, x)
    BY <1>2, <1>6 DEF ListInv
  <2>3. x.type # Null
    BY <1>6, Adding, RoomAdminAssumption DEF Transactions
  <2>4. \A i \in x.had \cap DOMAIN room' : room'[i].type \in {x.type, Null}
    <3> SUFFICES ASSUME NEW i \in x.had \cap DOMAIN room' PROVE room'[i].type \in {x.type, Null}
      OBVIOUS
    <3>1. CASE i \in DOMAIN y.put
      <4>1. i \in y.had
        BY <2>2, <3>1 DEF ApartRows
      <4>2. x.type = y.type
        BY <2>2, <4>1 DEF ApartRows
      <4> QED BY <1>3, <1>4, <3>1, <4>2 DEF OwnRows
    <3>2. CASE i \notin DOMAIN y.put
      BY <1>4, <2>1, <3>2 DEF OwnRows
    <3> QED BY <3>1, <3>2
  <2>5. \A i \in DOMAIN x.put \cap DOMAIN room' : i \in x.had
    BY <1>4, <2>1, <2>2 DEF OwnRows, ApartRows
  <2>6. OwnRows(p, x, room')
    BY <2>1, <2>4, <2>5 DEF OwnRows
  <2>7. ASSUME x.alone
        PROVE  ListOK(p, x, room')
    <3>1. x.type # y.type /\ x.had \cap y.had = {}
      BY <2>2, <2>7 DEF ApartRows
    <3>2. x.had \cap DOMAIN y.put = {} /\ x.had \cap y.gone = {} /\ DOMAIN x.put \cap DOMAIN y.put = {}
      BY <1>3, <2>2, <3>1 DEF ApartRows, OwnRows
    <3>3. x.had = {i \in DOMAIN room : room[i].type = x.type} /\ ListOK(p, x, room)
      BY <2>1, <2>7 DEF ListOK, RoomsOK
    <3>4. \A i \in x.had : i \in DOMAIN room' /\ room'[i] = room[i]
      BY <1>4, <3>2, <3>3
    <3>5. \A i \in DOMAIN y.put : y.put[i].type # x.type
      BY <1>3, <2>3, <3>1 DEF OwnRows
    <3>6. \A i \in DOMAIN room' \ x.had : room'[i].type # x.type /\ i \notin DOMAIN x.put
      BY <1>4, <2>5, <3>3, <3>5
    <3> QED BY <3>3, <3>4, <3>6, ListKept
  <2> QED BY <2>6, <2>7 DEF MineOK
<1> QED BY <1>1, <1>5, <1>6, ListGoes

LEMMA ListStep ==
  ASSUME RenamesApart, RoomAdminInv, ListInv, [RoomAdminNext]_room_vars
  PROVE  ListInv'
<1>1. Idle.op = "none"
  BY RoomIdle
<1>2. UNCHANGED room => RowsStay
  BY DEF RowsStay
<1>3. ASSUME NEW i \in DOMAIN room, Mark(i) \/ Unmark(i)
      PROVE  ListInv'
  <2>1. PICK mark \in BOOLEAN : room' = [room EXCEPT ![i].marked = mark]
    BY <1>3 DEF Mark, Unmark
  <2>2. UNCHANGED <<room_req, tx>>
    BY <1>3 DEF Mark, Unmark
  <2>3. ASSUME NEW j \in DOMAIN room
        PROVE  room'[j].name = room[j].name /\ room'[j].type = room[j].type
    <3>1. room[j] \in RoomRow /\ DOMAIN room' = DOMAIN room
      BY <2>1 DEF RoomAdminInv, RoomTablesOK, IsTable
    <3>2. room'[j] = IF j = i THEN [room[j] EXCEPT !.marked = mark] ELSE room[j]
      BY <2>1 DEF RoomAdminInv, RoomTablesOK, IsTable
    <3> QED BY <3>1, <3>2 DEF RoomRow
  <2>4. DOMAIN room' = DOMAIN room
    BY <2>1
  <2>5. RowsStay
    BY <2>3, <2>4 DEF RowsStay
  <2> QED BY <2>2, <2>5, ListUnread
<1>4. ASSUME NEW t \in Tasks, CreateRoom(t)
      PROVE  ListInv'
  <2>0. PICK name \in Labels : room_req' = [room_req EXCEPT ![t] =
          Inserting("createRoom", [name |-> name, marked |-> FALSE, type |-> Null])]
    BY <1>4 DEF CreateRoom
  <2> PICK row : row = [name |-> name, marked |-> FALSE, type |-> Null]
    OBVIOUS
  <2>1. room_req' = [room_req EXCEPT ![t] = Inserting("createRoom", row)] /\ row.type = Null
    BY <2>0
  <2> PICK q : q = Inserting("createRoom", row)
    OBVIOUS
  <2>2. q.op = "createRoom" /\ q.mem = row
    BY DEF Inserting, Idle
  <2>3. room_req[t].op # "addRoom" /\ UNCHANGED <<room, tx>>
    BY <1>4 DEF CreateRoom, MayStart, RoomAdminInv, RoomReqOK
  <2> QED BY <1>2, <2>1, <2>2, <2>3, ListOthers
<1>5. ASSUME NEW t \in Tasks, InsertRoom(t)
      PROVE  ListInv'
  <2>1. /\ room_req[t].op = "createRoom" /\ room_req' = [room_req EXCEPT ![t] = Idle] /\ tx' = tx
        /\ room_req[t].pc = "insert"
    BY <1>5 DEF InsertRoom
  <2>2. CASE UNCHANGED room
    BY <1>1, <1>2, <2>1, <2>2, ListOthers
  <2>3. CASE ~UNCHANGED room
    <3>1. PICK i \in NextIds(HotelRooms, room_ids) : room' = Put(room, i, room_req[t].mem)
      BY <1>5, <2>3 DEF InsertRoom
    <3>2. i \notin room_ids /\ DOMAIN room \subseteq room_ids
      BY <3>1 DEF NextIds, RoomAdminInv, RoomTablesOK
    <3>3. room_req[t].mem.type = Null
      BY <2>1 DEF ListInv
    <3>4. RowsStay
      BY <3>1, <3>2, <3>3 DEF Put, RowsStay
    <3> QED BY <1>1, <2>1, <3>4, ListOthers
  <2> QED BY <2>2, <2>3
<1>6. ASSUME NEW t \in Tasks, LoadRoom(t) \/ FlushRoom(t)
      PROVE  ListInv'
  <2> PICK p : p = room_req[t]
    OBVIOUS
  <2>1. p.op = "updateRoom" /\ DOMAIN p = DOMAIN Idle /\ tx' = tx
    BY <1>6 DEF LoadRoom, FlushRoom, RoomAdminInv, RoomReqOK, Requests, Idle
  <2>2. CASE LoadRoom(t)
    <3> PICK q : q = SelectedRoom(p, room)
      OBVIOUS
    <3>1. room_req' = [room_req EXCEPT ![t] = q] /\ RoomReqOK(p) /\ p.pc = "load"
      BY <2>2 DEF LoadRoom, RoomAdminInv
    <3>2. IsTable(room, HotelRooms, RoomRow)
      BY DEF RoomAdminInv, RoomTablesOK
    <3>3. q.op = p.op
      BY <3>1, <3>2, Selects
    <3> QED BY <2>1, <3>1, <3>3, ListOthers
  <2>3. CASE FlushRoom(t)
    <3>1. room_req' = [room_req EXCEPT ![t] = Idle]
      BY <2>3 DEF FlushRoom
    <3> QED BY <1>1, <2>1, <3>1, ListOthers
  <2> QED BY <1>6, <2>2, <2>3
<1>7. ASSUME NEW t \in Tasks, NEW i \in DOMAIN room, UpdateRoom(t, i)
      PROVE  ListInv'
  <2>1. PICK row : room_req' = [room_req EXCEPT ![t] = Saving("updateRoom", i, row)]
    BY <1>7 DEF UpdateRoom
  <2> PICK q : q = Saving("updateRoom", i, row)
    OBVIOUS
  <2>2. q.op = "updateRoom"
    BY DEF Saving, Idle
  <2>3. room_req[t].op # "addRoom" /\ UNCHANGED <<room, tx>> /\ MayStart(room_req, t, "updateRoom")
    BY <1>7 DEF UpdateRoom, MayStart, RoomAdminInv, RoomReqOK
  <2> QED BY <1>2, <2>1, <2>2, <2>3, ListOthers
<1>8. ASSUME NEW t \in Tasks, InsertType(t)
      PROVE  ListInv'
  BY <1>2, <1>8, ListUnread DEF InsertType
<1>9. ASSUME NEW t \in Tasks, WriteType(t)
      PROVE  ListInv'
  <2>1. /\ room_req[t].op \in {"updateType", "removeType"} /\ UNCHANGED <<room, tx>>
        /\ room_req' = [room_req EXCEPT ![t] = Idle]
    BY <1>9 DEF WriteType, RoomAdminInv, RoomReqOK
  <2> QED BY <1>1, <1>2, <2>1, ListOthers
<1>10. ASSUME NEW t \in Tasks, NEW k \in DOMAIN type_room, UpdateType(t, k) \/ RemoveType(t, k)
       PROVE  ListInv'
  <2>1. PICK op, mem : /\ room_req' = [room_req EXCEPT ![t] = [Saving(op, k, mem) EXCEPT !.pc = "write"]]
                       /\ op \in {"updateType", "removeType"}
    BY <1>10 DEF UpdateType, RemoveType
  <2> PICK q : q = [Saving(op, k, mem) EXCEPT !.pc = "write"]
    OBVIOUS
  <2>2. q.op = op
    BY DEF Saving, Idle
  <2>3. room_req[t].op # "addRoom" /\ UNCHANGED <<room, tx>>
    BY <1>10 DEF UpdateType, RemoveType, MayStart, RoomAdminInv, RoomReqOK
  <2> QED BY <1>2, <2>1, <2>2, <2>3, ListOthers
<1>11. ASSUME NEW t \in Tasks, AbortRooms(t)
       PROVE  ListInv'
  BY <1>11, ListEnds DEF AbortRooms
<1>12. CASE UNCHANGED room_vars
  BY <1>2, <1>12, ListUnread DEF room_vars
<1> QED BY <1>3, <1>4, <1>5, <1>6, <1>7, <1>8, <1>9, <1>10, <1>11, <1>12, ListAddRoom, ListEntry,
           ListSave, ListDelete, ListCommit DEF RoomAdminNext

\* While nobody renames rooms: a list that is committed is what the type has
\* from then on, whatever its entries are and whoever meanwhile books rooms,
\* creates or deletes types or runs addRoom for another type - unless another
\* addRoom of its own type has overlapped with it (addRoom in
\* type_room.service.ts).
THEOREM ListsBecomeRooms ==
  ASSUME RenamesApart PROVE BackOfficeSpec => ListBecomesRooms
<1>1. RoomAdminInit => ListInv
  BY RoomIdle DEF RoomAdminInit, ListInv, NoRenames
<1>2. RoomAdminInv /\ ListInv /\ [RoomAdminNext]_room_vars => ListInv'
  BY ListStep
<1>3. RoomAdminSpec => []ListInv
  BY <1>1, <1>2, RoomAdminHolds, PTL DEF RoomAdminSpec
<1>4. ASSUME RoomAdminInv, ListInv, [RoomAdminNext]_room_vars, NEW t \in Tasks, NEW x, x = tx[t],
             x # Null, tx'[t] = Null, room' # room, x.alone, NEW table, table = room',
             NEW now, now = {i \in DOMAIN table : table[i].type = x.type}
      PROVE  /\ {table[i].name : i \in now} = {x.list[n].name : n \in Wanted(x)}
             /\ \A n \in Wanted(x) : x.list[n].id # Null =>
                  x.list[n].id \in now /\ table[x.list[n].id].name = x.list[n].name
  <2>1. PICK u \in Tasks : CommitRooms(u)
    <3>1. tx' # tx
      BY <1>4
    <3> QED BY <1>4, <3>1
            DEF RoomAdminNext, room_vars, Mark, Unmark, CreateRoom, InsertRoom, LoadRoom, FlushRoom, UpdateRoom,
                InsertType, WriteType, UpdateType, RemoveType, AddRoom, AddEntry, ReadEntry, LoadEntry,
                FlushEntry, DeleteRoom, AbortRooms
  <2>2. u = t
    BY <1>4, <2>1 DEF CommitRooms, Rollback, RoomAdminInv
  <2> PICK q, seen : q = room_req[t] /\ seen = Seen(t)
    OBVIOUS
  <2>3. q.pc = "entry" /\ x.todo = <<>> /\ x.ids = {} /\ table = seen
    BY <1>4, <2>1, <2>2 DEF CommitRooms, AtEnd
  <2>4. x \in Transactions /\ ListOK(q, x, room)
    BY <1>4, Adding DEF ListInv, MineOK
  <2>5. /\ DOMAIN seen = (DOMAIN room \cup DOMAIN x.put) \ x.gone
        /\ \A i \in DOMAIN seen : seen[i] = IF i \in DOMAIN x.put THEN x.put[i] ELSE room[i]
    BY <1>4, SeenTyped
  <2>6. Commits(q, x, room, table, now)
    BY <1>4, <2>3, <2>5 DEF Commits
  <2>7. AsListed(x, table, now)
    BY <2>4, <2>6, ListCommits
  <2>8. {table[i].name : i \in now} \subseteq {x.list[n].name : n \in Wanted(x)}
    <3>1. SUFFICES ASSUME NEW i \in now PROVE table[i].name \in {x.list[n].name : n \in Wanted(x)}
      OBVIOUS
    <3> QED BY <2>7 DEF AsListed
  <2>9. {x.list[n].name : n \in Wanted(x)} \subseteq {table[i].name : i \in now}
    <3>1. SUFFICES ASSUME NEW n \in Wanted(x) PROVE x.list[n].name \in {table[i].name : i \in now}
      OBVIOUS
    <3> QED BY <2>7 DEF AsListed
  <2>10. {table[i].name : i \in now} = {x.list[n].name : n \in Wanted(x)}
    BY <2>8, <2>9
  <2> QED BY <2>7, <2>10 DEF AsListed
<1>5. RoomAdminInv /\ ListInv /\ [RoomAdminNext]_room_vars =>
        [\A t \in Tasks : LET x == tx[t] IN
           x # Null /\ tx'[t] = Null /\ room' # room /\ x.alone =>
             LET now == {i \in DOMAIN room' : room'[i].type = x.type}
             IN /\ {room'[i].name : i \in now} = {x.list[n].name : n \in Wanted(x)}
                /\ \A n \in Wanted(x) :
                     LET e == x.list[n] IN e.id # Null => e.id \in now /\ room'[e.id].name = e.name
        ]_room_vars
  BY <1>4
<1> QED BY <1>3, <1>5, RoomAdminHolds, DesksAreServices, PTL DEF ListBecomesRooms, RoomAdminSpec
=============================================================================
