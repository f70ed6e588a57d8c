------------------------------ MODULE Promotions ------------------------------
(***************************************************************************)
(* promotion.service.ts: periods with a discount, of which at most one is  *)
(* to cover a day, because _prepare takes whichever row its query returns.  *)
(***************************************************************************)
EXTENDS EntityStore

CONSTANTS
  Days,        \* the days there are
  Periods,     \* the periods clients ask for
  Promotions   \* ids of the rows table promotion may get

ASSUME PromotionsAssumption ==
  /\ Days \subseteq Int /\ Periods \subseteq [start : Days, end : Days]
  /\ Promotions \subseteq Nat /\ IsFiniteSet(Promotions) /\ Null \notin Promotions

VARIABLES
  promotion,      \* table promotion
  promotion_req   \* what the service is doing

promotion_vars == <<promotion, promotion_req>>

PromotionRow == [start : Days, end : Days, active : BOOLEAN, deleted : BOOLEAN]
PromotionOps == {"createPromotion", "updatePromotion", "removePromotion", "activePromotion"}

PromotionType ==
  /\ IsTable(promotion, Promotions, PromotionRow)
  /\ promotion_req \in [Tasks -> Requests({"insert", "check", "load", "flush"},
                                          PromotionOps, Promotions, PromotionRow)]

PromotionInit ==
  /\ promotion = [i \in {} |-> Null]
  /\ promotion_req = [t \in Tasks |-> Idle]

LOCAL Become(t, q) == promotion_req' = [promotion_req EXCEPT ![t] = q]
-----------------------------------------------------------------------------
(* Queries: none of them sees a soft-deleted row *)

Found == {i \in DOMAIN promotion : ~promotion[i].deleted}
Between(day, row) == row.start <= day /\ day <= row.end

\* Mutant: a period around another one is not noticed
ClashesMutant(start, end, row) == Between(start, row) \/ Between(end, row)
\* The condition of create's query
Clashes(start, end, row) ==
  Between(start, row) \/ Between(end, row) \/ (start < row.start /\ end > row.end)

\* The rows checkPromotion and _prepare take one of; active is not asked
Offered(day) == {i \in Found : Between(day, promotion[i])}
-----------------------------------------------------------------------------
\* create: refused if the period clashes, with a row that is there now
CreatePromotion(t) ==
  /\ MayStart(promotion_req, t, "createPromotion")
  /\ HasRoom(promotion, Promotions, promotion_req, {"createPromotion"})
  /\ \E p \in Periods :
       /\ \A i \in Found : ~Clashes(p.start, p.end, promotion[i])
       /\ Become(t, Inserting("createPromotion",
                     [start |-> p.start, end |-> p.end, active |-> TRUE, deleted |-> FALSE]))
  /\ UNCHANGED promotion

InsertPromotion(t) ==
  /\ promotion_req[t].pc = "insert"
  /\ \E i \in NextIds(Promotions, DOMAIN promotion) :
       promotion' = Put(promotion, i, promotion_req[t].mem)
  /\ Become(t, Idle)

\* update loads the row ...
UpdatePromotion(t, i) ==
  /\ MayStart(promotion_req, t, "updatePromotion")
  /\ \E p \in Periods :
       Become(t, [Saving("updatePromotion", i,
                         [promotion[i] EXCEPT !.start = p.start, !.end = p.end])
                  EXCEPT !.pc = "check"])
  /\ UNCHANGED promotion

\* Mutant: the query is answered, and its answer taken for "no clash"
CheckUpdateMutant(t) ==
  /\ promotion_req[t].pc = "check"
  /\ Become(t, [promotion_req[t] EXCEPT !.pc = "load"])
  /\ UNCHANGED promotion

\* ... and asks for clashes with BETWWEN, which the database refuses; had it
\* answered, the array it returns is true even when empty.  Nothing is saved.
CheckUpdate(t) ==
  /\ promotion_req[t].pc = "check"
  /\ Become(t, Idle)
  /\ UNCHANGED promotion

RemovePromotion(t, i) ==
  /\ MayStart(promotion_req, t, "removePromotion")
  /\ Become(t, Saving("removePromotion", i, [promotion[i] EXCEPT !.deleted = TRUE]))
  /\ UNCHANGED promotion

ActivePromotion(t, i) ==
  /\ MayStart(promotion_req, t, "activePromotion")
  /\ \E on \in BOOLEAN :
       Become(t, Saving("activePromotion", i, [promotion[i] EXCEPT !.active = on]))
  /\ UNCHANGED promotion

\* save(): deletedAt is a column like any other, so an entity loaded before a
\* removal differs in it from the row and puts it back
LoadPromotion(t) ==
  /\ promotion_req[t].pc = "load"
  /\ LET q == promotion_req[t] IN Become(t, Selected(q, promotion[q.id]))
  /\ UNCHANGED promotion

FlushPromotion(t) ==
  /\ promotion_req[t].pc = "flush"
  /\ LET q == promotion_req[t] IN
     promotion' = [promotion EXCEPT ![q.id] = Flushed(q, @)]
  /\ Become(t, Idle)

\* A statement fails or the process dies
AbortPromotion(t) ==
  /\ promotion_req[t].pc # "idle"
  /\ Become(t, Idle)
  /\ UNCHANGED promotion

PromotionNext ==
  \E t \in Tasks :
    \/ CreatePromotion(t) \/ InsertPromotion(t) \/ CheckUpdate(t)
    \/ LoadPromotion(t) \/ FlushPromotion(t) \/ AbortPromotion(t)
    \/ \E i \in Found :
         UpdatePromotion(t, i) \/ RemovePromotion(t, i) \/ ActivePromotion(t, i)

PromotionSpec == PromotionInit /\ [][PromotionNext]_promotion_vars
-----------------------------------------------------------------------------
(* With creates kept apart from each other, and active from remove *)

\* No day is covered by two promotions, so the discount of a booking does not
\* depend on which row the database returns first.
OnePromotionPerDay ==
  \A day \in Days : \A i, j \in Offered(day) : i = j

\* A removed promotion does not come back.
RemovedStaysRemoved ==
  [][\A i \in DOMAIN promotion : promotion[i].deleted => promotion'[i].deleted]_promotion_vars
=============================================================================
