---------------------------------- MODULE Api ----------------------------------
(***************************************************************************)
(* What all routes have in common: the way of a request, and the lists.     *)
(* Neither sees the other's tables; a behaviour is one of either.           *)
(***************************************************************************)
EXTENDS RequestPipeline, Listing

VARIABLE side

api_vars == <<side, pipeline_vars, listing_vars>>

\* A list that is not read may be any
ApiInit ==
  /\ side \in {"requests", "lists"} /\ PipelineInit /\ ListingInit
  /\ side = "requests" =>
       /\ row = (CHOOSE table \in Tables : TRUE)
       /\ reader.list = Rooms /\ reader.query = (CHOOSE query \in Queries : TRUE)

ApiNext ==
  /\ UNCHANGED side
  /\ \/ side = "requests" /\ PipelineNext /\ UNCHANGED listing_vars
     \/ side = "lists" /\ ListingNext /\ UNCHANGED pipeline_vars

\* The event loop runs every request that can go on
ApiSpec ==
  /\ ApiInit /\ [][ApiNext]_api_vars
  /\ \A t \in Clients : WF_api_vars(side = "requests" /\ Step(t) /\ UNCHANGED <<side, listing_vars>>)
-----------------------------------------------------------------------------
ApiType == PipelineType /\ ListingType

\* Conditions added to the client's filter narrow or widen the list the way
\* their comparator says, for every row there may be, the column null or not.
FilterSound ==
  /\ side = "lists" /\ reader.pc = "ask" /\ seen = <<>> /\ touched = {}
  /\ reader.query.filter # Malformed
  =>
    FilterLaws(reader.query.filter, "name", RowNames, [name : RowNames \cup {Null}])
=============================================================================
