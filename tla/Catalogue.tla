------------------------------- MODULE Catalogue -------------------------------
(***************************************************************************)
(* services.service.ts: the services a hotel sells, found by their names.   *)
(* Price, unity and description are assigned together with the name and     *)
(* stand with it.                                                           *)
(***************************************************************************)
EXTENDS EntityStore

CONSTANTS
  Names,     \* names clients give services
  Services   \* ids of the rows table service may get

ASSUME CatalogueAssumption ==
  /\ Services \subseteq Nat /\ IsFiniteSet(Services)
  /\ Null \notin Services /\ Null \notin Names

VARIABLES
  service,      \* table service
  service_req   \* what the service is doing

catalogue_vars == <<service, service_req>>

ServiceRow == [name : Names, image : BOOLEAN, active : BOOLEAN]
ServiceOps == {"createService", "updateService", "activeService"}

CatalogueType ==
  /\ IsTable(service, Services, ServiceRow)
  /\ service_req \in [Tasks -> Requests({"insert", "find", "load", "flush"}, ServiceOps, Services,
                               [name : Names \cup {Null}, image : BOOLEAN, active : BOOLEAN])]

CatalogueInit ==
  /\ service = [i \in {} |-> Null]
  /\ service_req = [t \in Tasks |-> Idle]

LOCAL Become(t, q) == service_req' = [service_req EXCEPT ![t] = q]
-----------------------------------------------------------------------------
\* Rows findOne({name}) may return: of a name that was not sent, any row
Named(name) == {i \in DOMAIN service : name \in {Null, service[i].name}}

\* The unique column: the database refuses the name
Taken(name, id) == \E i \in DOMAIN service \ {id} : service[i].name = name

\* create: refused if the name is found; active is the column's default
CreateService(t) ==
  /\ MayStart(service_req, t, "createService")
  /\ HasRoom(service, Services, service_req, {"createService"})
  /\ \E name \in Names, image \in BOOLEAN :
       /\ Named(name) = {}
       /\ Become(t, Inserting("createService", [name |-> name, image |-> image, active |-> TRUE]))
  /\ UNCHANGED service

InsertService(t) ==
  /\ service_req[t].pc = "insert"
  /\ LET row == service_req[t].mem IN
     IF Taken(row.name, Null) THEN UNCHANGED service
     ELSE \E i \in NextIds(Services, DOMAIN service) : service' = Put(service, i, row)
  /\ Become(t, Idle)

\* update: the name is looked up (any row will do if none was sent), and the
\* update refused if that row is another one ...
UpdateService(t, i) ==
  /\ MayStart(service_req, t, "updateService")
  /\ \E name \in Names \cup {Null}, image \in BOOLEAN :
       /\ Named(name) = {} \/ i \in Named(name)
       /\ Become(t, [Saving("updateService", i, [name |-> name, image |-> image, active |-> TRUE])
                     EXCEPT !.pc = "find"])
  /\ UNCHANGED service

\* Mutant: what was not sent is put over the row as well
FindServiceMutant(t) ==
  /\ service_req[t].pc = "find"
  /\ LET q == service_req[t]
     IN Become(t, Saving(q.op, q.id,
          [service[q.id] EXCEPT !.name = q.mem.name, !.image = q.mem.image]))
  /\ UNCHANGED service

\* ... then the row is loaded and the payload put over it; an image that was
\* not sent again is dropped
FindService(t) ==
  /\ service_req[t].pc = "find"
  /\ LET q == service_req[t]
         row == service[q.id]
     IN Become(t, Saving(q.op, q.id,
          [row EXCEPT !.name = IF q.mem.name = Null THEN row.name ELSE q.mem.name,
                      !.image = q.mem.image]))
  /\ UNCHANGED service

ActiveService(t, i) ==
  /\ MayStart(service_req, t, "activeService")
  /\ \E on \in BOOLEAN :
       Become(t, Saving("activeService", i, [service[i] EXCEPT !.active = on]))
  /\ UNCHANGED service

LoadService(t) ==
  /\ service_req[t].pc = "load"
  /\ LET q == service_req[t] IN Become(t, Selected(q, service[q.id]))
  /\ UNCHANGED service

FlushService(t) ==
  /\ service_req[t].pc = "flush"
  /\ LET q == service_req[t]
         row == Flushed(q, service[q.id])
     IN service' = IF Taken(row.name, q.id) THEN service
                   ELSE [service EXCEPT ![q.id] = row]
  /\ Become(t, Idle)

AbortService(t) ==
  /\ service_req[t].pc # "idle"
  /\ Become(t, Idle)
  /\ UNCHANGED service

CatalogueNext ==
  \E t \in Tasks :
    \/ CreateService(t) \/ InsertService(t) \/ FindService(t) \/ LoadService(t)
    \/ FlushService(t) \/ AbortService(t)
    \/ \E i \in DOMAIN service : UpdateService(t, i) \/ ActiveService(t, i)

CatalogueSpec == CatalogueInit /\ [][CatalogueNext]_catalogue_vars
=============================================================================
