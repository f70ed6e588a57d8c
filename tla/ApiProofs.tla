------------------------------- MODULE ApiProofs -------------------------------
(***************************************************************************)
(* What every route has in common, proved for every number of requests,     *)
(* users, rows, queries and changes.                                        *)
(*                                                                         *)
(* The guards read the user from the table, some of them twice, while       *)
(* others change it.  So the invariant says of every request that who its   *)
(* user is by now is among what that user has been since the request came,  *)
(* that what a guard has read is, too, and that past the guard of the roles *)
(* one of these had a role of the route.                                    *)
(*                                                                         *)
(* The pages of a list are read while its rows change.  A place in a list   *)
(* is the number of rows before a row; a write moves the rows it does not   *)
(* write only down, or only up, as the list is sorted.  So the invariant    *)
(* compares the places rows have by now with how far the client has read:   *)
(* what is above is got, or what is got is above.                           *)
(***************************************************************************)
EXTENDS Api, FiniteSetTheorems, TLAPS

\* A request that is under way
Way ==
  [pc : Stages, route : Routes, bearer : People \cup {Nobody}, who : People \cup {Nobody},
   user : Account \cup {Nobody}, thrown : Exceptions \cup {"none"},
   answer : [http : Nat, success : BOOLEAN, statusCode : Nat], held : SUBSET Account]

\* Somebody with a role of the route
Entitled(q) == \E was \in q.held : was.role \in q.route.roles

\* What is true of a request q
WayOK(q) ==
  /\ q.bearer \in tokens \cup {Nobody}
  /\ IF q.route.name = "login" THEN q.bearer = Nobody /\ q.who # Nobody ELSE q.who = q.bearer
  /\ q.who # Nobody => q.who \in DOMAIN account /\ account[q.who] \in q.held
  /\ q.pc = "roles" => q.route.public \/ q.user \in q.held
  /\ q.pc \in {"class", "pipe"} /\ q.route.roles # {} => Entitled(q)
  /\ q.pc = "sign" => q.who # Nobody /\ q.user \in q.held
  /\ q.pc = "thrown" <=> (q.thrown # "none" /\ q.pc # "answered")
  /\ q.thrown = "Wordless" => q.route.name \in Rethrowing
  /\ q.pc = "answered" =>
       q.answer = IF q.thrown = "none" THEN InterceptorAnswer(q.route) ELSE FilterAnswer(q.thrown)

TablesOK ==
  /\ account \in [DOMAIN account -> Account]
  /\ DOMAIN Staff \subseteq DOMAIN account /\ DOMAIN account \subseteq People
  /\ tokens \subseteq DOMAIN account
  /\ changes \in 0 .. MaxChanges

PipelineInv ==
  /\ TablesOK
  /\ request \in [Clients -> Way \cup {None}]
  /\ \A t \in Clients : request[t] # None => WayOK(request[t])

\* What t may do by going on with q
AccessOf(t, q) ==
  /\ q.pc = "handle" /\ request[t].pc # "handle" /\ RouteOf(t).roles # {} =>
       \E was \in request[t].held : was.role \in RouteOf(t).roles
  /\ request[t].pc = "sign" /\ tokens' # tokens /\ q.pc = "returned" =>
       \E was \in request[t].held : was.role = "User" \/ was.active

Access == \A t \in Clients : AccessOf(t, request'[t])
-----------------------------------------------------------------------------
(* The routes and the answers *)

\* A public route asks for no role: RolesGuard finds no user there.
LEMMA PublicAsksNoRole == \A route \in Routes : route.public => route.roles = {}
<1>1. \A route \in AuthRoutes \cup UserRoutes \cup RoomRoutes \cup BookingRoutes :
        route.public => route.roles = {}
  BY DEF AuthRoutes, UserRoutes, RoomRoutes, BookingRoutes, R
<1>2. \A route \in PromotionRoutes \cup ServicesRoutes \cup CustomerRoutes \cup BillRoutes :
        route.public => route.roles = {}
  BY DEF PromotionRoutes, ServicesRoutes, CustomerRoutes, BillRoutes, R
<1> QED BY <1>1, <1>2 DEF Routes

\* Whatever is thrown is answered with its own status unless nobody foresaw it,
\* and as a failure unless it has neither code nor message.
LEMMA FailuresFail ==
  ASSUME NEW exception \in Exceptions
  PROVE  /\ FilterAnswer(exception) \in [http : Nat, success : BOOLEAN, statusCode : Nat]
         /\ FilterAnswer(exception).success <=> exception = "Wordless"
         /\ exception = "Wordless" => FilterAnswer(exception).http = 202
         /\ FilterAnswer(exception).statusCode = FilterAnswer(exception).http <=> exception # "Unknown"
<1> PICK status, success :
      status = StatusOf(exception)
        /\ success = Succeeds(PayloadOf(exception).errorCode, PayloadOf(exception).message)
  OBVIOUS
<1>1. /\ status \in Nat /\ (exception = "Unknown" <=> status = 500)
      /\ exception = "Wordless" => status = 202
  BY DEF StatusOf, Exceptions
<1>2. success = (exception = "Wordless")
  BY DEF Succeeds, PayloadOf, Exceptions
<1>3. FilterAnswer(exception) =
        [http |-> status, success |-> success,
         statusCode |-> IF exception = "Unknown" THEN 200 ELSE status]
  BY DEF FilterAnswer, Answer
<1>4. PICK code : code = IF exception = "Unknown" THEN 200 ELSE status
  OBVIOUS
<1>5. FilterAnswer(exception) = [http |-> status, success |-> success, statusCode |-> code]
  BY <1>3, <1>4, Zenon
<1>6. code \in Nat /\ (code = status <=> exception # "Unknown")
  BY <1>1, <1>4
<1>7. FilterAnswer(exception).http = status /\ FilterAnswer(exception).statusCode = code
  BY <1>5
<1>8. FilterAnswer(exception) \in [http : Nat, success : BOOLEAN, statusCode : Nat]
  BY <1>1, <1>2, <1>5, <1>6
<1>9. FilterAnswer(exception).success <=> exception = "Wordless"
  <2>1. FilterAnswer(exception).success = success
    BY <1>5
  <2> QED BY <1>2, <2>1, Zenon
<1>10. FilterAnswer(exception).statusCode = FilterAnswer(exception).http <=> exception # "Unknown"
  BY <1>6, <1>7, Zenon
<1>11. exception = "Wordless" => FilterAnswer(exception).http = 202
  BY <1>1, <1>7
<1> QED BY <1>8, <1>9, <1>10, <1>11, Zenon

\* What is returned is answered as a success.
LEMMA SuccessesSucceed ==
  \A route : /\ InterceptorAnswer(route) \in [http : Nat, success : BOOLEAN, statusCode : Nat]
             /\ InterceptorAnswer(route).success /\ InterceptorAnswer(route).statusCode = 200
BY DEF InterceptorAnswer, Answer

\* No request is none.
LEMMA WayIsSome == None \notin Way /\ None.pc = "idle"
BY DEF None, Way, Stages
-----------------------------------------------------------------------------
(* Steps *)

\* Users are not removed, nor are their tokens taken away.
Grows ==
  /\ tokens \subseteq tokens' /\ DOMAIN account \subseteq DOMAIN account'
  /\ \A u \in DOMAIN account : account'[u] = account[u]

\* What is true of a request stays true while users and tokens are added.
LEMMA GrowOK ==
  ASSUME Grows, NEW q, WayOK(q)
  PROVE  WayOK(q)'
BY DEF Grows, WayOK, Entitled

\* A step of one request leaves the others as they are.
LEMMA WayStep ==
  ASSUME PipelineInv, Grows, TablesOK',
         NEW t \in Clients, NEW q \in Way \cup {None}, Become(t, q),
         q # None => WayOK(q)', AccessOf(t, q)
  PROVE  PipelineInv' /\ Access
<1>1. request' = [request EXCEPT ![t] = q] /\ request \in [Clients -> Way \cup {None}]
  BY DEF Become, PipelineInv
<1>2. request' \in [Clients -> Way \cup {None}] /\ request'[t] = q
  BY <1>1
<1>3. ASSUME NEW s \in Clients, s # t
      PROVE  request'[s] = request[s]
  BY <1>1, <1>3
<1>4. ASSUME NEW s \in Clients, request'[s] # None
      PROVE  WayOK(request[s])'
  <2>1. CASE s = t
    BY <1>2, <1>4, <2>1 DEF WayOK, Entitled
  <2>2. CASE s # t
    <3> PICK p : p = request[s]
      OBVIOUS
    <3>1. WayOK(p) /\ p = request'[s]
      BY <1>3, <1>4, <2>2 DEF PipelineInv
    <3>2. WayOK(p)'
      BY <3>1, GrowOK
    <3> QED BY <3>1, <3>2 DEF WayOK, Entitled
  <2> QED BY <2>1, <2>2
<1>5. ASSUME NEW s \in Clients
      PROVE  AccessOf(s, request'[s])
  BY <1>2, <1>3 DEF AccessOf
<1> QED BY <1>2, <1>4, <1>5 DEF PipelineInv, Access

\* A request that reads tables and changes none.
LEMMA ReadStep ==
  ASSUME PipelineInv, UNCHANGED <<account, tokens, changes>>,
         NEW t \in Clients, NEW q \in Way \cup {None}, Become(t, q),
         q # None => WayOK(q), AccessOf(t, q)
  PROVE  PipelineInv' /\ Access
<1>1. Grows
  BY DEF Grows
<1>2. TablesOK'
  BY DEF PipelineInv, TablesOK
<1>3. q # None => WayOK(q)'
  BY <1>1, GrowOK
<1> QED BY <1>1, <1>2, <1>3, WayStep

\* A request at a stage is under way, and all of the above is true of it.
LEMMA Underway ==
  ASSUME PipelineInv, NEW t \in Clients, NEW pc \in Stages, At(t, pc)
  PROVE  /\ request[t] \in Way /\ request[t] # None /\ WayOK(request[t])
         /\ request[t].pc = pc
BY WayIsSome DEF PipelineInv, At, None, Stages

\* A request that goes on is as before but for its stage, its user, what was
\* thrown and what it is answered.
Carries(p, q) ==
  /\ q \in Way
  /\ q.route = p.route /\ q.bearer = p.bearer /\ q.who = p.who /\ q.held = p.held

\* Where nothing has been answered yet, what was true of the request still is
\* when what the stage asks for is.
LEMMA Onwards ==
  ASSUME NEW p, NEW q, WayOK(p), Carries(p, q), q.pc # "answered",
         q.pc = "thrown" <=> q.thrown # "none",
         q.thrown = "Wordless" => q.route.name \in Rethrowing,
         q.pc = "roles" => q.route.public \/ q.user \in q.held,
         q.pc = "sign" => q.who # Nobody /\ q.user \in q.held,
         q.pc \in {"class", "pipe"} /\ q.route.roles # {} => Entitled(q)
  PROVE  WayOK(q)
BY DEF WayOK, Carries

\* What is thrown, at whatever stage, lets nobody in.
LEMMA ThrowsStep ==
  ASSUME PipelineInv, UNCHANGED <<account, tokens, changes>>, NEW t \in Clients,
         NEW pc \in Stages \ {"thrown", "answered"}, At(t, pc),
         NEW exception \in Exceptions, Throws(t, exception),
         exception = "Wordless" => RouteOf(t).name \in Rethrowing
  PROVE  PipelineInv' /\ Access
<1> PICK p : p = request[t]
  OBVIOUS
<1> PICK q : q = [p EXCEPT !.pc = "thrown", !.thrown = exception]
  OBVIOUS
<1>1. p \in Way /\ WayOK(p) /\ Become(t, q)
  BY Underway DEF Throws
<1>2. Carries(p, q) /\ q.pc = "thrown" /\ q.thrown = exception
  BY <1>1 DEF Way, Stages, Carries
<1>3. q.thrown = "Wordless" => q.route.name \in Rethrowing
  BY <1>2 DEF Carries, RouteOf
<1>4. q.pc = "thrown" <=> q.thrown # "none"
  BY <1>2 DEF Exceptions
<1>5. WayOK(q)
  BY <1>1, <1>2, <1>3, <1>4, Onwards
<1>6. AccessOf(t, q)
  BY <1>2 DEF AccessOf
<1> QED BY <1>1, <1>2, <1>5, <1>6, ReadStep DEF Carries

\* JwtAuthGuard: the user of a token that is valid is the one of the table.
LEMMA AuthenticateStep ==
  ASSUME PipelineInv, NEW t \in Clients, Authenticate(t)
  PROVE  PipelineInv' /\ Access
<1> PICK p : p = request[t]
  OBVIOUS
<1>1. p \in Way /\ p # None /\ WayOK(p) /\ p.pc = "jwt" /\ p.thrown = "none"
  BY Underway DEF Authenticate, Stages, WayOK
<1>2. CASE RouteOf(t).public
  <2> PICK q : q = [p EXCEPT !.pc = "roles"]
    OBVIOUS
  <2>1. Become(t, q)
    BY <1>2 DEF Authenticate, Goes
  <2>2. Carries(p, q) /\ q.pc = "roles" /\ q.thrown = "none" /\ q.route.public
    BY <1>1, <1>2 DEF Way, Stages, Carries, RouteOf
  <2>3. WayOK(q) /\ AccessOf(t, q)
    BY <1>1, <2>2, Onwards DEF AccessOf
  <2> QED BY <2>1, <2>2, <2>3, ReadStep DEF Authenticate, Carries
<1>3. CASE ~RouteOf(t).public /\ p.bearer = Nobody
  BY <1>3, ThrowsStep DEF Authenticate, Stages, Exceptions
<1>4. CASE ~RouteOf(t).public /\ p.bearer # Nobody /\ Validated(t, "roles")
  <2>1. account[p.bearer] \in p.held /\ account[p.bearer] \in Account
    BY <1>1, <1>4 DEF WayOK, PipelineInv, TablesOK
  <2> PICK q : q = [p EXCEPT !.user = account[p.bearer], !.pc = "roles"]
    OBVIOUS
  <2>2. Become(t, q)
    BY <1>4 DEF Authenticate, Validated
  <2>3. Carries(p, q) /\ q.pc = "roles" /\ q.thrown = "none" /\ q.user \in q.held
    BY <1>1, <2>1 DEF Way, Stages, Carries
  <2>4. WayOK(q) /\ AccessOf(t, q)
    BY <1>1, <2>3, Onwards DEF AccessOf
  <2> QED BY <2>2, <2>3, <2>4, ReadStep DEF Authenticate, Carries
<1>5. CASE Throws(t, "Unknown")
  BY <1>5, ThrowsStep DEF Authenticate, Stages, Exceptions
<1> QED BY <1>2, <1>3, <1>4, <1>5 DEF Authenticate

\* RolesGuard: who goes on had, when the user was read, a role of the route.
LEMMA CheckRolesStep ==
  ASSUME PipelineInv, NEW t \in Clients, CheckRoles(t)
  PROVE  PipelineInv' /\ Access
<1> PICK p : p = request[t]
  OBVIOUS
<1>1. p \in Way /\ p # None /\ WayOK(p) /\ p.pc = "roles" /\ p.thrown = "none"
  BY Underway DEF CheckRoles, Stages, WayOK
<1>2. CASE May(p.user, p.route.roles)
  <2> PICK q : q = [p EXCEPT !.pc = "class"]
    OBVIOUS
  <2>1. Become(t, q)
    BY <1>2 DEF CheckRoles, Goes, RouteOf
  <2>2. Carries(p, q) /\ q.pc = "class" /\ q.thrown = "none"
    BY <1>1 DEF Way, Stages, Carries
  <2>3. p.route.roles # {} => p.user \in p.held /\ p.user.role \in p.route.roles
    BY <1>1, <1>2, PublicAsksNoRole DEF May, Way, WayOK
  <2>4. q.route.roles # {} => Entitled(q)
    BY <2>2, <2>3 DEF Entitled, Carries
  <2>5. WayOK(q) /\ AccessOf(t, q)
    BY <1>1, <2>2, <2>4, Onwards DEF AccessOf
  <2> QED BY <2>1, <2>2, <2>5, ReadStep DEF CheckRoles, Carries
<1>3. CASE ~May(p.user, p.route.roles)
  BY <1>3, ThrowsStep DEF CheckRoles, Stages, Exceptions, RouteOf
<1> QED BY <1>2, <1>3

\* The controller's guard: it may read the user again, and lets nobody in whom
\* RolesGuard did not.
LEMMA CheckClassStep ==
  ASSUME PipelineInv, NEW t \in Clients, CheckClass(t)
  PROVE  PipelineInv' /\ Access
<1> PICK p : p = request[t]
  OBVIOUS
<1>1. /\ p \in Way /\ p # None /\ WayOK(p) /\ p.pc = "class" /\ p.thrown = "none"
      /\ p.route.roles # {} => Entitled(p)
  BY Underway DEF CheckClass, Stages, WayOK
<1>2. CASE Throws(t, "Forbidden") \/ Throws(t, "Unknown")
  BY <1>2, ThrowsStep DEF CheckClass, Stages, Exceptions
<1>3. ASSUME NEW user \in Account \cup {Nobody}, Become(t, [p EXCEPT !.user = user, !.pc = "pipe"])
      PROVE  PipelineInv' /\ Access
  <2> PICK q : q = [p EXCEPT !.user = user, !.pc = "pipe"]
    OBVIOUS
  <2>1. Carries(p, q) /\ q.pc = "pipe" /\ q.thrown = "none" /\ Become(t, q)
    BY <1>1, <1>3 DEF Way, Stages, Carries
  <2>2. q.route.roles # {} => Entitled(q)
    BY <1>1, <2>1 DEF Entitled, Carries
  <2>3. WayOK(q) /\ AccessOf(t, q)
    BY <1>1, <2>1, <2>2, Onwards DEF AccessOf
  <2> QED BY <2>1, <2>3, ReadStep DEF CheckClass, Carries
<1>4. CASE Validated(t, "pipe") /\ p.bearer # Nobody
  <2>1. account[p.bearer] \in Account
    BY <1>1, <1>4 DEF WayOK, PipelineInv, TablesOK
  <2> QED BY <1>3, <1>4, <2>1 DEF Validated
<1>5. CASE Goes(t, "pipe")
  <2>1. p.user \in Account \cup {Nobody} /\ [p EXCEPT !.pc = "pipe"] = [p EXCEPT !.user = p.user, !.pc = "pipe"]
    BY <1>1 DEF Way
  <2> QED BY <1>3, <1>5, <2>1 DEF Goes
<1> QED BY <1>2, <1>4, <1>5 DEF CheckClass

\* ValidationPipe: what it lets through is at the handler.
LEMMA PipeStep ==
  ASSUME PipelineInv, NEW t \in Clients, Pipe(t)
  PROVE  PipelineInv' /\ Access
<1> PICK p : p = request[t]
  OBVIOUS
<1>1. /\ p \in Way /\ p # None /\ WayOK(p) /\ p.pc = "pipe" /\ p.thrown = "none"
      /\ p.route.roles # {} => Entitled(p)
  BY Underway DEF Pipe, Stages, WayOK
<1>2. CASE Goes(t, "handle")
  <2> PICK q : q = [p EXCEPT !.pc = "handle"]
    OBVIOUS
  <2>1. Carries(p, q) /\ q.pc = "handle" /\ q.thrown = "none" /\ Become(t, q)
    BY <1>1, <1>2 DEF Way, Stages, Carries, Goes
  <2>2. AccessOf(t, q)
    BY <1>1, <2>1 DEF AccessOf, Entitled, RouteOf
  <2>3. WayOK(q)
    BY <1>1, <2>1, Onwards
  <2> QED BY <2>1, <2>2, <2>3, ReadStep DEF Pipe, Carries
<1>3. CASE Throws(t, "Validation")
  BY <1>3, ThrowsStep DEF Pipe, Stages, Exceptions
<1> QED BY <1>2, <1>3 DEF Pipe

\* login reads the user it is about.
LEMMA FindUserStep ==
  ASSUME PipelineInv, NEW t \in Clients, FindUser(t)
  PROVE  PipelineInv' /\ Access
<1> PICK p : p = request[t]
  OBVIOUS
<1>1. /\ p \in Way /\ p # None /\ WayOK(p) /\ p.pc = "handle" /\ p.thrown = "none"
      /\ p.route.name = "login"
  BY Underway DEF FindUser, Stages, WayOK, RouteOf
<1>2. CASE Become(t, [p EXCEPT !.user = account[p.who], !.pc = "sign"])
  <2> PICK q : q = [p EXCEPT !.user = account[p.who], !.pc = "sign"]
    OBVIOUS
  <2>1. account[p.who] \in p.held /\ account[p.who] \in Account
    BY <1>1 DEF WayOK, PipelineInv, TablesOK
  <2>2. Carries(p, q) /\ q.pc = "sign" /\ q.thrown = "none" /\ q.who # Nobody /\ q.user \in q.held
    BY <1>1, <2>1 DEF Way, Stages, Carries, WayOK
  <2>3. WayOK(q) /\ AccessOf(t, q)
    BY <1>1, <2>2, Onwards DEF AccessOf
  <2> QED BY <1>2, <2>2, <2>3, ReadStep DEF FindUser, Carries
<1>3. CASE Throws(t, "Unknown")
  BY <1>3, ThrowsStep DEF FindUser, Stages, Exceptions
<1> QED BY <1>2, <1>3 DEF FindUser

\* login gives a token to a user who was, when it was read, no staff or not
\* locked.
LEMMA LoginStep ==
  ASSUME PipelineInv, NEW t \in Clients, Login(t)
  PROVE  PipelineInv' /\ Access
<1> PICK p : p = request[t]
  OBVIOUS
<1>1. /\ p \in Way /\ p # None /\ WayOK(p) /\ p.pc = "sign" /\ p.thrown = "none"
      /\ p.who # Nobody /\ p.user \in p.held
  BY Underway DEF Login, Stages, WayOK
<1>2. CASE MayLogin(p.user) /\ Goes(t, "returned") /\ tokens' = tokens \cup {p.who}
  <2> PICK q : q = [p EXCEPT !.pc = "returned"]
    OBVIOUS
  <2>1. Grows /\ TablesOK'
    BY <1>1, <1>2 DEF Login, PipelineInv, TablesOK, WayOK, Grows
  <2>2. Carries(p, q) /\ q.pc = "returned" /\ q.thrown = "none" /\ Become(t, q)
    BY <1>1, <1>2 DEF Way, Stages, Carries, Goes
  <2>3. WayOK(q)'
    BY <1>1, <2>1, <2>2, Onwards, GrowOK
  <2>4. AccessOf(t, q)
    BY <1>1, <1>2, <2>2 DEF AccessOf, MayLogin
  <2> QED BY <2>1, <2>2, <2>3, <2>4, WayStep DEF Carries
<1>3. CASE Throws(t, "BadExcetion") /\ UNCHANGED tokens
  BY <1>3, ThrowsStep DEF Login, Stages, Exceptions
<1> QED BY <1>2, <1>3 DEF Login

\* The handler of any other route; register adds a user and a token.
LEMMA HandleStep ==
  ASSUME PipelineInv, NEW t \in Clients, Handle(t)
  PROVE  PipelineInv' /\ Access
<1> PICK p : p = request[t]
  OBVIOUS
<1>1. p \in Way /\ p # None /\ WayOK(p) /\ p.pc = "handle" /\ p.thrown = "none"
  BY Underway DEF Handle, Stages, WayOK
<1>2. CASE Goes(t, "returned") /\ ~UNCHANGED <<account, tokens>>
  <2>1. PICK u \in People \ DOMAIN account :
          /\ account' = [v \in DOMAIN account \cup {u} |->
                           IF v = u THEN [role |-> "User", active |-> TRUE] ELSE account[v]]
          /\ tokens' = tokens \cup {u}
    BY <1>2, <1>1 DEF Handle, Goes, Throws, RouteOf
  <2>2. [role |-> "User", active |-> TRUE] \in Account
    BY DEF Account, Roles
  <2>3. Grows
    BY <2>1 DEF Grows
  <2>4. TablesOK'
    BY <2>1, <2>2 DEF Handle, PipelineInv, TablesOK
  <2> PICK q : q = [p EXCEPT !.pc = "returned"]
    OBVIOUS
  <2>5. Carries(p, q) /\ q.pc = "returned" /\ q.thrown = "none" /\ Become(t, q)
    BY <1>1, <1>2 DEF Way, Stages, Carries, Goes
  <2>6. WayOK(q)' /\ AccessOf(t, q)
    BY <1>1, <2>3, <2>5, Onwards, GrowOK DEF AccessOf
  <2> QED BY <2>3, <2>4, <2>5, <2>6, WayStep DEF Carries
<1>3. CASE Goes(t, "returned") /\ UNCHANGED <<account, tokens>>
  <2> PICK q : q = [p EXCEPT !.pc = "returned"]
    OBVIOUS
  <2>1. Carries(p, q) /\ q.pc = "returned" /\ q.thrown = "none" /\ Become(t, q)
    BY <1>1, <1>3 DEF Way, Stages, Carries, Goes
  <2>2. WayOK(q) /\ AccessOf(t, q)
    BY <1>1, <2>1, Onwards DEF AccessOf
  <2> QED BY <1>3, <2>1, <2>2, ReadStep DEF Handle, Carries
<1>4. ASSUME NEW exception \in Exceptions, Throws(t, exception), UNCHANGED <<account, tokens>>,
             exception = "Wordless" => RouteOf(t).name \in Rethrowing
      PROVE  PipelineInv' /\ Access
  BY <1>4, ThrowsStep DEF Handle, Stages
<1> QED BY <1>2, <1>3, <1>4 DEF Handle, Exceptions

\* The answer is the interceptor's or the filter's.
LEMMA RespondStep ==
  ASSUME PipelineInv, NEW t \in Clients, Respond(t)
  PROVE  PipelineInv' /\ Access
<1> PICK p : p = request[t]
  OBVIOUS
<1> PICK answer :
      /\ answer = IF p.pc = "thrown" THEN FilterAnswer(p.thrown) ELSE InterceptorAnswer(p.route)
  OBVIOUS
<1> PICK q : q = [p EXCEPT !.pc = "answered", !.answer = answer]
  OBVIOUS
<1>1. p \in Way /\ p # None /\ WayOK(p) /\ p.pc \in {"returned", "thrown"}
  BY Underway DEF Respond, Stages
<1>2. p.pc = "thrown" <=> p.thrown # "none"
  BY <1>1 DEF WayOK
<1>3. Become(t, q)
  BY DEF Respond, AnsweredBy, At, RouteOf
<1>4. answer \in [http : Nat, success : BOOLEAN, statusCode : Nat]
  BY <1>1, <1>2, FailuresFail, SuccessesSucceed DEF Way
<1>5. Carries(p, q) /\ q.pc = "answered" /\ q.thrown = p.thrown /\ q.answer = answer
  BY <1>1, <1>4 DEF Way, Stages, Carries
<1>6. WayOK(q)
  BY <1>1, <1>2, <1>5 DEF WayOK, Carries
<1>7. AccessOf(t, q)
  BY <1>5 DEF AccessOf
<1> QED BY <1>3, <1>5, <1>6, <1>7, ReadStep DEF Respond, Carries

\* Who has the answer leaves.
LEMMA LeaveStep ==
  ASSUME PipelineInv, NEW t \in Clients, Leave(t)
  PROVE  PipelineInv' /\ Access
<1>1. AccessOf(t, None)
  BY WayIsSome DEF AccessOf
<1> QED BY <1>1, ReadStep DEF Leave

\* An account that is changed: what its user is now is added to what it has
\* been for every request that is about it.
LEMMA ChangeAccountStep ==
  ASSUME PipelineInv, NEW u \in DOMAIN account, NEW new \in Account, ChangeAccount(u, new)
  PROVE  PipelineInv' /\ Access
<1>1. TablesOK' /\ DOMAIN account' = DOMAIN account /\ UNCHANGED tokens
  BY PipelineAssumption DEF ChangeAccount, PipelineInv, TablesOK
<1>2. \A v \in DOMAIN account : account'[v] = IF v = u THEN new ELSE account[v]
  BY DEF ChangeAccount, PipelineInv, TablesOK
<1>3. ASSUME NEW t \in Clients, request[t] # None
      PROVE  /\ request'[t] \in Way /\ WayOK(request[t])'
             /\ request'[t].pc = request[t].pc /\ request'[t] # None
  <2> PICK p, held : p = request[t] /\ held = IF p.who = u THEN p.held \cup {new} ELSE p.held
    OBVIOUS
  <2> PICK q : q = [p EXCEPT !.held = held]
    OBVIOUS
  <2>1. p \in Way /\ WayOK(p)
    BY <1>3 DEF PipelineInv
  <2>2. held \in SUBSET Account /\ p.held \subseteq held /\ (p.who = u => new \in held)
    BY <2>1 DEF Way
  <2>3. /\ q \in Way /\ q.held = held
        /\ q.route = p.route /\ q.bearer = p.bearer /\ q.who = p.who /\ q.pc = p.pc
        /\ q.user = p.user /\ q.thrown = p.thrown /\ q.answer = p.answer
    BY <2>1, <2>2 DEF Way
  <2>4. request'[t] = q
    <3>1. request'[t] = IF p.who = u THEN [p EXCEPT !.held = p.held \cup {new}] ELSE p
      BY <1>3 DEF ChangeAccount
    <3>2. p.who # u => q = p
      BY <2>1 DEF Way
    <3> QED BY <3>1, <3>2
  <2>5. q.who # Nobody => q.who \in DOMAIN account' /\ account'[q.who] \in q.held
    BY <1>1, <1>2, <2>1, <2>2, <2>3 DEF WayOK
  <2>6. WayOK(q)'
    BY <1>1, <2>1, <2>2, <2>3, <2>5 DEF WayOK, Entitled
  <2>7. WayOK(request[t])'
    BY <2>4, <2>6 DEF WayOK, Entitled
  <2> QED BY <2>3, <2>4, <2>7, WayIsSome
<1>4. ASSUME NEW t \in Clients, request[t] = None
      PROVE  request'[t] = None
  BY <1>4 DEF ChangeAccount
<1>5. request' \in [Clients -> Way \cup {None}]
  BY <1>3, <1>4 DEF ChangeAccount
<1>6. ASSUME NEW t \in Clients
      PROVE  AccessOf(t, request'[t])
  BY <1>1, <1>3, <1>4, WayIsSome DEF AccessOf
<1>7. \A t \in Clients : (request[t] # None => WayOK(request[t]))'
  BY <1>3, <1>4
<1> QED BY <1>1, <1>5, <1>6, <1>7 DEF PipelineInv, Access

\* A request comes: its user has been what the table says it is.
LEMMA ArriveStep ==
  ASSUME PipelineInv, NEW t \in Clients, Arrive(t)
  PROVE  PipelineInv' /\ Access
<1>1. PICK route, bearer, who, about, held :
        /\ route \in Routes /\ bearer \in tokens \cup {Nobody} /\ who \in DOMAIN account
        /\ route.name = "login" => bearer = Nobody
        /\ about = IF route.name = "login" THEN who ELSE bearer
        /\ held = IF about = Nobody THEN {} ELSE {account[about]}
        /\ Become(t, [pc |-> "jwt", route |-> route, bearer |-> bearer, who |-> about,
                      user |-> Nobody, thrown |-> "none", answer |-> Answer(0, FALSE, 0),
                      held |-> held])
  BY DEF Arrive
<1> PICK q : q = [pc |-> "jwt", route |-> route, bearer |-> bearer, who |-> about,
                  user |-> Nobody, thrown |-> "none", answer |-> Answer(0, FALSE, 0),
                  held |-> held]
  OBVIOUS
<1>2. /\ bearer \in People \cup {Nobody} /\ about \in People \cup {Nobody} /\ held \in SUBSET Account
      /\ about # Nobody => about \in DOMAIN account /\ account[about] \in held
      /\ who # Nobody
  BY <1>1, PipelineAssumption DEF PipelineInv, TablesOK
<1>3. q \in Way
  BY <1>1, <1>2 DEF Way, Stages, Answer
<1>4. WayOK(q)
  BY <1>1, <1>2 DEF WayOK
<1>5. AccessOf(t, q)
  BY <1>1 DEF Arrive, AccessOf, None
<1> QED BY <1>1, <1>3, <1>4, <1>5, ReadStep DEF Arrive
-----------------------------------------------------------------------------
(* The theorems *)

\* It starts so.
LEMMA PipelineStarts == PipelineInit => PipelineInv
<1> SUFFICES ASSUME PipelineInit PROVE PipelineInv
  OBVIOUS
<1>1. TablesOK
  BY PipelineAssumption DEF PipelineInit, TablesOK, Account
<1> QED BY <1>1 DEF PipelineInit, PipelineInv

\* It stays so, and nobody is let in otherwise.
LEMMA PipelineStep == PipelineInv /\ [PipelineNext]_pipeline_vars => PipelineInv' /\ Access
<1> SUFFICES ASSUME PipelineInv, [PipelineNext]_pipeline_vars PROVE PipelineInv' /\ Access
  OBVIOUS
<1>1. ASSUME NEW t \in Clients, Arrive(t) \/ Step(t) \/ Leave(t)
      PROVE  PipelineInv' /\ Access
  BY <1>1, ArriveStep, AuthenticateStep, CheckRolesStep, CheckClassStep, PipeStep, HandleStep,
     FindUserStep, LoginStep, RespondStep, LeaveStep DEF Step
<1>2. ASSUME NEW u \in DOMAIN account, NEW role \in StaffRoles,
             ChangeAccount(u, [account[u] EXCEPT !.role = role])
      PROVE  PipelineInv' /\ Access
  <2>1. [account[u] EXCEPT !.role = role] \in Account
    BY PipelineAssumption DEF PipelineInv, TablesOK, Account
  <2> QED BY <1>2, <2>1, ChangeAccountStep
<1>3. ASSUME NEW u \in DOMAIN account, NEW active \in BOOLEAN,
             ChangeAccount(u, [account[u] EXCEPT !.active = active])
      PROVE  PipelineInv' /\ Access
  <2>1. [account[u] EXCEPT !.active = active] \in Account
    BY DEF PipelineInv, TablesOK, Account
  <2> QED BY <1>3, <2>1, ChangeAccountStep
<1>4. CASE UNCHANGED pipeline_vars
  <2>1. TablesOK' /\ UNCHANGED <<account, tokens, request>>
    BY <1>4 DEF pipeline_vars, PipelineInv, TablesOK
  <2>2. \A t \in Clients : (request[t] # None => WayOK(request[t]))'
    BY <2>1 DEF PipelineInv, WayOK, Entitled
  <2>3. Access
    BY <2>1 DEF Access, AccessOf
  <2> QED BY <2>1, <2>2, <2>3 DEF PipelineInv
<1> QED BY <1>1, <1>2, <1>3, <1>4 DEF PipelineNext

\* All of it is always true.
LEMMA PipelineHolds == PipelineSpec => []PipelineInv
BY PipelineStarts, PipelineStep, PTL DEF PipelineSpec

\* What an answer says of the request, whatever the users, the requests and the
\* order of their steps: success together with statusCode 200 exactly when the
\* handler came to its end; success without it only for an error that create,
\* cmsCreate or addRoom passes on without a message; and the status of a
\* failure unless nobody foresaw it (BaseException, HttpExceptionFilter,
\* ResponseTransformInterceptor).
THEOREM AnswersAreTruthful == PipelineSpec => []AnswersTruthful
<1>1. PipelineInv => AnswersTruthful
  <2> SUFFICES ASSUME PipelineInv, NEW t \in Clients, request[t].pc = "answered"
               PROVE  /\ request[t].thrown = "none" <=>
                           request[t].answer.success /\ request[t].answer.statusCode = 200
                      /\ request[t].answer.success /\ request[t].thrown # "none" =>
                           /\ request[t].thrown = "Wordless" /\ RouteOf(t).name \in Rethrowing
                           /\ request[t].answer.statusCode = 202 /\ request[t].answer.http = 202
                      /\ ~request[t].answer.success =>
                           (request[t].answer.statusCode = request[t].answer.http
                              <=> request[t].thrown # "Unknown")
    BY DEF AnswersTruthful
  <2>1. request[t] \in Way /\ WayOK(request[t])
    BY Underway DEF At, Stages
  <2>2. CASE request[t].thrown = "none"
    BY <2>1, <2>2, SuccessesSucceed DEF WayOK
  <2>3. CASE request[t].thrown # "none"
    <3>1. request[t].thrown \in Exceptions /\ request[t].answer = FilterAnswer(request[t].thrown)
      BY <2>1, <2>3 DEF WayOK, Way
    <3>2. request[t].thrown = "Wordless" => RouteOf(t).name \in Rethrowing
      BY <2>1 DEF WayOK, RouteOf
    <3> QED BY <2>3, <3>1, <3>2, FailuresFail
  <2> QED BY <2>2, <2>3
<1> QED BY <1>1, PipelineHolds, PTL

\* Nobody comes to the handler of a route for some roles, and no staff to a
\* token, without having had what it takes since the request came - however
\* accounts are changed between the guards (RolesGuard, AuthService.login).
THEOREM AccessIsAsHeld == PipelineSpec => AccessAsHeld
<1>1. PipelineInv /\ [PipelineNext]_pipeline_vars =>
        [\A t \in Clients :
           /\ request'[t].pc = "handle" /\ request[t].pc # "handle" /\ RouteOf(t).roles # {} =>
                \E was \in request[t].held : was.role \in RouteOf(t).roles
           /\ request[t].pc = "sign" /\ tokens' # tokens /\ request'[t].pc = "returned" =>
                \E was \in request[t].held : was.role = "User" \/ was.active]_pipeline_vars
  BY PipelineStep DEF Access, AccessOf
<1> QED BY <1>1, PipelineHolds, PTL DEF PipelineSpec, AccessAsHeld

-----------------------------------------------------------------------------
(* Lists *)

\* The rows of ids have keys, and keys of their own
Keyed(list, ids, table) ==
  /\ \A i \in ids : Key(list, i, table) \in Nat
  /\ \A i, j \in ids : Key(list, i, table) = Key(list, j, table) => i = j

\* The number of rows before i
Rank(list, query, ids, table, i) == Cardinality(Ahead(list, query, ids, table, i))

\* Rows of a table have keys of their own: ids differ, and no two rows were
\* written at one time.
LEMMA TablesAreKeyed ==
  ASSUME NEW list \in Lists, NEW table, NEW time \in Nat, TableOK(table, time),
         NEW ids \in SUBSET DOMAIN table
  PROVE  Keyed(list, ids, table) /\ IsFiniteSet(ids)
<1>1. IsFiniteSet(ids)
  BY ListingAssumption, FS_Subset DEF TableOK
<1>2. ASSUME NEW i \in ids
      PROVE  i \in Nat /\ table[i].updatedAt \in Nat
  BY ListingAssumption DEF TableOK, ListRow
<1> QED BY <1>1, <1>2 DEF Keyed, Key, TableOK

\* The rows before a row are some of the rows, without itself; of two rows
\* one is before the other, with all that are before it.
LEMMA AheadOrders ==
  ASSUME NEW list, NEW query, NEW table, NEW ids, Keyed(list, ids, table)
  PROVE  /\ \A i \in ids : Ahead(list, query, ids, table, i) \in SUBSET (ids \ {i})
         /\ \A i, j \in ids :
              i \in Ahead(list, query, ids, table, j) =>
                Ahead(list, query, ids, table, i) \subseteq Ahead(list, query, ids, table, j)
         /\ \A i, j \in ids :
              \/ i = j \/ i \in Ahead(list, query, ids, table, j)
              \/ j \in Ahead(list, query, ids, table, i)
<1> PICK up \in BOOLEAN : up <=> Direction(list, query) = "ASC"
  OBVIOUS
<1>1. \A i : Ahead(list, query, ids, table, i) =
               IF up THEN {j \in ids : Key(list, j, table) < Key(list, i, table)}
                     ELSE {j \in ids : Key(list, j, table) > Key(list, i, table)}
  BY DEF Ahead
<1>2. \A i, j \in ids : i \in Ahead(list, query, ids, table, j) <=>
        IF up THEN Key(list, i, table) < Key(list, j, table)
              ELSE Key(list, i, table) > Key(list, j, table)
  BY <1>1
<1>3. \A i : Ahead(list, query, ids, table, i) \subseteq ids
  BY <1>1
<1>4. ASSUME NEW i \in ids PROVE i \notin Ahead(list, query, ids, table, i)
  BY <1>2 DEF Keyed
<1>5. ASSUME NEW i \in ids, NEW j \in ids, NEW k \in ids,
             i \in Ahead(list, query, ids, table, j), k \in Ahead(list, query, ids, table, i)
      PROVE  k \in Ahead(list, query, ids, table, j)
  BY <1>2, <1>5 DEF Keyed
<1>6. ASSUME NEW i \in ids, NEW j \in ids
      PROVE  \/ i = j \/ i \in Ahead(list, query, ids, table, j)
             \/ j \in Ahead(list, query, ids, table, i)
  BY <1>2 DEF Keyed
<1> QED BY <1>3, <1>4, <1>5, <1>6

\* The rows have the places 0, 1, ..., each one of its own
Ranked(list, query, ids, table) ==
  /\ \A i \in ids : Rank(list, query, ids, table, i) \in 0 .. Cardinality(ids) - 1
  /\ \A i, j \in ids :
       Rank(list, query, ids, table, i) = Rank(list, query, ids, table, j) => i = j
  /\ \A n \in 0 .. Cardinality(ids) - 1 :
       \E i \in ids : Rank(list, query, ids, table, i) = n

\* They do, since the orders are strict and no two rows have one key.
LEMMA RanksCount ==
  ASSUME NEW list, NEW query, NEW table, NEW ids, IsFiniteSet(ids), Keyed(list, ids, table)
  PROVE  Ranked(list, query, ids, table)
<1> PICK n \in Nat : n = Cardinality(ids)
  BY FS_CardinalityType
<1> PICK ahead : ahead = [i \in ids |-> Ahead(list, query, ids, table, i)]
  OBVIOUS
<1> PICK rank : rank = [i \in ids |-> Cardinality(ahead[i])]
  OBVIOUS
<1>1. /\ \A i \in ids : ahead[i] \subseteq ids \ {i}
      /\ \A i, j \in ids : i \in ahead[j] => ahead[i] \subseteq ahead[j]
      /\ \A i, j \in ids : i = j \/ i \in ahead[j] \/ j \in ahead[i]
  BY AheadOrders
<1>2. ASSUME NEW i \in ids
      PROVE  IsFiniteSet(ahead[i]) /\ rank[i] \in 0 .. n - 1
  <2>1. IsFiniteSet(ids \ {i}) /\ Cardinality(ids \ {i}) = n - 1
    BY FS_RemoveElement
  <2>2. IsFiniteSet(ahead[i]) /\ Cardinality(ahead[i]) <= n - 1
    BY <1>1, <2>1, FS_Subset
  <2> QED BY <2>2, FS_CardinalityType
<1>3. ASSUME NEW i \in ids, NEW j \in ids, i \in ahead[j]
      PROVE  rank[i] < rank[j]
  <2>1. ahead[i] \subseteq ahead[j] /\ ahead[i] # ahead[j]
    BY <1>1, <1>3
  <2>2. Cardinality(ahead[i]) <= Cardinality(ahead[j]) /\ Cardinality(ahead[i]) # Cardinality(ahead[j])
    BY <1>2, <2>1, FS_Subset
  <2> QED BY <1>2, <2>2
<1>4. \A i, j \in ids : rank[i] = rank[j] => i = j
  BY <1>1, <1>2, <1>3
<1>5. rank \in Surjection(ids, 0 .. n - 1)
  <2>1. rank \in Injection(ids, 0 .. n - 1)
    BY <1>2, <1>4 DEF Injection, IsInjective
  <2>2. IsFiniteSet(0 .. n - 1) /\ Cardinality(0 .. n - 1) = n
    <3> PICK a, b : a = 0 /\ b = n - 1
      OBVIOUS
    <3>1. a \in Int /\ b \in Int
      OBVIOUS
    <3>2. IsFiniteSet(a .. b) /\ Cardinality(a .. b) = IF a > b THEN 0 ELSE b - a + 1
      BY <3>1, FS_Interval, Zenon
    <3> QED BY <3>2
  <2> QED BY <2>1, <2>2, FS_Injection
<1>6. \A m \in 0 .. n - 1 : \E i \in ids : rank[i] = m
  BY <1>5 DEF Surjection
<1>7. \A i \in ids : rank[i] = Rank(list, query, ids, table, i)
  BY DEF Rank
<1> QED BY <1>2, <1>4, <1>6, <1>7 DEF Ranked

\* At every place stands the row that has as many before it
Orders(sorted, list, query, ids, table) ==
  /\ sorted \in Seq(ids) /\ Len(sorted) = Cardinality(ids)
  /\ \A n \in 1 .. Cardinality(ids) : Rank(list, query, ids, table, sorted[n]) = n - 1
  /\ \A i \in ids : sorted[Rank(list, query, ids, table, i) + 1] = i

\* So the rows are sorted.
LEMMA SortedLists ==
  ASSUME NEW list, NEW query, NEW table, NEW ids, IsFiniteSet(ids), Keyed(list, ids, table),
         NEW sorted, sorted = Sorted(list, query, ids, table)
  PROVE  Orders(sorted, list, query, ids, table)
<1> PICK rank : rank = [i \in ids |-> Rank(list, query, ids, table, i)]
  OBVIOUS
<1> PICK count \in Nat : count = Cardinality(ids)
  BY FS_CardinalityType
<1>1. /\ \A i \in ids : rank[i] \in 0 .. count - 1
      /\ \A i, j \in ids : rank[i] = rank[j] => i = j
      /\ \A n \in 0 .. count - 1 : \E i \in ids : rank[i] = n
  BY RanksCount DEF Ranked
<1>2. sorted = [n \in 1 .. count |-> CHOOSE i \in ids : Rank(list, query, ids, table, i) = n - 1]
  BY DEF Sorted, Rank
<1>3. ASSUME NEW n \in 1 .. count
      PROVE  sorted[n] \in ids /\ rank[sorted[n]] = n - 1
  <2>1. \E i \in ids : Rank(list, query, ids, table, i) = n - 1
    BY <1>1
  <2> QED BY <1>2, <2>1
<1>4. sorted \in [1 .. count -> ids]
  BY <1>2, <1>3
<1>5. sorted \in Seq(ids) /\ Len(sorted) = count
  BY <1>4
<1>6. \A n \in 1 .. count : Rank(list, query, ids, table, sorted[n]) = n - 1
  BY <1>3
<1>7. \A i \in ids : sorted[Rank(list, query, ids, table, i) + 1] = i
  <2> SUFFICES ASSUME NEW i \in ids PROVE sorted[rank[i] + 1] = i
    OBVIOUS
  <2>1. rank[i] + 1 \in 1 .. count /\ rank[i] + 1 - 1 = rank[i]
    BY <1>1
  <2> QED BY <1>1, <1>3, <2>1
<1> QED BY <1>5, <1>6, <1>7 DEF Orders
-----------------------------------------------------------------------------
(* Pages *)

\* Null, which a parameter is when it is left out, is compared with nothing: a
\* limit is positive whatever was asked for.
LEMMA LimitIsPositive == \A query \in Queries : Limit(query) \in Nat \ {0}
BY ListingAssumption DEF Limit, QueryOK, PositiveOrDefault, Lower

\* Nor does a client begin before the first page.
LEMMA FirstPageIsPositive == \A query \in Queries : FirstPage(query) \in Nat \ {0}
BY ListingAssumption DEF FirstPage, QueryOK, PositiveOrDefault

\* A page has the rows of the places that are its own, each once
Fills(items, list, query, ids, table, page) ==
  /\ items \in Seq(ids) /\ Len(items) <= Limit(query)
  /\ \A m, n \in DOMAIN items : items[m] = items[n] => m = n
  /\ \A i \in ids :
       i \in Range(items) <=>
         /\ (page - 1) * Limit(query) <= Rank(list, query, ids, table, i)
         /\ Rank(list, query, ids, table, i) < page * Limit(query)

\* take and skip, whether or not the page is one of the list, give it these.
LEMMA PageLists ==
  ASSUME NEW list, NEW query \in Queries, NEW table, NEW ids, ids = Listed(list, query, table),
         IsFiniteSet(ids), Keyed(list, ids, table), NEW page \in Nat \ {0},
         NEW items, items = Page(list, query, page, table)
  PROVE  Fills(items, list, query, ids, table, page)
<1> PICK all : all = Sorted(list, query, ids, table)
  OBVIOUS
<1> PICK rank : rank = [i \in ids |-> Rank(list, query, ids, table, i)]
  OBVIOUS
<1> PICK limit \in Nat \ {0} : limit = Limit(query)
  BY LimitIsPositive
<1>0. PICK from \in Nat, to \in Nat : from = (page - 1) * limit /\ to = page * limit
  <2>1. \A k, l \in Nat : k * l \in Nat
    OBVIOUS
  <2> QED BY <2>1
<1>1. to = from + limit
  <2>1. \A k \in Nat \ {0}, l \in Nat : k * l = (k - 1) * l + l
    OBVIOUS
  <2> QED BY <1>0, <2>1
<1> PICK count \in Nat : count = Cardinality(ids)
  BY FS_CardinalityType
<1>2. /\ all \in Seq(ids) /\ Len(all) = count
      /\ \A n \in 1 .. count : rank[all[n]] = n - 1
      /\ \A i \in ids : all[rank[i] + 1] = i
  <2>1. /\ all \in Seq(ids) /\ Len(all) = count
        /\ \A n \in 1 .. count : Rank(list, query, ids, table, all[n]) = n - 1
        /\ \A i \in ids : all[Rank(list, query, ids, table, i) + 1] = i
    BY SortedLists DEF Orders
  <2> QED BY <2>1
<1>3. \A i \in ids : rank[i] \in 0 .. count - 1
  BY RanksCount DEF Ranked
<1>4. PICK last \in Nat : last = Lower(to, count) /\ last <= count /\ last <= to
                          /\ (last = count \/ last = to)
  BY DEF Lower
<1>5. items = SubSeq(all, from + 1, last)
  BY <1>0, <1>2, <1>4 DEF Page
<1>6. /\ items \in Seq(ids) /\ Len(items) = IF from + 1 <= last THEN last - from ELSE 0
      /\ \A n \in 1 .. last - from : items[n] = all[n + from]
  BY <1>2, <1>4, <1>5
<1>7. Len(items) <= limit
  BY <1>1, <1>4, <1>6
<1>8. DOMAIN items = 1 .. last - from
  BY <1>6
<1>9. ASSUME NEW n \in DOMAIN items
      PROVE  items[n] \in ids /\ rank[items[n]] = n + from - 1 /\ n \in 1 .. last - from
  <2> PICK m \in Nat : m = n + from
    BY <1>8
  <2>1. n \in 1 .. last - from /\ m \in 1 .. count /\ items[n] = all[m]
    BY <1>4, <1>6, <1>8
  <2>2. all[m] \in ids
    BY <1>2, <2>1
  <2>3. rank[all[m]] = m - 1
    BY <1>2, <2>1
  <2> QED BY <2>1, <2>2, <2>3
<1>10. \A m, n \in DOMAIN items : items[m] = items[n] => m = n
  <2> SUFFICES ASSUME NEW m \in DOMAIN items, NEW n \in DOMAIN items, items[m] = items[n]
               PROVE  m = n
    OBVIOUS
  <2>1. rank[items[m]] = m + from - 1 /\ m \in Int /\ rank[items[n]] = n + from - 1 /\ n \in Int
    BY <1>9
  <2> QED BY <2>1
<1>11. ASSUME NEW i \in ids, i \in Range(items)
       PROVE  from <= rank[i] /\ rank[i] < to
  <2>1. PICK n \in DOMAIN items : items[n] = i
    BY <1>11 DEF Range
  <2>2. rank[i] = n + from - 1 /\ n \in 1 .. last - from
    BY <1>9, <2>1
  <2> QED BY <1>4, <2>2
<1>12. ASSUME NEW i \in ids, from <= rank[i], rank[i] < to
       PROVE  i \in Range(items)
  <2> PICK n \in Int : n = rank[i] + 1 - from
    BY <1>3
  <2>1. n \in 1 .. last - from /\ n + from = rank[i] + 1
    BY <1>3, <1>4, <1>12
  <2>2. items[n] = i
    BY <1>2, <1>6, <2>1
  <2> QED BY <1>8, <2>1, <2>2 DEF Range
<1>13. \A i \in ids : i \in Range(items) <=>
         /\ (page - 1) * Limit(query) <= Rank(list, query, ids, table, i)
         /\ Rank(list, query, ids, table, i) < page * Limit(query)
  BY <1>0, <1>11, <1>12
<1> QED BY <1>6, <1>7, <1>10, <1>13 DEF Fills
-----------------------------------------------------------------------------
(* The invariant *)

\* The list by now, the place of a row in it, and the places of the pages that
\* were read
InList == Listed(reader.list, reader.query, row)
Place(i) == Rank(reader.list, reader.query, InList, row, i)
Reached == (IF reader.pc = "ask" THEN reader.page - 1 ELSE reader.page) * Limit(reader.query)
Got == Range(seen) \cup Range(reader.items)

\* A row that is not changed only moves down the list, or only up
MovesDown ==
  /\ ~left /\ FirstPage(reader.query) = 1
  /\ Order \in {<<"id", "ASC">>, <<"id", "DESC">>, <<"updatedAt", "DESC">>}
MovesUp == Order = <<"updatedAt", "ASC">> \/ (Order = <<"id", "ASC">> /\ ~joined)

\* Whoever has read as far as Reached has the rows that are above it by now
AboveIsGot == MovesDown => \A i \in InList \ touched : Place(i) < Reached => i \in Got
\* What it has is above by now, and it has it once
GotIsAbove ==
  MovesUp =>
    /\ \A i \in Got \ touched : i \in InList /\ Place(i) < Reached
    /\ \A m, n \in DOMAIN seen : seen[m] = seen[n] /\ m # n => seen[m] \in touched
    /\ Range(seen) \cap Range(reader.items) \subseteq touched

Reader == [list : Lists, query : Queries, pc : {"ask", "rows", "count", "done", "failed"},
           page : Nat \ {0}, items : Seq(RowIds)]

\* What has been read, and of what
ReaderOK ==
  /\ reader \in Reader /\ Len(reader.items) <= Limit(reader.query)
  /\ \A m, n \in DOMAIN reader.items : reader.items[m] = reader.items[n] => m = n
  /\ reader.pc \in {"ask", "done", "failed"} => reader.items = <<>>
  /\ Unanswerable(reader.list, reader.query) => reader.pc \in {"ask", "failed"} /\ seen = <<>>
  /\ reader.pc = "failed" => Unanswerable(reader.list, reader.query)
  /\ reader.pc = "done" => Cardinality(InList) <= Reached

ListingInv ==
  /\ now \in Nat /\ TableOK(row, now) /\ touched \subseteq RowIds /\ seen \in Seq(RowIds)
  /\ left \in BOOLEAN /\ joined \in BOOLEAN
  /\ ReaderOK
  /\ ~Unanswerable(reader.list, reader.query) => AboveIsGot /\ GotIsAbove
-----------------------------------------------------------------------------
(* Writes *)

\* A row is written, added or removed, at a time later than all others: a new
\* row has the greatest id.
Written(table, time, new, w) ==
  /\ DOMAIN new \ {w} = DOMAIN table \ {w}
  /\ \A i \in DOMAIN table \ {w} : new[i] = table[i]
  /\ w \in DOMAIN new => new[w].updatedAt = time
  /\ w \notin DOMAIN table => \A i \in DOMAIN table : i < w

\* The other rows stay listed.
LEMMA OthersStay ==
  ASSUME NEW list, NEW query, NEW table, NEW time, NEW new, NEW w, Written(table, time, new, w)
  PROVE  Listed(list, query, new) \ {w} = Listed(list, query, table) \ {w}
BY DEF Written, Listed

\* Where the row goes to the top, or keeps its key and does not leave the list,
\* the others do not come nearer to the top; where it goes to the end, or keeps
\* its key and does not join the list, they do not come nearer to the end.
LEMMA OthersMove ==
  ASSUME NEW list \in Lists, NEW query, NEW table, NEW time \in Nat, TableOK(table, time),
         NEW new, TableOK(new, time + 1), NEW w, Written(table, time, new, w),
         NEW before, before = Listed(list, query, table),
         NEW after, after = Listed(list, query, new), NEW i \in before \ {w}
  PROVE  /\ /\ before \subseteq after
            /\ <<list.sort, Direction(list, query)>>
                 \in {<<"id", "ASC">>, <<"id", "DESC">>, <<"updatedAt", "DESC">>}
            => Rank(list, query, before, table, i) <= Rank(list, query, after, new, i)
         /\ \/ <<list.sort, Direction(list, query)>> = <<"updatedAt", "ASC">>
            \/ /\ <<list.sort, Direction(list, query)>> = <<"id", "ASC">>
               /\ (after \ before) \cap DOMAIN table = {}
            => Rank(list, query, after, new, i) <= Rank(list, query, before, table, i)
<1> PICK was, is : /\ was = Ahead(list, query, before, table, i)
                   /\ is = Ahead(list, query, after, new, i)
  OBVIOUS
<1>1. /\ i \in after /\ after \ {w} = before \ {w}
      /\ before \subseteq DOMAIN table /\ after \subseteq DOMAIN new
  <2>1. after \ {w} = before \ {w}
    BY OthersStay
  <2>2. before \subseteq DOMAIN table /\ after \subseteq DOMAIN new
    BY DEF Listed
  <2> QED BY <2>1, <2>2
<1>2. /\ IsFiniteSet(before) /\ Keyed(list, before, table)
      /\ IsFiniteSet(after) /\ Keyed(list, after, new)
  BY <1>1, TablesAreKeyed
<1>3. was \subseteq before /\ is \subseteq after
  BY DEF Ahead
<1>4. IsFiniteSet(was) /\ IsFiniteSet(is)
  BY <1>2, <1>3, FS_Subset
<1>5. \A j \in before \ {w} : Key(list, j, new) = Key(list, j, table)
  BY <1>1 DEF Key, Written
<1>6. \A j \in before \ {w} : j \in was <=> j \in is
  BY <1>1, <1>5 DEF Ahead
<1>7. ASSUME list.sort = "updatedAt", w \in after
      PROVE  Key(list, w, new) > Key(list, i, new)
  <2>1. new[w].updatedAt = time /\ table[i].updatedAt < time /\ new[i] = table[i]
    BY <1>1, <1>7 DEF Written, TableOK
  <2>2. time \in Nat /\ table[i].updatedAt \in Nat
    BY <1>1 DEF TableOK, ListRow
  <2> QED BY <1>7, <2>1, <2>2 DEF Key
<1>8. ASSUME before \subseteq after,
             <<list.sort, Direction(list, query)>>
               \in {<<"id", "ASC">>, <<"id", "DESC">>, <<"updatedAt", "DESC">>}
      PROVE  was \subseteq is
  <2> SUFFICES ASSUME w \in was PROVE w \in is
    BY <1>3, <1>6
  <2>1. w \in before /\ w \in after
    BY <1>3, <1>8
  <2>2. CASE list.sort = "id"
    BY <2>1, <2>2 DEF Ahead, Key
  <2>3. CASE list.sort = "updatedAt" /\ Direction(list, query) = "DESC"
    BY <1>7, <2>1, <2>3 DEF Ahead
  <2> QED BY <1>8, <2>2, <2>3
<1>9. ASSUME \/ <<list.sort, Direction(list, query)>> = <<"updatedAt", "ASC">>
             \/ /\ <<list.sort, Direction(list, query)>> = <<"id", "ASC">>
                /\ (after \ before) \cap DOMAIN table = {}
      PROVE  is \subseteq was
  <2> SUFFICES ASSUME w \in is PROVE w \in was
    BY <1>1, <1>3, <1>6
  <2>1. w \in after /\ Key(list, w, new) < Key(list, i, new)
    BY <1>3, <1>9 DEF Ahead
  <2>2. Key(list, w, new) \in Nat /\ Key(list, i, new) \in Nat
    BY <1>1, <1>2, <2>1 DEF Keyed
  <2>3. list.sort = "id" /\ Direction(list, query) = "ASC"
    BY <1>7, <1>9, <2>1, <2>2
  <2>4. w < i /\ w \in Nat /\ i \in Nat
    BY <2>1, <2>2, <2>3 DEF Key
  <2>5. w \in DOMAIN table
    BY <1>1, <2>4 DEF Written
  <2>6. w \in before
    BY <1>9, <2>1, <2>3, <2>5
  <2> QED BY <2>3, <2>4, <2>6 DEF Ahead, Key
<1>10. was \subseteq is => Cardinality(was) <= Cardinality(is)
  BY <1>4, FS_Subset
<1>11. is \subseteq was => Cardinality(is) <= Cardinality(was)
  BY <1>4, FS_Subset
<1> QED BY <1>8, <1>9, <1>10, <1>11 DEF Rank

\* Whatever is written: what is got is as before, and is what it should be.
LEMMA RewriteStep ==
  ASSUME ListingInv, NEW table, TableOK(table, now + 1), NEW w \in RowIds, Rewrite(table, w),
         Written(row, now, table, w)
  PROVE  ListingInv'
<1>1. /\ row' = table /\ now' = now + 1 /\ touched' = touched \cup {w}
      /\ UNCHANGED <<reader, seen>> /\ reader.pc \notin {"done", "failed"}
  BY DEF Rewrite
<1>2. now' \in Nat /\ TableOK(row, now)' /\ touched' \subseteq RowIds /\ seen' \in Seq(RowIds)
  BY <1>1 DEF ListingInv, TableOK
<1>3. left' \in BOOLEAN /\ joined' \in BOOLEAN
  BY DEF Rewrite, ListingInv
<1>4. ReaderOK'
  BY <1>1 DEF ListingInv, ReaderOK
<1> SUFFICES ASSUME ~Unanswerable(reader.list, reader.query)
             PROVE  AboveIsGot' /\ GotIsAbove'
  BY <1>1, <1>2, <1>3, <1>4 DEF ListingInv
<1> PICK list, query, before, after :
      /\ list = reader.list /\ query = reader.query
      /\ before = InList /\ after = Listed(list, query, table)
  OBVIOUS
<1>5. /\ list \in Lists /\ now \in Nat /\ TableOK(row, now) /\ AboveIsGot /\ GotIsAbove
  BY DEF ListingInv, ReaderOK, Reader
<1>6. /\ InList' = after /\ Order' = Order /\ Reached' = Reached /\ Got' = Got
      /\ \A i : Place(i)' = Rank(list, query, after, table, i)
      /\ \A i : Place(i) = Rank(list, query, before, row, i)
  BY <1>1 DEF InList, Order, Reached, Got, Place
<1>7. left' = (left \/ before \ after # {}) /\ joined' = (joined \/ (after \ before) \cap DOMAIN row # {})
  BY DEF Rewrite, InList
<1>8. before = Listed(list, query, row)
  BY DEF InList
<1>9. after \ {w} = before \ {w}
  BY <1>8, OthersStay
<1>10. IsFiniteSet(before) /\ IsFiniteSet(after)
  BY <1>1, <1>2, <1>5, <1>8, TablesAreKeyed DEF Listed
<1>11. ASSUME NEW i \in before
       PROVE  Place(i) \in Nat
  BY <1>6, <1>10, FS_Subset, FS_CardinalityType DEF Rank, Ahead
<1>12. ASSUME NEW i \in after
       PROVE  Place(i)' \in Nat
  BY <1>6, <1>10, FS_Subset, FS_CardinalityType DEF Rank, Ahead
<1>13. Reached \in Nat
  <2>1. reader.page \in Nat \ {0} /\ Limit(reader.query) \in Nat
    BY LimitIsPositive DEF ListingInv, ReaderOK, Reader
  <2>2. \A k, l \in Nat : k * l \in Nat
    OBVIOUS
  <2> QED BY <2>1, <2>2 DEF Reached
<1>14. ASSUME MovesDown', NEW i \in InList' \ touched', Place(i)' < Reached'
       PROVE  i \in Got'
  <2>1. MovesDown /\ before \subseteq after
    BY <1>1, <1>6, <1>7, <1>14 DEF MovesDown
  <2>2. i \in before \ {w} /\ i \notin touched
    BY <1>1, <1>6, <1>9
  <2>3. Place(i) <= Place(i)'
    BY <1>1, <1>2, <1>5, <1>6, <1>8, <2>1, <2>2, OthersMove DEF MovesDown, Order
  <2>4. Place(i) < Reached
    BY <1>6, <1>11, <1>12, <1>13, <1>14, <2>2, <2>3
  <2> QED BY <1>5, <1>6, <2>1, <2>2, <2>4 DEF AboveIsGot, InList
<1>15. ASSUME MovesUp', NEW i \in Got' \ touched'
       PROVE  i \in InList' /\ Place(i)' < Reached'
  <2>1. MovesUp /\ (Order = <<"updatedAt", "ASC">> \/ (after \ before) \cap DOMAIN row = {})
    BY <1>6, <1>7, <1>15 DEF MovesUp
  <2>2. i \in before \ {w} /\ i \in after /\ Place(i) < Reached
    BY <1>1, <1>5, <1>6, <1>8, <1>9, <2>1 DEF GotIsAbove, InList
  <2>3. Place(i)' <= Place(i)
    BY <1>1, <1>2, <1>5, <1>6, <1>8, <2>1, <2>2, OthersMove DEF MovesUp, Order
  <2> QED BY <1>6, <1>11, <1>12, <1>13, <2>2, <2>3
<1>16. MovesUp' => MovesUp
  BY <1>6, <1>7 DEF MovesUp
<1>17. AboveIsGot'
  BY <1>14 DEF AboveIsGot
<1>18. GotIsAbove'
  BY <1>1, <1>5, <1>15, <1>16 DEF GotIsAbove
<1> QED BY <1>17, <1>18

\* What a write of a service is.
LEMMA WriteStep ==
  ASSUME ListingInv, AddRow \/ UpdateRow \/ RemoveRow
  PROVE  ListingInv'
<1>0. now \in Nat /\ TableOK(row, now)
  BY DEF ListingInv
<1> PICK before, time : before = row /\ time = now
  OBVIOUS
<1>1. /\ time \in Nat /\ before \in [DOMAIN before -> ListRow] /\ DOMAIN before \subseteq RowIds
      /\ \A i \in DOMAIN before : before[i].updatedAt < time
      /\ \A i, j \in DOMAIN before : before[i].updatedAt = before[j].updatedAt => i = j
      /\ RowIds \subseteq Nat
  BY <1>0, ListingAssumption DEF TableOK
<1>2. \A i \in DOMAIN before : before[i].updatedAt \in Nat
  BY <1>1 DEF ListRow
<1>3. ASSUME NEW w \in RowIds, NEW new \in ListRow, new.updatedAt = time,
             w \notin DOMAIN before => \A i \in DOMAIN before : i < w,
             NEW table,
             table = [i \in DOMAIN before \cup {w} |-> IF i = w THEN new ELSE before[i]],
             Rewrite(table, w)
      PROVE  ListingInv'
  <2>1. /\ table \in [DOMAIN table -> ListRow] /\ DOMAIN table \subseteq RowIds
        /\ DOMAIN table = DOMAIN before \cup {w}
        /\ \A i \in DOMAIN table : table[i] = IF i = w THEN new ELSE before[i]
    BY <1>1, <1>3
  <2>2. \A i \in DOMAIN table : table[i].updatedAt < time + 1
    BY <1>1, <1>2, <1>3, <2>1
  <2>3. \A i, j \in DOMAIN table : table[i].updatedAt = table[j].updatedAt => i = j
    BY <1>1, <1>2, <1>3, <2>1
  <2>4. TableOK(table, now + 1)
    BY <2>1, <2>2, <2>3 DEF TableOK
  <2>5. Written(row, now, table, w)
    BY <1>3, <2>1 DEF Written
  <2> QED BY <1>3, <2>4, <2>5, RewriteStep
<1>4. CASE AddRow
  <2>1. PICK w \in RowIds \ DOMAIN row, name \in RowNames :
          /\ \A i \in DOMAIN row \cup touched : i < w
          /\ Rewrite([i \in DOMAIN row \cup {w} |->
                        IF i = w THEN [updatedAt |-> now, name |-> name, shown |-> TRUE]
                                 ELSE row[i]], w)
    BY <1>4 DEF AddRow
  <2> PICK new : new = [updatedAt |-> time, name |-> name, shown |-> TRUE]
    OBVIOUS
  <2>2. new \in ListRow /\ new.updatedAt = time
    BY <1>1 DEF ListRow
  <2> PICK table : table = [i \in DOMAIN before \cup {w} |-> IF i = w THEN new ELSE before[i]]
    OBVIOUS
  <2>3. Rewrite(table, w)
    BY <2>1
  <2> QED BY <1>3, <2>1, <2>2, <2>3
<1>5. CASE UpdateRow
  <2>1. PICK w \in DOMAIN row, name \in RowNames, shown \in BOOLEAN :
          Rewrite([row EXCEPT ![w] = [updatedAt |-> now, name |-> name, shown |-> shown]], w)
    BY <1>5 DEF UpdateRow
  <2> PICK new : new = [updatedAt |-> time, name |-> name, shown |-> shown]
    OBVIOUS
  <2>2. new \in ListRow /\ new.updatedAt = time /\ w \in RowIds
    BY <1>1 DEF ListRow
  <2> PICK table : table = [i \in DOMAIN before \cup {w} |-> IF i = w THEN new ELSE before[i]]
    OBVIOUS
  <2>3. table = [row EXCEPT ![w] = new]
    BY <1>1
  <2>4. Rewrite(table, w)
    BY <2>1, <2>3
  <2> QED BY <1>3, <2>2, <2>4
<1>6. CASE RemoveRow
  <2>1. PICK w \in DOMAIN row : Rewrite([i \in DOMAIN row \ {w} |-> row[i]], w)
    BY <1>6 DEF RemoveRow
  <2> PICK table : table = [i \in DOMAIN before \ {w} |-> before[i]]
    OBVIOUS
  <2>2. /\ table \in [DOMAIN table -> ListRow] /\ DOMAIN table \subseteq RowIds
        /\ DOMAIN table = DOMAIN before \ {w}
        /\ \A i \in DOMAIN table : table[i] = before[i]
    BY <1>1
  <2>3. \A i \in DOMAIN table : table[i].updatedAt < time + 1
    BY <1>1, <1>2, <2>2
  <2>4. \A i, j \in DOMAIN table : table[i].updatedAt = table[j].updatedAt => i = j
    BY <1>1, <2>2
  <2>5. TableOK(table, now + 1)
    BY <2>2, <2>3, <2>4 DEF TableOK
  <2>6. Written(row, now, table, w) /\ w \in RowIds
    BY <1>1, <2>2 DEF Written
  <2> QED BY <2>1, <2>5, <2>6, RewriteStep
<1> QED BY <1>4, <1>5, <1>6
-----------------------------------------------------------------------------
(* Pages are read *)

\* The page that is asked for: of the rows above its end all are got by now,
\* and none that was got before is among them.
LEMMA SelectPageStep ==
  ASSUME ListingInv, SelectPage
  PROVE  ListingInv'
<1> PICK r, q : r = reader /\ q = reader'
  OBVIOUS
<1>1. /\ r.pc = "ask" /\ UNCHANGED <<row, now, seen, touched, left, joined>>
      /\ r \in Reader /\ r.items = <<>>
  BY DEF SelectPage, ListingInv, ReaderOK
<1>2. CASE Unanswerable(r.list, r.query)
  <2>1. q = [r EXCEPT !.pc = "failed"]
    BY <1>2 DEF SelectPage
  <2>2. q \in Reader /\ q.items = <<>> /\ q.pc = "failed" /\ q.list = r.list /\ q.query = r.query
    BY <1>1, <2>1 DEF Reader
  <2>3. ReaderOK'
    BY <1>1, <1>2, <2>2, LimitIsPositive DEF ReaderOK, ListingInv, Reader
  <2> QED BY <1>1, <1>2, <2>2, <2>3 DEF ListingInv
<1>3. CASE ~Unanswerable(r.list, r.query)
  <2> PICK list, query, page, ids :
        /\ list = r.list /\ query = r.query /\ page = r.page /\ ids = InList
    OBVIOUS
  <2> PICK items : items = Page(list, query, page, row)
    OBVIOUS
  <2>1. PICK pc \in {"rows", "count"} : q = [r EXCEPT !.pc = pc, !.items = items]
    BY <1>3 DEF SelectPage
  <2>2. list \in Lists /\ query \in Queries /\ page \in Nat \ {0}
    BY <1>1 DEF Reader
  <2>3. IsFiniteSet(ids) /\ Keyed(list, ids, row) /\ ids \subseteq RowIds /\ ids = Listed(list, query, row)
    BY <2>2, TablesAreKeyed DEF ListingInv, InList, Listed, TableOK
  <2>4. /\ items \in Seq(ids) /\ Len(items) <= Limit(query)
        /\ \A m, n \in DOMAIN items : items[m] = items[n] => m = n
        /\ \A i \in ids : i \in Range(items) <=>
             /\ (page - 1) * Limit(query) <= Rank(list, query, ids, row, i)
             /\ Rank(list, query, ids, row, i) < page * Limit(query)
    <3>1. Fills(items, list, query, ids, row, page)
      BY <2>2, <2>3, PageLists
    <3> QED BY <3>1 DEF Fills
  <2> PICK from, to : from = (page - 1) * Limit(query) /\ to = page * Limit(query)
    OBVIOUS
  <2>5. items \in Seq(RowIds) /\ Range(items) \subseteq ids
    BY <2>3, <2>4 DEF Range
  <2>6. /\ q \in Reader /\ q.items = items /\ q.pc = pc /\ q.list = list /\ q.query = query
        /\ q.page = page
    BY <1>1, <2>1, <2>5 DEF Reader
  <2>7. ReaderOK'
    BY <1>3, <2>4, <2>6 DEF ReaderOK, ListingInv
  <2>8. /\ InList' = InList /\ Order' = Order /\ Reached = from /\ Reached' = to
        /\ MovesDown' = MovesDown /\ MovesUp' = MovesUp
        /\ \A i : Place(i)' = Rank(list, query, ids, row, i)
        /\ \A i : Place(i) = Rank(list, query, ids, row, i)
    BY <1>1, <2>6 DEF InList, Order, Reached, MovesDown, MovesUp, Place
  <2>9. Got = Range(seen) /\ Got' = Range(seen) \cup Range(items)
    BY <1>1, <2>6 DEF Got, Range
  <2>10. \A i \in ids : Place(i) \in Nat
    BY <2>3, <2>8, FS_Subset, FS_CardinalityType DEF Rank, Ahead
  <2>11. from \in Nat /\ to \in Nat /\ from <= to
    <3>1. \A k \in Nat \ {0}, l \in Nat : (k - 1) * l \in Nat /\ k * l \in Nat /\ (k - 1) * l <= k * l
      OBVIOUS
    <3> QED BY <2>2, <3>1, LimitIsPositive
  <2>12. AboveIsGot /\ GotIsAbove
    BY <1>3 DEF ListingInv
  <2>13. AboveIsGot'
    BY <1>1, <2>4, <2>8, <2>9, <2>10, <2>11, <2>12 DEF AboveIsGot
  <2>14. ASSUME MovesUp, NEW i \in Got' \ touched
         PROVE  i \in InList /\ Place(i) < to
    BY <2>4, <2>5, <2>8, <2>9, <2>10, <2>11, <2>12, <2>14 DEF GotIsAbove
  <2>15. ASSUME MovesUp, NEW i \in Range(seen) \cap Range(items)
         PROVE  i \in touched
    BY <2>4, <2>5, <2>8, <2>9, <2>10, <2>11, <2>12, <2>15 DEF GotIsAbove
  <2>16. GotIsAbove'
    BY <1>1, <2>6, <2>8, <2>12, <2>14, <2>15 DEF GotIsAbove
  <2> QED BY <1>1, <2>7, <2>13, <2>16 DEF ListingInv
<1> QED BY <1>2, <1>3

\* The rows of the ids that are still listed: a row that is not changed is
\* among them, in the list's order by now.
LEMMA SelectRowsStep ==
  ASSUME ListingInv, SelectRows
  PROVE  ListingInv'
<1> PICK r, q, list, query, ids, items :
      /\ r = reader /\ q = reader' /\ list = r.list /\ query = r.query
      /\ ids = Range(r.items) \cap Listed(list, query, row)
      /\ items = Sorted(list, query, ids, row)
  OBVIOUS
<1>1. /\ r.pc = "rows" /\ UNCHANGED <<row, now, seen, touched, left, joined>>
      /\ r \in Reader /\ q = [r EXCEPT !.pc = "count", !.items = items]
      /\ Len(r.items) <= Limit(query)
  BY DEF SelectRows, ListingInv, ReaderOK
<1>2. list \in Lists /\ query \in Queries /\ r.items \in Seq(RowIds)
  BY <1>1 DEF Reader
<1>3. IsFiniteSet(ids) /\ Keyed(list, ids, row) /\ ids \subseteq InList
  <2>1. ids \subseteq InList /\ ids \subseteq DOMAIN row
    BY DEF InList, Listed
  <2> QED BY <1>2, <2>1, TablesAreKeyed DEF ListingInv
<1>4. /\ items \in Seq(ids) /\ Len(items) = Cardinality(ids)
      /\ \A n \in 1 .. Cardinality(ids) : Rank(list, query, ids, row, items[n]) = n - 1
      /\ \A i \in ids : items[Rank(list, query, ids, row, i) + 1] = i
  <2>1. Orders(items, list, query, ids, row)
    BY <1>3, SortedLists
  <2> QED BY <2>1 DEF Orders
<1>5. /\ Cardinality(ids) \in Nat
      /\ \A i \in ids : Rank(list, query, ids, row, i) \in 0 .. Cardinality(ids) - 1
  <2>1. Ranked(list, query, ids, row)
    BY <1>3, RanksCount
  <2>2. Cardinality(ids) \in Nat
    BY <1>3, FS_CardinalityType
  <2> QED BY <2>1, <2>2 DEF Ranked
<1>6. Range(items) = ids
  <2>1. Range(items) \subseteq ids
    BY <1>4 DEF Range
  <2>2. ASSUME NEW i \in ids
        PROVE  i \in Range(items)
    <3> PICK n : n = Rank(list, query, ids, row, i) + 1
      OBVIOUS
    <3>1. n \in 1 .. Cardinality(ids)
      BY <1>5
    <3>2. items[n] = i
      BY <1>4
    <3>3. n \in DOMAIN items
      BY <1>4, <1>5, <3>1
    <3> QED BY <3>2, <3>3 DEF Range
  <2> QED BY <2>1, <2>2
<1>7. \A m, n \in DOMAIN items : items[m] = items[n] => m = n
  <2> SUFFICES ASSUME NEW m \in DOMAIN items, NEW n \in DOMAIN items, items[m] = items[n]
               PROVE  m = n
    OBVIOUS
  <2>1. m \in 1 .. Cardinality(ids) /\ n \in 1 .. Cardinality(ids)
    BY <1>4, <1>5
  <2>2. Rank(list, query, ids, row, items[m]) = m - 1 /\ Rank(list, query, ids, row, items[n]) = n - 1
    BY <1>4, <2>1
  <2> QED BY <2>1, <2>2
<1>8. Len(items) <= Limit(query)
  <2> PICK length, whole : length = Len(r.items) /\ whole = Range(r.items)
    OBVIOUS
  <2>1. length \in Nat /\ DOMAIN r.items = 1 .. length
    BY <1>2
  <2>2. r.items \in Surjection(1 .. length, whole)
    BY <1>2, <2>1 DEF Surjection, Range
  <2>3. IsFiniteSet(1 .. length) /\ Cardinality(1 .. length) = length
    BY <2>1, FS_Interval
  <2>4. IsFiniteSet(whole) /\ Cardinality(whole) <= length
    BY <2>2, <2>3, FS_Surjection
  <2>5. Cardinality(ids) <= Cardinality(whole) /\ Cardinality(whole) \in Nat
    BY <2>4, FS_Subset, FS_CardinalityType
  <2>6. Limit(query) \in Nat
    BY <1>2, LimitIsPositive
  <2> QED BY <1>1, <1>4, <1>5, <2>1, <2>4, <2>5, <2>6
<1>9. items \in Seq(RowIds)
  BY <1>2, <1>4 DEF Range
<1>10. /\ q \in Reader /\ q.pc = "count" /\ q.items = items
       /\ q.list = list /\ q.query = query /\ q.page = r.page
  BY <1>1, <1>9 DEF Reader
<1>11. ~Unanswerable(list, query)
  BY <1>1 DEF ListingInv, ReaderOK
<1>12. ReaderOK'
  BY <1>7, <1>8, <1>10, <1>11 DEF ReaderOK
<1>13. /\ InList' = InList /\ Order' = Order /\ Reached' = Reached
       /\ MovesDown' = MovesDown /\ MovesUp' = MovesUp
       /\ \A i : Place(i)' = Place(i)
  BY <1>1, <1>10 DEF InList, Order, Reached, MovesDown, MovesUp, Place
<1>14. /\ Got = Range(seen) \cup Range(r.items) /\ Got' = Range(seen) \cup ids
       /\ ids = Range(r.items) \cap InList
  BY <1>1, <1>6, <1>10 DEF Got, InList
<1>15. AboveIsGot /\ GotIsAbove
  BY <1>11 DEF ListingInv
<1>16. AboveIsGot'
  BY <1>1, <1>13, <1>14, <1>15 DEF AboveIsGot
<1>17. GotIsAbove'
  BY <1>1, <1>6, <1>10, <1>13, <1>14, <1>15 DEF GotIsAbove
<1> QED BY <1>1, <1>12, <1>16, <1>17 DEF ListingInv

\* If there is no page after it, the rows end where the page does.
LEMMA LastPage ==
  ASSUME NEW total \in Nat, NEW limit \in Nat \ {0}, NEW page \in Nat,
         ~(page < TotalPages(total, limit))
  PROVE  total <= page * limit
<1> PICK q, rest : q = (total + limit - 1) \div limit /\ rest = (total + limit - 1) % limit
  OBVIOUS
<1>1. q \in Nat /\ rest \in 0 .. limit - 1 /\ total + limit - 1 = limit * q + rest
  OBVIOUS
<1>2. q <= page
  BY <1>1 DEF TotalPages
<1>3. \A k, l, m \in Nat : k <= l => k * m <= l * m /\ k * m = m * k /\ k * m \in Nat /\ l * m \in Nat
  OBVIOUS
<1> PICK most \in Nat, least \in Nat : most = page * limit /\ least = q * limit /\ least <= most /\ least = limit * q
  BY <1>1, <1>2, <1>3
<1> QED BY <1>1

\* A sequence has what two others have, where it is twice one of them had it
\* twice or both had it
Joins(both, s, t) ==
  /\ Range(both) = Range(s) \cup Range(t)
  /\ \A m, n \in DOMAIN both : both[m] = both[n] /\ m # n =>
       \/ m \in DOMAIN s /\ n \in DOMAIN s /\ s[m] = s[n]
       \/ /\ m - Len(s) \in DOMAIN t /\ n - Len(s) \in DOMAIN t
          /\ t[m - Len(s)] = t[n - Len(s)]
       \/ both[m] \in Range(s) \cap Range(t)

\* What two sequences have together.
LEMMA RangeOfBoth ==
  ASSUME NEW S, NEW s \in Seq(S), NEW t \in Seq(S), NEW both, both = s \o t
  PROVE  both \in Seq(S) /\ Joins(both, s, t)
<1> PICK k \in Nat, l \in Nat : k = Len(s) /\ l = Len(t)
  OBVIOUS
<1>1. /\ both \in Seq(S) /\ DOMAIN both = 1 .. k + l
      /\ DOMAIN s = 1 .. k /\ DOMAIN t = 1 .. l
      /\ \A n \in 1 .. k : both[n] = s[n]
      /\ \A n \in k + 1 .. k + l : both[n] = t[n - k]
  OBVIOUS
<1>2. \A n \in 1 .. l : both[n + k] = t[n]
  OBVIOUS
<1>3. ASSUME NEW x \in Range(both)
      PROVE  x \in Range(s) \cup Range(t)
  <2>1. PICK n \in 1 .. k + l : x = both[n]
    BY <1>1 DEF Range
  <2>2. CASE n <= k
    BY <1>1, <2>1, <2>2 DEF Range
  <2>3. CASE n > k
    <3>1. n - k \in DOMAIN t /\ x = t[n - k]
      BY <1>1, <2>1, <2>3
    <3> QED BY <3>1 DEF Range
  <2> QED BY <2>2, <2>3
<1>4. ASSUME NEW x \in Range(s) \cup Range(t)
      PROVE  x \in Range(both)
  <2>1. CASE x \in Range(s)
    BY <1>1, <2>1 DEF Range
  <2>2. CASE x \in Range(t)
    <3>1. PICK n \in 1 .. l : x = t[n]
      BY <1>1, <2>2 DEF Range
    <3>2. n + k \in DOMAIN both /\ both[n + k] = x
      BY <1>1, <1>2, <3>1
    <3> QED BY <3>2 DEF Range
  <2> QED BY <2>1, <2>2
<1>5. ASSUME NEW m \in DOMAIN both, NEW n \in DOMAIN both, both[m] = both[n], m # n
      PROVE  \/ m \in DOMAIN s /\ n \in DOMAIN s /\ s[m] = s[n]
             \/ m - Len(s) \in DOMAIN t /\ n - Len(s) \in DOMAIN t
                /\ t[m - Len(s)] = t[n - Len(s)]
             \/ both[m] \in Range(s) \cap Range(t)
  <2>1. ASSUME NEW i \in DOMAIN both
        PROVE  \/ i \in DOMAIN s /\ both[i] = s[i]
               \/ i - k \in DOMAIN t /\ both[i] = t[i - k]
    <3>1. CASE i <= k
      BY <1>1, <3>1
    <3>2. CASE i > k
      <4>1. i \in k + 1 .. k + l /\ i - k \in 1 .. l
        BY <1>1, <3>2
      <4> QED BY <1>1, <4>1
    <3> QED BY <1>1, <3>1, <3>2
  <2>2. /\ \A i \in DOMAIN s : s[i] \in Range(s)
        /\ \A i \in DOMAIN t : t[i] \in Range(t)
    BY DEF Range
  <2> QED BY <1>5, <2>1, <2>2
<1> QED BY <1>1, <1>3, <1>4, <1>5 DEF Joins

\* The answer: the page joins those before it, and the client goes on unless
\* there is no other.
LEMMA CountStep ==
  ASSUME ListingInv, Count
  PROVE  ListingInv'
<1> PICK r, q, list, query, total, limit :
      /\ r = reader /\ q = reader' /\ list = r.list /\ query = r.query
      /\ total = Cardinality(InList) /\ limit = Limit(query)
  OBVIOUS
<1>1. /\ r.pc = "count" /\ UNCHANGED <<row, now, touched, left, joined>>
      /\ r \in Reader /\ seen' = seen \o r.items
      /\ \A m, n \in DOMAIN r.items : r.items[m] = r.items[n] => m = n
  BY DEF Count, ListingInv, ReaderOK
<1>2. /\ list \in Lists /\ query \in Queries /\ r.items \in Seq(RowIds) /\ r.page \in Nat \ {0}
      /\ limit \in Nat \ {0} /\ seen \in Seq(RowIds)
  BY <1>1, LimitIsPositive DEF Reader, ListingInv
<1>3. total \in Nat
  BY <1>2, TablesAreKeyed, FS_CardinalityType DEF ListingInv, InList, Listed
<1>4. q = IF r.page < TotalPages(total, limit)
          THEN [r EXCEPT !.pc = "ask", !.page = r.page + 1, !.items = <<>>]
          ELSE [r EXCEPT !.pc = "done", !.items = <<>>]
  BY <1>1 DEF Count, InList
<1>5. ~Unanswerable(list, query)
  BY <1>1 DEF ListingInv, ReaderOK
<1>6. /\ seen' \in Seq(RowIds) /\ Range(seen') = Range(seen) \cup Range(r.items)
      /\ \A m, n \in DOMAIN seen' : seen'[m] = seen'[n] /\ m # n =>
           \/ m \in DOMAIN seen /\ n \in DOMAIN seen /\ seen[m] = seen[n]
           \/ m - Len(seen) \in DOMAIN r.items /\ n - Len(seen) \in DOMAIN r.items
              /\ r.items[m - Len(seen)] = r.items[n - Len(seen)]
           \/ seen'[m] \in Range(seen) \cap Range(r.items)
  <2>1. seen' \in Seq(RowIds) /\ Joins(seen', seen, r.items)
    BY <1>1, <1>2, RangeOfBoth
  <2> QED BY <2>1 DEF Joins
<1>7. /\ q \in Reader /\ q.items = <<>> /\ q.list = list /\ q.query = query
      /\ \/ q.pc = "ask" /\ q.page = r.page + 1
         \/ q.pc = "done" /\ q.page = r.page /\ ~(r.page < TotalPages(total, limit))
  <2>0. <<>> \in Seq(RowIds)
    OBVIOUS
  <2>1. CASE r.page < TotalPages(total, limit)
    <3> PICK page : page = r.page + 1
      OBVIOUS
    <3>1. q = [r EXCEPT !.pc = "ask", !.page = page, !.items = <<>>] /\ page \in Nat \ {0}
      BY <1>2, <1>4, <2>1
    <3>2. /\ q \in Reader /\ q.items = <<>> /\ q.list = r.list /\ q.query = r.query
          /\ q.pc = "ask" /\ q.page = page
      BY <1>1, <1>2, <2>0, <3>1 DEF Reader
    <3> QED BY <3>2
  <2>2. CASE ~(r.page < TotalPages(total, limit))
    <3>1. q = [r EXCEPT !.pc = "done", !.items = <<>>]
      BY <1>4, <2>2
    <3>2. /\ q \in Reader /\ q.items = <<>> /\ q.list = r.list /\ q.query = r.query
          /\ q.pc = "done" /\ q.page = r.page
      BY <1>1, <1>2, <2>0, <3>1 DEF Reader
    <3> QED BY <2>2, <3>2
  <2> QED BY <2>1, <2>2
<1>8. Reached = r.page * limit /\ Reached' = Reached
  <2>1. r.page + 1 - 1 = r.page
    BY <1>2
  <2>2. Reached = r.page * limit
    BY <1>1 DEF Reached
  <2>3. (IF q.pc = "ask" THEN q.page - 1 ELSE q.page) = r.page
    <3>1. CASE q.pc = "ask" /\ q.page = r.page + 1
      <4>1. q.page - 1 = r.page
        BY <1>2, <3>1
      <4> QED BY <3>1, <4>1
    <3>2. CASE q.pc = "done" /\ q.page = r.page
      BY <3>2
    <3> QED BY <1>7, <3>1, <3>2, Zenon
  <2>4. Reached' = r.page * limit
    BY <1>7, <2>3 DEF Reached
  <2> QED BY <2>2, <2>4
<1>9. q.pc = "done" => Cardinality(InList) <= Reached
  BY <1>2, <1>3, <1>7, <1>8, LastPage
<1>10. /\ InList' = InList /\ Order' = Order /\ MovesDown' = MovesDown /\ MovesUp' = MovesUp
       /\ \A i : Place(i)' = Place(i)
  BY <1>1, <1>7 DEF InList, Order, MovesDown, MovesUp, Place
<1>11. Len(<<>>) <= limit /\ DOMAIN <<>> = {} /\ Range(q.items) = {}
  BY <1>2, <1>7 DEF Range
<1>12. ReaderOK'
  <2>1. Cardinality(InList)' = Cardinality(InList)
    BY <1>10
  <2> QED BY <1>2, <1>5, <1>7, <1>8, <1>9, <1>11, <2>1 DEF ReaderOK
<1>13. Got' = Got
  BY <1>6, <1>11 DEF Got
<1>14. AboveIsGot /\ GotIsAbove
  BY <1>5 DEF ListingInv
<1>15. AboveIsGot'
  BY <1>1, <1>8, <1>10, <1>13, <1>14 DEF AboveIsGot
<1>16. ASSUME MovesUp, NEW m \in DOMAIN seen', NEW n \in DOMAIN seen', seen'[m] = seen'[n], m # n
       PROVE  seen'[m] \in touched
  <2>1. CASE m \in DOMAIN seen /\ n \in DOMAIN seen /\ seen[m] = seen[n]
    <3>1. seen'[m] = seen[m]
      BY <1>1, <1>2, <2>1
    <3> QED BY <1>14, <1>16, <2>1, <3>1 DEF GotIsAbove
  <2>2. CASE seen'[m] \in Range(seen) \cap Range(r.items)
    BY <1>14, <1>16, <2>2 DEF GotIsAbove
  <2>3. CASE /\ m - Len(seen) \in DOMAIN r.items /\ n - Len(seen) \in DOMAIN r.items
             /\ r.items[m - Len(seen)] = r.items[n - Len(seen)]
    <3>1. m - Len(seen) = n - Len(seen)
      BY <1>1, <2>3
    <3>2. m \in Int /\ n \in Int /\ Len(seen) \in Int
      BY <1>2, <1>6
    <3> QED BY <1>16, <3>1, <3>2
  <2> QED BY <1>6, <1>16, <2>1, <2>2, <2>3
<1>17. GotIsAbove'
  BY <1>1, <1>8, <1>10, <1>11, <1>13, <1>14, <1>16 DEF GotIsAbove
<1> QED BY <1>1, <1>6, <1>12, <1>15, <1>17 DEF ListingInv
-----------------------------------------------------------------------------
(* Filters *)

\* A chain of conditions, whatever they are
IsChain(chain) == \E n \in Nat : chain = [i \in 1 .. n |-> chain[i]]

\* A filter of finitely many columns and statements is a chain.
LEMMA FilterIsChain ==
  ASSUME NEW filter, filter \in Seq(Range(filter)),
         \A entry \in Range(filter) : entry.input.statements \in Seq(Range(entry.input.statements))
  PROVE  IsChain(Conditions(filter))
<1> PICK places : places = [k \in DOMAIN filter |-> {k} \X DOMAIN filter[k].input.statements]
  OBVIOUS
<1> PICK all : all = Range(places)
  OBVIOUS
<1>0. \A n \in Nat : IsFiniteSet(1 .. n)
  BY FS_Interval
<1>1. IsFiniteSet(DOMAIN filter)
  <2>1. PICK n \in Nat : DOMAIN filter = 1 .. n
    OBVIOUS
  <2> QED BY <1>0, <2>1
<1>2. ASSUME NEW k \in DOMAIN filter
      PROVE  IsFiniteSet(places[k])
  <2> PICK statements : statements = filter[k].input.statements
    OBVIOUS
  <2>1. statements \in Seq(Range(statements))
    BY DEF Range
  <2>2. PICK n \in Nat : DOMAIN statements = 1 .. n
    <3>1. \A S : \A s \in Seq(S) : Len(s) \in Nat /\ DOMAIN s = 1 .. Len(s)
      OBVIOUS
    <3>2. Len(statements) \in Nat /\ DOMAIN statements = 1 .. Len(statements)
      BY <2>1, <3>1
    <3> QED BY <3>2
  <2>3. IsFiniteSet(DOMAIN statements) /\ IsFiniteSet({k})
    BY <1>0, <2>2, FS_Singleton
  <2>4. IsFiniteSet({k} \X DOMAIN statements)
    BY <2>3, FS_Product
  <2> QED BY <2>4
<1>3. IsFiniteSet(all)
  <2>1. places \in Surjection(DOMAIN filter, all)
    BY DEF Surjection, Range
  <2> QED BY <1>1, <2>1, FS_Surjection
<1>4. \A set \in all : IsFiniteSet(set)
  BY <1>2 DEF Range
<1>5. IsFiniteSet(UNION all)
  BY <1>3, <1>4, FS_UNION
<1>6. Places(filter) \in SUBSET UNION all
  <2>1. all = {{k} \X DOMAIN filter[k].input.statements : k \in DOMAIN filter}
    BY DEF Range
  <2> QED BY <2>1 DEF Places
<1>7. PICK n \in Nat : n = Cardinality(Places(filter))
  BY <1>5, <1>6, FS_Subset, FS_CardinalityType
<1> QED BY <1>7 DEF IsChain, Conditions

\* Of no word that counts, the default.
LEMMA LastOfNone ==
  ASSUME NEW words, NEW choice, NEW default, \A i \in DOMAIN words : words[i] \notin choice
  PROVE  LastOf(words, choice, default) = default
BY DEF LastOf

\* Of one word that counts, that one.
LEMMA LastOfOne ==
  ASSUME NEW words, NEW choice, NEW default, NEW i \in Int, i \in DOMAIN words, words[i] \in choice,
         \A j \in DOMAIN words : words[j] \in choice => j = i
  PROVE  LastOf(words, choice, default) = words[i]
<1>1. {j \in DOMAIN words : words[j] \in choice} = {i}
  OBVIOUS
<1>2. Max({i}) = i
  BY DEF Max
<1> QED BY <1>1, <1>2 DEF LastOf

\* A statement of its own is one condition: no array leaves it out.
LEMMA OneIsToken ==
  ASSUME NEW column, NEW words, NEW value, [words |-> words, value |-> value] # Null
  PROVE  Conditions(One(column, words, value)) = <<Token(column, [words |-> words, value |-> value])>>
<1> PICK raw, filter, entry :
      /\ raw = [words |-> words, value |-> value] /\ filter = One(column, words, value)
      /\ entry = [column |-> column, input |-> [array |-> FALSE, statements |-> <<raw>>]]
  OBVIOUS
<1>1. /\ DOMAIN filter = {1} /\ filter[1] = entry
      /\ entry.column = column /\ entry.input.array = FALSE /\ entry.input.statements = <<raw>>
  BY DEF One
<1>2. DOMAIN <<raw>> = {1} /\ <<raw>>[1] = raw
  OBVIOUS
<1> PICK p, only : p = <<1, 1>> /\ only = {<<1, 1>>}
  OBVIOUS
<1>3. UNION {{k} \X DOMAIN filter[k].input.statements : k \in DOMAIN filter} = only
  BY <1>1, <1>2
<1>4. TokenAt(filter, p) = Token(column, raw)
  BY <1>1, <1>2 DEF TokenAt
<1>5. Kept(entry.input, TokenAt(filter, p)) /\ filter[p[1]] = entry
  BY <1>1 DEF Kept, AllowedIn
<1>6. Places(filter) = only
  <2>1. Places(filter) = {q \in only : /\ filter[q[1]].input.statements[q[2]] # Null
                                     /\ Kept(filter[q[1]].input, TokenAt(filter, q))}
    BY <1>3 DEF Places
  <2>2. filter[p[1]].input.statements[p[2]] # Null
    BY <1>1, <1>2
  <2> QED BY <1>5, <2>1, <2>2
<1>7. Cardinality(only) = 1 /\ Cardinality({}) = 0
  BY FS_Singleton, FS_EmptySet
<1>8. \A q \in only : {o \in only : Earlier(o, q)} = {}
  BY DEF Earlier
<1>9. (CHOOSE q \in only : Cardinality({o \in only : Earlier(o, q)}) = 1 - 1) = p
  BY <1>7, <1>8
<1>10. Conditions(filter) = [n \in 1 .. 1 |->
         TokenAt(filter, CHOOSE q \in only : Cardinality({o \in only : Earlier(o, q)}) = n - 1)]
  BY <1>6, <1>7 DEF Conditions
<1>11. Conditions(filter) = [n \in 1 .. 1 |-> Token(column, raw)]
  <2> PICK f : f = Conditions(filter)
    OBVIOUS
  <2>1. f[1] = Token(column, raw) /\ f = [n \in 1 .. 1 |-> f[n]]
    <3>1. 1 \in 1 .. 1
      OBVIOUS
    <3>2. f[1] = TokenAt(filter, CHOOSE q \in only : Cardinality({o \in only : Earlier(o, q)}) = 1 - 1)
      BY <1>10, <3>1, Zenon
    <3>3. f = [n \in 1 .. 1 |-> f[n]]
      BY <1>10, Zenon
    <3> QED BY <1>4, <1>9, <3>2, <3>3, Zenon
  <2>2. \A n \in 1 .. 1 : n = 1
    OBVIOUS
  <2>3. \A n \in 1 .. 1 : f[n] = Token(column, raw)
    BY <2>1, <2>2
  <2>4. [n \in 1 .. 1 |-> f[n]] = [n \in 1 .. 1 |-> Token(column, raw)]
    BY <2>3
  <2> QED BY <2>1, <2>4
<1> QED BY <1>11

\* Where runs of $and start, and what it is for all of one to hold
Starts(chain) == {i \in DOMAIN chain : i = 1 \/ chain[i].comparator = "$or"}
RunHolds(chain, rec, i) ==
  \A j \in DOMAIN chain : j >= i /\ (\A k \in Starts(chain) : i < k => j < k) => Holds(chain[j], rec)

\* A chain holds of a row if the conditions of one of its runs do.
LEMMA ChainIs ==
  \A chain, rec : ChainHolds(chain, rec) <=>
                  chain = <<>> \/ \E i \in Starts(chain) : RunHolds(chain, rec, i)
<1> SUFFICES ASSUME NEW chain, NEW rec
             PROVE  ChainHolds(chain, rec) <=>
                      chain = <<>> \/ \E i \in Starts(chain) : RunHolds(chain, rec, i)
  OBVIOUS
<1> PICK starts : starts = Starts(chain)
  OBVIOUS
<1> PICK run : run = [i \in starts |-> {j \in DOMAIN chain :
                                          j >= i /\ \A k \in starts : i < k => j < k}]
  OBVIOUS
<1>1. Runs(chain) = {run[i] : i \in starts}
  BY DEF Runs, Starts
<1>2. ChainHolds(chain, rec) <=> chain = <<>> \/ \E i \in starts : \A j \in run[i] : Holds(chain[j], rec)
  BY <1>1 DEF ChainHolds
<1>3. \A i \in starts : (\A j \in run[i] : Holds(chain[j], rec)) <=> RunHolds(chain, rec, i)
  BY DEF RunHolds
<1> QED BY <1>2, <1>3

\* A chain and one more condition.
LEMMA Longer ==
  ASSUME NEW chain, IsChain(chain), NEW t, NEW long, long = chain \o <<t>>
  PROVE  \E n \in Nat :
           /\ DOMAIN chain = 1 .. n /\ (chain = <<>> <=> n = 0)
           /\ DOMAIN long = 1 .. n + 1 /\ long # <<>> /\ long[n + 1] = t
           /\ \A i \in 1 .. n : long[i] = chain[i]
<1>1. PICK n \in Nat : chain = [i \in 1 .. n |-> chain[i]]
  BY DEF IsChain
<1>2. chain \in Seq(Range(chain) \cup {t}) /\ <<t>> \in Seq(Range(chain) \cup {t}) /\ Len(chain) = n
  <2>1. chain \in [1 .. n -> Range(chain) \cup {t}]
    BY <1>1 DEF Range
  <2> QED BY <2>1
<1> QED BY <1>2

\* One condition is a chain of one run.
LEMMA OneHolds == \A t, rec : ChainHolds(<<t>>, rec) <=> Holds(t, rec)
<1> SUFFICES ASSUME NEW t, NEW rec PROVE ChainHolds(<<t>>, rec) <=> Holds(t, rec)
  OBVIOUS
<1> PICK chain : chain = <<t>>
  OBVIOUS
<1>1. DOMAIN chain = {1} /\ chain[1] = t /\ chain # <<>>
  OBVIOUS
<1>2. Starts(chain) = {1}
  BY <1>1 DEF Starts
<1>3. RunHolds(chain, rec, 1) <=> Holds(t, rec)
  BY <1>1, <1>2 DEF RunHolds
<1> QED BY <1>1, <1>2, <1>3, ChainIs

\* A condition put last with $and only narrows.
LEMMA AndNarrows ==
  ASSUME NEW chain, IsChain(chain), NEW t, t.comparator = "$and", NEW rec,
         ChainHolds(chain \o <<t>>, rec)
  PROVE  ChainHolds(chain, rec)
<1> PICK long : long = chain \o <<t>>
  OBVIOUS
<1>1. PICK n \in Nat :
        /\ DOMAIN chain = 1 .. n /\ (chain = <<>> <=> n = 0)
        /\ DOMAIN long = 1 .. n + 1 /\ long # <<>> /\ long[n + 1] = t
        /\ \A i \in 1 .. n : long[i] = chain[i]
  BY Longer
<1> SUFFICES ASSUME n # 0 PROVE ChainHolds(chain, rec)
  BY <1>1, ChainIs
<1>2. Starts(long) = Starts(chain)
  BY <1>1 DEF Starts
<1>3. PICK i \in Starts(long) : RunHolds(long, rec, i)
  BY <1>1, ChainIs
<1>4. RunHolds(chain, rec, i)
  BY <1>1, <1>2, <1>3 DEF RunHolds
<1> QED BY <1>2, <1>4, ChainIs

\* A condition put last with $or only widens, if it is not the first.
LEMMA OrWidens ==
  ASSUME NEW chain, IsChain(chain), NEW t, t.comparator = "$or", NEW rec,
         ChainHolds(chain, rec), chain # <<>>
  PROVE  ChainHolds(chain \o <<t>>, rec)
<1> PICK long : long = chain \o <<t>>
  OBVIOUS
<1>1. PICK n \in Nat :
        /\ DOMAIN chain = 1 .. n /\ (chain = <<>> <=> n = 0)
        /\ DOMAIN long = 1 .. n + 1 /\ long # <<>> /\ long[n + 1] = t
        /\ \A i \in 1 .. n : long[i] = chain[i]
  BY Longer
<1>2. Starts(chain) \subseteq Starts(long) /\ n + 1 \in Starts(long) /\ Starts(chain) \subseteq 1 .. n
  BY <1>1 DEF Starts
<1>3. PICK i \in Starts(chain) : RunHolds(chain, rec, i)
  BY ChainIs
<1>4. ASSUME NEW j \in DOMAIN long, j >= i, \A k \in Starts(long) : i < k => j < k
      PROVE  Holds(long[j], rec)
  <2>1. j < n + 1
    BY <1>2, <1>4
  <2>2. j \in DOMAIN chain /\ long[j] = chain[j]
    BY <1>1, <2>1
  <2> QED BY <1>2, <1>3, <1>4, <2>2 DEF RunHolds
<1>5. RunHolds(long, rec, i)
  BY <1>4 DEF RunHolds
<1> QED BY <1>2, <1>5, ChainIs

\* A column and what it is compared with, the same negated, and the column null
Opposed(is, isNot, isNull) ==
  /\ is.column = isNot.column /\ is.column = isNull.column
  /\ is.operator = isNot.operator /\ is.operator # "$null" /\ isNull.operator = "$null"
  /\ is.value = isNot.value
  /\ is.negated \in BOOLEAN /\ isNot.negated \in BOOLEAN /\ isNull.negated \in BOOLEAN
  /\ ~is.negated /\ isNot.negated /\ ~isNull.negated

\* Where there is no value neither holds, where there is one exactly one does.
LEMMA NotNegates ==
  ASSUME NEW is, NEW isNot, NEW isNull, NEW rec, Opposed(is, isNot, isNull)
  PROVE  /\ ~(Holds(is, rec) /\ Holds(isNot, rec))
         /\ Holds(is, rec) \/ Holds(isNot, rec) <=> ~Holds(isNull, rec)
<1> PICK x : x = rec[is.column]
  OBVIOUS
<1> PICK c \in BOOLEAN : c <=> Compare(is.operator, x, is.value)
  OBVIOUS
<1>1. Compare(is.operator, x, is.value) \in BOOLEAN
  BY DEF Compare
<1>2. Holds(is, rec) <=> x # Null /\ c
  BY <1>1 DEF Holds, Opposed
<1>3. Holds(isNot, rec) <=> x # Null /\ ~c
  BY <1>1 DEF Holds, Opposed
<1>4. Holds(isNull, rec) <=> x = Null
  BY DEF Holds, Opposed
<1> QED BY <1>2, <1>3, <1>4

\* What is read in a statement
Reads(token, column, words, value) ==
  /\ token.column = column /\ token.value = value
  /\ token.comparator = LastOf(words, Comparators, "$and")
  /\ token.operator = LastOf(words, Operators, "$eq")
  /\ token.negated \in BOOLEAN /\ (token.negated <=> "$not" \in Range(words))

\* It is what getFilterTokens makes of it.
LEMMA TokenIs ==
  ASSUME NEW column, NEW words, NEW value, NEW token,
         token = Token(column, [words |-> words, value |-> value])
  PROVE  Reads(token, column, words, value)
<1> PICK raw : raw = [words |-> words, value |-> value]
  OBVIOUS
<1> PICK negated \in BOOLEAN : negated <=> ("$not" \in Range(words))
  OBVIOUS
<1>0. negated = ("$not" \in Range(words))
  OBVIOUS
<1> PICK comparator, operator :
      /\ comparator = LastOf(words, Comparators, "$and")
      /\ operator = LastOf(words, Operators, "$eq")
  OBVIOUS
<1>1. raw.words = words /\ raw.value = value
  OBVIOUS
<1>2. token = [column |-> column, comparator |-> comparator, negated |-> negated,
               operator |-> operator, value |-> value]
  BY <1>1, Zenon DEF Token
<1>3. token.negated = negated
  BY <1>2
<1>4. token.negated \in BOOLEAN /\ (token.negated <=> "$not" \in Range(words))
  BY <1>0, <1>3, Zenon
<1> QED BY <1>2, <1>4 DEF Reads

\* Of a filter that can be parsed, with statements that are no null.
LEMMA FilterHasLaws ==
  ASSUME NEW filter, filter \in Seq(Range(filter)),
         \A entry \in Range(filter) : entry.input.statements \in Seq(Range(entry.input.statements)),
         NEW column, NEW values, Null \notin [words : Seq(Words), value : values \cup {Null}],
         NEW rows
  PROVE  FilterLaws(filter, column, values, rows)
<1> PICK chain : chain = Conditions(filter)
  OBVIOUS
<1>1. IsChain(chain)
  BY FilterIsChain
<1>2. ASSUME NEW operator \in Comparing, NEW v \in values, NEW rec \in rows
      PROVE  LET is == Conditions(One(column, <<operator>>, v))
                 isNot == Conditions(One(column, <<"$not", operator>>, v))
                 orIs == Conditions(One(column, <<"$or", operator>>, v))
                 isNull == Conditions(One(column, <<"$null">>, Null))
             IN /\ ~(ChainHolds(is, rec) /\ ChainHolds(isNot, rec))
                /\ (ChainHolds(is, rec) \/ ChainHolds(isNot, rec)) <=> ~ChainHolds(isNull, rec)
                /\ ChainHolds(chain \o is, rec) => ChainHolds(chain, rec)
                /\ ChainHolds(chain, rec) /\ chain # <<>> => ChainHolds(chain \o orIs, rec)
  <2>1. /\ operator \in Words /\ operator \in Operators /\ operator \notin Comparators
        /\ operator # "$not" /\ operator # "$null"
    <3>1. operator \in Operators
      BY DEF Operators
    <3>2. operator \in Words
      BY <3>1 DEF Words
    <3>3. operator \notin Comparators
      BY DEF Comparing, Comparators
    <3>4. operator # "$not" /\ operator # "$null"
      BY DEF Comparing
    <3> QED BY <3>1, <3>2, <3>3, <3>4
  <2>2. /\ {"$not", "$null"} \cap Comparators = {} /\ "$or" \in Comparators
        /\ {"$not", "$or"} \cap Operators = {} /\ "$null" \in Operators
    BY DEF Comparing, Containing, Operators, Comparators
  <2> PICK isW, notW, orW, nullW :
        /\ isW = <<operator>> /\ notW = <<"$not", operator>> /\ orW = <<"$or", operator>>
        /\ nullW = <<"$null">>
    OBVIOUS
  <2>3. /\ isW \in Seq(Words) /\ DOMAIN isW = {1} /\ isW[1] = operator
        /\ nullW \in Seq(Words) /\ DOMAIN nullW = {1} /\ nullW[1] = "$null"
        /\ notW \in Seq(Words) /\ DOMAIN notW = {1, 2} /\ notW[1] = "$not" /\ notW[2] = operator
        /\ orW \in Seq(Words) /\ DOMAIN orW = {1, 2} /\ orW[1] = "$or" /\ orW[2] = operator
    <3>1. \A a \in Words : <<a>> \in Seq(Words) /\ DOMAIN <<a>> = {1} /\ <<a>>[1] = a
      OBVIOUS
    <3>2. \A a, b \in Words : /\ <<a, b>> \in Seq(Words) /\ DOMAIN <<a, b>> = {1, 2}
                              /\ <<a, b>>[1] = a /\ <<a, b>>[2] = b
      OBVIOUS
    <3>3. {"$not", "$or", "$null"} \subseteq Words
      BY DEF Words, Operators, Comparators
    <3> QED BY <2>1, <3>1, <3>2, <3>3
  <2>4. /\ LastOf(isW, Comparators, "$and") = "$and" /\ LastOf(isW, Operators, "$eq") = operator
        /\ "$not" \notin Range(isW)
    BY <2>1, <2>3, LastOfNone, LastOfOne DEF Range
  <2>5. /\ LastOf(nullW, Operators, "$eq") = "$null" /\ "$not" \notin Range(nullW)
    BY <2>2, <2>3, LastOfOne DEF Range
  <2>6. /\ LastOf(notW, Operators, "$eq") = operator /\ "$not" \in Range(notW)
    BY <2>1, <2>2, <2>3, LastOfOne DEF Range
  <2>7. LastOf(orW, Comparators, "$and") = "$or"
    BY <2>1, <2>2, <2>3, LastOfOne
  <2> PICK is, isNot, orIs, isNull :
        /\ is = Token(column, [words |-> isW, value |-> v])
        /\ isNot = Token(column, [words |-> notW, value |-> v])
        /\ orIs = Token(column, [words |-> orW, value |-> v])
        /\ isNull = Token(column, [words |-> nullW, value |-> Null])
    OBVIOUS
  <2>8. /\ Conditions(One(column, isW, v)) = <<is>>
        /\ Conditions(One(column, notW, v)) = <<isNot>>
        /\ Conditions(One(column, orW, v)) = <<orIs>>
        /\ Conditions(One(column, nullW, Null)) = <<isNull>>
    <3>1. \A words \in Seq(Words), value \in values \cup {Null} : [words |-> words, value |-> value] # Null
      OBVIOUS
    <3>2. ASSUME NEW words \in Seq(Words), NEW value \in values \cup {Null}
          PROVE  Conditions(One(column, words, value)) = <<Token(column, [words |-> words, value |-> value])>>
      BY <3>1, OneIsToken
    <3> QED BY <2>3, <3>2
  <2>9. /\ is.column = column /\ is.comparator = "$and" /\ is.negated \in BOOLEAN /\ ~is.negated
        /\ is.operator = operator /\ is.value = v
    <3>1. Reads(is, column, isW, v)
      BY TokenIs
    <3> QED BY <2>4, <3>1 DEF Reads
  <2>10. /\ isNot.column = column /\ isNot.negated \in BOOLEAN /\ isNot.negated /\ isNot.operator = operator
         /\ isNot.value = v
    <3>1. Reads(isNot, column, notW, v)
      BY TokenIs
    <3> QED BY <2>6, <3>1 DEF Reads
  <2>11. orIs.comparator = "$or"
    <3>1. Reads(orIs, column, orW, v)
      BY TokenIs
    <3> QED BY <2>7, <3>1 DEF Reads
  <2>12. isNull.column = column /\ isNull.negated \in BOOLEAN /\ ~isNull.negated /\ isNull.operator = "$null"
    <3>1. Reads(isNull, column, nullW, Null)
      BY TokenIs
    <3> QED BY <2>5, <3>1 DEF Reads
  <2>13. /\ ~(Holds(is, rec) /\ Holds(isNot, rec))
         /\ Holds(is, rec) \/ Holds(isNot, rec) <=> ~Holds(isNull, rec)
    <3>1. Opposed(is, isNot, isNull)
      BY <2>1, <2>9, <2>10, <2>12 DEF Opposed
    <3> QED BY <3>1, NotNegates
  <2>14. ChainHolds(chain \o <<is>>, rec) => ChainHolds(chain, rec)
    BY <1>1, <2>9, AndNarrows
  <2>15. ChainHolds(chain, rec) /\ chain # <<>> => ChainHolds(chain \o <<orIs>>, rec)
    BY <1>1, <2>11, OrWidens
  <2>16. /\ ChainHolds(<<is>>, rec) <=> Holds(is, rec)
         /\ ChainHolds(<<isNot>>, rec) <=> Holds(isNot, rec)
         /\ ChainHolds(<<isNull>>, rec) <=> Holds(isNull, rec)
    BY OneHolds
  <2> QED BY <2>8, <2>13, <2>14, <2>15, <2>16
<1> QED BY <1>2 DEF FilterLaws
-----------------------------------------------------------------------------
(* The theorems about lists *)

\* The client has nothing yet, and has read no page.
LEMMA ListingStarts == ListingInit => ListingInv
<1> SUFFICES ASSUME ListingInit PROVE ListingInv
  OBVIOUS
<1>1. PICK list \in Lists, query \in Queries :
        reader = [list |-> list, query |-> query, pc |-> "ask", page |-> FirstPage(query),
                  items |-> <<>>]
  BY DEF ListingInit
<1> PICK page : page = FirstPage(query)
  OBVIOUS
<1>2. page \in Nat \ {0} /\ Limit(query) \in Nat \ {0}
  BY FirstPageIsPositive, LimitIsPositive
<1>3. now \in Nat /\ TableOK(row, now)
  BY ListingAssumption, FS_CardinalityType DEF ListingInit
<1>4. /\ reader \in Reader /\ reader.items = <<>> /\ reader.pc = "ask" /\ reader.list = list
      /\ reader.query = query /\ reader.page = page
  BY <1>1, <1>2 DEF Reader
<1>5. ReaderOK
  BY <1>2, <1>4 DEF ReaderOK, ListingInit
<1>6. Got = {} /\ Range(seen) = {} /\ DOMAIN seen = {}
  BY <1>4 DEF Got, Range, ListingInit
<1>7. GotIsAbove
  BY <1>6 DEF GotIsAbove
<1>8. ASSUME FirstPage(reader.query) = 1, NEW i \in InList
      PROVE  ~(Place(i) < Reached)
  <2>1. IsFiniteSet(InList)
    BY <1>3, <1>4, TablesAreKeyed DEF InList, Listed
  <2>2. Place(i) \in Nat
    BY <2>1, FS_Subset, FS_CardinalityType DEF Place, Rank, Ahead
  <2>3. page = 1
    BY <1>4, <1>8
  <2>4. Reached = (1 - 1) * Limit(query)
    BY <1>4, <2>3 DEF Reached
  <2>5. \A l \in Nat : (1 - 1) * l = 0
    OBVIOUS
  <2> QED BY <1>2, <2>2, <2>4, <2>5
<1>9. AboveIsGot
  BY <1>8 DEF AboveIsGot, MovesDown
<1>10. touched \subseteq RowIds /\ seen \in Seq(RowIds) /\ left \in BOOLEAN /\ joined \in BOOLEAN
  <2>1. touched = {} /\ seen = <<>> /\ left = FALSE /\ joined = FALSE
    BY Zenon DEF ListingInit
  <2>2. left \in BOOLEAN /\ joined \in BOOLEAN
    BY <2>1, Zenon
  <2> QED BY <2>1, <2>2
<1> QED BY <1>3, <1>5, <1>7, <1>9, <1>10 DEF ListingInv

\* It stays so.
LEMMA ListingStep == ListingInv /\ [ListingNext]_listing_vars => ListingInv'
<1> SUFFICES ASSUME ListingInv, [ListingNext]_listing_vars PROVE ListingInv'
  OBVIOUS
<1>1. CASE ListingNext
  BY <1>1, SelectPageStep, SelectRowsStep, CountStep, WriteStep DEF ListingNext
<1>2. CASE UNCHANGED listing_vars
  <2>1. UNCHANGED <<row, now, reader, seen, touched, left, joined>>
    BY <1>2 DEF listing_vars
  <2>2. ReaderOK' /\ (AboveIsGot' <=> AboveIsGot) /\ (GotIsAbove' <=> GotIsAbove)
    BY <2>1 DEF ListingInv, ReaderOK, AboveIsGot, GotIsAbove, MovesDown, MovesUp, Order, InList,
                Place, Reached, Got
  <2> QED BY <2>1, <2>2 DEF ListingInv
<1> QED BY <1>1, <1>2

\* Either side takes its own steps.
LEMMA ApiIsBoth ==
  ApiSpec => /\ PipelineSpec
             /\ ListingInit /\ [][ListingNext]_listing_vars
<1>1. ApiInit => PipelineInit /\ ListingInit
  BY DEF ApiInit
<1>2. [ApiNext]_api_vars => [PipelineNext]_pipeline_vars /\ [ListingNext]_listing_vars
  BY DEF ApiNext, api_vars
<1> QED BY <1>1, <1>2, PTL DEF ApiSpec, PipelineSpec

\* All of it is always true.
LEMMA ListingHolds == ApiSpec => []ListingInv
BY ListingStarts, ListingStep, ApiIsBoth, PTL

\* Requests, accounts and tokens, and the table, the client and what it has
\* read, are what they should be; no page is longer than its limit.
THEOREM ApiIsTyped == ApiSpec => []ApiType
<1>1. PipelineInv => PipelineType
  BY DEF PipelineInv, PipelineType, TablesOK, Way, WayOK, RouteOf
<1>2. ListingInv => ListingType
  <2>1. \A s \in Seq(RowIds) : Range(s) \subseteq RowIds
    BY DEF Range
  <2> QED BY <2>1 DEF ListingInv, ReaderOK, Reader, ListingType
<1> QED BY <1>1, <1>2, PipelineHolds, ListingHolds, ApiIsBoth, PTL DEF ApiType

\* Lists by id and lists by the latest change: as long as no row leaves the
\* list, whoever turns all pages from the first has seen every row that was
\* not changed - whatever rows come, and are changed, between two statements
\* (paginate).
THEOREM ListsMissNothing == ApiSpec => []NothingMissed
<1>1. ListingInv => NothingMissed
  <2> SUFFICES ASSUME ListingInv, reader.pc = "done", MovesDown, NEW i \in InList \ touched
               PROVE  i \in Range(seen)
    BY DEF NothingMissed, MovesDown, InList
  <2>1. ReaderOK /\ AboveIsGot /\ TableOK(row, now) /\ now \in Nat
    BY DEF ListingInv, ReaderOK
  <2>2. reader.list \in Lists /\ reader.page \in Nat \ {0} /\ Limit(reader.query) \in Nat \ {0}
    BY <2>1, LimitIsPositive DEF ReaderOK, Reader
  <2>3. IsFiniteSet(InList) /\ Keyed(reader.list, InList, row)
    BY <2>1, <2>2, TablesAreKeyed DEF InList, Listed
  <2>4. Ranked(reader.list, reader.query, InList, row)
    BY <2>3, RanksCount
  <2>5. Cardinality(InList) \in Nat /\ Cardinality(InList) <= Reached
    BY <2>1, <2>3, FS_CardinalityType DEF ReaderOK
  <2>6. Place(i) \in 0 .. Cardinality(InList) - 1
    BY <2>4 DEF Ranked, Place
  <2>7. Reached \in Nat
    <3>1. \A k, l \in Nat : k * l \in Nat
      OBVIOUS
    <3> QED BY <2>2, <3>1 DEF Reached
  <2>8. Place(i) < Reached
    BY <2>5, <2>6, <2>7
  <2>9. Range(reader.items) = {}
    BY <2>1 DEF ReaderOK, Range
  <2> QED BY <2>1, <2>8, <2>9 DEF AboveIsGot, Got
<1> QED BY <1>1, ListingHolds, PTL

\* Lists by the earliest change, and by id if no row joins the list: no row
\* that was not changed is on two pages, or twice on one (paginate).
THEOREM ListsRepeatNothing == ApiSpec => []NothingRepeated
<1>1. ListingInv => NothingRepeated
  <2> SUFFICES ASSUME ListingInv, MovesUp, NEW m \in DOMAIN seen, NEW n \in DOMAIN seen,
                      seen[m] = seen[n], m # n
               PROVE  seen[m] \in touched
    BY DEF NothingRepeated, MovesUp
  <2>1. CASE Unanswerable(reader.list, reader.query)
    BY <2>1 DEF ListingInv, ReaderOK
  <2>2. CASE ~Unanswerable(reader.list, reader.query)
    BY <2>2 DEF ListingInv, GotIsAbove
  <2> QED BY <2>1, <2>2
<1> QED BY <1>1, ListingHolds, PTL

\* Whatever the filter and the search say, a list that is restricted to active
\* rows or to a role shows no others, neither when the ids of a page are read
\* nor when its rows are (paginate).
THEOREM ListsShowTheirOwn == ApiSpec => OwnRowsOnly
<1>1. ListingInv /\ [ListingNext]_listing_vars =>
        [reader.list.where =>
           \A i \in Range(reader'.items) \ Range(reader.items) : row[i].shown]_listing_vars
  <2> SUFFICES ASSUME ListingInv, ListingNext, reader.list.where,
                      NEW i \in Range(reader'.items) \ Range(reader.items)
               PROVE  row[i].shown
    OBVIOUS
  <2>0. /\ reader.list \in Lists /\ reader.query \in Queries /\ reader.page \in Nat \ {0}
        /\ TableOK(row, now) /\ now \in Nat /\ reader \in Reader
    BY DEF ListingInv, ReaderOK, Reader
  <2>1. CASE SelectPage
    <3> PICK items, ids : /\ items = Page(reader.list, reader.query, reader.page, row)
                          /\ ids = InList
      OBVIOUS
    <3>1. reader'.items = items
      BY <2>0, <2>1 DEF SelectPage, Reader
    <3>2. IsFiniteSet(ids) /\ Keyed(reader.list, ids, row)
      BY <2>0, TablesAreKeyed DEF InList, Listed
    <3>3. Fills(items, reader.list, reader.query, ids, row, reader.page)
      BY <2>0, <3>2, PageLists DEF InList
    <3>4. i \in ids
      BY <3>1, <3>3 DEF Fills, Range
    <3> QED BY <3>4 DEF InList, Listed, Where
  <2>2. CASE SelectRows
    <3> PICK items, ids :
          /\ ids = Range(reader.items) \cap Listed(reader.list, reader.query, row)
          /\ items = Sorted(reader.list, reader.query, ids, row)
      OBVIOUS
    <3>1. reader'.items = items
      BY <2>0, <2>2 DEF SelectRows, Reader
    <3>2. IsFiniteSet(ids) /\ Keyed(reader.list, ids, row)
      <4>1. ids \subseteq DOMAIN row
        BY DEF Listed
      <4> QED BY <2>0, <4>1, TablesAreKeyed
    <3>3. Orders(items, reader.list, reader.query, ids, row)
      BY <3>2, SortedLists
    <3> QED BY <3>1, <3>3 DEF Orders, Range
  <2>3. CASE Count
    <3>1. reader'.items = <<>>
      BY <2>0, <2>3 DEF Count, Reader
    <3> QED BY <3>1 DEF Range
  <2>4. CASE AddRow \/ UpdateRow \/ RemoveRow
    BY <2>4 DEF AddRow, UpdateRow, RemoveRow, Rewrite
  <2> QED BY <2>1, <2>2, <2>3, <2>4 DEF ListingNext
<1> QED BY <1>1, ListingHolds, ApiIsBoth, PTL DEF OwnRowsOnly

\* Every filter that can be parsed has the laws a client relies on: what is put
\* last with $and narrows, with $or widens, and no row is picked by a statement
\* and its negation, nor by neither unless the column is null (parseFilter,
\* addWhereCondition).
THEOREM FiltersAreSound == ApiSpec => []FilterSound
<1>1. ListingInv => FilterSound
  <2> SUFFICES ASSUME ListingInv, reader.query.filter # Malformed
               PROVE  FilterLaws(reader.query.filter, "name", RowNames, [name : RowNames \cup {Null}])
    BY DEF FilterSound
  <2>1. FilterOK(reader.query.filter)
    BY ListingAssumption DEF ListingInv, ReaderOK, Reader, QueryOK
  <2>2. Null \notin [words : Seq(Words), value : RowNames \cup {Null}]
    BY ListingAssumption
  <2> QED BY <2>1, <2>2, FilterHasLaws DEF FilterOK
<1> QED BY <1>1, ListingHolds, PTL
=============================================================================
