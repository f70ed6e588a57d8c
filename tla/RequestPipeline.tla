---------------------------- MODULE RequestPipeline ----------------------------
(***************************************************************************)
(* The way of a request: guards, validation, handler, and what answers it - *)
(* the response interceptor, the exception filter or the handler itself -   *)
(* while accounts are changed by other requests.                            *)
(*                                                                         *)
(* A token names a user and nothing else; who the user is by now is read    *)
(* from the table, by some guards twice.                                    *)
(***************************************************************************)
EXTENDS Integers

CONSTANTS
  Clients,     \* requests in progress
  People,      \* users there may be
  Staff,       \* those of them that are there from the start: their roles
  StaffRoles,  \* roles cmsUpdateUser gives
  Nobody,      \* no user: no token, or one that is not valid (any more)
  MaxChanges   \* bound: changes of accounts

Roles == {"User", "Admin", "Accountant", "Receptionist"}

ASSUME PipelineAssumption ==
  /\ DOMAIN Staff \subseteq People /\ Nobody \notin People /\ MaxChanges \in Nat
  /\ StaffRoles \subseteq Roles /\ \A u \in DOMAIN Staff : Staff[u] \in Roles

VARIABLES
  account,  \* table user: role and active
  tokens,   \* whose tokens are out
  request,  \* the requests
  changes   \* how often an account was changed

pipeline_vars == <<account, tokens, request, changes>>
-----------------------------------------------------------------------------
(* The controllers.  A route is public or needs a token, asks for roles or   *)
(* none, its controller may add a guard; its payload is a validated class    *)
(* ("dto") or not; its handler returns, or sends the answer itself.          *)

Books == {"Admin", "Accountant"}
R(names, public, roles, guard, dto, sends) ==
  [name : names, public : {public}, roles : {roles}, guard : {guard}, dto : {dto}, sends : {sends}]

AuthRoutes ==
  R({"login", "register"}, TRUE, {}, "none", TRUE, FALSE)
    \cup R({"forgotPassword"}, TRUE, {}, "none", FALSE, FALSE)
    \cup R({"getMe"}, FALSE, {}, "none", FALSE, FALSE)
UserRoutes ==
  R({"getAllUser"}, FALSE, {"Admin"}, "jwt", TRUE, FALSE)
    \cup R({"cmsCreateUser", "activeUser", "updateUser", "updateCms"}, FALSE, {}, "jwt", TRUE, FALSE)
    \cup R({"uploadAvatar"}, FALSE, {}, "jwt", FALSE, FALSE)
RoomRoutes ==
  R({"findRoom", "findFeatureRoom", "findTypeRoom"}, TRUE, {}, "none", TRUE, FALSE)
    \cup R({"findOneTypeRoom"}, TRUE, {}, "none", FALSE, FALSE)
    \cup R({"createRoom", "updateRoom", "createTypeRoom", "updateTypeRoom", "addRoomName"},
         FALSE, {}, "none", TRUE, FALSE)
    \cup R({"findWithRelation", "removeTypeRoom"}, FALSE, {}, "none", FALSE, FALSE)
BookingRoutes ==
  R({"create", "adminCreate", "findBookings"}, FALSE, {}, "none", TRUE, FALSE)
    \cup R({"checkRoomExits"}, TRUE, {}, "none", TRUE, FALSE)
    \cup R({"findBooking", "addService", "checkin", "checkout", "cancel", "removeBooking"},
         FALSE, {}, "none", FALSE, FALSE)
    \cup R({"export"}, FALSE, {}, "none", FALSE, TRUE)
    \cup R({"ipn-vnpay"}, TRUE, {}, "none", FALSE, TRUE)
PromotionRoutes ==
  R({"findPromotionsForUser"}, TRUE, {}, "anonymous", TRUE, FALSE)
    \cup R({"getPromotion", "findPromotion"}, TRUE, {}, "anonymous", FALSE, FALSE)
    \cup R({"createPromotion", "findPromotions", "updatePromotion", "activePromotion"},
         FALSE, {}, "anonymous", TRUE, FALSE)
    \cup R({"removePromotion"}, FALSE, {}, "anonymous", FALSE, FALSE)
ServicesRoutes ==
  R({"findServicesForUser"}, TRUE, {}, "anonymous", TRUE, FALSE)
    \cup R({"createService", "findServices", "updateService", "activeService"},
         FALSE, {}, "anonymous", TRUE, FALSE)
    \cup R({"findService", "removeService"}, FALSE, {}, "anonymous", FALSE, FALSE)
CustomerRoutes ==
  R({"findCustomers"}, TRUE, {}, "none", TRUE, FALSE)
    \cup R({"updateCustomer"}, FALSE, {}, "none", TRUE, FALSE)
    \cup R({"findEmail", "findCustomer"}, FALSE, {}, "none", FALSE, FALSE)
BillRoutes ==
  R({"serviceStats", "roomStats", "revenueBookingStats"}, FALSE, Books, "roles", TRUE, FALSE)
    \cup R({"revenue"}, FALSE, Books, "roles", FALSE, FALSE)
    \cup R({"exportRoom", "exportService"}, FALSE, Books, "roles", TRUE, TRUE)
    \cup R({"exportRevenue"}, FALSE, Books, "roles", FALSE, TRUE)
    \cup R({"exportExcel"}, FALSE, {}, "roles", TRUE, TRUE)

Routes == AuthRoutes \cup UserRoutes \cup RoomRoutes \cup BookingRoutes \cup PromotionRoutes
            \cup ServicesRoutes \cup CustomerRoutes \cup BillRoutes
-----------------------------------------------------------------------------
Account == [role : Roles, active : BOOLEAN]
Stages == {"jwt", "roles", "class", "pipe", "handle", "sign", "returned", "thrown", "answered"}
\* "Wordless" is a BadExcetion that passes on the message of an error without one
Exceptions == {"Unauthorized", "Forbidden", "Validation", "BadExcetion", "Wordless", "BadRequest", "Unknown"}
None == [pc |-> "idle"]
RouteOf(t) == request[t].route

PipelineType ==
  /\ DOMAIN Staff \subseteq DOMAIN account /\ \A u \in DOMAIN account : account[u] \in Account
  /\ tokens \subseteq DOMAIN account /\ changes \in 0 .. MaxChanges
  /\ \A t \in Clients : request[t] # None =>
       /\ request[t].pc \in Stages /\ RouteOf(t) \in Routes
       /\ request[t].bearer \in tokens \cup {Nobody} /\ request[t].user \in Account \cup {Nobody}
       /\ request[t].thrown \in Exceptions \cup {"none"}
       /\ request[t].pc = "thrown" <=> request[t].thrown # "none" /\ request[t].pc # "answered"

PipelineInit ==
  /\ account = [u \in DOMAIN Staff |-> [role |-> Staff[u], active |-> TRUE]]
  /\ tokens = {} /\ request = [t \in Clients |-> None] /\ changes = 0

\* The HTTP status and, of the body, success and statusCode
Answer(http, success, statusCode) == [http |-> http, success |-> success, statusCode |-> statusCode]

Become(t, q) == request' = [request EXCEPT ![t] = q]
At(t, pc) == request[t].pc = pc
Goes(t, pc) == Become(t, [request[t] EXCEPT !.pc = pc])
Throws(t, exception) == Become(t, [request[t] EXCEPT !.pc = "thrown", !.thrown = exception])

\* "who" is the user a login is about; "held" is what the user of the request
\* has been since it came
Arrive(t) ==
  /\ request[t] = None
  /\ \E route \in Routes, bearer \in tokens \cup {Nobody}, who \in DOMAIN account :
       /\ route.name # "login" => who = CHOOSE u \in DOMAIN account : TRUE
       /\ route.name = "login" => bearer = Nobody
       /\ LET about == IF route.name = "login" THEN who ELSE bearer IN
          Become(t, [pc |-> "jwt", route |-> route, bearer |-> bearer, who |-> about,
                     user |-> Nobody, thrown |-> "none", answer |-> Answer(0, FALSE, 0),
                     held |-> IF about = Nobody THEN {} ELSE {account[about]}])
  /\ UNCHANGED <<account, tokens, changes>>

\* JwtStrategy.validate: the user as the table has it; active is not asked
Validated(t, pc) == Become(t, [request[t] EXCEPT !.user = account[request[t].bearer], !.pc = pc])

\* JwtAuthGuard, the first guard of every route; the user may not be readable
Authenticate(t) ==
  /\ At(t, "jwt")
  /\ IF RouteOf(t).public THEN Goes(t, "roles")
     ELSE IF request[t].bearer = Nobody THEN Throws(t, "Unauthorized")
     ELSE Validated(t, "roles") \/ Throws(t, "Unknown")
  /\ UNCHANGED <<account, tokens, changes>>

\* Mutant: whoever works here
MayMutant(user, roles) == roles = {} \/ user.role # "User"
\* RolesGuard
May(user, roles) == roles = {} \/ user.role \in roles

CheckRoles(t) ==
  /\ At(t, "roles")
  /\ IF May(request[t].user, RouteOf(t).roles) THEN Goes(t, "class") ELSE Throws(t, "Forbidden")
  /\ UNCHANGED <<account, tokens, changes>>

\* The guard of the controller: JwtAnonymousGuard lets those without a token
\* pass, JwtAuthGuard reads the user again, RolesGuard asks the same again
CheckClass(t) ==
  /\ At(t, "class")
  /\ LET route == RouteOf(t) IN
     IF route.guard = "roles" /\ ~May(request[t].user, route.roles) THEN Throws(t, "Forbidden")
     ELSE IF route.guard \in {"jwt", "anonymous"} /\ request[t].bearer # Nobody
          THEN Validated(t, "pipe") \/ Throws(t, "Unknown")
     ELSE Goes(t, "pipe")
  /\ UNCHANGED <<account, tokens, changes>>

\* ValidationPipe
Pipe(t) ==
  /\ At(t, "pipe")
  /\ \/ Goes(t, "handle")
     \/ RouteOf(t).dto /\ Throws(t, "Validation")
  /\ UNCHANGED <<account, tokens, changes>>

\* Their handlers catch whatever fails and refuse with its message
Rethrowing == {"create", "adminCreate", "addRoomName"}

\* The handler of a route: it returns, refuses or fails; the exports turn
\* whatever went wrong into one refusal.  register adds a user.
Handle(t) ==
  /\ At(t, "handle") /\ RouteOf(t).name # "login"
  /\ \/ /\ Goes(t, "returned")
        /\ IF RouteOf(t).name # "register" THEN UNCHANGED <<account, tokens>>
           ELSE \E u \in People \ DOMAIN account :
                  /\ account' = [v \in DOMAIN account \cup {u} |->
                                 IF v = u THEN [role |-> "User", active |-> TRUE] ELSE account[v]]
                  /\ tokens' = tokens \cup {u}
     \/ /\ IF RouteOf(t).sends /\ RouteOf(t).name # "ipn-vnpay" THEN Throws(t, "BadRequest")
           ELSE \E exception \in {"BadExcetion", "Wordless", "Unknown"} :
                  (exception = "Wordless" => RouteOf(t).name \in Rethrowing) /\ Throws(t, exception)
        /\ UNCHANGED <<account, tokens>>
  /\ UNCHANGED changes

\* login: the user is read ...
FindUser(t) ==
  /\ At(t, "handle") /\ RouteOf(t).name = "login"
  /\ \/ Become(t, [request[t] EXCEPT !.user = account[request[t].who], !.pc = "sign"])
     \/ Throws(t, "Unknown")
  /\ UNCHANGED <<account, tokens, changes>>

MayLogin(user) == user.role = "User" \/ user.active

\* ... and refused if the password is wrong or the account locked
Login(t) ==
  /\ At(t, "sign")
  /\ \/ /\ MayLogin(request[t].user) /\ Goes(t, "returned")
        /\ tokens' = tokens \cup {request[t].who}
     \/ Throws(t, "BadExcetion") /\ UNCHANGED tokens
  /\ UNCHANGED <<account, changes>>
-----------------------------------------------------------------------------
(* Answers *)

StatusOf(exception) ==
  CASE exception = "Unauthorized" -> 401
    [] exception = "Forbidden" -> 403
    [] exception \in {"Validation", "BadRequest"} -> 400
    [] exception \in {"BadExcetion", "Wordless"} -> 202
    [] exception = "Unknown" -> 500

\* Mutant: every exception carries the default payload
SucceedsMutant(errorCode, message) == errorCode = "000000"
\* BaseException: an exception without code and message would be a success
Succeeds(errorCode, message) == errorCode = "000000" /\ message = ""

\* The payload each is thrown with: most have no code, and a message unless the
\* error they pass on has none
PayloadOf(exception) ==
  CASE exception = "Validation" -> [errorCode |-> "010009", message |-> "text"]
    [] exception = "Unknown" -> [errorCode |-> "990001", message |-> ""]
    [] exception = "Forbidden" -> [errorCode |-> "999999", message |-> "text"]
    [] exception = "Wordless" -> [errorCode |-> "000000", message |-> ""]
    [] OTHER -> [errorCode |-> "000000", message |-> "text"]

\* HttpExceptionFilter: Nest's own exceptions and unknown ones are given a
\* payload, and the unknown ones keep its default statusCode
FilterAnswer(exception) ==
  LET payload == PayloadOf(exception)
  IN Answer(StatusOf(exception), Succeeds(payload.errorCode, payload.message),
            IF exception = "Unknown" THEN 200 ELSE StatusOf(exception))

Posts ==
  {"login", "register", "forgotPassword", "cmsCreateUser", "createTypeRoom", "create", "adminCreate",
   "checkRoomExits", "createPromotion", "createService", "findEmail"}
\* ResponseTransformInterceptor; a file or a redirection is a success too
InterceptorAnswer(route) == Answer(IF route.name \in Posts THEN 201 ELSE 200, TRUE, 200)

AnsweredBy(t, answer) == Become(t, [request[t] EXCEPT !.pc = "answered", !.answer = answer])
\* Mutant: handlers that answer themselves are left to see to errors as well
RespondMutant(t) ==
  /\ \/ At(t, "returned") /\ AnsweredBy(t, InterceptorAnswer(RouteOf(t)))
     \/ At(t, "thrown") /\ ~RouteOf(t).sends /\ AnsweredBy(t, FilterAnswer(request[t].thrown))
  /\ UNCHANGED <<account, tokens, changes>>
Respond(t) ==
  /\ \/ At(t, "returned") /\ AnsweredBy(t, InterceptorAnswer(RouteOf(t)))
     \/ At(t, "thrown") /\ AnsweredBy(t, FilterAnswer(request[t].thrown))
  /\ UNCHANGED <<account, tokens, changes>>

Leave(t) == At(t, "answered") /\ Become(t, None) /\ UNCHANGED <<account, tokens, changes>>
-----------------------------------------------------------------------------
\* cmsUpdateUser and active, of requests that are not followed
ChangeAccount(u, new) ==
  /\ changes < MaxChanges /\ changes' = changes + 1
  /\ account[u] # new /\ account' = [account EXCEPT ![u] = new]
  /\ request' = [t \in Clients |->
       IF request[t] # None /\ request[t].who = u THEN [request[t] EXCEPT !.held = @ \cup {new}]
       ELSE request[t]]
  /\ UNCHANGED tokens

Step(t) == Authenticate(t) \/ CheckRoles(t) \/ CheckClass(t) \/ Pipe(t) \/ Handle(t)
             \/ FindUser(t) \/ Login(t) \/ Respond(t)
PipelineNext ==
  \/ \E t \in Clients : Arrive(t) \/ Step(t) \/ Leave(t)
  \/ \E u \in DOMAIN account :
       \/ \E role \in StaffRoles : ChangeAccount(u, [account[u] EXCEPT !.role = role])
       \/ \E active \in BOOLEAN : ChangeAccount(u, [account[u] EXCEPT !.active = active])

PipelineSpec == PipelineInit /\ [][PipelineNext]_pipeline_vars
-----------------------------------------------------------------------------
\* Neither success nor statusCode tells alone what became of a request: an error
\* passed on without a message is called a success, under its own statusCode, and
\* one nobody foresaw has the statusCode of a success.  The two together do:
\* success and 200 mean that the handler came to its end.  No other failure is
\* called a success, and that one only by the handlers that pass errors on.
AnswersTruthful ==
  \A t \in Clients : request[t].pc = "answered" =>
    LET answer == request[t].answer IN
    /\ request[t].thrown = "none" <=> answer.success /\ answer.statusCode = 200
    /\ answer.success /\ request[t].thrown # "none" =>
         /\ request[t].thrown = "Wordless" /\ RouteOf(t).name \in Rethrowing
         /\ answer.statusCode = 202 /\ answer.http = 202
    /\ ~answer.success => (answer.statusCode = answer.http <=> request[t].thrown # "Unknown")

\* A handler of a route for some roles starts only for a user who had one of
\* them while the request was under way, whatever the role was when the token
\* was given; and staff get a token only if they were not locked all the time
\* their login took.
AccessAsHeld ==
  [][\A t \in Clients :
       /\ request'[t].pc = "handle" /\ request[t].pc # "handle" /\ RouteOf(t).roles # {} =>
            \E was \in request[t].held : was.role \in RouteOf(t).roles
       /\ request[t].pc = "sign" /\ tokens' # tokens /\ request'[t].pc = "returned" =>
            \E was \in request[t].held : was.role = "User" \/ was.active]_pipeline_vars

\* Every request is answered, whether its user is let in or not.
EveryRequestAnswered == \A t \in Clients : request[t].pc = "jwt" ~> request[t].pc = "answered"
=============================================================================
