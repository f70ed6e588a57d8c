------------------------------- MODULE Accounts -------------------------------
(***************************************************************************)
(* user.service.ts and the register of auth.service.ts, with the seeders   *)
(* that fill the tables when the server starts.  The server may crash      *)
(* between any two statements and is started again.                         *)
(*                                                                         *)
(* email is not unique in the table: only register asks whether it is used. *)
(* first_login stands for the columns of update, role for those of          *)
(* cmsUpdateUser; avatars, names and addresses are left out.                *)
(***************************************************************************)
EXTENDS EntityStore, Sequences

CONSTANTS
  Users,        \* ids of the rows table user may get
  Emails,       \* emails clients register or edit
  GivenRoles,   \* roles the cms gives
  Features,     \* positions of the features feature_room.seed.ts inserts
  MaxGuests,    \* bound: accounts with these emails
  MaxCrashes    \* bound: how often the server crashes

Seeds == <<[email |-> "admin@hotel.com", role |-> "Admin"],
           [email |-> "re@hotel.com", role |-> "Receptionist"],
           [email |-> "ac@hotel.com", role |-> "Accountant"]>>
Roles == {"User", "Admin", "Receptionist", "Accountant"}

ASSUME AccountsAssumption ==
  /\ Users \subseteq Nat /\ IsFiniteSet(Users) /\ Null \notin Users
  /\ Features \subseteq Nat /\ Features # {} /\ GivenRoles \subseteq Roles
  /\ MaxCrashes \in Nat /\ MaxGuests \in Nat
  /\ Cardinality(Users) >= Len(Seeds) + MaxGuests

VARIABLES
  user,          \* table user
  user_req,      \* what the service is doing
  feature_room,  \* table feature_room
  server,        \* down, starting, features, users (being seeded) or up
  todo,          \* what the seeder has still to insert
  crashes        \* how often the server has crashed

account_vars == <<user, user_req, feature_room, server, todo, crashes>>
seed_vars == <<feature_room, server, todo, crashes>>

UserRow == [email : Emails \cup {Seeds[n].email : n \in 1 .. Len(Seeds)}, role : Roles,
            active : BOOLEAN, first_login : BOOLEAN]
UserOps == {"register", "cmsCreateUser", "cmsUpdateUser", "updateUser", "activeUser"}
Creating == {"register", "cmsCreateUser"}

AccountsType ==
  /\ IsTable(user, Users, UserRow)
  /\ user_req \in [Tasks -> Requests({"insert", "load", "flush"}, UserOps, Users, UserRow)]
  /\ feature_room \subseteq Features
  /\ server \in {"down", "starting", "features", "users", "up"}
  /\ todo \subseteq Features \cup 1 .. Len(Seeds)
  /\ crashes \in 0 .. MaxCrashes

AccountsInit ==
  /\ user = [i \in {} |-> Null]
  /\ user_req = [t \in Tasks |-> Idle]
  /\ feature_room = {} /\ server = "down" /\ todo = {} /\ crashes = 0

LOCAL Become(t, q) == user_req' = [user_req EXCEPT ![t] = q]
NewUser(email, role) ==
  [email |-> email, role |-> role, active |-> TRUE, first_login |-> TRUE]
-----------------------------------------------------------------------------
(* Start: SeederService.onModuleInit, before the server listens *)

Start ==
  /\ server = "down"
  /\ server' = "starting"
  /\ UNCHANGED <<user, user_req, feature_room, todo, crashes>>

\* Each seeder inserts only into an empty table
CountFeatures ==
  /\ server = "starting"
  /\ server' = "features"
  /\ todo' = IF feature_room = {} THEN Features ELSE {}
  /\ UNCHANGED <<user, user_req, feature_room, crashes>>

\* Mutant: the loop does not advance
SeedFeatureMutant ==
  /\ server = "features"
  /\ \E f \in todo : feature_room' = feature_room \cup {f} /\ todo' = todo
  /\ UNCHANGED <<user, user_req, server, crashes>>

SeedFeature ==
  /\ server = "features"
  /\ \E f \in todo : feature_room' = feature_room \cup {f} /\ todo' = todo \ {f}
  /\ UNCHANGED <<user, user_req, server, crashes>>

CountUsers ==
  /\ server = "features" /\ todo = {}
  /\ server' = "users"
  /\ todo' = IF DOMAIN user = {} THEN 1 .. Len(Seeds) ELSE {}
  /\ UNCHANGED <<user, user_req, feature_room, crashes>>

\* Mutant: the accounts are not inserted in the order of the data
SeedUserMutant ==
  /\ server = "users"
  /\ \E n \in todo, i \in NextIds(Users, DOMAIN user) :
       /\ user' = Put(user, i, NewUser(Seeds[n].email, Seeds[n].role))
       /\ todo' = todo \ {n}
  /\ UNCHANGED <<user_req, feature_room, server, crashes>>

\* One after the other, the admin first
SeedUser ==
  /\ server = "users"
  /\ \E n \in todo, i \in NextIds(Users, DOMAIN user) :
       /\ \A m \in todo : n <= m
       /\ user' = Put(user, i, NewUser(Seeds[n].email, Seeds[n].role))
       /\ todo' = todo \ {n}
  /\ UNCHANGED <<user_req, feature_room, server, crashes>>

Listen ==
  /\ server = "users" /\ todo = {}
  /\ server' = "up"
  /\ UNCHANGED <<user, user_req, feature_room, todo, crashes>>

\* Whatever was under way is forgotten; a statement of a seeder that fails ends
\* the process as well
Crash ==
  /\ server # "down" /\ crashes < MaxCrashes
  /\ server' = "down" /\ todo' = {} /\ crashes' = crashes + 1
  /\ user_req' = [t \in Tasks |-> Idle]
  /\ UNCHANGED <<user, feature_room>>

Seed == Start \/ CountFeatures \/ SeedFeature \/ CountUsers \/ SeedUser \/ Listen
-----------------------------------------------------------------------------
(* Requests *)

Registered(email) == {i \in DOMAIN user : user[i].email = email}
Guests == UNION {Registered(email) : email \in Emails}
\* Bound: an account is kept for every insert under way
GuestsReserved == Cardinality(Guests) + Cardinality({t \in Tasks : user_req[t].op \in Creating})

Register(t) ==
  /\ MayStart(user_req, t, "register")
  /\ GuestsReserved < MaxGuests
  /\ \E email \in Emails :
       /\ Registered(email) = {}
       /\ Become(t, Inserting("register", NewUser(email, "User")))
  /\ UNCHANGED <<user, seed_vars>>

CmsCreateUser(t) ==
  /\ MayStart(user_req, t, "cmsCreateUser")
  /\ GuestsReserved < MaxGuests
  /\ \E email \in Emails, role \in GivenRoles :
       Become(t, Inserting("cmsCreateUser", NewUser(email, role)))
  /\ UNCHANGED <<user, seed_vars>>

InsertUser(t) ==
  /\ user_req[t].pc = "insert"
  /\ \E i \in NextIds(Users, DOMAIN user) : user' = Put(user, i, user_req[t].mem)
  /\ Become(t, Idle)
  /\ UNCHANGED seed_vars

\* A role that was not sent is undefined, and save() skips it.  (A password that
\* was not sent makes setPassword throw: such a request changes nothing.)
CmsUpdateUser(t, i) ==
  /\ MayStart(user_req, t, "cmsUpdateUser")
  /\ \E role \in GivenRoles \cup {user[i].role} :
       Become(t, Saving("cmsUpdateUser", i, [user[i] EXCEPT !.role = role]))
  /\ UNCHANGED <<user, seed_vars>>

UpdateUser(t, i) ==
  /\ MayStart(user_req, t, "updateUser")
  /\ Become(t, Saving("updateUser", i, [user[i] EXCEPT !.first_login = FALSE]))
  /\ UNCHANGED <<user, seed_vars>>

ActiveUser(t, i) ==
  /\ MayStart(user_req, t, "activeUser")
  /\ \E on \in BOOLEAN :
       Become(t, Saving("activeUser", i, [user[i] EXCEPT !.active = on]))
  /\ UNCHANGED <<user, seed_vars>>

LoadUser(t) ==
  /\ user_req[t].pc = "load"
  /\ LET q == user_req[t] IN Become(t, Selected(q, user[q.id]))
  /\ UNCHANGED <<user, seed_vars>>

FlushUser(t) ==
  /\ user_req[t].pc = "flush"
  /\ LET q == user_req[t] IN user' = [user EXCEPT ![q.id] = Flushed(q, @)]
  /\ Become(t, Idle)
  /\ UNCHANGED seed_vars

Serve ==
  /\ server = "up"
  /\ \E t \in Tasks :
       \/ Register(t) \/ CmsCreateUser(t) \/ InsertUser(t) \/ LoadUser(t) \/ FlushUser(t)
       \/ \E i \in Guests :
            CmsUpdateUser(t, i) \/ UpdateUser(t, i) \/ ActiveUser(t, i)

AccountsNext == Seed \/ Crash \/ Serve

AccountsSpec == AccountsInit /\ [][AccountsNext]_account_vars
-----------------------------------------------------------------------------
\* Whoever can send a request finds the admin's account and the features there,
\* wherever earlier starts broke off: a partly filled table is not filled again.
SeededBeforeServing ==
  server = "up" => feature_room # {} /\ Registered(Seeds[1].email) # {}
=============================================================================
