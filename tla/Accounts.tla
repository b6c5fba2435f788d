------------------------------ MODULE Accounts ------------------------------
(***************************************************************************)
(* Accounts, tokens and the server process: main starts the process, seeds *)
(* the accounts if it is configured to, serves and shuts down; Login issues*)
(* tokens; AuthMiddleware and RBACMiddleware decide what the request that  *)
(* brings one may do.                                                      *)
(*                                                                         *)
(* The server keeps no sessions.  A token says who logged in and with which*)
(* role, outlives restarts and later changes of the account, and is all a  *)
(* client has.  Accounts are changed by an operator in the database, at any*)
(* moment; the process may end at any moment and is started again.         *)
(***************************************************************************)
EXTENDS CaseConstants, Naturals, Sequences

CONSTANTS Clients,          \* browsers, with one request in flight each
          ShutdownTimeout,  \* how long the shutdown waits, in ticks
          MaxChanges,       \* bound: how often an operator changes an account
          MaxStops          \* bound: how often the process is told to stop or dies

ASSUME BoundsAssumption == /\ ShutdownTimeout \in Nat
                           /\ MaxChanges \in Nat
                           /\ MaxStops \in Nat

VARIABLES account,  \* the table users
          wanted,   \* the accounts as the seed list or the operator last set them
          seeded,   \* whether some start went through the whole seed list
          proc,     \* what the server process is doing
          next,     \* the position of MigrateAndSeed in its list
          timer,    \* how long the shutdown has been waiting
          token,    \* the token in the storage of every client
          req,      \* the request every client has in flight
          held,     \* roles its account held, while active, since it was sent
          changes,  \* how often the operator changed an account
          stops     \* how often the process was told to stop or died

vars == <<account, wanted, seeded, proc, next, timer, token, req, held, changes, stops>>

process == <<proc, next, timer, stops>>
accounts == <<account, wanted, seeded, changes>>
requests == <<req, held>>

-----------------------------------------------------------------------------
\* The names of the seeded accounts; each is also the role it is seeded with.
seeds == <<"analyst", "reviewer", "admin">>

Names == {"analyst", "reviewer", "admin"}

Account == [ role : Roles, active : BOOLEAN ]

Absent == [ role |-> "none", active |-> FALSE ]

Seeded(n) == [ role |-> n, active |-> TRUE ]

\* The claims of a token; fresh until it expires.
Token == [ user : Names, role : Roles, fresh : BOOLEAN ]

NoToken == [ user |-> "none" ]

\* What the router asks of the role of a request, by operation.
RolesFor == [ analyze |-> AnalyzeRoles, review |-> ReviewRoles ]

Request == [ pc : {"arrived", "acting"}, op : DOMAIN RolesFor, claims : Token ]

Idle == [ pc |-> "idle" ]

TypeOK == /\ account \in [Names -> Account \cup {Absent}]
          /\ wanted \in [Names -> Account]
          /\ seeded \in BOOLEAN
          /\ proc \in {"down", "seeding", "serving", "draining", "closed"}
          /\ next \in 1 .. Len(seeds) + 1
          /\ timer \in 0 .. ShutdownTimeout
          /\ token \in [Clients -> Token \cup {NoToken}]
          /\ req \in [Clients -> Request \cup {Idle}]
          /\ held \in [Clients -> SUBSET Roles]
          /\ changes \in 0 .. MaxChanges
          /\ stops \in 0 .. MaxStops

InFlight(c) == req[c] # Idle

\* FindByUsername and FindByID return active accounts only, and fail once the
\* pool is closed.
Found(n) == account[n].active /\ proc # "closed"

HeldBy(n) == IF account[n].active THEN {account[n].role} ELSE {}

Init == /\ account = [n \in Names |-> Absent]
        /\ wanted = [n \in Names |-> Seeded(n)]
        /\ seeded = FALSE
        /\ proc = "down"
        /\ next = 1
        /\ timer = 0
        /\ token = [c \in Clients |-> NoToken]
        /\ req = [c \in Clients |-> Idle]
        /\ held = [c \in Clients |-> {}]
        /\ changes = 0
        /\ stops = 0

-----------------------------------------------------------------------------
(* The server process. *)

\* Without DB_AUTO_MIGRATE, which every start reads again, the server serves
\* with the accounts that happen to be there.
Start == /\ proc = "down"
         /\ \E DBAutoMigrate \in BOOLEAN :
               proc' = IF DBAutoMigrate THEN "seeding" ELSE "serving"
         /\ next' = 1
         /\ timer' = 0
         /\ UNCHANGED <<accounts, token, requests, stops>>

SeedExists_Active(n) == account[n].active

SeedExists_AnyRow(n) == \E m \in Names : account[m] # Absent

SeedExists(n) == account[n] # Absent

\* The unique index on the name; a creation it refuses ends the process.
IndexAllows(n) == account[n] = Absent

\* One turn of the loop over the seed accounts.  There is no transaction
\* around the loop.
Seed ==
    /\ proc = "seeding"
    /\ next <= Len(seeds)
    /\ LET n == seeds[next]
       IN  \/ /\ SeedExists(n)
              /\ UNCHANGED <<account, proc>>
           \/ /\ ~ SeedExists(n)
              /\ account' = [account EXCEPT ![n] = IF IndexAllows(n) THEN Seeded(n) ELSE @]
              /\ proc' = IF IndexAllows(n) THEN proc ELSE "down"
    /\ next' = next + 1
    /\ UNCHANGED <<wanted, seeded, changes, timer, token, requests, stops>>

Serve == /\ proc = "seeding"
         /\ next > Len(seeds)
         /\ proc' = "serving"
         /\ seeded' = TRUE
         /\ UNCHANGED <<account, wanted, changes, next, timer, token, requests, stops>>

\* SIGINT or SIGTERM.  A second one stays in the channel and does nothing.
Signal == /\ proc = "serving"
          /\ stops < MaxStops
          /\ stops' = stops + 1
          /\ proc' = "draining"
          /\ UNCHANGED <<accounts, next, timer, token, requests>>

WaitIsOver == (\A c \in Clients : ~ InFlight(c)) \/ timer = ShutdownTimeout

\* Shutdown returns and the database pool is closed.
ClosePool == /\ proc = "draining"
             /\ WaitIsOver
             /\ proc' = "closed"
             /\ UNCHANGED <<accounts, next, timer, token, requests, stops>>

\* Nobody answers what is in flight when the process ends.
Ended == /\ proc' = "down"
         /\ req' = [c \in Clients |-> Idle]
         /\ held' = [c \in Clients |-> {}]

Exit == /\ proc = "closed"
        /\ Ended
        /\ UNCHANGED <<accounts, next, timer, token, stops>>

\* The database does not open, the migration or the port fails, a signal
\* comes before anybody listens to it, the process is killed.
Crash == /\ proc # "down"
         /\ stops < MaxStops
         /\ stops' = stops + 1
         /\ Ended
         /\ UNCHANGED <<accounts, next, timer, token>>

Tick_PastTheEnd == /\ proc = "draining"
                   /\ timer' = timer + 1
                   /\ UNCHANGED <<accounts, proc, next, token, requests, stops>>

Tick == /\ proc = "draining"
        /\ timer < ShutdownTimeout
        /\ timer' = timer + 1
        /\ UNCHANGED <<accounts, proc, next, token, requests, stops>>

-----------------------------------------------------------------------------
(* The operator. *)

Change(n) ==
    /\ account[n] # Absent
    /\ changes < MaxChanges
    /\ changes' = changes + 1
    /\ \E a \in Account \ {account[n]} :
          /\ account' = [account EXCEPT ![n] = a]
          /\ wanted' = [wanted EXCEPT ![n] = a]
          /\ held' = [c \in Clients |->
                         IF InFlight(c) /\ req[c].claims.user = n /\ a.active
                         THEN held[c] \cup {a.role} ELSE held[c]]
    /\ UNCHANGED <<process, seeded, token, req>>

-----------------------------------------------------------------------------
(* Clients and their requests. *)

\* A login with the right password, if there is such an account; any other
\* changes nothing.
Login(c, n) ==
    /\ proc = "serving"
    /\ token[c] = NoToken
    /\ \/ /\ Found(n)
          /\ token' = [token EXCEPT ![c] =
                          [ user |-> n, role |-> account[n].role, fresh |-> TRUE ]]
       \/ /\ ~ Found(n)
          /\ UNCHANGED token
    /\ UNCHANGED <<process, accounts, requests>>

Logout(c) == /\ token[c] # NoToken
             /\ token' = [token EXCEPT ![c] = NoToken]
             /\ UNCHANGED <<process, accounts, requests>>

\* The lifetime of a token, hours against the seconds of everything else, may
\* end at any moment.
Expire(c) == /\ token[c] # NoToken
             /\ token[c].fresh
             /\ token' = [token EXCEPT ![c].fresh = FALSE]
             /\ UNCHANGED <<process, accounts, requests>>

\* 401: the client drops the token it has by now, whichever that is.
Unauthorized(c) == token' = [token EXCEPT ![c] = NoToken]

\* A request arrives and the signature and the lifetime of its token are
\* checked.
Arrive(c, op) ==
    /\ proc = "serving"
    /\ ~ InFlight(c)
    /\ token[c] # NoToken
    /\ \/ /\ token[c].fresh
          /\ req' = [req EXCEPT ![c] =
                        [ pc |-> "arrived", op |-> op, claims |-> token[c] ]]
          /\ held' = [held EXCEPT ![c] = HeldBy(token[c].user)]
          /\ UNCHANGED token
       \/ /\ ~ token[c].fresh
          /\ Unauthorized(c)
          /\ UNCHANGED requests
    /\ UNCHANGED <<process, accounts>>

Answer(c) == /\ req' = [req EXCEPT ![c] = Idle]
             /\ held' = [held EXCEPT ![c] = {}]

RoleOf_Claims(claims) == claims.role

\* The role of a request is that of the account, not that of the token.
RoleOf(claims) == account[claims.user].role

\* Parse reads the account, for which every error is a 401; then the role is
\* compared with the roles of the route.
Authorize(c) ==
    /\ req[c].pc = "arrived"
    /\ LET claims == req[c].claims
       IN  \/ /\ Found(claims.user)
              /\ RoleOf(claims) \in RolesFor[req[c].op]
              /\ req' = [req EXCEPT ![c].pc = "acting"]
              /\ UNCHANGED <<token, held>>
           \/ /\ Found(claims.user)
              /\ RoleOf(claims) \notin RolesFor[req[c].op]
              /\ Answer(c)
              /\ UNCHANGED token
           \/ /\ ~ Found(claims.user)
              /\ Unauthorized(c)
              /\ Answer(c)
    /\ UNCHANGED <<process, accounts>>

\* The handler ends: with its transaction, or with an error when the pool is
\* closed under it.
Finish(c) == /\ req[c].pc = "acting"
             /\ Answer(c)
             /\ UNCHANGED <<process, accounts, token>>

-----------------------------------------------------------------------------
Next == \/ Start \/ Seed \/ Serve \/ Signal \/ ClosePool \/ Exit \/ Crash \/ Tick
        \/ \E n \in Names : Change(n)
        \/ \E c \in Clients :
              \/ \E n \in Names : Login(c, n)
              \/ Logout(c) \/ Expire(c)
              \/ \E op \in DOMAIN RolesFor : Arrive(c, op)
              \/ Authorize(c) \/ Finish(c)

Spec == Init /\ [][Next]_vars

\* The process is started again whenever it ended, runs on, and time passes.
\* No request is assumed to come to its end.
Fairness == /\ WF_vars(Start) /\ WF_vars(Seed) /\ WF_vars(Serve)
            /\ WF_vars(ClosePool) /\ WF_vars(Exit) /\ WF_vars(Tick)

FairSpec == Spec /\ Fairness

-----------------------------------------------------------------------------
(* Properties. *)

\* However old its token, a request acts only if its account was active, with
\* a role the router admits, at some moment since the request was sent: what
\* an operator takes away is gone for every later request, over logins,
\* restarts and requests already on their way.
ActsWithHeldRole ==
    \A c \in Clients : req[c].pc = "acting" => held[c] \cap RolesFor[req[c].op] # {}

\* Seeding, interrupted and repeated any number of times between changes by
\* the operator, leaves every account as the operator last set it; and once a
\* start has served with its seeding done, every account is there for good,
\* also for later starts that do not seed.  Before that, a server started
\* without DB_AUTO_MIGRATE may serve with any part of them.
SeedingSound ==
    /\ \A n \in Names : account[n] \in {Absent, wanted[n]}
    /\ seeded => account = wanted

\* After every crash, every signal and every change of an account the server
\* comes back to serve: neither a request that does not end nor an account
\* that was deactivated keeps it from stopping or starting.
ServesAgain == []<>(proc = "serving")
=============================================================================
