--------------------------- MODULE AccountsProofs ---------------------------
(***************************************************************************)
(* Theorems about Accounts, for any number of clients and any bounds.      *)
(*                                                                         *)
(* Neither of the two invariants is inductive by itself.  That a request   *)
(* acts with a role its account held needs to know that the role the       *)
(* account has now is among those it held (HeldIsCurrent), and that nobody *)
(* has a request in flight while accounts are created (QuietUntilServing). *)
(* That seeding leaves accounts alone needs to know that an account which  *)
(* is not there yet is wanted as it will be seeded, that those the loop    *)
(* has passed are there, and that none is ever lost (SeedingProgress).     *)
(***************************************************************************)
EXTENDS Accounts, TLAPS

Present(n) == account[n] # Absent

HeldIsCurrent ==
    \A c \in Clients : InFlight(c) => HeldBy(req[c].claims.user) \subseteq held[c]

QuietUntilServing == proc \in {"down", "seeding"} => \A c \in Clients : ~ InFlight(c)

SeedingProgress ==
    /\ \A n \in Names : Present(n) \/ wanted[n] = Seeded(n)
    /\ proc = "seeding" => \A i \in 1 .. Len(seeds) : i < next => Present(seeds[i])
    /\ seeded => \A n \in Names : Present(n)

Sound == /\ TypeOK
         /\ ActsWithHeldRole
         /\ HeldIsCurrent
         /\ QuietUntilServing
         /\ SeedingSound
         /\ SeedingProgress

-----------------------------------------------------------------------------
(* Facts about the values. *)

\* No account of the table is the absent one, whose role is none at all.
LEMMA AbsentIsNoAccount == Absent \notin Account
BY DEF Absent, Account, Roles

\* What the seed list creates is an account.
LEMMA SeededIsAccount == \A n \in Names : Seeded(n) \in Account
BY DEF Names, Seeded, Account, Roles

\* The list of seeds has every name.
LEMMA SeedsAreNames == /\ Len(seeds) = 3
                       /\ \A i \in 1 .. 3 : seeds[i] \in Names
                       /\ \A n \in Names : \E i \in 1 .. 3 : n = seeds[i]
<1>1. Len(seeds) = 3
  BY DEF seeds
<1>2. seeds[1] = "analyst" /\ seeds[2] = "reviewer" /\ seeds[3] = "admin"
  BY DEF seeds
<1>. QED BY <1>1, <1>2 DEF Names

\* A client with a request in flight has one, with genuine claims.
LEMMA InFlightIsRequest ==
    ASSUME TypeOK, NEW c \in Clients, InFlight(c)
    PROVE  req[c] \in Request /\ req[c].claims.user \in Names
BY DEF TypeOK, InFlight, Request, Token

\* An idle client neither waits for its role to be checked nor acts.
LEMMA IdleIsNoRequest == Idle \notin Request /\ Idle.pc \notin {"arrived", "acting"}
BY DEF Idle, Request

-----------------------------------------------------------------------------
(* Types. *)

LEMMA TypeInit == Init => TypeOK
<1>. SUFFICES ASSUME Init PROVE TypeOK
  OBVIOUS
<1>1. account \in [Names -> Account \cup {Absent}] /\ wanted \in [Names -> Account]
  BY SeededIsAccount DEF Init
<1>2. next \in 1 .. Len(seeds) + 1
  BY SeedsAreNames DEF Init
<1>3. /\ token \in [Clients -> Token \cup {NoToken}]
      /\ req \in [Clients -> Request \cup {Idle}]
      /\ held \in [Clients -> SUBSET Roles]
  BY DEF Init
<1>4. /\ timer \in 0 .. ShutdownTimeout /\ changes \in 0 .. MaxChanges
      /\ stops \in 0 .. MaxStops
  BY BoundsAssumption DEF Init
<1>. QED BY <1>1, <1>2, <1>3, <1>4 DEF Init, TypeOK

\* Dropping all requests, as the end of the process does, keeps the types.
LEMMA EndedTypes ==
    ASSUME Ended
    PROVE  /\ req' \in [Clients -> Request \cup {Idle}]
           /\ held' \in [Clients -> SUBSET Roles]
BY DEF Ended

LEMMA TypeStep == TypeOK /\ [Next]_vars => TypeOK'
<1>. SUFFICES ASSUME TypeOK, [Next]_vars PROVE TypeOK'
  OBVIOUS
<1>. USE BoundsAssumption DEF TypeOK, process, accounts, requests
<1>1. CASE Start
  BY <1>1, SeedsAreNames DEF Start
<1>2. CASE Seed
  <2>1. next \in 1 .. 3 /\ next' = next + 1
    BY <1>2, SeedsAreNames DEF Seed
  <2>2. seeds[next] \in Names
    BY <2>1, SeedsAreNames
  <2>3. account' \in [Names -> Account \cup {Absent}]
    BY <1>2, <2>2, SeededIsAccount DEF Seed
  <2>4. proc' \in {"seeding", "down"}
    BY <1>2 DEF Seed
  <2>. QED BY <1>2, <2>1, <2>3, <2>4, SeedsAreNames DEF Seed
<1>3. CASE Serve
  BY <1>3 DEF Serve
<1>4. CASE Signal
  BY <1>4 DEF Signal
<1>5. CASE ClosePool
  BY <1>5 DEF ClosePool
<1>6. CASE Exit
  BY <1>6, EndedTypes DEF Exit, Ended
<1>7. CASE Crash
  BY <1>7, EndedTypes DEF Crash, Ended
<1>8. CASE Tick
  BY <1>8 DEF Tick
<1>9. ASSUME NEW n \in Names, Change(n) PROVE TypeOK'
  <2>1. PICK a \in Account \ {account[n]} :
           /\ account' = [account EXCEPT ![n] = a]
           /\ wanted' = [wanted EXCEPT ![n] = a]
           /\ held' = [c \in Clients |->
                         IF InFlight(c) /\ req[c].claims.user = n /\ a.active
                         THEN held[c] \cup {a.role} ELSE held[c]]
    BY <1>9 DEF Change
  <2>2. a.role \in Roles
    BY <2>1 DEF Account
  <2>3. held' \in [Clients -> SUBSET Roles]
    BY <2>1, <2>2
  <2>. QED BY <1>9, <2>1, <2>3 DEF Change
<1>10. ASSUME NEW c \in Clients, NEW n \in Names, Login(c, n) PROVE TypeOK'
  <2>1. Found(n) => account[n] \in Account
    BY DEF Found, Absent
  <2>2. Found(n) => [ user |-> n, role |-> account[n].role, fresh |-> TRUE ] \in Token
    BY <2>1 DEF Account, Token
  <2>. QED BY <1>10, <2>2 DEF Login
<1>11. ASSUME NEW c \in Clients, Logout(c) PROVE TypeOK'
  BY <1>11 DEF Logout
<1>12. ASSUME NEW c \in Clients, Expire(c) PROVE TypeOK'
  <2>1. [token[c] EXCEPT !.fresh = FALSE] \in Token
    BY <1>12 DEF Expire, Token
  <2>. QED BY <1>12, <2>1 DEF Expire
<1>13. ASSUME NEW c \in Clients, NEW op \in DOMAIN RolesFor, Arrive(c, op) PROVE TypeOK'
  <2>1. token[c] \in Token
    BY <1>13 DEF Arrive
  <2>2. [ pc |-> "arrived", op |-> op, claims |-> token[c] ] \in Request
    BY <2>1 DEF Request
  <2>3. HeldBy(token[c].user) \subseteq Roles
    BY <2>1, AbsentIsNoAccount DEF HeldBy, Token, Account, Absent
  <2>. QED BY <1>13, <2>2, <2>3 DEF Arrive, Unauthorized
<1>14. ASSUME NEW c \in Clients, Authorize(c) PROVE TypeOK'
  <2>1. req[c] \in Request
    BY <1>14, IdleIsNoRequest DEF Authorize
  <2>2. [req[c] EXCEPT !.pc = "acting"] \in Request
    BY <2>1 DEF Request
  <2>. QED BY <1>14, <2>2 DEF Authorize, Unauthorized, Answer
<1>15. ASSUME NEW c \in Clients, Finish(c) PROVE TypeOK'
  BY <1>15 DEF Finish, Answer
<1>16. CASE UNCHANGED vars
  BY <1>16 DEF vars
<1>. QED BY <1>1, <1>2, <1>3, <1>4, <1>5, <1>6, <1>7, <1>8, <1>9, <1>10, <1>11,
            <1>12, <1>13, <1>14, <1>15, <1>16 DEF Next

-----------------------------------------------------------------------------
(* What a request may do. *)

\* The two invariants on requests, for one client.
Granted(c) ==
    /\ InFlight(c) => HeldBy(req[c].claims.user) \subseteq held[c]
    /\ req[c].pc = "acting" => held[c] \cap RolesFor[req[c].op] # {}

LEMMA GrantedMeaning ==
    (\A c \in Clients : Granted(c)) <=> (ActsWithHeldRole /\ HeldIsCurrent)
BY DEF Granted, ActsWithHeldRole, HeldIsCurrent

\* A client without a request needs no role.
LEMMA IdleGranted ==
    ASSUME NEW c \in Clients, req[c] = Idle
    PROVE  Granted(c)
BY IdleIsNoRequest DEF Granted, InFlight

\* A step that leaves the account and the request of a client alone keeps
\* what it was granted.
LEMMA GrantedKept ==
    ASSUME NEW c \in Clients, Granted(c), account' = account,
           req'[c] = req[c], held'[c] = held[c]
    PROVE  Granted(c)'
BY DEF Granted, InFlight, HeldBy

\* A step that leaves a client idle grants it nothing.
LEMMA IdleGrantedNext ==
    ASSUME NEW c \in Clients, req'[c] = Idle
    PROVE  Granted(c)'
BY IdleIsNoRequest DEF Granted, InFlight

\* The operator's changes are recorded for every request they concern.
LEMMA ChangeGranted ==
    ASSUME TypeOK, NEW c \in Clients, Granted(c), NEW n \in Names, Change(n)
    PROVE  Granted(c)'
<1>1. PICK a \in Account \ {account[n]} :
         /\ account' = [account EXCEPT ![n] = a]
         /\ held' = [d \in Clients |->
                       IF InFlight(d) /\ req[d].claims.user = n /\ a.active
                       THEN held[d] \cup {a.role} ELSE held[d]]
         /\ req' = req
  BY DEF Change
<1>2. held[c] \subseteq held'[c]
  BY <1>1
<1>3. CASE InFlight(c)
  <2>. DEFINE u == req[c].claims.user
  <2>1. u \in Names
    BY <1>3, InFlightIsRequest
  <2>2. CASE u = n
    <3>1. HeldBy(u)' = IF a.active THEN {a.role} ELSE {}
      BY <1>1, <2>1, <2>2 DEF TypeOK, HeldBy
    <3>2. HeldBy(u)' \subseteq held'[c]
      BY <1>1, <1>3, <2>2, <3>1
    <3>. QED BY <1>1, <1>2, <3>2 DEF Granted
  <2>3. CASE u # n
    <3>1. HeldBy(u)' = HeldBy(u)
      BY <1>1, <2>1, <2>3 DEF TypeOK, HeldBy
    <3>. QED BY <1>1, <1>2, <1>3, <3>1 DEF Granted
  <2>. QED BY <2>2, <2>3
<1>4. CASE ~ InFlight(c)
  BY <1>1, <1>4, IdleGrantedNext DEF InFlight
<1>. QED BY <1>3, <1>4

\* A request arrives with the role its account has then.
LEMMA ArriveGranted ==
    ASSUME TypeOK, NEW c \in Clients, NEW op \in DOMAIN RolesFor, Arrive(c, op),
           Granted(c)
    PROVE  Granted(c)'
<1>1. account' = account
  BY DEF Arrive, accounts
<1>2. CASE UNCHANGED requests
  BY <1>1, <1>2, GrantedKept DEF requests
<1>3. CASE /\ req' = [req EXCEPT ![c] =
                         [ pc |-> "arrived", op |-> op, claims |-> token[c] ]]
           /\ held' = [held EXCEPT ![c] = HeldBy(token[c].user)]
  <2>1. /\ req'[c].pc = "arrived"
        /\ req'[c].claims = token[c]
        /\ held'[c] = HeldBy(token[c].user)
    BY <1>3 DEF TypeOK
  <2>. QED BY <1>1, <2>1 DEF Granted, HeldBy
<1>. QED BY <1>2, <1>3 DEF Arrive

\* The role that lets a request act is one its account has at that moment.
LEMMA AuthorizeGranted ==
    ASSUME TypeOK, NEW c \in Clients, Authorize(c), Granted(c)
    PROVE  Granted(c)'
<1>1. account' = account
  BY DEF Authorize, accounts
<1>2. CASE Answer(c)
  BY <1>2, IdleGrantedNext DEF Answer, TypeOK
<1>3. CASE /\ Found(req[c].claims.user)
           /\ RoleOf(req[c].claims) \in RolesFor[req[c].op]
           /\ req' = [req EXCEPT ![c].pc = "acting"]
           /\ UNCHANGED <<token, held>>
  <2>1. req[c] \in Request /\ InFlight(c)
    BY IdleIsNoRequest DEF Authorize, TypeOK, InFlight
  <2>2. /\ req'[c].op = req[c].op
        /\ req'[c].claims = req[c].claims
    BY <1>3, <2>1 DEF TypeOK, Request
  <2>3. RoleOf(req[c].claims) \in HeldBy(req[c].claims.user)
    BY <1>3 DEF Found, RoleOf, HeldBy
  <2>4. RoleOf(req[c].claims) \in held[c]
    BY <2>1, <2>3 DEF Granted
  <2>. QED BY <1>1, <1>3, <2>1, <2>2, <2>4 DEF Granted, HeldBy
<1>. QED BY <1>2, <1>3 DEF Authorize

\* A step of a client leaves what others were granted alone.
LEMMA OthersGranted ==
    ASSUME TypeOK, NEW c \in Clients, NEW d \in Clients \ {c}, Granted(d),
           \/ \E op \in DOMAIN RolesFor : Arrive(c, op)
           \/ Authorize(c)
           \/ Finish(c)
    PROVE  Granted(d)'
<1>1. account' = account /\ req'[d] = req[d] /\ held'[d] = held[d]
  BY DEF Arrive, Authorize, Finish, Answer, accounts, requests, TypeOK
<1>. QED BY <1>1, GrantedKept

\* No step lets a request act with a role its account did not hold.
LEMMA GrantStep ==
    ASSUME Sound, [Next]_vars
    PROVE  (ActsWithHeldRole /\ HeldIsCurrent)'
<1>. SUFFICES ASSUME NEW d \in Clients PROVE Granted(d)'
  BY DEF Granted, ActsWithHeldRole, HeldIsCurrent
<1>. TypeOK /\ Granted(d)
  BY GrantedMeaning DEF Sound
<1>1. CASE /\ UNCHANGED <<account, req, held>>
  BY <1>1, GrantedKept
<1>2. CASE Start \/ Serve \/ Signal \/ ClosePool \/ Tick
  BY <1>1, <1>2 DEF Start, Serve, Signal, ClosePool, Tick, accounts, requests
<1>3. CASE Seed
  <2>1. req'[d] = Idle
    BY <1>3 DEF Seed, requests, Sound, QuietUntilServing, InFlight
  <2>. QED BY <2>1, IdleGrantedNext
<1>4. CASE Exit \/ Crash
  <2>1. req'[d] = Idle
    BY <1>4 DEF Exit, Crash, Ended
  <2>. QED BY <2>1, IdleGrantedNext
<1>5. ASSUME NEW n \in Names, Change(n) PROVE Granted(d)'
  BY <1>5, ChangeGranted
<1>6. ASSUME NEW c \in Clients,
             (\E n \in Names : Login(c, n)) \/ Logout(c) \/ Expire(c)
      PROVE  Granted(d)'
  BY <1>1, <1>6 DEF Login, Logout, Expire, accounts, requests
<1>7. ASSUME NEW c \in Clients,
             \/ \E op \in DOMAIN RolesFor : Arrive(c, op)
             \/ Authorize(c)
             \/ Finish(c)
      PROVE  Granted(d)'
  <2>1. CASE d # c
    BY <1>7, <2>1, OthersGranted
  <2>2. CASE d = c /\ \E op \in DOMAIN RolesFor : Arrive(c, op)
    BY <2>2, ArriveGranted
  <2>3. CASE d = c /\ Authorize(c)
    BY <2>3, AuthorizeGranted
  <2>4. CASE d = c /\ Finish(c)
    BY <2>4, IdleGrantedNext DEF Finish, Answer, TypeOK
  <2>. QED BY <1>7, <2>1, <2>2, <2>3, <2>4
<1>8. CASE UNCHANGED vars
  BY <1>1, <1>8 DEF vars
<1>. QED BY <1>2, <1>3, <1>4, <1>5, <1>6, <1>7, <1>8 DEF Next

\* Requests only arrive while the server serves, and end with the process.
LEMMA QuietStep ==
    ASSUME TypeOK, QuietUntilServing, [Next]_vars
    PROVE  QuietUntilServing'
<1>1. CASE Exit \/ Crash
  BY <1>1 DEF Exit, Crash, Ended, QuietUntilServing, InFlight
<1>2. CASE Start \/ Seed \/ Serve \/ Signal \/ ClosePool \/ Tick
  BY <1>2 DEF Start, Seed, Serve, Signal, ClosePool, Tick, requests,
              QuietUntilServing, InFlight
<1>3. ASSUME NEW n \in Names, Change(n) PROVE QuietUntilServing'
  BY <1>3 DEF Change, process, QuietUntilServing, InFlight
<1>4. ASSUME NEW c \in Clients,
             (\E n \in Names : Login(c, n)) \/ Logout(c) \/ Expire(c)
      PROVE  QuietUntilServing'
  BY <1>4 DEF Login, Logout, Expire, process, requests, QuietUntilServing, InFlight
<1>5. ASSUME NEW c \in Clients, NEW op \in DOMAIN RolesFor, Arrive(c, op)
      PROVE  QuietUntilServing'
  BY <1>5 DEF Arrive, process, QuietUntilServing
<1>6. ASSUME NEW c \in Clients, Authorize(c) \/ Finish(c) PROVE QuietUntilServing'
  <2>1. InFlight(c) /\ proc' = proc
    BY <1>6, IdleIsNoRequest DEF Authorize, Finish, InFlight, process
  <2>. QED BY <2>1 DEF QuietUntilServing
<1>7. CASE UNCHANGED vars
  BY <1>7 DEF vars, QuietUntilServing, InFlight
<1>. QED BY <1>1, <1>2, <1>3, <1>4, <1>5, <1>6, <1>7 DEF Next

-----------------------------------------------------------------------------
(* Seeding. *)

\* The two facts about accounts, in one.
LEMMA SeedingSteady ==
    ASSUME SeedingSound, SeedingProgress, UNCHANGED accounts,
           proc' \in {"down", proc}, next' = next
    PROVE  (SeedingSound /\ SeedingProgress)'
BY DEF SeedingSound, SeedingProgress, accounts, Present

LEMMA SeedingStep ==
    ASSUME Sound, [Next]_vars
    PROVE  (SeedingSound /\ SeedingProgress)'
<1>. TypeOK /\ SeedingSound /\ SeedingProgress
  BY DEF Sound
<1>1. CASE Start
  <2>1. next' = 1 /\ UNCHANGED accounts
    BY <1>1 DEF Start
  <2>. QED BY <2>1, SeedsAreNames DEF SeedingSound, SeedingProgress, accounts, Present
<1>2. CASE Seed
  <2>. DEFINE n == seeds[next]
  <2>1. /\ proc = "seeding" /\ next \in 1 .. 3 /\ n \in Names
        /\ next' = next + 1 /\ UNCHANGED <<wanted, seeded>>
    BY <1>2, SeedsAreNames DEF Seed, TypeOK
  <2>2. CASE Present(n)
    <3>1. account' = account /\ proc' = proc
      BY <1>2, <2>2 DEF Seed, Present, SeedExists
    <3>2. \A i \in 1 .. 3 : i < next' => Present(seeds[i])
      BY <2>1, <2>2, SeedsAreNames DEF SeedingProgress
    <3>. QED BY <2>1, <3>1, <3>2, SeedsAreNames DEF SeedingSound, SeedingProgress, Present
  <2>3. CASE ~ Present(n)
    <3>1. account' = [account EXCEPT ![n] = Seeded(n)] /\ proc' = proc
      BY <1>2, <2>3 DEF Seed, Present, SeedExists, IndexAllows
    <3>2. wanted[n] = Seeded(n) /\ Seeded(n) # Absent /\ ~ seeded
      BY <2>1, <2>3, SeededIsAccount, AbsentIsNoAccount DEF SeedingProgress
    <3>3. \A m \in Names : account'[m] = IF m = n THEN Seeded(n) ELSE account[m]
      BY <2>1, <3>1 DEF TypeOK
    <3>4. \A i \in 1 .. 3 : i < next' => account'[seeds[i]] # Absent
      BY <2>1, <3>2, <3>3, SeedsAreNames DEF SeedingProgress, Present
    <3>. QED BY <2>1, <3>1, <3>2, <3>3, <3>4, SeedsAreNames
            DEF SeedingSound, SeedingProgress, Present
  <2>. QED BY <2>2, <2>3
<1>3. CASE Serve
  <2>1. \A n \in Names : Present(n)
    BY <1>3, SeedsAreNames DEF Serve, SeedingProgress, TypeOK
  <2>2. account = wanted
    BY <2>1 DEF SeedingSound, Present, TypeOK
  <2>. QED BY <1>3, <2>1, <2>2 DEF Serve, SeedingSound, SeedingProgress, Present
<1>4. CASE Signal \/ ClosePool
  BY <1>4 DEF Signal, ClosePool, accounts, SeedingSound, SeedingProgress, Present
<1>5. CASE Exit \/ Crash
  BY <1>5, SeedingSteady DEF Exit, Crash, Ended
<1>6. CASE Tick
  BY <1>6, SeedingSteady DEF Tick
<1>7. ASSUME NEW n \in Names, Change(n) PROVE (SeedingSound /\ SeedingProgress)'
  <2>1. PICK a \in Account : /\ account' = [account EXCEPT ![n] = a]
                             /\ wanted' = [wanted EXCEPT ![n] = a]
    BY <1>7 DEF Change
  <2>2. /\ a # Absent /\ Present(n)
        /\ UNCHANGED <<proc, next, seeded>>
    BY <1>7, AbsentIsNoAccount DEF Change, process, Present
  <2>3. \A m \in Names : /\ account'[m] = IF m = n THEN a ELSE account[m]
                         /\ wanted'[m] = IF m = n THEN a ELSE wanted[m]
    BY <2>1 DEF TypeOK
  <2>4. \A m \in Names : Present(m)' <=> Present(m)
    BY <2>2, <2>3 DEF Present
  <2>5. SeedingSound'
    <3>1. \A m \in Names : account'[m] \in {Absent, wanted'[m]}
      BY <2>3 DEF SeedingSound
    <3>2. account = wanted => account' = wanted'
      BY <2>1
    <3>. QED BY <2>2, <3>1, <3>2 DEF SeedingSound
  <2>6. SeedingProgress'
    BY <2>2, <2>3, <2>4, SeedsAreNames DEF SeedingProgress
  <2>. QED BY <2>5, <2>6
<1>8. ASSUME NEW c \in Clients,
             \/ \E n \in Names : Login(c, n)
             \/ Logout(c)
             \/ Expire(c)
             \/ \E op \in DOMAIN RolesFor : Arrive(c, op)
             \/ Authorize(c)
             \/ Finish(c)
      PROVE  (SeedingSound /\ SeedingProgress)'
  <2>1. UNCHANGED <<process, accounts>>
    BY <1>8 DEF Login, Logout, Expire, Arrive, Authorize, Finish
  <2>. QED BY <2>1, SeedingSteady DEF process
<1>9. CASE UNCHANGED vars
  BY <1>9, SeedingSteady DEF vars, accounts
<1>. QED BY <1>1, <1>2, <1>3, <1>4, <1>5, <1>6, <1>7, <1>8, <1>9 DEF Next

-----------------------------------------------------------------------------
(* The theorems. *)

LEMMA SoundInit == Init => Sound
<1>. SUFFICES ASSUME Init PROVE Sound
  OBVIOUS
<1>1. TypeOK
  BY TypeInit
<1>2. ActsWithHeldRole /\ HeldIsCurrent
  BY IdleGranted, GrantedMeaning DEF Init
<1>3. QuietUntilServing
  BY DEF Init, QuietUntilServing, InFlight
<1>4. SeedingSound /\ SeedingProgress
  BY DEF Init, SeedingSound, SeedingProgress
<1>. QED BY <1>1, <1>2, <1>3, <1>4 DEF Sound

LEMMA SoundStep == Sound /\ [Next]_vars => Sound'
BY TypeStep, GrantStep, QuietStep, SeedingStep DEF Sound

LEMMA AlwaysSound == Spec => []Sound
BY SoundInit, SoundStep, PTL DEF Spec

\* The variables keep their types, for any clients and any bounds.
THEOREM AccountsTyped == Spec => []TypeOK
<1>1. Sound => TypeOK
  BY DEF Sound
<1>. QED BY AlwaysSound, <1>1, PTL

\* No request acts with a role its account did not hold since it was sent,
\* for any number of clients, changes of accounts, restarts and crashes.
THEOREM RolesAreHeld == Spec => []ActsWithHeldRole
<1>1. Sound => ActsWithHeldRole
  BY DEF Sound
<1>. QED BY AlwaysSound, <1>1, PTL

\* However often the seeding is interrupted and repeated, every account is as
\* the operator last left it, and once a start has gone through the seed list
\* all of them are there, whether or not later starts seed again.
THEOREM SeedingIsSound == Spec => []SeedingSound
<1>1. Sound => SeedingSound
  BY DEF Sound
<1>. QED BY AlwaysSound, <1>1, PTL
=============================================================================
