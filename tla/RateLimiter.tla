----------------------------- MODULE RateLimiter -----------------------------
(***************************************************************************)
(* The in-memory rate limiter: RateLimiter.Allow as RateLimitMiddleware    *)
(* calls it for every request.  Each request reads the clock first and     *)
(* waits for the mutex afterwards, so calls enter Allow with times that    *)
(* are out of order and a little old.                                      *)
(*                                                                         *)
(* Time is relative: a moment in the past is kept as its age in ticks, the *)
(* end of a window as the ticks left, negative once it is over.  Both are  *)
(* counted only as far as any comparison can tell them apart.              *)
(***************************************************************************)
EXTENDS Integers

CONSTANTS Keys,      \* "scope:client address"
          Callers,   \* requests in flight
          NoKey,     \* no request
          Limit,     \* limit
          Window,    \* window, in ticks
          MaxDelay   \* bound: ticks between reading the clock and entering Allow

ASSUME LimiterAssumption == /\ Limit \in Nat \ {0}
                            /\ Window \in Nat \ {0}
                            /\ NoKey \notin Keys

\* A window is a minute; under the mutex a map is read and written.
ASSUME DelayAssumption == MaxDelay \in 0 .. Window

VARIABLES visitors,  \* the map of the same name, Absent where it has no entry
          lastSweep, \* the age of the last sweep
          calls,     \* the key and the age of the time every caller read
          admitted   \* history: per key, how many calls were let through within
                     \* the last so many ticks, the present one included

vars == <<visitors, lastSweep, calls, admitted>>

-----------------------------------------------------------------------------
Horizon == Window + MaxDelay

Absent == [ count |-> 0, left |-> Window + 1 ]

Visitor == [ count : 1 .. Limit, left : -(Horizon + MaxDelay + 1) .. Window ]

Waiting == [ key : Keys, age : 0 .. MaxDelay ]

Idle == [ key |-> NoKey, age |-> 0 ]

TypeOK == /\ visitors \in [Keys -> Visitor \cup {Absent}]
          /\ lastSweep \in 0 .. Horizon + 1
          /\ calls \in [Callers -> Waiting \cup {Idle}]
          /\ admitted \in [Keys -> [0 .. Horizon -> Nat]]

\* NewRateLimiter.
Init == /\ visitors = [k \in Keys |-> Absent]
        /\ lastSweep = 0
        /\ calls = [c \in Callers |-> Idle]
        /\ admitted = [k \in Keys |-> [a \in 0 .. Horizon |-> 0]]

-----------------------------------------------------------------------------
\* A request arrives and reads the clock.
Arrive(c, k) ==
    /\ calls[c] = Idle
    /\ calls' = [calls EXCEPT ![c] = [ key |-> k, age |-> 0 ]]
    /\ UNCHANGED <<visitors, lastSweep, admitted>>

Over_Swapped(v, age) == -age < v.left

\* now.After(v.expiresAt), where now is age ticks ago.
Over(v, age) == v.left < -age

SweepDue(age) == lastSweep - age > Window

Swept_Nothing(age) == visitors

\* The map after the first part of Allow.
Swept(age) ==
    [k \in Keys |-> IF SweepDue(age) /\ visitors[k] # Absent /\ Over(visitors[k], age)
                    THEN Absent ELSE visitors[k]]

Current_KeepCount(v, age) ==
    IF v = Absent \/ Over(v, age)
    THEN [ count |-> v.count, left |-> Window - age ]
    ELSE v

\* The entry of the caller, started anew when there is none or it is over.
Current(v, age) ==
    IF v = Absent \/ Over(v, age)
    THEN [ count |-> 0, left |-> Window - age ]
    ELSE v

Full_OneMore(v) == v.count > Limit

Full(v) == v.count >= Limit

\* Allow, under the mutex.
Allow(c) ==
    LET k == calls[c].key
        age == calls[c].age
        entry == Current(Swept(age)[k], age)
    IN  /\ calls[c] # Idle
        /\ lastSweep' = IF SweepDue(age) THEN age ELSE lastSweep
        /\ \/ /\ Full(entry)
              /\ visitors' = Swept(age)
              /\ UNCHANGED admitted
           \/ /\ ~ Full(entry)
              /\ visitors' = [Swept(age) EXCEPT ![k] = [entry EXCEPT !.count = @ + 1]]
              /\ admitted' = [admitted EXCEPT ![k] = [a \in 0 .. Horizon |-> @[a] + 1]]
        /\ calls' = [calls EXCEPT ![c] = Idle]

Sooner(n, floor) == IF n > floor THEN n - 1 ELSE n

\* One tick.  No call waits for the mutex any longer than MaxDelay.
Tick ==
    /\ \A c \in Callers : calls[c].age < MaxDelay
    /\ visitors' = [k \in Keys |->
                      IF visitors[k] = Absent THEN Absent
                      ELSE [visitors[k] EXCEPT !.left = Sooner(@, -(Horizon + MaxDelay + 1))]]
    /\ lastSweep' = IF lastSweep <= Horizon THEN lastSweep + 1 ELSE lastSweep
    /\ calls' = [c \in Callers |-> IF calls[c] = Idle THEN Idle
                                   ELSE [calls[c] EXCEPT !.age = @ + 1]]
    /\ admitted' = [k \in Keys |->
                      [a \in 0 .. Horizon |-> IF a = 0 THEN 0 ELSE admitted[k][a - 1]]]

Next == \/ \E c \in Callers : Allow(c) \/ \E k \in Keys : Arrive(c, k)
        \/ Tick

Spec == Init /\ [][Next]_vars

\* The clock goes on, and the mutex is held by nobody for ever.
FairSpec == Spec /\ WF_vars(Tick) /\ \A c \in Callers : WF_vars(Allow(c))

-----------------------------------------------------------------------------
(* Properties. *)

Served(c) == calls[c] # Idle /\ calls'[c] = Idle

\* Nobody is refused without cause: when a call is, as many calls as the limit
\* were let through for the same key in the last window, give or take the time
\* the call waited, whatever stale times other calls brought along.
RefusalJustified ==
    [][\A c \in Callers :
          (Served(c) /\ admitted' = admitted)
             => admitted[calls[c].key][Horizon] >= Limit]_vars

\* Windows are fixed, not sliding, and a window counts from a time that was
\* read up to MaxDelay before.  So two of them can meet in a stretch of time
\* that is shorter than a window by MaxDelay, but no more than two: at most
\* twice the limit is let through in it.
BurstBound == \A k \in Keys : admitted[k][Window - MaxDelay] <= 2 * Limit

\* The map does not keep the entries of clients that went away: once a call
\* was served no entry is left that was over for more than a window before.
SweptInTime ==
    [][\A c \in Callers :
          Served(c) => \A k \in Keys : visitors'[k] # Absent
                                         => ~ Over(visitors'[k], Horizon)]_vars

Blocked(k) == Full(Current(Swept(0)[k], 0))

\* A client that is refused will be let through again, even if nobody else
\* calls and even if it keeps calling while it is refused.
RefusalEnds == \A k \in Keys : Blocked(k) ~> ~ Blocked(k)
=============================================================================
