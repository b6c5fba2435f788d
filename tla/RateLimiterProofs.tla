-------------------------- MODULE RateLimiterProofs --------------------------
(***************************************************************************)
(* The safety properties of RateLimiter, proved for any number of clients  *)
(* and callers, any limit and window, and any delay up to a window.        *)
(*                                                                         *)
(* A window begins at a time that the call which opened it read, up to     *)
(* MaxDelay before.  The inductive invariant says how the count of an      *)
(* entry is related to what was let through: all of it since the window    *)
(* began (CountedSince), and nothing else once that is more than MaxDelay  *)
(* ago (NothingElse).  What the window before let through is at most the   *)
(* limit (LimitBefore), because an entry is replaced or swept only after   *)
(* all of it has left the stretch that BurstBound speaks about.            *)
(***************************************************************************)
EXTENDS RateLimiter, TLAPS

Begun(v) == Window - v.left

\* What was let through in the last a ticks, for more ticks is more.
Growing(f) == \A a, b \in 0 .. Horizon : a <= b => f[a] <= f[b]

\* The calls an entry v counts are among those let through, f, since it began.
CountedSince(v, f) ==
    (v # Absent /\ Begun(v) <= Horizon) => v.count <= f[Begun(v)]

\* No call was let through after the entry was made that it does not count.
NothingElse(v, f) ==
    v # Absent => \A a \in 0 .. Horizon : a + MaxDelay < Begun(v) => f[a] <= v.count

LimitBefore(v, f) == f[Window - MaxDelay] <= Limit + v.count

\* An entry that is over was not over yet at the last sweep.
KeptBySweep(v, last) == (v # Absent /\ last <= Horizon) => -last <= v.left

Sound == /\ TypeOK
         /\ \A k \in Keys : /\ Growing(admitted[k])
                            /\ CountedSince(visitors[k], admitted[k])
                            /\ NothingElse(visitors[k], admitted[k])
                            /\ LimitBefore(visitors[k], admitted[k])
                            /\ KeptBySweep(visitors[k], lastSweep)

Floor == -(Horizon + MaxDelay + 1)

-----------------------------------------------------------------------------
(* What Allow does to one entry. *)

LEMMA Constants == /\ Limit \in Nat /\ Limit >= 1
                   /\ Window \in Nat /\ Window >= 1
                   /\ MaxDelay \in Nat /\ MaxDelay <= Window
                   /\ Horizon \in Nat /\ Horizon = Window + MaxDelay
                   /\ Window - MaxDelay \in 0 .. Horizon
  BY LimiterAssumption, DelayAssumption DEF Horizon

LEMMA FloorIs == Floor \in Int /\ Floor = 0 - (Horizon + MaxDelay + 1)
  BY Constants DEF Floor

LEMMA VisitorFields ==
    ASSUME NEW v \in Visitor
    PROVE  /\ v.count \in 1 .. Limit
           /\ v.left \in Floor .. Window
           /\ v # Absent
  BY Constants DEF Visitor, Absent, Floor

LEMMA VisitorIsRecord ==
    ASSUME NEW v \in Visitor
    PROVE  v = [ count |-> v.count, left |-> v.left ]
  BY DEF Visitor

LEMMA MakeVisitor ==
    ASSUME NEW n \in 1 .. Limit, NEW l \in Floor .. Window
    PROVE  [ count |-> n, left |-> l ] \in Visitor
  BY DEF Visitor, Floor

LEMMA IdleIsNoCall == Idle \notin Waiting /\ Idle.age = 0
  BY LimiterAssumption DEF Idle, Waiting

\* What relates an entry to what was let through.
Related(v, f) == CountedSince(v, f) /\ NothingElse(v, f) /\ LimitBefore(v, f)

\* An entry that is over can be forgotten.
LEMMA ForgetEntry ==
    ASSUME NEW v \in Visitor, NEW f \in [0 .. Horizon -> Nat],
           NEW age \in 0 .. MaxDelay, Related(v, f), Over(v, age)
    PROVE  f[Window - MaxDelay] <= Limit
<1>1. Begun(v) > Window + age
  BY VisitorFields, Constants DEF Over, Begun
<1>2. f[Window - MaxDelay] <= v.count
  BY <1>1, VisitorFields, Constants DEF Related, NothingElse, Begun
<1> QED BY <1>2, VisitorFields, Constants

\* Sweeping keeps the relation, and removes what is over.
LEMMA SweepEntry ==
    ASSUME NEW v \in Visitor \cup {Absent}, NEW f \in [0 .. Horizon -> Nat],
           NEW age \in 0 .. MaxDelay, Related(v, f), v = Absent \/ Over(v, age)
    PROVE  Related(Absent, f)
<1>1. f[Window - MaxDelay] <= Limit
  BY ForgetEntry, Constants DEF Related, LimitBefore, Absent
<1> QED
  BY <1>1, Constants DEF Related, CountedSince, NothingElse, LimitBefore, Absent

\* The entry a call counts itself in.
LEMMA CountCall ==
    ASSUME NEW v \in Visitor \cup {Absent}, NEW f \in [0 .. Horizon -> Nat],
           NEW age \in 0 .. MaxDelay, Growing(f), Related(v, f),
           NEW e, e = Current(v, age), ~ Full(e),
           NEW n, n = [e EXCEPT !.count = @ + 1],
           NEW g, g = [a \in 0 .. Horizon |-> f[a] + 1]
    PROVE  n \in Visitor /\ Related(n, g)
<1>1. CASE v = Absent \/ Over(v, age)
  <2>1. /\ e = [ count |-> 0, left |-> Window - age ]
        /\ n = [ count |-> 1, left |-> Window - age ]
    BY <1>1 DEF Current
  <2>2. n \in Visitor
    <3>1. 1 \in 1 .. Limit /\ Window - age \in Floor .. Window
      BY FloorIs, Constants
    <3> QED BY <2>1, <3>1, MakeVisitor
  <2>3. f[Window - MaxDelay] \in Nat /\ f[Window - MaxDelay] <= Limit
    <3>1. CASE v = Absent
      BY <3>1, Constants DEF Related, LimitBefore, Absent
    <3>2. CASE v # Absent
      BY <1>1, <3>2, ForgetEntry, Constants
    <3> QED BY <3>1, <3>2
  <2>4. Begun(n) = age
    BY <2>1, Constants DEF Begun
  <2>5. CountedSince(n, g)
    BY <2>1, <2>4, Constants DEF CountedSince
  <2>6. NothingElse(n, g)
    BY <2>4, Constants DEF NothingElse
  <2>7. LimitBefore(n, g)
    BY <2>1, <2>3, Constants DEF LimitBefore
  <2> QED BY <2>2, <2>5, <2>6, <2>7 DEF Related
<1>2. CASE ~ (v = Absent \/ Over(v, age))
  <2>1. e = v /\ v \in Visitor /\ v.count < Limit
    BY <1>2, VisitorFields, Constants DEF Current, Full
  <2>2. /\ n \in Visitor
        /\ n.count = v.count + 1
        /\ n.left = v.left
    <3>1. v.count \in 1 .. Limit /\ v.left \in Floor .. Window
      BY <2>1, VisitorFields
    <3>2. v.count + 1 \in 1 .. Limit
      BY <2>1, <3>1, Constants
    <3>3. n = [ count |-> v.count + 1, left |-> v.left ]
      <4>1. v = [ count |-> v.count, left |-> v.left ]
        BY <2>1, VisitorIsRecord
      <4> QED BY <2>1, <4>1
    <3>4. n \in Visitor
      BY <3>1, <3>2, <3>3, MakeVisitor
    <3> QED BY <3>3, <3>4
  <2>3. Begun(n) = Begun(v) /\ Begun(v) \in Nat
    BY <2>1, <2>2, VisitorFields, Constants DEF Begun
  <2>4. CountedSince(n, g)
    <3> SUFFICES ASSUME Begun(n) <= Horizon PROVE n.count <= g[Begun(n)]
      BY DEF CountedSince
    <3>1. v.count <= f[Begun(v)] /\ Begun(v) \in 0 .. Horizon /\ v.count \in Nat
      BY <2>1, <2>3, VisitorFields, Constants DEF Related, CountedSince
    <3>2. g[Begun(n)] = f[Begun(v)] + 1 /\ f[Begun(v)] \in Nat
      BY <3>1, <2>3
    <3> QED BY <3>1, <3>2, <2>2
  <2>5. NothingElse(n, g)
    <3> SUFFICES ASSUME NEW a \in 0 .. Horizon, a + MaxDelay < Begun(n)
                 PROVE  g[a] <= n.count
      BY DEF NothingElse
    <3>1. f[a] <= v.count
      BY <2>1, <2>3, VisitorFields DEF Related, NothingElse
    <3>2. f[a] \in Nat /\ v.count \in Nat /\ g[a] = f[a] + 1
      BY <2>1, VisitorFields, Constants
    <3> QED BY <3>1, <3>2, <2>2
  <2>6. LimitBefore(n, g)
    <3>1. /\ f[Window - MaxDelay] <= Limit + v.count
          /\ f[Window - MaxDelay] \in Nat
          /\ g[Window - MaxDelay] = f[Window - MaxDelay] + 1
          /\ v.count \in Nat
      BY <2>1, VisitorFields, Constants DEF Related, LimitBefore
    <3> QED BY <3>1, <2>2, Constants DEF LimitBefore
  <2> QED BY <2>2, <2>4, <2>5, <2>6 DEF Related
<1> QED BY <1>1, <1>2

\* The entry after a tick.
Shifted(f) == [a \in 0 .. Horizon |-> IF a = 0 THEN 0 ELSE f[a - 1]]

Aged(v) == [v EXCEPT !.left = Sooner(@, -(Horizon + MaxDelay + 1))]

LEMMA AgedFields ==
    ASSUME NEW v \in Visitor
    PROVE  /\ Aged(v) \in Visitor
           /\ Aged(v).count = v.count
           /\ \/ Aged(v).left = v.left - 1
              \/ Aged(v).left = v.left /\ v.left = Floor
<1> SUFFICES ASSUME NEW x, x = v.left, NEW l, l = Sooner(x, Floor)
             PROVE  /\ Aged(v) \in Visitor
                    /\ Aged(v).count = v.count
                    /\ Aged(v).left = x - 1 \/ (Aged(v).left = x /\ x = Floor)
  OBVIOUS
<1>1. v = [ count |-> v.count, left |-> x ]
  BY VisitorIsRecord
<1>2. Aged(v) = [ count |-> v.count, left |-> l ]
  BY <1>1 DEF Aged, Floor
<1>3. v.count \in 1 .. Limit /\ x \in Floor .. Window
  BY VisitorFields
<1>4. l \in Floor .. Window /\ (l = x - 1 \/ (l = x /\ x = Floor))
  BY <1>3, FloorIs, Constants DEF Sooner
<1>5. Aged(v) \in Visitor
  BY <1>2, <1>3, <1>4, MakeVisitor
<1> QED BY <1>2, <1>4, <1>5

LEMMA AgeEntry ==
    ASSUME NEW v \in Visitor, NEW f \in [0 .. Horizon -> Nat],
           Growing(f), Related(v, f), NEW n \in Visitor, n.count = v.count,
           n.left = v.left - 1 \/ (n.left = v.left /\ v.left = Floor),
           NEW g, g = Shifted(f)
    PROVE  Related(n, g)
<1>0. v.count \in 1 .. Limit /\ v.left \in Floor .. Window /\ n.left \in Floor .. Window
  BY VisitorFields
<1>2. /\ Begun(v) \in 0 .. Window - Floor
      /\ Begun(n) \in 0 .. Window - Floor
      /\ \/ Begun(n) = Begun(v) + 1
         \/ Begun(n) = Begun(v) /\ Begun(v) = Window - Floor
  <2>1. Floor \in Int /\ Window \in Int /\ v.left \in Int /\ n.left \in Int
    BY <1>0, FloorIs, Constants
  <2>2. CASE n.left = v.left - 1
    BY <1>0, <2>1, <2>2 DEF Begun
  <2>3. CASE n.left = v.left /\ v.left = Floor
    BY <1>0, <2>1, <2>3 DEF Begun
  <2> QED BY <2>2, <2>3
<1>3. CountedSince(n, g)
  <2> SUFFICES ASSUME Begun(n) <= Horizon PROVE n.count <= g[Begun(n)]
    BY DEF CountedSince
  <2>1. Begun(n) = Begun(v) + 1 /\ Begun(n) \in 1 .. Horizon
    BY <1>2, FloorIs, Constants
  <2>2. g[Begun(n)] = f[Begun(v)]
    BY <2>1, <1>2, Constants DEF Shifted
  <2>3. v.count <= f[Begun(v)]
    BY <2>1, <1>2, VisitorFields, Constants DEF Related, CountedSince
  <2> QED BY <2>2, <2>3
<1>4. NothingElse(n, g)
  <2> SUFFICES ASSUME NEW a \in 0 .. Horizon, a + MaxDelay < Begun(n)
               PROVE  g[a] <= v.count
    BY DEF NothingElse
  <2>1. CASE a = 0
    BY <2>1, <1>0, Constants DEF Shifted
  <2>2. CASE a # 0
    <3>1. a - 1 \in 0 .. Horizon /\ (a - 1) + MaxDelay < Begun(v) /\ g[a] = f[a - 1]
      BY <2>2, <1>2, FloorIs, Constants DEF Shifted
    <3> QED BY <3>1, VisitorFields DEF Related, NothingElse
  <2> QED BY <2>1, <2>2
<1>5. LimitBefore(n, g)
  <2>1. g[Window - MaxDelay] <= f[Window - MaxDelay] /\ g[Window - MaxDelay] \in Nat
    BY Constants DEF Growing, Shifted
  <2>2. f[Window - MaxDelay] <= Limit + v.count /\ f[Window - MaxDelay] \in Nat
    BY Constants DEF Related, LimitBefore
  <2> QED BY <1>0, <2>1, <2>2, Constants DEF LimitBefore
<1> QED BY <1>3, <1>4, <1>5 DEF Related

LEMMA GrowingKept ==
    ASSUME NEW f \in [0 .. Horizon -> Nat], Growing(f)
    PROVE  /\ Growing([a \in 0 .. Horizon |-> f[a] + 1])
           /\ Growing(Shifted(f))
           /\ Shifted(f) \in [0 .. Horizon -> Nat]
<1>1. Growing([a \in 0 .. Horizon |-> f[a] + 1])
  BY DEF Growing
<1>2. ASSUME NEW a \in 0 .. Horizon, NEW b \in 0 .. Horizon, a <= b
      PROVE  (IF a = 0 THEN 0 ELSE f[a - 1]) <= (IF b = 0 THEN 0 ELSE f[b - 1])
  <2>1. CASE a = 0
    BY <2>1, Constants
  <2>2. CASE a # 0
    BY <2>2, <1>2, Constants DEF Growing
  <2> QED BY <2>1, <2>2
<1>3. Growing(Shifted(f))
  BY <1>2 DEF Growing, Shifted
<1>4. Shifted(f) \in [0 .. Horizon -> Nat]
  BY Constants DEF Shifted
<1> QED BY <1>1, <1>3, <1>4

-----------------------------------------------------------------------------
(* The inductive invariant. *)

LEMMA SoundRelated ==
    Sound <=> /\ TypeOK
              /\ \A k \in Keys : /\ Growing(admitted[k])
                                 /\ Related(visitors[k], admitted[k])
                                 /\ KeptBySweep(visitors[k], lastSweep)
  BY DEF Sound, Related

\* What Allow leaves in the map.
AllowStep(c) ==
    LET k == calls[c].key
        age == calls[c].age
        e == Current(Swept(age)[k], age)
    IN  /\ lastSweep' = IF SweepDue(age) THEN age ELSE lastSweep
        /\ \/ /\ Full(e)
              /\ visitors' = Swept(age)
              /\ UNCHANGED admitted
           \/ /\ ~ Full(e)
              /\ visitors' = [Swept(age) EXCEPT ![k] = [e EXCEPT !.count = @ + 1]]
              /\ admitted' = [admitted EXCEPT ![k] = [a \in 0 .. Horizon |-> @[a] + 1]]
        /\ calls' = [calls EXCEPT ![c] = Idle]

LEMMA AllowIs ==
    ASSUME TypeOK, NEW c \in Callers, Allow(c)
    PROVE  AllowStep(c) /\ calls[c].key \in Keys /\ calls[c].age \in 0 .. MaxDelay
<1>1. calls[c] \in Waiting
  BY DEF TypeOK, Allow
<1> QED BY <1>1 DEF Allow, AllowStep, Waiting

\* After the first part of Allow every entry is related to what was let
\* through as before, and none is left that was over for the call.
LEMMA SweptSound ==
    ASSUME Sound, NEW age \in 0 .. MaxDelay, NEW k \in Keys
    PROVE  /\ Swept(age)[k] \in Visitor \cup {Absent}
           /\ Related(Swept(age)[k], admitted[k])
           /\ KeptBySweep(Swept(age)[k], IF SweepDue(age) THEN age ELSE lastSweep)
<1> DEFINE v == visitors[k]
           w == Swept(age)[k]
           f == admitted[k]
<1>1. /\ v \in Visitor \cup {Absent}
      /\ f \in [0 .. Horizon -> Nat]
      /\ Related(v, f)
      /\ KeptBySweep(v, lastSweep)
  BY SoundRelated DEF TypeOK
<1>2. w = IF SweepDue(age) /\ v # Absent /\ Over(v, age) THEN Absent ELSE v
  BY DEF Swept
<1> HIDE DEF v, w, f
<1>3. w \in Visitor \cup {Absent}
  BY <1>1, <1>2
<1>4. Related(w, f)
  <2>1. CASE Over(v, age)
    <3>1. Related(Absent, f)
      BY <1>1, <2>1, SweepEntry
    <3> QED BY <1>1, <1>2, <3>1
  <2>2. CASE ~ Over(v, age)
    BY <1>1, <1>2, <2>2
  <2> QED BY <2>1, <2>2
<1>5. KeptBySweep(w, IF SweepDue(age) THEN age ELSE lastSweep)
  <2>1. CASE SweepDue(age)
    <3> SUFFICES ASSUME w # Absent PROVE -age <= w.left
      BY <2>1 DEF KeptBySweep
    <3>1. w = v /\ v \in Visitor /\ ~ Over(v, age)
      BY <1>1, <1>2, <2>1
    <3>2. v.left \in Floor .. Window /\ v.left \in Int
      BY <3>1, VisitorFields, FloorIs, Constants
    <3> QED BY <3>1, <3>2 DEF Over
  <2>2. CASE ~ SweepDue(age)
    BY <1>1, <1>2, <2>2
  <2> QED BY <2>1, <2>2
<1> QED BY <1>3, <1>4, <1>5 DEF v, w, f

\* A new entry is not over at the time of the last sweep.
LEMMA CountedKept ==
    ASSUME NEW v \in Visitor \cup {Absent}, NEW age \in 0 .. MaxDelay,
           NEW last \in 0 .. Horizon + 1, KeptBySweep(v, last),
           NEW e, e = Current(v, age), NEW n, n = [e EXCEPT !.count = @ + 1]
    PROVE  KeptBySweep(n, last)
<1>1. CASE v = Absent \/ Over(v, age)
  <2>1. n = [ count |-> 1, left |-> Window - age ]
    BY <1>1 DEF Current
  <2>2. -last <= Window - age
    BY Constants
  <2> QED BY <2>1, <2>2 DEF KeptBySweep
<1>2. CASE ~ (v = Absent \/ Over(v, age))
  <2>1. e = v /\ v \in Visitor /\ v # Absent
    BY <1>2 DEF Current
  <2>2. n.left = v.left
    <3>1. v = [ count |-> v.count, left |-> v.left ]
      BY <2>1, VisitorIsRecord
    <3> QED BY <2>1, <3>1
  <2> QED BY <2>1, <2>2 DEF KeptBySweep
<1> QED BY <1>1, <1>2

LEMMA SoundInit == Init => Sound
<1> SUFFICES ASSUME Init PROVE Sound
  OBVIOUS
<1>1. TypeOK
  BY Constants DEF Init, TypeOK
<1>2. ASSUME NEW k \in Keys
      PROVE  /\ Growing(admitted[k])
             /\ Related(visitors[k], admitted[k])
             /\ KeptBySweep(visitors[k], lastSweep)
  <2>1. visitors[k] = Absent /\ admitted[k] = [a \in 0 .. Horizon |-> 0]
    BY DEF Init
  <2>2. Growing(admitted[k])
    BY <2>1 DEF Growing
  <2>3. LimitBefore(visitors[k], admitted[k])
    BY <2>1, Constants DEF LimitBefore, Absent
  <2> QED BY <2>1, <2>2, <2>3 DEF Related, CountedSince, NothingElse, KeptBySweep
<1> QED BY <1>1, <1>2, SoundRelated

LEMMA SoundArrive ==
    ASSUME Sound, NEW c \in Callers, NEW k \in Keys, Arrive(c, k)
    PROVE  Sound'
<1>1. [ key |-> k, age |-> 0 ] \in Waiting
  BY Constants DEF Waiting
<1>2. TypeOK'
  BY <1>1 DEF Sound, TypeOK, Arrive
<1>3. UNCHANGED <<visitors, lastSweep, admitted>>
  BY DEF Arrive
<1> QED BY <1>2, <1>3 DEF Sound

LEMMA SoundAllow ==
    ASSUME Sound, NEW c \in Callers, Allow(c)
    PROVE  Sound'
<1> DEFINE k == calls[c].key
           age == calls[c].age
           w == Swept(age)[k]
           e == Current(w, age)
           n == [e EXCEPT !.count = @ + 1]
           last == IF SweepDue(age) THEN age ELSE lastSweep
<1>1. AllowStep(c) /\ k \in Keys /\ age \in 0 .. MaxDelay
  BY AllowIs DEF Sound
<1>2. last \in 0 .. Horizon + 1 /\ lastSweep' = last
  BY <1>1, Constants DEF Sound, TypeOK, AllowStep
<1>3. ASSUME NEW j \in Keys
      PROVE  /\ Swept(age)[j] \in Visitor \cup {Absent}
             /\ Related(Swept(age)[j], admitted[j])
             /\ KeptBySweep(Swept(age)[j], last)
             /\ Growing(admitted[j])
             /\ admitted[j] \in [0 .. Horizon -> Nat]
  BY <1>1, SweptSound, SoundRelated DEF TypeOK
<1>4. calls' \in [Callers -> Waiting \cup {Idle}]
  BY <1>1 DEF Sound, TypeOK, AllowStep
<1>5. CASE Full(e)
  <2>1. visitors' = Swept(age) /\ admitted' = admitted
    BY <1>1, <1>5 DEF AllowStep
  <2>2. visitors' \in [Keys -> Visitor \cup {Absent}]
    BY <2>1, <1>3 DEF Swept
  <2>3. TypeOK'
    BY <1>2, <1>4, <2>1, <2>2 DEF Sound, TypeOK
  <2>4. ASSUME NEW j \in Keys
        PROVE  /\ Growing(admitted'[j])
               /\ Related(visitors'[j], admitted'[j])
               /\ KeptBySweep(visitors'[j], lastSweep')
    BY <1>2, <1>3, <2>1
  <2> QED BY <2>3, <2>4 DEF Sound, Related
<1>6. CASE ~ Full(e)
  <2> DEFINE g == [a \in 0 .. Horizon |-> admitted[k][a] + 1]
  <2>1. /\ visitors' = [Swept(age) EXCEPT ![k] = n]
        /\ admitted' = [admitted EXCEPT ![k] = g]
    BY <1>1, <1>6 DEF AllowStep
  <2>2. n \in Visitor /\ Related(n, g)
    BY <1>1, <1>3, <1>6, CountCall
  <2>3. KeptBySweep(n, last)
    BY <1>1, <1>2, <1>3, CountedKept
  <2>4. Growing(g) /\ g \in [0 .. Horizon -> Nat]
    <3> DEFINE f == admitted[k]
    <3>1. f \in [0 .. Horizon -> Nat] /\ Growing(f)
      BY <1>1, <1>3
    <3>2. g = [a \in 0 .. Horizon |-> f[a] + 1]
      OBVIOUS
    <3> HIDE DEF f, g
    <3>3. g \in [0 .. Horizon -> Nat]
      BY <3>1, <3>2
    <3>4. Growing(g)
      BY <3>1, <3>2 DEF Growing
    <3> QED BY <3>3, <3>4
  <2>5. ASSUME NEW j \in Keys
        PROVE  /\ visitors'[j] = IF j = k THEN n ELSE Swept(age)[j]
               /\ admitted'[j] = IF j = k THEN g ELSE admitted[j]
    BY <2>1 DEF Swept, Sound, TypeOK
  <2>6. visitors' \in [Keys -> Visitor \cup {Absent}]
    <3>1. Swept(age) \in [Keys -> Visitor \cup {Absent}]
      BY <1>3 DEF Swept
    <3> HIDE DEF n
    <3> QED BY <3>1, <2>1, <2>2
  <2>7. admitted' \in [Keys -> [0 .. Horizon -> Nat]]
    <3> HIDE DEF g
    <3> QED BY <2>1, <2>4 DEF Sound, TypeOK
  <2>8. TypeOK'
    BY <1>2, <1>4, <2>6, <2>7 DEF TypeOK
  <2>9. ASSUME NEW j \in Keys
        PROVE  /\ Growing(admitted'[j])
               /\ Related(visitors'[j], admitted'[j])
               /\ KeptBySweep(visitors'[j], lastSweep')
    <3> HIDE DEF n, g, last
    <3> QED BY <1>2, <1>3, <2>2, <2>3, <2>4, <2>5
  <2> QED BY <2>8, <2>9 DEF Sound, Related
<1> QED BY <1>5, <1>6

LEMMA SoundTick == ASSUME Sound, Tick PROVE Sound'
<1>1. ASSUME NEW k \in Keys
      PROVE  /\ visitors'[k] \in Visitor \cup {Absent}
             /\ admitted'[k] \in [0 .. Horizon -> Nat]
             /\ Growing(admitted'[k])
             /\ Related(visitors'[k], admitted'[k])
             /\ KeptBySweep(visitors'[k], lastSweep')
  <2> DEFINE v == visitors[k]
             f == admitted[k]
             g == Shifted(f)
  <2>1. /\ visitors'[k] = IF v = Absent THEN Absent ELSE Aged(v)
        /\ admitted'[k] = g
    BY DEF Tick, Aged, Shifted
  <2>2. /\ v \in Visitor \cup {Absent}
        /\ f \in [0 .. Horizon -> Nat]
        /\ Growing(f) /\ Related(v, f) /\ KeptBySweep(v, lastSweep)
        /\ lastSweep \in 0 .. Horizon + 1
    BY SoundRelated DEF TypeOK
  <2>3. lastSweep' = IF lastSweep <= Horizon THEN lastSweep + 1 ELSE lastSweep
    BY DEF Tick
  <2> HIDE DEF v, f
  <2>4. Growing(g)
    BY <2>2, GrowingKept
  <2>5. g \in [0 .. Horizon -> Nat]
    BY <2>2, GrowingKept
  <2>6. CASE v = Absent
    <3>1. g[Window - MaxDelay] <= f[Window - MaxDelay]
      BY <2>2, Constants DEF Growing, Shifted
    <3>2. g[Window - MaxDelay] \in Nat /\ f[Window - MaxDelay] \in Nat
      BY <2>2, <2>5, Constants
    <3> HIDE DEF g
    <3>3. LimitBefore(Absent, g)
      BY <2>2, <2>6, <3>1, <3>2, Constants DEF Related, LimitBefore, Absent
    <3> QED
      BY <2>1, <2>4, <2>5, <2>6, <3>3
      DEF Related, CountedSince, NothingElse, KeptBySweep
  <2>7. CASE v # Absent
    <3>1. /\ Aged(v) \in Visitor /\ Aged(v).count = v.count
          /\ \/ Aged(v).left = v.left - 1
             \/ Aged(v).left = v.left /\ v.left = Floor
      BY <2>2, <2>7, AgedFields
    <3>2. Related(Aged(v), g)
      BY <2>2, <2>7, <3>1, AgeEntry
    <3>3. KeptBySweep(Aged(v), lastSweep')
      <4> SUFFICES ASSUME lastSweep' <= Horizon PROVE -lastSweep' <= Aged(v).left
        BY DEF KeptBySweep
      <4>1. lastSweep' = lastSweep + 1 /\ lastSweep <= Horizon /\ lastSweep \in Nat
        BY <2>2, <2>3, Constants
      <4>2. -lastSweep <= v.left
        BY <2>2, <2>7, <4>1 DEF KeptBySweep
      <4>3. v.left \in Int
        BY <2>2, <2>7, VisitorFields, FloorIs, Constants
      <4> QED BY <3>1, <4>1, <4>2, <4>3
    <3> HIDE DEF g
    <3> QED BY <2>1, <2>4, <2>5, <2>7, <3>1, <3>2, <3>3
  <2> QED BY <2>6, <2>7
<1>2. lastSweep' \in 0 .. Horizon + 1
  BY Constants DEF Sound, TypeOK, Tick
<1>3. calls' \in [Callers -> Waiting \cup {Idle}]
  <2> SUFFICES ASSUME NEW c \in Callers
               PROVE  (IF calls[c] = Idle THEN Idle
                       ELSE [calls[c] EXCEPT !.age = @ + 1]) \in Waiting \cup {Idle}
    BY DEF Tick
  <2>1. calls[c] \in Waiting \cup {Idle} /\ calls[c].age < MaxDelay
    BY DEF Sound, TypeOK, Tick
  <2>2. CASE calls[c] # Idle
    BY <2>1, <2>2, Constants DEF Waiting
  <2> QED BY <2>2
<1>4. /\ visitors' \in [Keys -> Visitor \cup {Absent}]
      /\ admitted' \in [Keys -> [0 .. Horizon -> Nat]]
  <2>1. DOMAIN visitors' = Keys /\ DOMAIN admitted' = Keys
    BY DEF Tick
  <2>2. /\ visitors' = [k \in Keys |-> visitors'[k]]
        /\ admitted' = [k \in Keys |-> admitted'[k]]
    BY DEF Tick
  <2> QED BY <1>1, <2>2
<1>5. TypeOK'
  BY <1>2, <1>3, <1>4 DEF TypeOK
<1> QED BY <1>1, <1>5 DEF Sound, Related

LEMMA SoundStep == Sound /\ [Next]_vars => Sound'
<1> SUFFICES ASSUME Sound, [Next]_vars PROVE Sound'
  OBVIOUS
<1>1. CASE UNCHANGED vars
  BY <1>1 DEF vars, Sound, TypeOK
<1>2. CASE Next
  BY <1>2, SoundAllow, SoundArrive, SoundTick DEF Next
<1> QED BY <1>1, <1>2

LEMMA AlwaysSound == Spec => []Sound
  BY SoundInit, SoundStep, PTL DEF Spec

-----------------------------------------------------------------------------
(* The theorems. *)

\* Type correctness of the map, the sweep, the calls and the history: no entry
\* ever counts more than the limit.
THEOREM LimiterTyped == Spec => []TypeOK
<1>1. Sound => TypeOK
  BY DEF Sound
<1> QED BY <1>1, AlwaysSound, PTL

\* However late calls enter Allow, no more than two windows meet in a stretch
\* of time that is shorter than a window by the longest delay.
THEOREM BurstsAreBounded == Spec => []BurstBound
<1>1. Sound => BurstBound
  <2> SUFFICES ASSUME Sound, NEW k \in Keys
               PROVE  admitted[k][Window - MaxDelay] <= 2 * Limit
    BY DEF BurstBound
  <2>1. /\ visitors[k] \in Visitor \cup {Absent}
        /\ admitted[k] \in [0 .. Horizon -> Nat]
        /\ admitted[k][Window - MaxDelay] <= Limit + visitors[k].count
    BY DEF Sound, TypeOK, LimitBefore
  <2>2. visitors[k].count \in 0 .. Limit
    <3>1. CASE visitors[k] \in Visitor
      BY <3>1, VisitorFields, Constants
    <3>2. CASE visitors[k] = Absent
      BY <3>2, Constants DEF Absent
    <3> QED BY <2>1, <3>1, <3>2
  <2>3. admitted[k][Window - MaxDelay] \in Nat
    BY <2>1, Constants
  <2> QED BY <2>1, <2>2, <2>3, Constants
<1> QED BY <1>1, AlwaysSound, PTL

LEMMA ServedByAllow ==
    ASSUME Sound, [Next]_vars, NEW c \in Callers, Served(c)
    PROVE  Allow(c)
<1>1. CASE Tick
  BY <1>1, IdleIsNoCall DEF Tick, Served, Sound, TypeOK, Waiting, Idle
<1>2. ASSUME NEW b \in Callers, NEW k \in Keys, Arrive(b, k) PROVE FALSE
  BY <1>2, LimiterAssumption DEF Arrive, Served, Sound, TypeOK, Idle
<1>3. ASSUME NEW b \in Callers, Allow(b) PROVE b = c
  BY <1>3 DEF Allow, Served, Sound, TypeOK
<1>4. CASE UNCHANGED vars
  BY <1>4 DEF vars, Served
<1> QED BY <1>1, <1>2, <1>3, <1>4 DEF Next

\* A call that Allow refuses is refused because the limit was used up in the
\* window that the entry of its key stands for.
THEOREM RefusalsAreJustified == Spec => RefusalJustified
<1>1. ASSUME Sound, [Next]_vars, NEW c \in Callers, Served(c), admitted' = admitted
      PROVE  admitted[calls[c].key][Horizon] >= Limit
  <2> DEFINE k == calls[c].key
             age == calls[c].age
             f == admitted[k]
             w == Swept(age)[k]
  <2>1. AllowStep(c) /\ k \in Keys /\ age \in 0 .. MaxDelay
    BY <1>1, ServedByAllow, AllowIs DEF Sound
  <2>2. f \in [0 .. Horizon -> Nat] /\ Growing(f)
    BY <1>1, <2>1 DEF Sound, TypeOK
  <2>3. w \in Visitor \cup {Absent} /\ Related(w, f)
    BY <1>1, <2>1, SweptSound
  <2>4. Full(Current(w, age))
    <3> SUFFICES ASSUME ~ Full(Current(w, age)) PROVE FALSE
      OBVIOUS
    <3>1. admitted'[k] = [a \in 0 .. Horizon |-> f[a] + 1]
      BY <1>1, <2>1 DEF AllowStep, Sound, TypeOK
    <3>2. admitted'[k][0] = f[0] + 1 /\ f[0] \in Nat
      BY <2>2, <3>1, Constants
    <3> QED BY <1>1, <3>2
  <2> HIDE DEF k, age, f, w
  <2>5. w \in Visitor /\ ~ Over(w, age) /\ w.count >= Limit
    <3>1. CASE w = Absent \/ Over(w, age)
      BY <2>4, <3>1, Constants DEF Current, Full
    <3>2. CASE ~ (w = Absent \/ Over(w, age))
      BY <2>3, <2>4, <3>2 DEF Current, Full
    <3> QED BY <3>1, <3>2
  <2>6. w.left \in Floor .. Window /\ w # Absent /\ w.count \in Nat
    BY <2>5, VisitorFields, Constants
  <2>7. Begun(w) \in 0 .. Horizon
    BY <2>1, <2>5, <2>6, FloorIs, Constants DEF Over, Begun
  <2>8. w.count <= f[Begun(w)]
    BY <2>3, <2>6, <2>7 DEF Related, CountedSince
  <2>9. f[Begun(w)] <= f[Horizon] /\ f[Begun(w)] \in Nat /\ f[Horizon] \in Nat
    BY <2>2, <2>7, Constants DEF Growing
  <2>10. f[Horizon] >= Limit
    BY <2>5, <2>6, <2>8, <2>9, Constants
  <2> QED BY <2>10 DEF f, k
<1>2. Sound /\ [Next]_vars =>
         [\A c \in Callers : (Served(c) /\ admitted' = admitted)
             => admitted[calls[c].key][Horizon] >= Limit]_vars
  BY <1>1
<1> QED BY <1>2, AlwaysSound, PTL DEF Spec, RefusalJustified

\* Whenever a call is served no entry is left that was over for more than a
\* window before it.
THEOREM SweepsAreInTime == Spec => SweptInTime
<1>1. ASSUME Sound, [Next]_vars, NEW c \in Callers, Served(c),
             NEW k \in Keys, visitors'[k] # Absent
      PROVE  ~ Over(visitors'[k], Horizon)
  <2> DEFINE age == calls[c].age
             v == visitors'[k]
  <2>1. AllowStep(c) /\ age \in 0 .. MaxDelay
    BY <1>1, ServedByAllow, AllowIs DEF Sound
  <2>2. Sound'
    BY <1>1, SoundStep
  <2>3. v \in Visitor /\ KeptBySweep(v, lastSweep')
    BY <1>1, <2>2 DEF Sound, TypeOK
  <2>4. lastSweep' \in 0 .. Horizon
    <3>1. lastSweep \in Nat
      BY <1>1, Constants DEF Sound, TypeOK
    <3> QED BY <2>1, <3>1, Constants DEF AllowStep, SweepDue
  <2> HIDE DEF v
  <2>5. v # Absent /\ v.left \in Floor .. Window
    BY <2>3, VisitorFields
  <2>6. -lastSweep' <= v.left
    BY <2>3, <2>4, <2>5 DEF KeptBySweep
  <2>7. ~ Over(v, Horizon)
    BY <2>4, <2>5, <2>6, FloorIs, Constants DEF Over
  <2> QED BY <2>7 DEF v
<1>2. Sound /\ [Next]_vars =>
         [\A c \in Callers :
             Served(c) => \A k \in Keys : visitors'[k] # Absent
                                            => ~ Over(visitors'[k], Horizon)]_vars
  BY <1>1
<1> QED BY <1>2, AlwaysSound, PTL DEF Spec, SweptInTime
=============================================================================
