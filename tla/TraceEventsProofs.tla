------------------------- MODULE TraceEventsProofs -------------------------
(***************************************************************************)
(* Theorems about TraceEvents, for any traces, request slots, distances    *)
(* and bounds.                                                             *)
(*                                                                         *)
(* The heart of the matter is DoomedIsUnreviewed: from the statement that  *)
(* deletes to the commit, the rows a detection has deleted are exactly the *)
(* rows of its trace that nobody has reviewed.  It holds because the row   *)
(* lock of the trace keeps other detections out (LocksExclude) and the     *)
(* locks of the deleted rows keep reviews out.  Besides, no two detections *)
(* share a number, no stored event has the number of one still on its way  *)
(* (RunsDistinct), and the primary keys in store suffice (KeysSuffice).    *)
(***************************************************************************)
EXTENDS TraceEvents, FiniteSetTheorems, TLAPS

Detecting(w) == req[w].pc \in {"update", "replace", "insert"}

Locking(w) == req[w].pc \in {"replace", "insert"}

Reviewing(w) == req[w].pc \in {"check", "write"}

\* What a request holds, by the statement it will run next.
RequestSound(w) ==
    /\ Detecting(w) => req[w].trace \in Traces /\ req[w].run \in 1 .. runs
    /\ Reviewing(w) => /\ w \in Reviewers
                       /\ req[w].id \in Ids
                       /\ req[w].before \in Event
                       /\ req[w].item \in Event
    /\ ~ At(w, "insert") => req[w].doomed = {}

RequestsSound == \A w \in Actors : RequestSound(w)

LocksExclude ==
    \A u, w \in Actors : Locking(u) /\ Locking(w) /\ req[u].trace = req[w].trace => u = w

DoomedIsUnreviewed ==
    \A w \in Actors : At(w, "insert") => req[w].doomed = Catalog!Unreviewed(req[w].trace)

RunsDistinct ==
    /\ \A u, w \in Actors : Detecting(u) /\ Detecting(w) /\ req[u].run = req[w].run => u = w
    /\ \A i \in Present : /\ event[i].run <= runs
                          /\ \A w \in Actors : Detecting(w) => req[w].run # event[i].run

\* The numbers of the detections on their way.  Each may still take a primary
\* key per distance.
Pending == {req[w].run : w \in {u \in Actors : Detecting(u)}}

KeysSuffice ==
    /\ nextId \in Nat \ {0}
    /\ nextId <= 1 + (runs - Cardinality(Pending)) * Cardinality(Distances)
    /\ \A i \in Ids : i >= nextId => event[i] = NoEvent

\* CurveAndEventsAgree for one trace, imported or not.
OfRun(t) == {i \in Present : event[i].trace = t /\ event[i].run = curve[t].run}

Agrees(t) ==
    /\ \A i \in Present : (event[i].trace = t /\ event[i].reviewedBy = Nobody)
                            => event[i].run = curve[t].run
    /\ {event[i].algorithm : i \in OfRun(t)} = curve[t].found
    /\ Cardinality(OfRun(t)) = Cardinality(curve[t].found)

AllAgree == \A t \in Traces : Agrees(t)

Sound == /\ TypeOK
         /\ RequestsSound
         /\ LocksExclude
         /\ DoomedIsUnreviewed
         /\ RunsDistinct
         /\ KeysSuffice
         /\ AllAgree

-----------------------------------------------------------------------------
(* Facts about the values. *)

\* A request with nothing to do is one, and holds nothing.
LEMMA IdleRequest == Idle \in Request /\ Idle.pc = "idle" /\ Idle.doomed = {}
BY NumbersAssumption DEF Idle, Request, Steps

\* The abstract specification counts as this one does.
LEMMA SameCardinality == \A S : Catalog!Cardinality(S) = Cardinality(S)
BY DEF Catalog!Cardinality, Cardinality

\* Primary keys are the numbers up to what all detections can take.
LEMMA IdsCount ==
    /\ Cardinality(Distances) \in Nat
    /\ MaxRuns * Cardinality(Distances) \in Nat
    /\ Cardinality(Ids) = MaxRuns * Cardinality(Distances)
    /\ Ids \subseteq Nat \ {0}
<1>1. Cardinality(Distances) \in Nat
  BY NumbersAssumption, FS_CardinalityType
<1>. DEFINE n == MaxRuns * Cardinality(Distances)
<1>2. n \in Nat
  BY <1>1, NumbersAssumption
<1>3. Cardinality(1 .. n) = n
  <2>. HIDE DEF n
  <2>. QED BY <1>2, FS_Interval
<1>4. Ids = 1 .. n
  BY DEF Ids
<1>. QED BY <1>1, <1>2, <1>3, <1>4

\* Multiples grow with the factor.
LEMMA TimesMonotonic ==
    ASSUME NEW a \in Nat, NEW b \in Nat, NEW d \in Nat, a <= b
    PROVE  /\ a * d <= b * d
           /\ (a + 1) * d = a * d + d
<1>1. b * d = a * d + (b - a) * d
  BY SMT
<1>2. (b - a) * d >= 0
  BY SMT
<1>3. (a + 1) * d = a * d + d
  BY SMT
<1>. QED BY <1>1, <1>2, <1>3

\* A set of the same size as its image under a function without collisions.
LEMMA ImageCount ==
    ASSUME NEW S, NEW T, IsFiniteSet(S), NEW f \in [S -> T],
           \A x, y \in S : f[x] = f[y] => x = y,
           \A y \in T : \E x \in S : f[x] = y
    PROVE  IsFiniteSet(T) /\ Cardinality(T) = Cardinality(S)
<1>1. f \in Bijection(S, T)
  BY DEF Bijection, Injection, Surjection, IsInjective
<1>. QED BY <1>1, FS_Bijection DEF ExistsBijection

\* What a detection finds is finite, and not more than there are distances.
LEMMA FoundCount ==
    ASSUME NEW found \in SUBSET Distances
    PROVE  /\ IsFiniteSet(found)
           /\ Cardinality(found) \in 0 .. Cardinality(Distances)
<1>1. IsFiniteSet(found) /\ Cardinality(found) <= Cardinality(Distances)
  BY NumbersAssumption, FS_Subset
<1>2. Cardinality(found) \in Nat /\ Cardinality(Distances) \in Nat
  BY <1>1, NumbersAssumption, FS_CardinalityType
<1>. QED BY <1>1, <1>2

\* The keys of what was found follow each other from the next one, and no two
\* are the same.
LEMMA KeysOfFound ==
    ASSUME NEW found \in SUBSET Distances, nextId \in Nat
    PROVE  /\ \A d \in found :
                 Catalog!IdFor(found, d) \in nextId .. nextId + Cardinality(found) - 1
           /\ \A d, e \in found :
                 Catalog!IdFor(found, d) = Catalog!IdFor(found, e) => d = e
<1>. DEFINE Below(d) == {x \in found : x < d}
<1>1. IsFiniteSet(found) /\ Cardinality(found) \in Nat /\ found \subseteq Nat
  BY FoundCount, NumbersAssumption, IdsCount
<1>2. ASSUME NEW S \in SUBSET found, NEW T \in SUBSET S, NEW d \in S, d \notin T
      PROVE  Cardinality(T) \in Nat /\ Cardinality(S) \in Nat /\ Cardinality(T) < Cardinality(S)
  <2>1. IsFiniteSet(S) /\ IsFiniteSet(T)
    BY <1>1, <1>2, FS_Subset
  <2>. QED BY <1>2, <2>1, FS_Subset, FS_CardinalityType
<1>3. \A d \in found : /\ Cardinality(Below(d)) \in Nat
                       /\ Cardinality(Below(d)) < Cardinality(found)
  <2>. SUFFICES ASSUME NEW d \in found
                PROVE  /\ Cardinality(Below(d)) \in Nat
                       /\ Cardinality(Below(d)) < Cardinality(found)
    OBVIOUS
  <2>1. d \notin Below(d) /\ Below(d) \in SUBSET found
    BY <1>1
  <2>. HIDE DEF Below
  <2>. QED BY <1>2, <2>1
<1>4. ASSUME NEW d \in found, NEW e \in found, d < e
      PROVE  Cardinality(Below(d)) < Cardinality(Below(e))
  <2>1. \A x \in found : x < d => x < e
    BY <1>1, <1>4
  <2>2. Below(d) \in SUBSET Below(e) /\ Below(e) \in SUBSET found
    BY <2>1
  <2>3. d \in Below(e) /\ d \notin Below(d)
    BY <1>1, <1>4
  <2>. HIDE DEF Below
  <2>. QED BY <1>2, <2>2, <2>3
<1>5. \A d : Catalog!IdFor(found, d) = nextId + Cardinality(Below(d))
  BY SameCardinality DEF Catalog!IdFor
<1>. HIDE DEF Below
<1>6. \A d \in found :
         Catalog!IdFor(found, d) \in nextId .. nextId + Cardinality(found) - 1
  BY <1>1, <1>3, <1>5
<1>7. ASSUME NEW d \in found, NEW e \in found,
             Catalog!IdFor(found, d) = Catalog!IdFor(found, e)
      PROVE  d = e
  <2>1. Cardinality(Below(d)) = Cardinality(Below(e))
    BY <1>3, <1>5, <1>7
  <2>2. ~ (d < e) /\ ~ (e < d)
    BY <1>3, <1>4, <2>1
  <2>. QED BY <1>1, <2>2
<1>. QED BY <1>6, <1>7

-----------------------------------------------------------------------------
(* What the two transactions write. *)

\* The numbers on their way are among those given out.
LEMMA PendingCount ==
    ASSUME TypeOK, RequestsSound
    PROVE  /\ Pending \subseteq 1 .. runs
           /\ IsFiniteSet(Pending)
           /\ Cardinality(Pending) \in 0 .. runs
<1>1. Pending \subseteq 1 .. runs
  BY DEF Pending, RequestsSound, RequestSound
<1>2. runs \in Nat /\ IsFiniteSet(1 .. runs) /\ Cardinality(1 .. runs) = runs
  BY FS_Interval, NumbersAssumption DEF TypeOK
<1>3. IsFiniteSet(Pending) /\ Cardinality(Pending) <= runs
  BY <1>1, <1>2, FS_Subset
<1>4. Cardinality(Pending) \in Nat
  BY <1>3, FS_CardinalityType
<1>. QED BY <1>1, <1>2, <1>3, <1>4

\* A detection that is on its way finds enough primary keys.
LEMMA Room ==
    ASSUME TypeOK, RequestsSound, KeysSuffice, NEW w \in Actors, Detecting(w)
    PROVE  nextId + Cardinality(req[w].found) <= 1 + MaxRuns * Cardinality(Distances)
<1>. DEFINE p == Cardinality(Pending)
            D == Cardinality(Distances)
<1>1. req[w].run \in Pending
  BY DEF Pending
<1>2. p \in Nat /\ p <= runs /\ p # 0
  BY <1>1, PendingCount, FS_EmptySet DEF TypeOK
<1>3. D \in Nat /\ Cardinality(req[w].found) \in Nat /\ Cardinality(req[w].found) <= D
  BY IdsCount, FoundCount DEF TypeOK, Request
<1>4. MaxRuns \in Nat /\ runs \in Nat /\ runs <= MaxRuns
  BY NumbersAssumption DEF TypeOK
<1>5. nextId \in Nat /\ nextId <= 1 + (runs - p) * D
  BY DEF KeysSuffice
<1>. HIDE DEF p, D
<1>6. runs - p \in Nat /\ runs - p + 1 \in Nat /\ runs - p + 1 <= MaxRuns
  BY <1>2, <1>4
<1>7. (runs - p + 1) * D = (runs - p) * D + D
  BY <1>3, <1>6, TimesMonotonic
<1>8. (runs - p + 1) * D <= MaxRuns * D
  BY <1>3, <1>4, <1>6, TimesMonotonic
<1>9. (runs - p) * D \in Nat /\ MaxRuns * D \in Nat
  BY <1>3, <1>4, <1>6
<1>10. nextId + Cardinality(req[w].found) <= 1 + MaxRuns * D
  BY <1>3, <1>5, <1>7, <1>8, <1>9
<1>. QED BY <1>10 DEF D

\* The abstract specification means the same events by unreviewed as the
\* statement that deletes them.
LEMMA UnreviewedMeaning ==
    \A t : Catalog!Unreviewed(t) = {i \in Present : Replaceable(i, t)}
BY DEF Catalog!Unreviewed, Catalog!Present, Present, Replaceable

NewKeys(w) == {Catalog!IdFor(req[w].found, d) : d \in req[w].found}

\* The commit of a detection stores an event for every distance found, under
\* keys not used before, and removes what it deleted; nothing else changes.
LEMMA CommitWrites ==
    ASSUME TypeOK, RequestsSound, KeysSuffice, NEW w \in Actors, DetectCommit(w)
    PROVE  LET q == req[w]
           IN  /\ \A i \in NewKeys(w) :
                     /\ i \in Ids \ Present
                     /\ nextId <= i /\ i < nextId + Cardinality(q.found)
                     /\ event'[i] \in Event
                     /\ event'[i].trace = q.trace
                     /\ event'[i].run = q.run
                     /\ event'[i].reviewedBy = Nobody
                     /\ event'[i].algorithm \in q.found
                     /\ i = Catalog!IdFor(q.found, event'[i].algorithm)
               /\ \A d \in q.found : event'[Catalog!IdFor(q.found, d)].algorithm = d
               /\ \A i \in Ids \ NewKeys(w) :
                     event'[i] = IF i \in q.doomed THEN NoEvent ELSE event[i]
               /\ event' \in [Ids -> Event \cup {NoEvent}]
<1>. DEFINE q == req[w]
<1>1. /\ q.trace \in Traces
      /\ q.run \in 1 .. MaxRuns
      /\ q.found \in SUBSET Distances
      /\ nextId \in Nat \ {0}
      /\ Detecting(w)
  BY NumbersAssumption
     DEF DetectCommit, At, RequestsSound, RequestSound, Detecting, KeysSuffice, TypeOK, Request
<1>2. /\ \A d \in q.found :
            Catalog!IdFor(q.found, d) \in nextId .. nextId + Cardinality(q.found) - 1
      /\ \A d, e \in q.found :
            Catalog!IdFor(q.found, d) = Catalog!IdFor(q.found, e) => d = e
  BY <1>1, KeysOfFound
<1>3. Cardinality(q.found) \in Nat
  BY <1>1, FoundCount, IdsCount
<1>4. \A i \in NewKeys(w) : i \in Ids /\ nextId <= i /\ i < nextId + Cardinality(q.found)
  BY <1>1, <1>2, <1>3, Room, IdsCount DEF NewKeys, Ids
<1>5. \A i \in NewKeys(w) : i \notin Present
  BY <1>4 DEF KeysSuffice, Present
<1>6. event' = [i \in Ids |->
                  IF i \in NewKeys(w)
                  THEN Catalog!Fresh(q.trace, q.run,
                          CHOOSE d \in q.found : i = Catalog!IdFor(q.found, d))
                  ELSE IF i \in q.doomed THEN NoEvent ELSE event[i]]
  BY DEF DetectCommit, Catalog!Replaced, NewKeys
<1>7. ASSUME NEW d \in q.found
      PROVE  event'[Catalog!IdFor(q.found, d)] = Catalog!Fresh(q.trace, q.run, d)
  <2>1. Catalog!IdFor(q.found, d) \in NewKeys(w)
    BY DEF NewKeys
  <2>2. (CHOOSE e \in q.found : Catalog!IdFor(q.found, d) = Catalog!IdFor(q.found, e)) = d
    BY <1>2
  <2>. QED BY <1>4, <1>6, <2>1, <2>2
<1>8. ASSUME NEW d \in q.found
      PROVE  /\ Catalog!Fresh(q.trace, q.run, d) \in Event
             /\ Catalog!Fresh(q.trace, q.run, d).trace = q.trace
             /\ Catalog!Fresh(q.trace, q.run, d).run = q.run
             /\ Catalog!Fresh(q.trace, q.run, d).reviewedBy = Nobody
             /\ Catalog!Fresh(q.trace, q.run, d).algorithm = d
  BY <1>1 DEF Catalog!Fresh, Event
<1>9. \A i \in NewKeys(w) : \E d \in q.found : i = Catalog!IdFor(q.found, d)
  BY DEF NewKeys
<1>10. \A i \in Ids : event'[i] \in Event \cup {NoEvent}
  <2>. SUFFICES ASSUME NEW i \in Ids PROVE event'[i] \in Event \cup {NoEvent}
    OBVIOUS
  <2>1. CASE i \in NewKeys(w)
    BY <1>7, <1>8, <1>9, <2>1
  <2>2. CASE i \notin NewKeys(w)
    BY <1>6, <2>2 DEF TypeOK
  <2>. QED BY <2>1, <2>2
<1>11. event' \in [Ids -> Event \cup {NoEvent}]
  BY <1>6, <1>10
<1>12. ASSUME NEW i \in NewKeys(w)
       PROVE  /\ event'[i] \in Event
              /\ event'[i].trace = q.trace
              /\ event'[i].run = q.run
              /\ event'[i].reviewedBy = Nobody
              /\ event'[i].algorithm \in q.found
              /\ i = Catalog!IdFor(q.found, event'[i].algorithm)
  <2>1. PICK d \in q.found : i = Catalog!IdFor(q.found, d)
    BY <1>9
  <2>2. event'[i] = Catalog!Fresh(q.trace, q.run, d)
    BY <1>7, <2>1
  <2>. QED BY <1>8, <2>1, <2>2
<1>13. \A d \in q.found : event'[Catalog!IdFor(q.found, d)].algorithm = d
  BY <1>7, <1>8
<1>14. \A i \in Ids \ NewKeys(w) :
          event'[i] = IF i \in q.doomed THEN NoEvent ELSE event[i]
  BY <1>6
<1>. QED BY <1>4, <1>5, <1>11, <1>12, <1>13, <1>14

\* What is there after the commit.
LEMMA CommitPresent ==
    ASSUME TypeOK, RequestsSound, KeysSuffice, NEW w \in Actors, DetectCommit(w)
    PROVE  /\ Present' = (Present \ req[w].doomed) \cup NewKeys(w)
           /\ Present \cap NewKeys(w) = {}
           /\ \A i \in Present \ req[w].doomed : event'[i] = event[i]
<1>1. /\ \A i \in NewKeys(w) : i \in Ids \ Present /\ event'[i] \in Event
      /\ \A i \in Ids \ NewKeys(w) :
            event'[i] = IF i \in req[w].doomed THEN NoEvent ELSE event[i]
  BY CommitWrites
<1>. QED BY <1>1, EventsAssumption DEF Present

\* A review that finds its event changes its distance and its reviewer.
ReviewWrites(w) == /\ At(w, "write")
                   /\ ~ Deleted(req[w].id)
                   /\ req[w].id \in Present
                   /\ event' = Catalog!Revised(req[w].id, w, req[w].item.distance)

LEMMA RevisedEvent ==
    ASSUME TypeOK, RequestsSound, NEW w \in Actors, ReviewWrites(w)
    PROVE  LET k == req[w].id
           IN  /\ k \in Present /\ w \in Reviewers /\ req[w].item.distance \in Distances
               /\ event' \in [Ids -> Event \cup {NoEvent}]
               /\ event'[k] \in Event
               /\ event'[k].trace = event[k].trace
               /\ event'[k].run = event[k].run
               /\ event'[k].algorithm = event[k].algorithm
               /\ event'[k].reviewedBy = w
               /\ w # Nobody
               /\ \A i \in Ids \ {k} : event'[i] = event[i]
               /\ Present' = Present
<1>. DEFINE k == req[w].id
            d == req[w].item.distance
            e == [event[k] EXCEPT !.distance = d, !.reviewedBy = w]
<1>1. k \in Ids /\ k \in Present /\ w \in Reviewers /\ d \in Distances
  BY DEF ReviewWrites, At, RequestsSound, RequestSound, Reviewing, Event
<1>2. event[k] \in Event
  BY <1>1 DEF TypeOK, Present
<1>3. event' = [event EXCEPT ![k] = e]
  BY <1>1, <1>2 DEF ReviewWrites, Catalog!Revised, TypeOK, Event
<1>4. /\ e \in Event /\ e.trace = event[k].trace /\ e.run = event[k].run
      /\ e.algorithm = event[k].algorithm /\ e.reviewedBy = w
  BY <1>1, <1>2 DEF Event
<1>5. w # Nobody
  BY SlotsAssumption
<1>. HIDE DEF e
<1>6. /\ event' \in [Ids -> Event \cup {NoEvent}]
      /\ event'[k] = e
      /\ \A i \in Ids \ {k} : event'[i] = event[i]
  BY <1>1, <1>3, <1>4 DEF TypeOK
<1>7. Present' = Present
  BY <1>1, <1>2, <1>4, <1>6, EventsAssumption DEF Present
<1>. QED BY <1>1, <1>4, <1>5, <1>6, <1>7

-----------------------------------------------------------------------------
(* The steps, by what they do to the requests and to the catalogue. *)

catalog == <<curve, event, nextId>>

Ends(w) == req'[w] = Idle /\ runs' = runs

Starts(w) ==
    /\ At(w, "idle")
    /\ runs < MaxRuns /\ runs' = runs + 1
    /\ req'[w].pc = "update"
    /\ req'[w].trace \in Traces
    /\ req'[w].run = runs + 1
    /\ req'[w].doomed = {}

SameDetection(w) == /\ req'[w].trace = req[w].trace
                    /\ req'[w].run = req[w].run
                    /\ runs' = runs

Locks(w) ==
    /\ At(w, "update")
    /\ ~ TraceLocked(req[w].trace)
    /\ req'[w].pc = "replace"
    /\ SameDetection(w)
    /\ req'[w].doomed = req[w].doomed

Deletes(w) ==
    /\ At(w, "replace")
    /\ req'[w].pc = "insert"
    /\ SameDetection(w)
    /\ req'[w].doomed = Catalog!Unreviewed(req[w].trace)

\* A review reads its event or passes its check.
Looks(w) ==
    /\ At(w, "idle") \/ At(w, "check")
    /\ req'[w].pc \in {"check", "write"}
    /\ w \in Reviewers
    /\ req'[w].id \in Ids /\ req'[w].before \in Event /\ req'[w].item \in Event
    /\ req'[w].doomed = {}
    /\ runs' = runs

ActorStep(w) ==
    /\ \A u \in Actors \ {w} : req'[u] = req[u]
    /\ \/ UNCHANGED catalog /\ (Ends(w) \/ Starts(w) \/ Locks(w) \/ Deletes(w) \/ Looks(w))
       \/ DetectCommit(w) /\ Ends(w)
       \/ ReviewWrites(w) /\ Ends(w) /\ UNCHANGED <<curve, nextId>>

OtherStep == UNCHANGED <<req, runs, catalog>>

StepKind == OtherStep \/ \E w \in Actors : ActorStep(w)

LEMMA StartKind ==
    ASSUME TypeOK, NEW w \in Actors, NEW t \in Traces, DetectGet(w, t)
    PROVE  ActorStep(w) /\ req' \in [Actors -> Request]
<1>1. PICK found \in SUBSET {d \in Distances : ValidRouteDistance(d)} :
         req' = [req EXCEPT ![w] = [ Idle EXCEPT !.pc = "update", !.trace = t,
                                         !.run = runs + 1, !.found = found ]]
  BY DEF DetectGet
<1>. DEFINE q == [ Idle EXCEPT !.pc = "update", !.trace = t, !.run = runs + 1, !.found = found ]
<1>2. found \in SUBSET Distances /\ runs + 1 \in 0 .. MaxRuns /\ 0 \in 0 .. MaxRuns
  BY NumbersAssumption DEF DetectGet, TypeOK
<1>4. q \in Request
  BY <1>2, IdleRequest DEF Request, Steps
<1>5. q.pc = "update" /\ q.trace = t /\ q.run = runs + 1 /\ q.doomed = {}
  BY IdleRequest DEF Request
<1>. HIDE DEF q
<1>6. /\ req' \in [Actors -> Request]
      /\ req'[w] = q
      /\ \A u \in Actors \ {w} : req'[u] = req[u]
  BY <1>1, <1>4 DEF TypeOK, q
<1>7. UNCHANGED catalog /\ At(w, "idle") /\ runs < MaxRuns /\ runs' = runs + 1
  BY DEF DetectGet, tables, catalog
<1>. QED BY <1>5, <1>6, <1>7 DEF ActorStep, Starts

LEMMA LockKind ==
    ASSUME TypeOK, NEW w \in Actors, UpdateProcessing(w)
    PROVE  ActorStep(w) /\ req' \in [Actors -> Request]
<1>. DEFINE q == [req[w] EXCEPT !.pc = "replace"]
<1>1. /\ q \in Request /\ q.pc = "replace" /\ q.trace = req[w].trace /\ q.run = req[w].run
      /\ q.doomed = req[w].doomed
  BY DEF TypeOK, Request, Steps
<1>2. req' = [req EXCEPT ![w] = q]
  BY DEF UpdateProcessing
<1>. HIDE DEF q
<1>3. /\ req' \in [Actors -> Request]
      /\ req'[w] = q
      /\ \A u \in Actors \ {w} : req'[u] = req[u]
  BY <1>1, <1>2 DEF TypeOK
<1>4. UNCHANGED catalog /\ runs' = runs
  BY DEF UpdateProcessing, tables, catalog
<1>. QED BY <1>1, <1>3, <1>4 DEF ActorStep, Locks, SameDetection, UpdateProcessing

LEMMA DeleteKind ==
    ASSUME TypeOK, NEW w \in Actors, ReplaceForTrace(w)
    PROVE  ActorStep(w) /\ req' \in [Actors -> Request]
<1>. DEFINE D == {i \in Present : Replaceable(i, req[w].trace)}
            q == [req[w] EXCEPT !.pc = "insert", !.doomed = D]
<1>1. D \in SUBSET Ids
  BY DEF Present
<1>2. /\ q \in Request /\ q.pc = "insert" /\ q.trace = req[w].trace /\ q.run = req[w].run
      /\ q.doomed = D
  <2>. HIDE DEF D
  <2>. QED BY <1>1 DEF TypeOK, Request, Steps
<1>3. req' = [req EXCEPT ![w] = q]
  BY DEF ReplaceForTrace, TypeOK
<1>. HIDE DEF q
<1>4. /\ req' \in [Actors -> Request]
      /\ req'[w] = q
      /\ \A u \in Actors \ {w} : req'[u] = req[u]
  BY <1>2, <1>3 DEF TypeOK
<1>5. UNCHANGED catalog /\ runs' = runs /\ At(w, "replace")
  BY DEF ReplaceForTrace, tables, catalog
<1>6. D = Catalog!Unreviewed(req[w].trace)
  BY UnreviewedMeaning
<1>. QED BY <1>2, <1>4, <1>5, <1>6 DEF ActorStep, Deletes, SameDetection

LEMMA ReadKind ==
    ASSUME TypeOK, NEW w \in Actors, NEW i \in Ids, ReviewGet(w, i)
    PROVE  ActorStep(w) /\ req' \in [Actors -> Request]
<1>1. event[i] \in Event /\ w \in Reviewers
  BY DEF ReviewGet, Present, TypeOK
<1>2. PICK d \in Distances :
         req' = [req EXCEPT ![w] =
                   [ Idle EXCEPT !.pc = "check", !.id = i, !.before = event[i],
                       !.item = [event[i] EXCEPT !.distance = d, !.reviewedBy = w] ]]
  BY DEF ReviewGet
<1>. DEFINE e == [event[i] EXCEPT !.distance = d, !.reviewedBy = w]
            q == [ Idle EXCEPT !.pc = "check", !.id = i, !.before = event[i], !.item = e ]
<1>3. e \in Event
  BY <1>1 DEF Event
<1>4. req' = [req EXCEPT ![w] = q]
  BY <1>2
<1>. HIDE DEF e
<1>6. q \in Request
  BY <1>1, <1>3, IdleRequest DEF Request, Steps
<1>7. q.pc = "check" /\ q.id = i /\ q.before = event[i] /\ q.item = e /\ q.doomed = {}
  BY IdleRequest DEF Request
<1>. HIDE DEF q
<1>8. /\ req' \in [Actors -> Request]
      /\ req'[w] = q
      /\ \A u \in Actors \ {w} : req'[u] = req[u]
  BY <1>4, <1>6 DEF TypeOK
<1>9. UNCHANGED catalog /\ runs' = runs /\ At(w, "idle")
  BY DEF ReviewGet, tables, catalog
<1>. QED BY <1>1, <1>3, <1>7, <1>8, <1>9 DEF ActorStep, Looks

LEMMA CheckKind ==
    ASSUME TypeOK, RequestsSound, NEW w \in Actors, ReviewCheck(w)
    PROVE  ActorStep(w) /\ req' \in [Actors -> Request]
<1>1. UNCHANGED catalog /\ runs' = runs /\ At(w, "check")
  BY DEF ReviewCheck, tables, catalog
<1>2. CASE ValidRouteDistance(req[w].item.distance)
  <2>. DEFINE q == [req[w] EXCEPT !.pc = "write"]
  <2>1. /\ q \in Request /\ q.pc = "write" /\ q.doomed = req[w].doomed
        /\ q.id = req[w].id /\ q.before = req[w].before /\ q.item = req[w].item
    BY DEF TypeOK, Request, Steps
  <2>2. req' = [req EXCEPT ![w] = q]
    BY <1>2 DEF ReviewCheck
  <2>3. /\ w \in Reviewers /\ req[w].id \in Ids /\ req[w].before \in Event
        /\ req[w].item \in Event /\ req[w].doomed = {}
    BY <1>1 DEF RequestsSound, RequestSound, Reviewing, At
  <2>. HIDE DEF q
  <2>4. /\ req' \in [Actors -> Request]
        /\ req'[w] = q
        /\ \A u \in Actors \ {w} : req'[u] = req[u]
    BY <2>1, <2>2 DEF TypeOK
  <2>. QED BY <1>1, <2>1, <2>3, <2>4 DEF ActorStep, Looks
<1>3. CASE ~ ValidRouteDistance(req[w].item.distance)
  <2>1. req' = [req EXCEPT ![w] = Idle]
    BY <1>3 DEF ReviewCheck
  <2>2. /\ req' \in [Actors -> Request]
        /\ req'[w] = Idle
        /\ \A u \in Actors \ {w} : req'[u] = req[u]
    BY <2>1, IdleRequest DEF TypeOK
  <2>. QED BY <1>1, <2>2 DEF ActorStep, Ends
<1>. QED BY <1>2, <1>3

LEMMA EndKind ==
    ASSUME TypeOK, NEW w \in Actors, DetectCommit(w) \/ ReviewTx(w) \/ Abandon(w)
    PROVE  ActorStep(w) /\ req' \in [Actors -> Request]
<1>1. req' = [req EXCEPT ![w] = Idle] /\ runs' = runs
  BY DEF DetectCommit, ReviewTx, Abandon
<1>2. /\ req' \in [Actors -> Request]
      /\ req'[w] = Idle
      /\ \A u \in Actors \ {w} : req'[u] = req[u]
  BY <1>1, IdleRequest DEF TypeOK
<1>3. Ends(w)
  BY <1>1, <1>2 DEF Ends
<1>4. CASE DetectCommit(w)
  BY <1>2, <1>3, <1>4 DEF ActorStep
<1>5. CASE ReviewTx(w)
  <2>1. UNCHANGED catalog \/ (ReviewWrites(w) /\ UNCHANGED <<curve, nextId>>)
    BY <1>5 DEF ReviewTx, catalog, ReviewWrites
  <2>. QED BY <1>2, <1>3, <2>1 DEF ActorStep
<1>6. CASE Abandon(w)
  <2>1. UNCHANGED catalog
    BY <1>6 DEF Abandon, tables, catalog
  <2>. QED BY <1>2, <1>3, <2>1 DEF ActorStep
<1>. QED BY <1>4, <1>5, <1>6

LEMMA StepKinds ==
    ASSUME TypeOK, RequestsSound, [Next]_vars
    PROVE  StepKind /\ req' \in [Actors -> Request]
<1>1. ASSUME NEW w \in Actors, NEW t \in Traces, Import(w, t)
      PROVE  OtherStep /\ req' \in [Actors -> Request]
  BY <1>1 DEF Import, OtherStep, catalog, TypeOK
<1>2. CASE RouteUpdate
  BY <1>2 DEF RouteUpdate, OtherStep, catalog, tables, TypeOK, StepKind
<1>3. CASE UNCHANGED vars
  BY <1>3 DEF vars, OtherStep, catalog, TypeOK, StepKind
<1>4. ASSUME NEW w \in Actors, HandlerStep(w) \/ Abandon(w)
      PROVE  ActorStep(w) /\ req' \in [Actors -> Request]
  BY <1>4, LockKind, DeleteKind, CheckKind, EndKind DEF HandlerStep
<1>. QED BY <1>1, <1>2, <1>3, <1>4, StartKind, ReadKind DEF Next, StepKind

-----------------------------------------------------------------------------
(* Each part of Sound is kept. *)

LEMMA TypeStep ==
    ASSUME TypeOK, RequestsSound, KeysSuffice, [Next]_vars
    PROVE  TypeOK'
<1>1. req' \in [Actors -> Request]
  BY StepKinds
<1>. USE NumbersAssumption DEF TypeOK
<1>2. ASSUME NEW w \in Actors, NEW t \in Traces, Import(w, t) PROVE TypeOK'
  BY <1>1, <1>2 DEF Import
<1>3. ASSUME NEW w \in Actors, NEW t \in Traces, DetectGet(w, t) PROVE TypeOK'
  BY <1>1, <1>3 DEF DetectGet, tables
<1>4. ASSUME NEW w \in Actors, NEW i \in Ids, ReviewGet(w, i) PROVE TypeOK'
  BY <1>1, <1>4 DEF ReviewGet, tables
<1>5. ASSUME NEW w \in Actors, UpdateProcessing(w) \/ ReplaceForTrace(w) \/ ReviewCheck(w)
      PROVE  TypeOK'
  BY <1>1, <1>5 DEF UpdateProcessing, ReplaceForTrace, ReviewCheck, tables
<1>6. ASSUME NEW w \in Actors, DetectCommit(w) PROVE TypeOK'
  <2>. DEFINE q == req[w]
  <2>1. event' \in [Ids -> Event \cup {NoEvent}]
    BY <1>6, CommitWrites
  <2>2. q.trace \in Traces /\ q.run \in 0 .. MaxRuns /\ q.found \in SUBSET Distances
    BY <1>6 DEF DetectCommit, At, RequestsSound, RequestSound, Detecting, Request
  <2>3. [ run |-> q.run, found |-> q.found ] \in Curve
    BY <2>2 DEF Curve
  <2>4. curve' \in [Traces -> Curve]
    BY <1>6, <2>2, <2>3 DEF DetectCommit
  <2>5. nextId + Cardinality(q.found) <= 1 + MaxRuns * Cardinality(Distances)
    BY <1>6, Room DEF DetectCommit, At, Detecting
  <2>6. nextId \in Nat \ {0} /\ Cardinality(q.found) \in Nat
    BY <2>2, FoundCount, IdsCount DEF KeysSuffice
  <2>7. nextId' \in Ids \cup {Cardinality(Ids) + 1}
    BY <1>6, <2>5, <2>6, IdsCount DEF DetectCommit, Ids
  <2>. QED BY <1>1, <1>6, <2>1, <2>4, <2>7 DEF DetectCommit
<1>7. ASSUME NEW w \in Actors, ReviewTx(w) PROVE TypeOK'
  <2>1. /\ req[w].id \in Ids /\ req[w].before \in Event /\ req[w].item \in Event
    BY <1>7 DEF ReviewTx, At, RequestsSound, RequestSound, Reviewing
  <2>. DEFINE e == [ id |-> req[w].id, before |-> req[w].before, after |-> req[w].item ]
  <2>2. e \in Entry /\ (log' = log \/ log' = Append(log, e))
    BY <1>7, <2>1 DEF Entry, ReviewTx
  <2>3. log' \in Seq(Entry)
    <3>. HIDE DEF e
    <3>. QED BY <2>2
  <2>4. event' \in [Ids -> Event \cup {NoEvent}]
    BY <1>7, RevisedEvent DEF ReviewTx, ReviewWrites
  <2>. QED BY <1>1, <1>7, <2>3, <2>4 DEF ReviewTx
<1>8. ASSUME NEW w \in Actors, Abandon(w) PROVE TypeOK'
  BY <1>1, <1>8 DEF Abandon, tables
<1>9. CASE RouteUpdate
  BY <1>1, <1>9 DEF RouteUpdate, tables
<1>10. CASE UNCHANGED vars
  BY <1>1, <1>10 DEF vars
<1>. QED BY <1>2, <1>3, <1>4, <1>5, <1>6, <1>7, <1>8, <1>9, <1>10 DEF Next, HandlerStep

\* In every step the number of detections started grows by one or stays.
LEMMA RunsGrow ==
    ASSUME TypeOK, StepKind
    PROVE  runs \in Nat /\ runs' \in Nat /\ runs <= runs'
<1>1. runs \in Nat
  BY NumbersAssumption DEF TypeOK
<1>2. runs' = runs \/ runs' = runs + 1
  BY DEF StepKind, OtherStep, ActorStep, Ends, Starts, Locks, Deletes, Looks, SameDetection
<1>. QED BY <1>1, <1>2

LEMMA RequestsStep ==
    ASSUME TypeOK, RequestsSound, StepKind
    PROVE  RequestsSound'
<1>. SUFFICES ASSUME NEW d \in Actors PROVE RequestSound(d)'
  BY DEF RequestsSound
<1>. USE RunsGrow DEF RequestSound, Detecting, Reviewing, At
<1>0. RequestSound(d)
  BY DEF RequestsSound
<1>1. ASSUME req'[d] = req[d] PROVE RequestSound(d)'
  BY <1>0, <1>1
<1>2. CASE OtherStep
  BY <1>1, <1>2 DEF OtherStep
<1>3. ASSUME NEW w \in Actors, ActorStep(w) PROVE RequestSound(d)'
  <2>1. CASE d # w
    BY <1>1, <1>3, <2>1 DEF ActorStep
  <2>2. CASE d = w /\ Ends(w)
    BY <2>2, IdleRequest DEF Ends
  <2>3. CASE d = w /\ Starts(w)
    BY <2>3 DEF Starts
  <2>4. CASE d = w /\ Locks(w)
    BY <1>0, <2>4 DEF Locks, SameDetection
  <2>5. CASE d = w /\ Deletes(w)
    BY <1>0, <2>5 DEF Deletes, SameDetection
  <2>6. CASE d = w /\ Looks(w)
    BY <1>0, <2>6 DEF Looks
  <2>. QED BY <1>3, <2>1, <2>2, <2>3, <2>4, <2>5, <2>6 DEF ActorStep
<1>. QED BY <1>2, <1>3 DEF StepKind

\* A detection takes the lock of its trace only when nobody has it.
LEMMA LocksStep ==
    ASSUME TypeOK, LocksExclude, StepKind
    PROVE  LocksExclude'
<1>. SUFFICES ASSUME NEW u \in Actors, NEW v \in Actors, u # v,
                     Locking(u)', Locking(v)', req'[u].trace = req'[v].trace
              PROVE  FALSE
  BY DEF LocksExclude
<1>0. ~ (Locking(u) /\ Locking(v) /\ req[u].trace = req[v].trace)
  BY DEF LocksExclude
<1>. USE DEF Locking, At
<1>1. CASE OtherStep
  BY <1>0, <1>1 DEF OtherStep
<1>2. ASSUME NEW w \in Actors, ActorStep(w) PROVE FALSE
  <2>1. w = u \/ w = v
    BY <1>0, <1>2 DEF ActorStep
  <2>2. \A d \in Actors \ {w} : req'[d] = req[d]
    BY <1>2 DEF ActorStep
  <2>3. CASE Ends(w) \/ Starts(w) \/ Looks(w)
    BY <2>1, <2>3, IdleRequest DEF Ends, Starts, Looks
  <2>4. CASE Locks(w)
    <3>1. req'[w].trace = req[w].trace
      BY <2>4 DEF Locks, SameDetection
    <3>2. \E d \in Actors : Locking(d) /\ req[d].trace = req[w].trace
      BY <2>1, <2>2, <3>1
    <3>. QED BY <2>4, <3>2 DEF Locks, TraceLocked
  <2>5. CASE Deletes(w)
    <3>1. req'[w].trace = req[w].trace /\ Locking(w)
      BY <2>5 DEF Deletes, SameDetection
    <3>. QED BY <1>0, <2>1, <2>2, <3>1
  <2>. QED BY <1>2, <2>3, <2>4, <2>5 DEF ActorStep
<1>. QED BY <1>1, <1>2 DEF StepKind

\* The commit of another trace's detection and a review of a row that is not
\* deleted leave the unreviewed events of a trace as they are.
LEMMA UnreviewedKept ==
    ASSUME TypeOK, RequestsSound, KeysSuffice, DoomedIsUnreviewed,
           NEW w \in Actors, NEW t
    PROVE  /\ DetectCommit(w) /\ req[w].trace # t
                 => Catalog!Unreviewed(t)' = Catalog!Unreviewed(t)
           /\ ReviewWrites(w) /\ req[w].id \notin Catalog!Unreviewed(t)
                 => Catalog!Unreviewed(t)' = Catalog!Unreviewed(t)
<1>1. ASSUME DetectCommit(w), req[w].trace # t
      PROVE  Catalog!Unreviewed(t)' = Catalog!Unreviewed(t)
  <2>1. /\ Present' = (Present \ req[w].doomed) \cup NewKeys(w)
        /\ \A i \in Present \ req[w].doomed : event'[i] = event[i]
    BY <1>1, CommitPresent
  <2>2. \A i \in NewKeys(w) : event'[i].trace # t
    BY <1>1, CommitWrites
  <2>3. \A i \in req[w].doomed : event[i].trace # t
    BY <1>1, UnreviewedMeaning DEF DoomedIsUnreviewed, DetectCommit, Replaceable
  <2>. QED BY <2>1, <2>2, <2>3 DEF Catalog!Unreviewed, Catalog!Present, Present
<1>2. ASSUME ReviewWrites(w), req[w].id \notin Catalog!Unreviewed(t)
      PROVE  Catalog!Unreviewed(t)' = Catalog!Unreviewed(t)
  <2>. DEFINE k == req[w].id
  <2>1. /\ k \in Present /\ Present' = Present
        /\ event'[k].reviewedBy = w /\ w # Nobody
        /\ \A i \in Ids \ {k} : event'[i] = event[i]
    BY <1>2, RevisedEvent
  <2>. QED BY <1>2, <2>1 DEF Catalog!Unreviewed, Catalog!Present, Present
<1>. QED BY <1>1, <1>2

LEMMA DoomedStep ==
    ASSUME TypeOK, RequestsSound, KeysSuffice, LocksExclude, DoomedIsUnreviewed, StepKind
    PROVE  DoomedIsUnreviewed'
<1>. SUFFICES ASSUME NEW d \in Actors, At(d, "insert")', NEW t, t = req'[d].trace
              PROVE  req'[d].doomed = Catalog!Unreviewed(t)'
  BY DEF DoomedIsUnreviewed, Catalog!Unreviewed, Catalog!Present
<1>. USE DEF At
<1>1. UNCHANGED catalog => Catalog!Unreviewed(t)' = Catalog!Unreviewed(t)
  BY DEF catalog, Catalog!Unreviewed, Catalog!Present
<1>2. req'[d] = req[d] => t = req[d].trace /\ req'[d].doomed = Catalog!Unreviewed(t)
  BY DEF DoomedIsUnreviewed
<1>3. CASE OtherStep
  BY <1>1, <1>2, <1>3 DEF OtherStep
<1>4. ASSUME NEW w \in Actors, ActorStep(w)
      PROVE  req'[d].doomed = Catalog!Unreviewed(t)'
  <2>1. CASE d = w
    <3>1. Deletes(w) /\ UNCHANGED catalog
      BY <1>4, <2>1, IdleRequest DEF ActorStep, Ends, Starts, Locks, Looks
    <3>2. t = req[w].trace /\ req'[d].doomed = Catalog!Unreviewed(t)
      BY <2>1, <3>1 DEF Deletes, SameDetection
    <3>. QED BY <1>1, <3>1, <3>2
  <2>2. CASE d # w
    <3>1. /\ req'[d] = req[d]
          /\ At(d, "insert") /\ t = req[d].trace /\ req[d].doomed = Catalog!Unreviewed(t)
      BY <1>2, <1>4, <2>2 DEF ActorStep
    <3>2. CASE UNCHANGED catalog
      BY <1>1, <3>1, <3>2
    <3>3. CASE DetectCommit(w)
      <4>1. req[w].trace # t
        BY <2>2, <3>1, <3>3 DEF LocksExclude, Locking, DetectCommit
      <4>. QED BY <3>1, <3>3, <4>1, UnreviewedKept
    <3>4. CASE ReviewWrites(w)
      <4>1. req[w].id \notin Catalog!Unreviewed(t)
        BY <3>1, <3>4 DEF ReviewWrites, Deleted
      <4>. QED BY <3>1, <3>4, <4>1, UnreviewedKept
    <3>. QED BY <1>4, <3>2, <3>3, <3>4 DEF ActorStep
  <2>. QED BY <2>1, <2>2
<1>. QED BY <1>3, <1>4 DEF StepKind

\* A step keeps the number of a detection that goes on, and a new one gets a
\* number nobody had.
LEMMA NumbersKept ==
    ASSUME TypeOK, RequestsSound, StepKind, NEW d \in Actors, Detecting(d)'
    PROVE  \/ /\ Detecting(d) /\ req'[d].run = req[d].run
           \/ /\ Starts(d) /\ \A u \in Actors \ {d} : req'[u] = req[u]
              /\ UNCHANGED catalog
<1>. USE DEF Detecting, At
<1>1. CASE OtherStep
  BY <1>1 DEF OtherStep
<1>2. ASSUME NEW w \in Actors, ActorStep(w), d # w
      PROVE  Detecting(d) /\ req'[d].run = req[d].run
  BY <1>2 DEF ActorStep
<1>3. ASSUME ActorStep(d)
      PROVE  \/ Detecting(d) /\ req'[d].run = req[d].run
             \/ /\ Starts(d) /\ \A u \in Actors \ {d} : req'[u] = req[u]
                /\ UNCHANGED catalog
  BY <1>3, IdleRequest DEF ActorStep, Ends, Locks, Deletes, Looks, SameDetection
<1>. QED BY <1>1, <1>2, <1>3 DEF StepKind

LEMMA RunsStep ==
    ASSUME TypeOK, RequestsSound, KeysSuffice, RunsDistinct, StepKind
    PROVE  RunsDistinct'
<1>1. ASSUME NEW u \in Actors, NEW v \in Actors, Detecting(u)', Detecting(v)',
             req'[u].run = req'[v].run
      PROVE  u = v
  <2>1. ASSUME NEW x \in Actors, NEW y \in Actors, Starts(x), Detecting(y), x # y,
               req'[y].run = req[y].run
        PROVE  req'[x].run # req'[y].run
    BY <2>1, RunsGrow DEF Starts, RequestsSound, RequestSound
  <2>2. CASE /\ Detecting(u) /\ req'[u].run = req[u].run
             /\ Detecting(v) /\ req'[v].run = req[v].run
    BY <1>1, <2>2 DEF RunsDistinct
  <2>3. CASE Starts(u) /\ Starts(v)
    <3>1. ASSUME u # v PROVE FALSE
      <4>1. req'[u] = req[u] \/ req'[v] = req[v]
        BY <1>1, <2>3, <3>1, NumbersKept DEF Starts, At, Detecting
      <4>. QED BY <2>3, <4>1 DEF Starts, At
    <3>. QED BY <3>1
  <2>. QED BY <1>1, <2>1, <2>2, <2>3, NumbersKept
<1>2. ASSUME NEW i \in Present', NEW d \in Actors, Detecting(d)'
      PROVE  req'[d].run # event'[i].run
  <2>1. CASE Starts(d) /\ UNCHANGED catalog
    BY <2>1, RunsGrow DEF Starts, RunsDistinct, catalog, Present, TypeOK, Event
  <2>2. CASE Detecting(d) /\ req'[d].run = req[d].run
    <3>1. CASE UNCHANGED catalog
      BY <2>2, <3>1 DEF RunsDistinct, catalog, Present
    <3>2. ASSUME NEW w \in Actors, DetectCommit(w), Ends(w) PROVE req'[d].run # event'[i].run
      <4>1. d # w
        BY <1>2, <3>2, IdleRequest DEF Ends, Detecting
      <4>2. CASE i \in NewKeys(w)
        <5>1. event'[i].run = req[w].run
          BY <3>2, <4>2, CommitWrites
        <5>. QED BY <2>2, <3>2, <4>1, <5>1 DEF RunsDistinct, DetectCommit, At, Detecting
      <4>3. CASE i \notin NewKeys(w)
        <5>1. i \in Present /\ event'[i] = event[i]
          BY <3>2, <4>3, CommitPresent
        <5>. QED BY <2>2, <5>1 DEF RunsDistinct
      <4>. QED BY <4>2, <4>3
    <3>3. ASSUME NEW w \in Actors, ReviewWrites(w) PROVE req'[d].run # event'[i].run
      <4>1. i \in Present /\ event'[i].run = event[i].run
        BY <3>3, RevisedEvent DEF Present
      <4>. QED BY <2>2, <4>1 DEF RunsDistinct
    <3>. QED BY <3>1, <3>2, <3>3 DEF StepKind, OtherStep, ActorStep
  <2>. QED BY <1>2, <2>1, <2>2, NumbersKept
<1>3. ASSUME NEW i \in Present' PROVE event'[i].run <= runs'
  <2>1. ASSUME i \in Present, event'[i].run = event[i].run PROVE event'[i].run <= runs'
    <3>1. event[i].run \in Nat /\ event[i].run <= runs
      BY <2>1 DEF RunsDistinct, Present, TypeOK, Event
    <3>. QED BY <2>1, <3>1, RunsGrow
  <2>2. CASE UNCHANGED catalog
    BY <2>1, <2>2 DEF catalog, Present
  <2>3. ASSUME NEW w \in Actors, DetectCommit(w) PROVE event'[i].run <= runs'
    <3>1. CASE i \in NewKeys(w)
      <4>1. event'[i].run = req[w].run /\ req[w].run \in 1 .. runs
        BY <2>3, <3>1, CommitWrites
           DEF DetectCommit, At, Detecting, RequestsSound, RequestSound
      <4>. QED BY <4>1, RunsGrow
    <3>2. CASE i \notin NewKeys(w)
      BY <2>1, <2>3, <3>2, CommitPresent
    <3>. QED BY <3>1, <3>2
  <2>4. ASSUME NEW w \in Actors, ReviewWrites(w) PROVE event'[i].run <= runs'
    BY <2>1, <2>4, RevisedEvent DEF Present
  <2>. QED BY <2>2, <2>3, <2>4 DEF StepKind, OtherStep, ActorStep
<1>. QED BY <1>1, <1>2, <1>3 DEF RunsDistinct

\* As many detections less on their way leave as many more keys.
LEMMA FewerPending ==
    ASSUME NEW r \in Nat, NEW c \in 0 .. r, NEW b \in 0 .. c
    PROVE  /\ (r - c) * Cardinality(Distances) <= (r - b) * Cardinality(Distances)
           /\ (r - b) * Cardinality(Distances) \in Nat
           /\ (r - c) * Cardinality(Distances) \in Nat
<1>1. r - c \in Nat /\ r - b \in Nat /\ r - c <= r - b
  OBVIOUS
<1>. QED BY <1>1, TimesMonotonic, IdsCount

LEMMA KeysStep ==
    ASSUME TypeOK, RequestsSound, KeysSuffice, RunsDistinct, StepKind
    PROVE  KeysSuffice'
<1>. DEFINE D == Cardinality(Distances)
            c == Cardinality(Pending)
<1>0. /\ IsFiniteSet(Pending) /\ c \in 0 .. runs /\ D \in Nat
      /\ runs \in Nat /\ nextId \in Nat \ {0} /\ nextId <= 1 + (runs - c) * D
  BY PendingCount, IdsCount, RunsGrow DEF KeysSuffice
<1>1. ASSUME UNCHANGED catalog,
             nextId <= 1 + (runs' - Cardinality(Pending')) * D
      PROVE  KeysSuffice'
  BY <1>0, <1>1 DEF KeysSuffice, catalog, Pending, Detecting
<1>2. ASSUME runs' = runs, Pending' \subseteq Pending
      PROVE  /\ Cardinality(Pending') \in 0 .. c
             /\ nextId <= 1 + (runs' - Cardinality(Pending')) * D
  <2>1. Cardinality(Pending') \in 0 .. c
    BY <1>0, <1>2, FS_Subset, FS_CardinalityType
  <2>2. (runs - c) * D <= (runs - Cardinality(Pending')) * D
    BY <1>0, <2>1, FewerPending
  <2>3. (runs - c) * D \in Nat /\ (runs - Cardinality(Pending')) * D \in Nat
    BY <1>0, <2>1, FewerPending
  <2>. QED BY <1>0, <1>2, <2>1, <2>2, <2>3
<1>3. CASE OtherStep
  <2>1. Pending' \subseteq Pending /\ runs' = runs
    BY <1>3 DEF OtherStep, Pending, Detecting
  <2>. QED BY <1>1, <1>2, <1>3, <2>1 DEF OtherStep
<1>4. ASSUME NEW w \in Actors, ActorStep(w), ~ Starts(w)
      PROVE  Pending' \subseteq Pending /\ runs' = runs
  <2>1. \A d \in Actors : ~ Starts(d) \/ d = w
    BY <1>4 DEF Starts, ActorStep, At
  <2>2. \A d \in Actors : Detecting(d)' => Detecting(d) /\ req'[d].run = req[d].run
    BY <1>4, <2>1, NumbersKept
  <2>. QED BY <1>4, <2>2
           DEF Pending, ActorStep, Ends, Locks, Deletes, Looks, SameDetection
<1>5. ASSUME NEW w \in Actors, ActorStep(w), Starts(w), UNCHANGED catalog
      PROVE  KeysSuffice'
  <2>1. Pending' = Pending \cup {runs + 1}
    <3>1. \A d \in Actors \ {w} : req'[d] = req[d]
      BY <1>5 DEF ActorStep
    <3>2. ~ Detecting(w) /\ Detecting(w)' /\ req'[w].run = runs + 1
      BY <1>5 DEF Starts, At, Detecting
    <3>. QED BY <3>1, <3>2 DEF Pending, Detecting
  <2>2. runs + 1 \notin Pending
    BY <1>0, PendingCount
  <2>3. Cardinality(Pending') = c + 1 /\ runs' = runs + 1
    BY <1>0, <1>5, <2>1, <2>2, FS_AddElement DEF Starts
  <2>4. runs' - Cardinality(Pending') = runs - c
    BY <1>0, <2>3
  <2>. QED BY <1>0, <1>1, <1>5, <2>4
<1>6. ASSUME NEW w \in Actors, ActorStep(w), DetectCommit(w), Ends(w)
      PROVE  KeysSuffice'
  <2>. DEFINE q == req[w]
              n == Cardinality(q.found)
  <2>1. n \in 0 .. D /\ nextId' = nextId + n
    BY <1>6, FoundCount DEF DetectCommit, TypeOK, Request
  <2>2. ~ Starts(w)
    BY <1>6 DEF Starts, DetectCommit, At
  <2>3. Pending' \subseteq Pending /\ runs' = runs
    BY <1>4, <1>6, <2>2
  <2>4. q.run \in Pending /\ q.run \notin Pending'
    <3>1. Detecting(w) /\ ~ Detecting(w)'
      BY <1>6, IdleRequest DEF DetectCommit, At, Detecting, Ends
    <3>2. \A d \in Actors \ {w} : req'[d] = req[d]
      BY <1>6 DEF ActorStep
    <3>3. \A d \in Actors : Detecting(d)' => d # w /\ Detecting(d) /\ req'[d].run # q.run
      BY <3>1, <3>2 DEF RunsDistinct, Detecting
    <3>. QED BY <3>1, <3>3 DEF Pending
  <2>. DEFINE b == Cardinality(Pending')
  <2>5. b \in Nat /\ b + 1 <= c
    <3>1. IsFiniteSet(Pending') /\ b <= c /\ b # c
      BY <1>0, <2>3, <2>4, FS_Subset
    <3>2. b \in Nat
      BY <3>1, FS_CardinalityType
    <3>3. c \in Nat
      BY <1>0
    <3>. HIDE DEF b, c
    <3>. QED BY <3>1, <3>2, <3>3
  <2>6. nextId' <= 1 + (runs' - b) * D
    <3>. HIDE DEF b, c, D, n
    <3>1. /\ b + 1 \in 0 .. c /\ runs - (b + 1) \in Nat /\ runs - b \in Nat
          /\ runs - (b + 1) + 1 = runs - b
      BY <1>0, <2>5 DEF b, c
    <3>2. (runs - c) * D <= (runs - (b + 1)) * D
      BY <1>0, <3>1, FewerPending DEF D
    <3>3. (runs - b) * D = (runs - (b + 1)) * D + D
      BY <1>0, <3>1, TimesMonotonic
    <3>4. (runs - c) * D \in Nat /\ (runs - (b + 1)) * D \in Nat
      BY <1>0, <3>1, FewerPending DEF D
    <3>. QED BY <1>0, <2>1, <2>3, <3>2, <3>3, <3>4
  <2>7. \A i \in Ids : i >= nextId' => event'[i] = NoEvent
    <3>. SUFFICES ASSUME NEW i \in Ids, i >= nextId' PROVE event'[i] = NoEvent
      OBVIOUS
    <3>1. i \in Nat /\ i >= nextId
      BY <1>0, <2>1, IdsCount
    <3>2. \A k \in NewKeys(w) : k < nextId + n /\ k \in Ids
      BY <1>6, CommitWrites
    <3>3. i \notin NewKeys(w)
      BY <1>0, <2>1, <3>1, <3>2
    <3>4. event'[i] = IF i \in q.doomed THEN NoEvent ELSE event[i]
      BY <1>6, <3>3, CommitWrites
    <3>. QED BY <3>1, <3>4 DEF KeysSuffice
  <2>8. nextId' \in Nat \ {0}
    BY <1>0, <2>1
  <2>. QED BY <2>6, <2>7, <2>8 DEF KeysSuffice, Pending, Detecting
<1>7. ASSUME NEW w \in Actors, ActorStep(w), ReviewWrites(w), Ends(w), nextId' = nextId
      PROVE  KeysSuffice'
  <2>1. ~ Starts(w)
    BY <1>7 DEF Starts, ReviewWrites, At
  <2>2. nextId <= 1 + (runs' - Cardinality(Pending')) * D
    BY <1>2, <1>4, <1>7, <2>1
  <2>3. \A i \in Ids : i >= nextId => event'[i] = NoEvent
    BY <1>7, RevisedEvent DEF KeysSuffice, Present
  <2>. QED BY <1>0, <1>7, <2>2, <2>3 DEF KeysSuffice, Pending, Detecting
<1>8. ASSUME NEW w \in Actors, ActorStep(w) PROVE KeysSuffice'
  BY <1>1, <1>2, <1>4, <1>5, <1>6, <1>7, <1>8 DEF ActorStep, Starts, DetectCommit, ReviewWrites, At
<1>. QED BY <1>3, <1>8 DEF StepKind

\* The curve of a trace and its events are only written together, and with a
\* number no event had.
LEMMA CommitAgrees ==
    ASSUME Sound, NEW w \in Actors, DetectCommit(w), NEW t \in Traces, t = req[w].trace
    PROVE  Agrees(t)'
<1>. DEFINE q == req[w]
<1>1. /\ TypeOK /\ RequestsSound /\ KeysSuffice
      /\ Detecting(w) /\ q.doomed = Catalog!Unreviewed(t)
      /\ q.found \in SUBSET Distances
  BY DEF Sound, DetectCommit, At, Detecting, DoomedIsUnreviewed, TypeOK, Request
<1>2. curve'[t].run = q.run /\ curve'[t].found = q.found
  BY <1>1 DEF DetectCommit, TypeOK
<1>3. /\ Present' = (Present \ q.doomed) \cup NewKeys(w)
      /\ \A i \in Present \ q.doomed : event'[i] = event[i]
  BY <1>1, CommitPresent
<1>4. \A i \in NewKeys(w) : /\ event'[i].trace = t
                            /\ event'[i].run = q.run
                            /\ event'[i].algorithm \in q.found
  BY <1>1, CommitWrites
<1>5. \A d \in q.found : event'[Catalog!IdFor(q.found, d)].algorithm = d
  BY <1>1, CommitWrites
<1>6. \A i \in Present \ q.doomed : event[i].run # q.run
  BY <1>1 DEF Sound, RunsDistinct
<1>7. \A i \in Present \ q.doomed : event[i].trace = t => event[i].reviewedBy # Nobody
  BY <1>1, UnreviewedMeaning DEF Replaceable
<1>8. OfRun(t)' = NewKeys(w)
  BY <1>2, <1>3, <1>4, <1>6 DEF OfRun
<1>9. \A i \in Present' : (event'[i].trace = t /\ event'[i].reviewedBy = Nobody)
                             => event'[i].run = curve'[t].run
  BY <1>2, <1>3, <1>4, <1>7
<1>10. {event'[i].algorithm : i \in NewKeys(w)} = q.found
  BY <1>4, <1>5 DEF NewKeys
<1>11. Cardinality(NewKeys(w)) = Cardinality(q.found)
  <2>. DEFINE f == [d \in q.found |-> Catalog!IdFor(q.found, d)]
  <2>1. f \in [q.found -> NewKeys(w)] /\ \A y \in NewKeys(w) : \E d \in q.found : f[d] = y
    BY DEF NewKeys
  <2>2. \A d, e \in q.found : f[d] = f[e] => d = e
    BY <1>1, KeysOfFound DEF KeysSuffice
  <2>3. IsFiniteSet(q.found)
    BY <1>1, FoundCount
  <2>. HIDE DEF f
  <2>. QED BY <2>1, <2>2, <2>3, ImageCount
<1>. QED BY <1>2, <1>8, <1>9, <1>10, <1>11 DEF Agrees, OfRun

\* The events of other traces are not touched.
LEMMA OtherAgrees ==
    ASSUME Sound, NEW w \in Actors, DetectCommit(w), NEW t \in Traces, t # req[w].trace
    PROVE  Agrees(t)'
<1>. DEFINE q == req[w]
<1>1. /\ TypeOK /\ RequestsSound /\ KeysSuffice /\ Agrees(t)
      /\ q.doomed = Catalog!Unreviewed(q.trace)
  BY DEF Sound, DetectCommit, At, DoomedIsUnreviewed, AllAgree
<1>2. curve'[t] = curve[t]
  BY <1>1 DEF DetectCommit, TypeOK
<1>3. /\ Present' = (Present \ q.doomed) \cup NewKeys(w)
      /\ \A i \in Present \ q.doomed : event'[i] = event[i]
  BY <1>1, CommitPresent
<1>4. \A i \in NewKeys(w) : event'[i].trace # t
  BY <1>1, CommitWrites
<1>5. \A i \in q.doomed : event[i].trace # t
  BY <1>1, UnreviewedMeaning DEF Replaceable
<1>6. \A i : i \in Present' /\ event'[i].trace = t
              <=> i \in Present /\ event[i].trace = t
  BY <1>3, <1>4, <1>5
<1>7. \A i \in Present' : event'[i].trace = t => event'[i] = event[i]
  BY <1>3, <1>4
<1>8. OfRun(t)' = OfRun(t)
  BY <1>2, <1>6, <1>7 DEF OfRun
<1>9. \A i \in OfRun(t) : event'[i] = event[i]
  BY <1>6, <1>7 DEF OfRun
<1>10. {event'[i].algorithm : i \in OfRun(t)} = {event[i].algorithm : i \in OfRun(t)}
  BY <1>9
<1>. QED BY <1>1, <1>2, <1>6, <1>7, <1>8, <1>10 DEF Agrees

\* A review leaves the run of its event and what the algorithm found.
LEMMA ReviewAgrees ==
    ASSUME Sound, NEW w \in Actors, ReviewWrites(w), curve' = curve, NEW t \in Traces
    PROVE  Agrees(t)'
<1>1. TypeOK /\ RequestsSound /\ Agrees(t)
  BY DEF Sound, AllAgree
<1>2. /\ Present' = Present
      /\ \A i \in Present : /\ event'[i].trace = event[i].trace
                            /\ event'[i].run = event[i].run
                            /\ event'[i].algorithm = event[i].algorithm
                            /\ event'[i].reviewedBy = Nobody => event[i].reviewedBy = Nobody
  BY <1>1, RevisedEvent DEF Present
<1>3. OfRun(t)' = OfRun(t) /\ OfRun(t) \subseteq Present
  BY <1>2 DEF OfRun
<1>4. {event'[i].algorithm : i \in OfRun(t)} = {event[i].algorithm : i \in OfRun(t)}
  BY <1>2, <1>3
<1>. QED BY <1>1, <1>2, <1>3, <1>4 DEF Agrees

LEMMA AgreeStep ==
    ASSUME Sound, StepKind
    PROVE  AllAgree'
<1>. SUFFICES ASSUME NEW t \in Traces PROVE Agrees(t)'
  BY DEF AllAgree
<1>1. CASE UNCHANGED catalog
  BY <1>1 DEF Sound, AllAgree, Agrees, OfRun, Present, catalog
<1>2. ASSUME NEW w \in Actors, DetectCommit(w) PROVE Agrees(t)'
  BY <1>2, CommitAgrees, OtherAgrees
<1>3. ASSUME NEW w \in Actors, ReviewWrites(w), curve' = curve PROVE Agrees(t)'
  BY <1>3, ReviewAgrees
<1>. QED BY <1>1, <1>2, <1>3 DEF StepKind, OtherStep, ActorStep

-----------------------------------------------------------------------------
(* The theorems. *)

LEMMA SoundInit == Init => Sound
<1>. SUFFICES ASSUME Init PROVE Sound
  OBVIOUS
<1>1. Present = {} /\ \A w \in Actors : req[w] = Idle
  BY DEF Init, Present
<1>2. TypeOK
  <2>1. [ run |-> 0, found |-> {} ] \in Curve
    BY NumbersAssumption DEF Curve
  <2>2. 1 \in Ids \cup {Cardinality(Ids) + 1}
    BY IdsCount DEF Ids
  <2>. QED BY <2>1, <2>2, IdleRequest, NumbersAssumption DEF Init, TypeOK
<1>3. RequestsSound
  BY <1>1, IdleRequest DEF RequestsSound, RequestSound, Detecting, Reviewing, At
<1>4. LocksExclude /\ DoomedIsUnreviewed /\ RunsDistinct
  BY <1>1, IdleRequest DEF LocksExclude, Locking, DoomedIsUnreviewed, At, RunsDistinct, Detecting
<1>5. KeysSuffice
  <2>1. Pending = {}
    BY <1>1, IdleRequest DEF Pending, Detecting
  <2>2. Cardinality(Pending) = 0
    BY <2>1, FS_EmptySet
  <2>3. (0 - 0) * Cardinality(Distances) = 0
    BY IdsCount
  <2>. QED BY <2>2, <2>3 DEF Init, KeysSuffice
<1>6. AllAgree
  <2>. SUFFICES ASSUME NEW t \in Traces PROVE Agrees(t)
    BY DEF AllAgree
  <2>1. OfRun(t) = {} /\ curve[t].found = {}
    BY <1>1 DEF OfRun, Init
  <2>. QED BY <1>1, <2>1 DEF Agrees
<1>. QED BY <1>2, <1>3, <1>4, <1>5, <1>6 DEF Sound

LEMMA SoundStep == Sound /\ [Next]_vars => Sound'
<1>. SUFFICES ASSUME Sound, [Next]_vars PROVE Sound'
  OBVIOUS
<1>1. /\ TypeOK /\ RequestsSound /\ LocksExclude /\ DoomedIsUnreviewed
      /\ RunsDistinct /\ KeysSuffice
  BY DEF Sound
<1>2. StepKind
  BY <1>1, StepKinds
<1>. QED BY <1>1, <1>2, TypeStep, RequestsStep, LocksStep, DoomedStep, RunsStep, KeysStep,
            AgreeStep DEF Sound

LEMMA AlwaysSound == Spec => []Sound
BY SoundInit, SoundStep, PTL DEF Spec

\* The tables and requests keep their types; in particular the primary keys
\* never run out.
THEOREM TracesTyped == Spec => []TypeOK
<1>1. Sound => TypeOK
  BY DEF Sound
<1>. QED BY AlwaysSound, <1>1, PTL

\* The curve of a trace and its unreviewed events always come from the same
\* detection, whatever overlaps or is rolled back.
THEOREM CurvesAndEventsAgree == Spec => []CurveAndEventsAgree
<1>1. Sound => CurveAndEventsAgree
  BY DEF Sound, TypeOK, AllAgree, Agrees, OfRun, CurveAndEventsAgree
<1>. QED BY AlwaysSound, <1>1, PTL

\* No detection removes a reviewed event or makes it unreviewed, and no step
\* changes what the algorithm said.
THEOREM ReviewsAreKept == Spec => ReviewsKept
<1>. DEFINE Kept == \A i \in Present :
                       /\ event[i].reviewedBy # Nobody
                             => event'[i] # NoEvent /\ event'[i].reviewedBy # Nobody
                       /\ event'[i] # NoEvent
                             => /\ event'[i].algorithm = event[i].algorithm
                                /\ event'[i].trace = event[i].trace
<1>1. ASSUME Sound, [Next]_vars PROVE [Kept]_vars
  <2>1. TypeOK /\ RequestsSound /\ KeysSuffice /\ StepKind
    BY <1>1, StepKinds DEF Sound
  <2>2. CASE UNCHANGED catalog
    BY <2>2 DEF catalog, Present
  <2>3. ASSUME NEW w \in Actors, DetectCommit(w) PROVE Kept
    <3>1. /\ Present' = (Present \ req[w].doomed) \cup NewKeys(w)
          /\ Present \cap NewKeys(w) = {}
          /\ \A i \in Present \ req[w].doomed : event'[i] = event[i]
      BY <2>1, <2>3, CommitPresent
    <3>2. \A i \in req[w].doomed : event[i].reviewedBy = Nobody
      BY <1>1, <2>3, UnreviewedMeaning DEF Sound, DoomedIsUnreviewed, DetectCommit, Replaceable
    <3>. QED BY <3>1, <3>2 DEF Present
  <2>4. ASSUME NEW w \in Actors, ReviewWrites(w) PROVE Kept
    BY <2>1, <2>4, RevisedEvent, EventsAssumption DEF Present
  <2>. QED BY <2>1, <2>2, <2>3, <2>4 DEF StepKind, OtherStep, ActorStep
<1>. QED BY AlwaysSound, <1>1, PTL DEF Spec, ReviewsKept

\* The three statements of a detection and the two steps of a review implement
\* the catalogue in which each of them is one instant.
THEOREM ImplementsCatalog == Spec => Atomic
<1>1. Init => Catalog!Init
  BY DEF Init, Catalog!Init, Catalog!Unprocessed
<1>2. ASSUME Sound, [Next]_vars PROVE [Catalog!Next]_(Catalog!cvars)
  <2>1. TypeOK /\ RequestsSound /\ StepKind
    BY <1>2, StepKinds DEF Sound
  <2>2. CASE UNCHANGED catalog
    BY <2>2 DEF catalog, Catalog!cvars
  <2>3. ASSUME NEW w \in Actors, DetectCommit(w) PROVE Catalog!Next
    <3>. DEFINE q == req[w]
    <3>1. /\ q.trace \in Traces /\ q.run \in 1 .. MaxRuns /\ q.found \in SUBSET Distances
          /\ q.doomed = Catalog!Unreviewed(q.trace)
      BY <1>2, <2>1, <2>3, NumbersAssumption
         DEF Sound, DetectCommit, At, Detecting, RequestsSound, RequestSound,
             DoomedIsUnreviewed, TypeOK, Request
    <3>2. Catalog!Detect(q.trace, q.run, q.found)
      BY <2>3, <3>1, SameCardinality DEF DetectCommit, Catalog!Detect
    <3>. QED BY <3>1, <3>2 DEF Catalog!Next
  <2>4. ASSUME NEW w \in Actors, ReviewWrites(w), UNCHANGED <<curve, nextId>>
        PROVE  Catalog!Next
    <3>. DEFINE k == req[w].id
                d == req[w].item.distance
    <3>1. k \in Present /\ k \in Ids /\ w \in Reviewers /\ d \in Distances
      BY <2>1, <2>4, RevisedEvent DEF Present
    <3>2. Catalog!Review(k, w, d)
      BY <2>4, <3>1 DEF ReviewWrites, Catalog!Review, Catalog!Present, Present
    <3>. QED BY <3>1, <3>2 DEF Catalog!Next
  <2>. QED BY <2>1, <2>2, <2>3, <2>4 DEF StepKind, OtherStep, ActorStep
<1>. QED BY AlwaysSound, <1>1, <1>2, PTL DEF Spec, Atomic, Catalog!Spec
=============================================================================
