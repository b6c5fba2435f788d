-------------------------- MODULE ComparisonProofs --------------------------
(***************************************************************************)
(* Theorems about Comparison, for lists of any length, any distances,      *)
(* losses and confidences, and any tolerance and threshold.                *)
(*                                                                         *)
(* The invariants of the runs speak of the report when it is done.  Here   *)
(* they follow from invariants of the loops: what every difference found   *)
(* so far means (Explained), that no two are about the same event (Apart), *)
(* and how many baseline events the loop has passed (Counted).             *)
(* PrimaryIsBest follows from what every turn of the loop over the report  *)
(* keeps (BestSoFar).                                                      *)
(***************************************************************************)
EXTENDS Comparison, FiniteSetTheorems, WellFoundedInduction, TLAPS

\* All differences, in order or not.
Found == differences \cup {report[n] : n \in DOMAIN report}

Gone == {d \in Found : d.kind = "disappeared"}

Explained(d) ==
    \/ /\ d.kind = "disappeared"
       /\ d.baseline \in 1 .. base - 1
       /\ d.current = 0
       /\ d.distance = baseline[d.baseline].distance
       /\ \A i \in Free : Gap(d.distance, current[i].distance) > toleranceM
    \/ /\ d.kind = "loss_increased"
       /\ d.baseline \in 1 .. base - 1
       /\ d.current \in used
       /\ Gap(baseline[d.baseline].distance, current[d.current].distance) <= toleranceM
       /\ Worse(d.baseline, d.current)
    \/ /\ d.kind = "new"
       /\ pc \in {"sort", "done"}
       /\ d.baseline = 0
       /\ d.current \in Free
       /\ d.distance = current[d.current].distance

AllExplained == \A d \in Found : Explained(d)

DifferentEvents(d, e) == /\ d.baseline = e.baseline => d.baseline = 0
                         /\ d.current = e.current => d.current = 0

Apart == \A d, e \in Found : d # e => DifferentEvents(d, e)

ReportedOnce == /\ \A m, n \in DOMAIN report : report[m] = report[n] => m = n
                /\ \A n \in DOMAIN report : report[n] \notin differences

Counted == /\ IsFiniteSet(Gone)
           /\ Cardinality(used) + Cardinality(Gone) = base - 1

AllNewFound == pc \in {"sort", "done"} => \A i \in Free : New(i) \in Found

Progress == /\ base <= Len(baseline) + 1
            /\ pc = "match" <=> base <= Len(baseline)
            /\ pc \in {"match", "new"} => report = <<>>
            /\ pc = "done" => differences = {}

SameSoFar == baseline = current => used = 1 .. base - 1 /\ Found = {}

Sound == /\ TypeOK
         /\ AllExplained
         /\ Apart
         /\ ReportedOnce
         /\ Counted
         /\ AllNewFound
         /\ Progress
         /\ SameSoFar

-----------------------------------------------------------------------------
(* Facts about the values. *)

\* A list of events is a sequence of them.
LEMMA ListFacts ==
    ASSUME NEW events \in EventLists
    PROVE  /\ events \in Seq(Event)
           /\ Len(events) \in 1 .. MaxEvents
           /\ DOMAIN events = 1 .. Len(events)
           /\ \A i \in 1 .. Len(events) : events[i] \in Event
<1>1. PICK n \in 1 .. MaxEvents : events \in [1 .. n -> Event]
  BY DEF EventLists
<1>2. n \in Nat
  BY EventsAssumption
<1>3. events \in Seq(Event) /\ Len(events) = n
  BY <1>1, <1>2
<1>. QED BY <1>1, <1>3

\* The lists have events with whole distances, losses and confidences.
LEMMA EventNumbers ==
    ASSUME NEW e \in Event
    PROVE  e.distance \in Nat /\ e.loss \in Nat /\ e.confidence \in Nat
BY EventsAssumption DEF Event

\* What TypeOK says of the lists, in the form the proofs use.
LEMMA Lists ==
    ASSUME TypeOK
    PROVE  /\ \A b \in 1 .. Len(baseline) : baseline[b] \in Event
           /\ \A i \in DOMAIN current : current[i] \in Event
           /\ Len(baseline) \in 1 .. MaxEvents /\ Len(current) \in 1 .. MaxEvents
           /\ DOMAIN current = 1 .. Len(current)
           /\ MaxEvents \in Nat /\ base \in Nat \ {0}
           /\ used \subseteq 1 .. Len(current)
BY ListFacts, EventsAssumption DEF TypeOK

LEMMA GapFacts ==
    ASSUME NEW x \in Nat, NEW y \in Nat
    PROVE  /\ Gap(x, y) \in Nat /\ Gap(x, y) = Gap(y, x) /\ Gap(x, x) = 0
BY DEF Gap

\* The image of a finite set under a function without collisions has its size.
LEMMA ImageCount ==
    ASSUME NEW S, NEW T, IsFiniteSet(S), NEW f \in [S -> T],
           \A x, y \in S : f[x] = f[y] => x = y,
           \A y \in T : \E x \in S : f[x] = y
    PROVE  IsFiniteSet(T) /\ Cardinality(T) = Cardinality(S)
<1>1. f \in Bijection(S, T)
  BY DEF Bijection, Injection, Surjection, IsInjective
<1>. QED BY <1>1, FS_Bijection DEF ExistsBijection

\* The differences are what their names say.
LEMMA DisappearedFacts ==
    ASSUME TypeOK, NEW b \in 1 .. Len(baseline)
    PROVE  /\ Disappeared(b) \in Difference
           /\ Disappeared(b).kind = "disappeared"
           /\ Disappeared(b).baseline = b
           /\ Disappeared(b).current = 0
           /\ Disappeared(b).distance = baseline[b].distance
<1>1. baseline[b] \in Event /\ b \in 0 .. MaxEvents /\ 0 \in 0 .. MaxEvents
  BY Lists
<1>2. 9 * baseline[b].confidence \in Nat /\ baseline[b].distance \in Distances
  BY <1>1, EventNumbers DEF Event
<1>. QED BY <1>1, <1>2 DEF Disappeared, Difference

LEMMA LossIncreasedFacts ==
    ASSUME TypeOK, NEW b \in 1 .. Len(baseline), NEW i \in DOMAIN current, Worse(b, i)
    PROVE  /\ LossIncreased(b, i) \in Difference
           /\ LossIncreased(b, i).kind = "loss_increased"
           /\ LossIncreased(b, i).baseline = b
           /\ LossIncreased(b, i).current = i
<1>1. /\ baseline[b] \in Event /\ current[i] \in Event
      /\ b \in 0 .. MaxEvents /\ i \in 0 .. MaxEvents
  BY Lists
<1>2. current[i].loss - baseline[b].loss \in Nat
  BY <1>1, EventNumbers, ParametersAssumption DEF Worse
<1>3. 10 * Lesser(baseline[b].confidence, current[i].confidence) \in Nat
  BY <1>1, EventNumbers DEF Lesser
<1>4. current[i].distance \in Distances
  BY <1>1 DEF Event
<1>. QED BY <1>1, <1>2, <1>3, <1>4 DEF LossIncreased, Difference

LEMMA NewFacts ==
    ASSUME TypeOK, NEW i \in DOMAIN current
    PROVE  /\ New(i) \in Difference
           /\ New(i).kind = "new"
           /\ New(i).baseline = 0
           /\ New(i).current = i
           /\ New(i).distance = current[i].distance
<1>1. current[i] \in Event /\ i \in 0 .. MaxEvents /\ 0 \in 0 .. MaxEvents
  BY Lists
<1>2. /\ current[i].distance \in Distances
      /\ current[i].loss \in Nat /\ 10 * current[i].confidence \in Nat
  BY <1>1, EventNumbers DEF Event
<1>. QED BY <1>1, <1>2 DEF New, Difference

-----------------------------------------------------------------------------
(* The steps, by what they add. *)

lists == <<baseline, current>>

Forward == /\ base \in 1 .. Len(baseline)
           /\ base' = base + 1
           /\ pc' = IF base = Len(baseline) THEN "new" ELSE "match"

\* A baseline event that no free event of the trace reaches has disappeared.
Drops ==
    /\ pc = "match" /\ Forward
    /\ UNCHANGED <<lists, used, report>>
    /\ \A i \in Free : Gap(baseline[base].distance, current[i].distance) > toleranceM
    /\ Found' = Found \cup {Disappeared(base)}
    /\ differences' = differences \cup {Disappeared(base)}

\* Otherwise it uses up one of those that reach it.
Matches(i) ==
    /\ pc = "match" /\ Forward
    /\ UNCHANGED <<lists, report>>
    /\ i \in Free
    /\ Match(i)
    /\ Gap(baseline[base].distance, current[i].distance) <= toleranceM
    /\ used' = used \cup {i}
    /\ \/ /\ ~ Worse(base, i)
          /\ UNCHANGED differences
          /\ Found' = Found
       \/ /\ Worse(base, i)
          /\ differences' = differences \cup {LossIncreased(base, i)}
          /\ Found' = Found \cup {LossIncreased(base, i)}

Remains ==
    /\ pc = "new" /\ pc' = "sort"
    /\ UNCHANGED <<lists, base, used, report>>
    /\ differences' = differences \cup {New(i) : i \in Free}
    /\ Found' = Found \cup {New(i) : i \in Free}

Orders ==
    /\ pc = "sort" /\ pc' \in {"sort", "done"}
    /\ UNCHANGED <<lists, base, used>>
    /\ Found' = Found

StepKind == Drops \/ (\E i \in DOMAIN current : Matches(i)) \/ Remains \/ Orders
              \/ UNCHANGED vars

LEMMA StepKinds ==
    ASSUME TypeOK, Progress, [Next]_vars
    PROVE  StepKind
<1>1. NextBase /\ pc = "match" => Forward
  BY Lists DEF NextBase, Forward, Progress
<1>2. CASE MatchNone
  <2>1. \A i \in Free : Gap(baseline[base].distance, current[i].distance) > toleranceM
    <3>. SUFFICES ASSUME NEW i \in Free
                  PROVE  Gap(baseline[base].distance, current[i].distance) > toleranceM
      OBVIOUS
    <3>1. ~ (Gap(baseline[base].distance, current[i].distance) <= toleranceM)
      BY <1>2 DEF MatchNone, Candidates, Reaches, Delta
    <3>2. baseline[base] \in Event /\ current[i] \in Event
      BY <1>1, <1>2, Lists DEF MatchNone, Forward, Free
    <3>3. Gap(baseline[base].distance, current[i].distance) \in Nat /\ toleranceM \in Nat
      BY <3>2, EventNumbers, GapFacts, ParametersAssumption
    <3>. QED BY <3>1, <3>3
  <2>2. Found' = Found \cup {Disappeared(base)}
    BY <1>2 DEF MatchNone, Found
  <2>. QED BY <1>1, <1>2, <2>1, <2>2 DEF MatchNone, Drops, StepKind, lists
<1>3. CASE MatchOne
  <2>1. PICK i \in DOMAIN current :
           /\ Match(i)
           /\ used' = used \cup {i}
           /\ differences' = differences \cup
                                (IF Worse(base, i) THEN {LossIncreased(base, i)} ELSE {})
    BY <1>3 DEF MatchOne
  <2>2. i \in Free /\ Gap(baseline[base].distance, current[i].distance) <= toleranceM
    BY <2>1 DEF Match, Candidates, Reaches, Delta
  <2>3. Worse(base, i) => Found' = Found \cup {LossIncreased(base, i)}
    BY <1>3, <2>1 DEF MatchOne, Found
  <2>4. ~ Worse(base, i) => differences' = differences /\ Found' = Found
    BY <1>3, <2>1 DEF MatchOne, Found
  <2>5. Matches(i)
    BY <1>1, <1>3, <2>1, <2>2, <2>3, <2>4 DEF MatchOne, Matches, lists
  <2>. QED BY <2>5 DEF StepKind
<1>4. CASE ReportNew
  <2>1. Found' = Found \cup {New(i) : i \in Free}
    BY <1>4 DEF ReportNew, Found
  <2>. QED BY <1>4, <2>1 DEF ReportNew, Remains, StepKind, lists
<1>5. CASE Sort
  <2>1. CASE UNCHANGED <<differences, report>>
    BY <1>5, <2>1 DEF Sort, Orders, StepKind, lists, Found
  <2>2. CASE \E d \in differences : /\ report' = Append(report, d)
                                    /\ differences' = differences \ {d}
    <3>1. PICK d \in differences : /\ report' = Append(report, d)
                                   /\ differences' = differences \ {d}
      BY <2>2
    <3>2. report \in Seq(Difference) /\ Len(report) \in Nat
      BY DEF TypeOK
    <3>3. DOMAIN report = 1 .. Len(report) /\ DOMAIN report' = 1 .. Len(report) + 1
      BY <3>1, <3>2
    <3>4. /\ \A n \in 1 .. Len(report) : report'[n] = report[n]
          /\ report'[Len(report) + 1] = d
      BY <3>1, <3>2
    <3>5. {report'[n] : n \in DOMAIN report'} = {report[n] : n \in DOMAIN report} \cup {d}
      BY <3>2, <3>3, <3>4
    <3>6. Found' = Found
      BY <3>1, <3>5 DEF Found
    <3>. QED BY <1>5, <3>6 DEF Sort, Orders, StepKind, lists
  <2>. QED BY <1>5, <2>1, <2>2 DEF Sort
<1>6. CASE UNCHANGED vars
  BY <1>6 DEF StepKind
<1>. QED BY <1>2, <1>3, <1>4, <1>5, <1>6 DEF Next

-----------------------------------------------------------------------------
(* Each part of Sound is kept. *)

LEMMA TypeStep ==
    ASSUME TypeOK, Progress, [Next]_vars
    PROVE  TypeOK'
<1>1. StepKind
  BY StepKinds
<1>. USE Lists DEF TypeOK, lists
<1>2. CASE Drops
  BY <1>2, DisappearedFacts DEF Drops, Forward
<1>3. ASSUME NEW i \in DOMAIN current, Matches(i) PROVE TypeOK'
  BY <1>3, LossIncreasedFacts DEF Matches, Forward
<1>4. CASE Remains
  <2>1. \A i \in Free : New(i) \in Difference
    BY NewFacts DEF Free
  <2>. QED BY <1>4, <2>1 DEF Remains
<1>5. CASE Sort
  <2>1. ASSUME NEW d \in differences, report' = Append(report, d),
               differences' = differences \ {d}
        PROVE  differences' \subseteq Difference /\ report' \in Seq(Difference)
    <3>1. d \in Difference
      OBVIOUS
    <3>. QED BY <2>1, <3>1
  <2>2. differences' \subseteq Difference /\ report' \in Seq(Difference)
    BY <1>5, <2>1 DEF Sort
  <2>. QED BY <1>5, <2>2 DEF Sort
<1>6. CASE UNCHANGED vars
  BY <1>6 DEF vars
<1>7. Orders => Sort \/ UNCHANGED vars
  BY DEF Orders, Next, MatchNone, MatchOne, ReportNew
<1>. QED BY <1>1, <1>2, <1>3, <1>4, <1>5, <1>6, <1>7 DEF StepKind

LEMMA ProgressStep ==
    ASSUME TypeOK, Progress, [Next]_vars
    PROVE  Progress'
<1>1. StepKind
  BY StepKinds
<1>. USE Lists DEF Progress, lists
<1>2. CASE Drops
  BY <1>2 DEF Drops, Forward
<1>3. ASSUME NEW i \in DOMAIN current, Matches(i) PROVE Progress'
  BY <1>3 DEF Matches, Forward
<1>4. CASE Remains
  BY <1>4 DEF Remains
<1>5. CASE Orders
  BY <1>5 DEF Orders, Next, MatchNone, MatchOne, ReportNew, Sort, vars
<1>6. CASE UNCHANGED vars
  BY <1>6 DEF vars
<1>. QED BY <1>1, <1>2, <1>3, <1>4, <1>5, <1>6 DEF StepKind

\* Free events only become fewer, and the loop only goes on, so what explains
\* a difference explains it later.
LEMMA ExplainedKept ==
    ASSUME TypeOK, UNCHANGED lists, used \subseteq used', base' \in {base, base + 1},
           pc \in {"sort", "done"} => pc' \in {"sort", "done"} /\ used' = used,
           NEW d, Explained(d)
    PROVE  Explained(d)'
<1>1. Free' \subseteq Free
  BY DEF Free, lists
<1>2. base \in Nat /\ \A b \in 1 .. base - 1 : b \in 1 .. base' - 1
  BY Lists
<1>3. CASE d.kind = "disappeared"
  BY <1>1, <1>2, <1>3 DEF Explained, lists
<1>4. CASE d.kind = "loss_increased"
  BY <1>2, <1>4 DEF Explained, lists, Worse
<1>5. CASE d.kind = "new"
  BY <1>5 DEF Explained, lists, Free
<1>. QED BY <1>3, <1>4, <1>5 DEF Explained

LEMMA ExplainedStep ==
    ASSUME TypeOK, AllExplained, StepKind
    PROVE  AllExplained'
<1>. SUFFICES ASSUME NEW d \in Found' PROVE Explained(d)'
  BY DEF AllExplained
<1>1. CASE Drops
  <2>1. CASE d \in Found
    BY <1>1, <2>1, ExplainedKept DEF AllExplained, Drops, Forward
  <2>2. CASE d = Disappeared(base)
    <3>1. /\ d.kind = "disappeared" /\ d.baseline = base /\ d.current = 0
          /\ d.distance = baseline[base].distance
      BY <1>1, <2>2, DisappearedFacts DEF Drops, Forward
    <3>2. base \in 1 .. base' - 1
      BY <1>1, Lists DEF Drops, Forward
    <3>3. \A i \in Free' : Gap(d.distance, current'[i].distance) > toleranceM
      BY <1>1, <3>1 DEF Drops, lists, Free
    <3>. QED BY <1>1, <3>1, <3>2, <3>3 DEF Explained, Drops, lists
  <2>. QED BY <1>1, <2>1, <2>2 DEF Drops
<1>2. ASSUME NEW i \in DOMAIN current, Matches(i) PROVE Explained(d)'
  <2>1. CASE d \in Found
    BY <1>2, <2>1, ExplainedKept DEF AllExplained, Matches, Forward
  <2>2. CASE d = LossIncreased(base, i) /\ Worse(base, i)
    <3>1. d.kind = "loss_increased" /\ d.baseline = base /\ d.current = i
      BY <1>2, <2>2, LossIncreasedFacts DEF Matches, Forward
    <3>2. base \in 1 .. base' - 1 /\ i \in used'
      BY <1>2, Lists DEF Matches, Forward
    <3>. QED BY <1>2, <2>2, <3>1, <3>2 DEF Explained, Matches, lists, Worse
  <2>. QED BY <1>2, <2>1, <2>2 DEF Matches
<1>3. CASE Remains
  <2>1. CASE d \in Found
    BY <1>3, <2>1, ExplainedKept DEF AllExplained, Remains
  <2>2. ASSUME NEW i \in Free, d = New(i) PROVE Explained(d)'
    <3>1. /\ d.kind = "new" /\ d.baseline = 0 /\ d.current = i
          /\ d.distance = current[i].distance
      BY <2>2, NewFacts DEF Free
    <3>. QED BY <1>3, <3>1 DEF Explained, Remains, lists, Free
  <2>. QED BY <1>3, <2>1, <2>2 DEF Remains
<1>4. CASE Orders
  BY <1>4, ExplainedKept DEF AllExplained, Orders
<1>5. CASE UNCHANGED vars
  BY <1>5, ExplainedKept DEF AllExplained, vars, lists, Found
<1>. QED BY <1>1, <1>2, <1>3, <1>4, <1>5 DEF StepKind

\* What is added is about a baseline event the loop comes to, or about current
\* events that no other difference is about.
LEMMA ApartStep ==
    ASSUME TypeOK, AllExplained, Apart, StepKind
    PROVE  Apart'
<1>. USE DEF DifferentEvents
<1>1. ASSUME NEW x, Found' = Found \cup {x}, \A d \in Found : DifferentEvents(d, x)
      PROVE  Apart'
  BY <1>1 DEF Apart
<1>2. \A d \in Found : d.baseline \in 0 .. base - 1
  BY Lists DEF AllExplained, Explained
<1>3. CASE Drops
  <2>1. Disappeared(base).baseline = base /\ Disappeared(base).current = 0
    BY <1>3, DisappearedFacts DEF Drops, Forward
  <2>2. \A d \in Found : DifferentEvents(d, Disappeared(base))
    BY <1>2, <2>1, Lists
  <2>. QED BY <1>1, <1>3, <2>2 DEF Drops
<1>4. ASSUME NEW i \in DOMAIN current, Matches(i) PROVE Apart'
  <2>1. CASE Found' = Found
    BY <2>1 DEF Apart
  <2>2. CASE Found' = Found \cup {LossIncreased(base, i)} /\ Worse(base, i)
    <3>1. LossIncreased(base, i).baseline = base /\ LossIncreased(base, i).current = i
      BY <1>4, <2>2, LossIncreasedFacts DEF Matches, Forward
    <3>2. \A d \in Found : d.current # i \/ d.current = 0
      BY <1>4 DEF AllExplained, Explained, Matches, Free
    <3>3. \A d \in Found : DifferentEvents(d, LossIncreased(base, i))
      BY <1>2, <3>1, <3>2, Lists
    <3>. QED BY <1>1, <2>2, <3>3
  <2>. QED BY <1>4, <2>1, <2>2 DEF Matches
<1>5. CASE Remains
  <2>1. \A i \in Free : New(i).baseline = 0 /\ New(i).current = i /\ i # 0
    BY NewFacts, Lists DEF Free
  <2>2. \A d \in Found : d.current \notin Free
    BY <1>5, Lists DEF Remains, AllExplained, Explained, Free
  <2>3. ASSUME NEW d \in Found', NEW e \in Found', d # e PROVE DifferentEvents(d, e)
    <3>1. CASE d \in Found /\ e \in Found
      BY <2>3, <3>1 DEF Apart
    <3>2. ASSUME d \in Found, NEW j \in Free, e = New(j) PROVE DifferentEvents(d, e)
      BY <2>1, <2>2, <3>2
    <3>3. ASSUME e \in Found, NEW i \in Free, d = New(i) PROVE DifferentEvents(d, e)
      BY <2>1, <2>2, <3>3
    <3>4. ASSUME NEW i \in Free, d = New(i), NEW j \in Free, e = New(j)
          PROVE  DifferentEvents(d, e)
      BY <2>1, <2>3, <3>4
    <3>. QED BY <1>5, <2>3, <3>1, <3>2, <3>3, <3>4 DEF Remains
  <2>. QED BY <2>3 DEF Apart
<1>6. CASE Orders
  BY <1>6 DEF Orders, Apart
<1>7. CASE UNCHANGED vars
  BY <1>7 DEF Apart, Found, vars
<1>. QED BY <1>3, <1>4, <1>5, <1>6, <1>7 DEF StepKind

LEMMA ReportedStep ==
    ASSUME TypeOK, ReportedOnce, Progress, [Next]_vars
    PROVE  ReportedOnce'
<1>1. CASE UNCHANGED vars
  BY <1>1 DEF vars, ReportedOnce
<1>2. CASE report' = <<>>
  BY <1>2 DEF ReportedOnce
<1>3. CASE Sort
  <2>1. CASE UNCHANGED <<differences, report>>
    BY <2>1 DEF ReportedOnce
  <2>2. ASSUME NEW d \in differences, report' = Append(report, d),
               differences' = differences \ {d}
        PROVE  ReportedOnce'
    <3>1. report \in Seq(Difference) /\ Len(report) \in Nat
      BY DEF TypeOK
    <3>2. DOMAIN report = 1 .. Len(report) /\ DOMAIN report' = 1 .. Len(report) + 1
      BY <2>2, <3>1
    <3>3. /\ \A n \in 1 .. Len(report) : report'[n] = report[n]
          /\ report'[Len(report) + 1] = d
      BY <2>2, <3>1
    <3>4. \A n \in DOMAIN report' : n = Len(report) + 1 \/ n \in DOMAIN report
      BY <3>1, <3>2
    <3>5. \A n \in DOMAIN report : report'[n] = report[n] /\ report[n] # d
      BY <3>2, <3>3 DEF ReportedOnce
    <3>6. \A n \in DOMAIN report' : report'[n] \notin differences'
      BY <2>2, <3>3, <3>4, <3>5 DEF ReportedOnce
    <3>7. \A m, n \in DOMAIN report' : report'[m] = report'[n] => m = n
      BY <3>3, <3>4, <3>5 DEF ReportedOnce
    <3>. QED BY <3>6, <3>7 DEF ReportedOnce
  <2>. QED BY <1>3, <2>1, <2>2 DEF Sort
<1>. QED BY <1>1, <1>2, <1>3 DEF Next, MatchNone, MatchOne, ReportNew, Progress

LEMMA CountedStep ==
    ASSUME TypeOK, AllExplained, Counted, StepKind
    PROVE  Counted'
<1>1. /\ IsFiniteSet(Gone) /\ Cardinality(Gone) \in Nat
      /\ IsFiniteSet(used) /\ Cardinality(used) \in Nat /\ base \in Nat
      /\ Cardinality(used) + Cardinality(Gone) = base - 1
  <2>1. IsFiniteSet(1 .. Len(current))
    BY Lists, FS_Interval
  <2>2. IsFiniteSet(used)
    BY <2>1, Lists, FS_Subset
  <2>. QED BY <2>2, Lists, FS_CardinalityType DEF Counted
<1>2. ASSUME Gone' = Gone, used' = used, base' = base PROVE Counted'
  BY <1>1, <1>2 DEF Counted
<1>3. CASE Drops
  <2>. DEFINE d == Disappeared(base)
  <2>1. d.kind = "disappeared" /\ d.baseline = base
    BY <1>3, DisappearedFacts DEF Drops, Forward
  <2>2. d \notin Gone
    BY <2>1, Lists DEF Gone, AllExplained, Explained
  <2>3. Gone' = Gone \cup {d}
    BY <1>3, <2>1 DEF Drops, Gone
  <2>4. IsFiniteSet(Gone') /\ Cardinality(Gone') = Cardinality(Gone) + 1
    BY <1>1, <2>2, <2>3, FS_AddElement
  <2>5. used' = used /\ base' = base + 1
    BY <1>3 DEF Drops, Forward
  <2>6. Cardinality(used') + Cardinality(Gone') = base' - 1
    BY <1>1, <2>4, <2>5
  <2>. QED BY <2>4, <2>6 DEF Counted, Gone
<1>4. ASSUME NEW i \in DOMAIN current, Matches(i) PROVE Counted'
  <2>1. Gone' = Gone
    <3>1. CASE Found' = Found
      BY <3>1 DEF Gone
    <3>2. CASE Found' = Found \cup {LossIncreased(base, i)} /\ Worse(base, i)
      <4>1. LossIncreased(base, i).kind = "loss_increased"
        BY <1>4, <3>2, LossIncreasedFacts DEF Matches, Forward
      <4>. QED BY <3>2, <4>1 DEF Gone
    <3>. QED BY <1>4, <3>1, <3>2 DEF Matches
  <2>2. Cardinality(used') = Cardinality(used) + 1
    BY <1>1, <1>4, FS_AddElement DEF Matches, Free
  <2>3. base' = base + 1
    BY <1>4 DEF Matches, Forward
  <2>4. Cardinality(used') + Cardinality(Gone') = base' - 1
    BY <1>1, <2>1, <2>2, <2>3
  <2>. QED BY <1>1, <2>1, <2>4 DEF Counted, Gone
<1>5. CASE Remains
  <2>1. \A i \in Free : New(i).kind # "disappeared"
    BY NewFacts DEF Free
  <2>2. Gone' = Gone
    BY <1>5, <2>1 DEF Remains, Gone
  <2>. QED BY <1>2, <1>5, <2>2 DEF Remains
<1>6. CASE Orders
  BY <1>2, <1>6 DEF Orders, Gone
<1>7. CASE UNCHANGED vars
  BY <1>2, <1>7 DEF vars, Gone, Found
<1>. QED BY <1>3, <1>4, <1>5, <1>6, <1>7 DEF StepKind

LEMMA AllNewStep ==
    ASSUME TypeOK, AllNewFound, StepKind
    PROVE  AllNewFound'
<1>1. CASE Drops \/ \E i \in DOMAIN current : Matches(i)
  BY <1>1 DEF Drops, Matches, Forward, AllNewFound
<1>2. CASE Remains
  <2>1. Free' = Free /\ \A i \in Free : New(i)' = New(i)
    BY <1>2 DEF Remains, Free, New, lists
  <2>. QED BY <1>2, <2>1 DEF Remains, AllNewFound
<1>3. CASE Orders
  <2>1. Free' = Free /\ \A i \in Free : New(i)' = New(i)
    BY <1>3 DEF Orders, Free, New, lists
  <2>. QED BY <1>3, <2>1 DEF Orders, AllNewFound
<1>4. CASE UNCHANGED vars
  BY <1>4 DEF vars, AllNewFound, Free, New, Found
<1>. QED BY <1>1, <1>2, <1>3, <1>4 DEF StepKind

\* When the lists are the same, every event is matched with itself: it is free
\* and at no distance, and those before it that are as near are used.
LEMMA SameStep ==
    ASSUME TypeOK, Progress, SameSoFar, StepKind
    PROVE  SameSoFar'
<1>. SUFFICES ASSUME baseline' = current' PROVE used' = 1 .. base' - 1 /\ Found' = {}
  BY DEF SameSoFar
<1>1. baseline = current
  BY DEF StepKind, Drops, Matches, Remains, Orders, lists, vars
<1>2. used = 1 .. base - 1 /\ Found = {} /\ base \in Nat \ {0}
  BY <1>1, Lists DEF SameSoFar
<1>3. ASSUME pc = "match"
      PROVE  base \in Free /\ current[base] \in Event /\ Delta(base) = 0 /\ base \in Candidates
  <2>1. base \in 1 .. Len(current)
    BY <1>1, <1>2, <1>3, Lists DEF Progress
  <2>2. base \in Free /\ current[base] \in Event
    BY <1>2, <2>1, Lists DEF Free
  <2>3. Delta(base) = 0
    BY <1>1, <2>2, EventNumbers, GapFacts DEF Delta
  <2>. QED BY <2>2, <2>3, ParametersAssumption DEF Candidates, Reaches
<1>4. CASE Drops
  <2>1. Gap(baseline[base].distance, current[base].distance) > toleranceM
    BY <1>3, <1>4 DEF Drops
  <2>. QED BY <1>3, <1>4, <2>1, ParametersAssumption DEF Drops, Delta
<1>5. ASSUME NEW i \in DOMAIN current, Matches(i)
      PROVE  used' = 1 .. base' - 1 /\ Found' = {}
  <2>1. i = base
    <3>1. ASSUME i # base PROVE FALSE
      <4>1. Delta(i) < 0 \/ i < base
        BY <1>3, <1>5, <3>1 DEF Matches, Match, Better
      <4>2. current[i] \in Event /\ current[base] \in Event /\ i \in Nat \ {0}
        BY <1>3, <1>5, Lists DEF Matches
      <4>3. Delta(i) \in Nat
        BY <1>1, <4>2, EventNumbers, GapFacts DEF Delta
      <4>4. i \notin 1 .. base - 1
        BY <1>2, <1>5 DEF Matches, Free
      <4>. QED BY <1>2, <4>1, <4>2, <4>3, <4>4
    <3>. QED BY <3>1
  <2>2. ~ Worse(base, i)
    BY <1>1, <1>3, <1>5, <2>1, EventNumbers, ParametersAssumption DEF Worse, Matches
  <2>3. Found' = {} /\ used' = used \cup {base} /\ base' = base + 1
    BY <1>2, <1>5, <2>1, <2>2 DEF Matches, Forward
  <2>. QED BY <1>2, <2>3
<1>6. CASE Remains
  <2>1. Free = {}
    BY <1>1, <1>2, <1>6, Lists DEF Remains, Free, Progress
  <2>. QED BY <1>2, <1>6, <2>1 DEF Remains
<1>7. CASE Orders
  BY <1>2, <1>7 DEF Orders
<1>8. CASE UNCHANGED vars
  BY <1>2, <1>8 DEF vars, Found
<1>. QED BY <1>4, <1>5, <1>6, <1>7, <1>8 DEF StepKind

-----------------------------------------------------------------------------
(* What the loops leave when they are done. *)

LEMMA DoneFound ==
    ASSUME Sound, Done
    PROVE  /\ report \in Seq(Difference)
           /\ Found = {report[n] : n \in DOMAIN report}
           /\ \A n \in DOMAIN report : report[n] \in Found /\ Explained(report[n])
BY DEF Sound, TypeOK, Done, Progress, Found, AllExplained

\* Each kind is reported as often as it was found.
LEMMA ReportedCount ==
    ASSUME Sound, Done, NEW kind
    PROVE  /\ IsFiniteSet(Reported(kind))
           /\ Cardinality(Reported(kind)) = Cardinality({d \in Found : d.kind = kind})
<1>. DEFINE S == Reported(kind)
            T == {d \in Found : d.kind = kind}
            f == [n \in S |-> report[n]]
<1>1. IsFiniteSet(S)
  <2>1. DOMAIN report = 1 .. Len(report) /\ Len(report) \in Nat
    BY DoneFound
  <2>2. IsFiniteSet(DOMAIN report)
    BY <2>1, FS_Interval
  <2>3. S \in SUBSET DOMAIN report
    BY DEF Reported
  <2>. QED BY <2>2, <2>3, FS_Subset
<1>2. f \in [S -> T]
  BY DoneFound DEF Reported
<1>3. \A x, y \in S : f[x] = f[y] => x = y
  BY DEF Reported, Sound, ReportedOnce
<1>4. \A d \in T : \E n \in S : f[n] = d
  BY DoneFound DEF Reported
<1>. HIDE DEF f, S, T
<1>5. Cardinality(T) = Cardinality(S)
  BY <1>1, <1>2, <1>3, <1>4, ImageCount
<1>. QED BY <1>1, <1>5 DEF S, T

LEMMA SoundOneToOne == Sound => OneToOne
<1>. SUFFICES ASSUME Sound, Done PROVE OneToOne
  BY DEF OneToOne
<1>0. TypeOK /\ AllExplained /\ Counted
  BY DEF Sound
<1>1. ASSUME NEW m \in DOMAIN report, NEW n \in DOMAIN report, m # n
      PROVE  DifferentEvents(report[m], report[n])
  <2>1. report[m] # report[n]
    BY <1>1 DEF Sound, ReportedOnce
  <2>. QED BY <2>1, DoneFound DEF Sound, Apart
<1>2. Cardinality(Reported("disappeared")) = Cardinality(Gone)
  BY ReportedCount DEF Gone
<1>3. Cardinality(Reported("new")) = Cardinality(Free)
  <2>. DEFINE T == {d \in Found : d.kind = "new"}
              f == [i \in Free |-> New(i)]
  <2>1. Cardinality(Reported("new")) = Cardinality(T)
    BY ReportedCount
  <2>2. \A i \in Free : New(i) \in T /\ New(i).current = i
    BY <1>0, NewFacts DEF Sound, AllNewFound, Done, Free
  <2>3. \A d \in T : \E i \in Free : d = New(i)
    <3>. SUFFICES ASSUME NEW d \in T PROVE \E i \in Free : d = New(i)
      OBVIOUS
    <3>1. d.current \in Free /\ d.baseline = 0
      BY DEF Sound, AllExplained, Explained
    <3>2. New(d.current) \in Found /\ New(d.current).current = d.current /\ d.current # 0
      BY <1>0, <2>2, <3>1, Lists DEF Free
    <3>3. d = New(d.current)
      BY <3>2 DEF Sound, Apart, DifferentEvents
    <3>. QED BY <3>1, <3>3
  <2>4. f \in [Free -> T] /\ (\A x, y \in Free : f[x] = f[y] => x = y)
    BY <2>2
  <2>5. \A d \in T : \E i \in Free : f[i] = d
    BY <2>3
  <2>6. IsFiniteSet(Free)
    <3>1. IsFiniteSet(DOMAIN current) /\ Free \in SUBSET DOMAIN current
      BY <1>0, Lists, FS_Interval DEF Free
    <3>. QED BY <3>1, FS_Subset
  <2>. HIDE DEF T, f
  <2>7. Cardinality(T) = Cardinality(Free)
    BY <2>4, <2>5, <2>6, ImageCount
  <2>. QED BY <2>1, <2>7
<1>4. Cardinality(Free) = Len(current) - Cardinality(used)
  <2>1. /\ Len(current) \in Nat /\ DOMAIN current = 1 .. Len(current)
        /\ used \in SUBSET DOMAIN current
    BY <1>0, Lists
  <2>2. IsFiniteSet(DOMAIN current) /\ Cardinality(DOMAIN current) = Len(current)
    BY <2>1, FS_Interval
  <2>3. IsFiniteSet(used) /\ DOMAIN current \cap used = used
    BY <2>1, <2>2, FS_Subset
  <2>4. Cardinality(DOMAIN current \ used)
          = Cardinality(DOMAIN current) - Cardinality(DOMAIN current \cap used)
    BY <2>2, FS_Difference
  <2>. QED BY <2>2, <2>3, <2>4 DEF Free
<1>5. Cardinality(used) + Cardinality(Gone) = Len(baseline)
  BY <1>0, Lists DEF Counted, Sound, Progress, Done
<1>6. /\ Cardinality(used) \in Nat /\ Cardinality(Gone) \in Nat
      /\ Len(baseline) \in Nat /\ Len(current) \in Nat
  <2>1. IsFiniteSet(1 .. Len(current)) /\ used \in SUBSET (1 .. Len(current))
    BY <1>0, Lists, FS_Interval
  <2>2. IsFiniteSet(used)
    BY <2>1, FS_Subset
  <2>. QED BY <1>0, <2>2, Lists, FS_CardinalityType DEF Counted
<1>7. Len(baseline) - Cardinality(Reported("disappeared"))
        = Len(current) - Cardinality(Reported("new"))
  BY <1>2, <1>3, <1>4, <1>5, <1>6
<1>. QED BY <1>1, <1>7 DEF OneToOne, DifferentEvents

LEMMA SoundNoMatchMissed == Sound => NoMatchMissed
<1>. SUFFICES ASSUME Sound, Done PROVE NoMatchMissed
  BY DEF NoMatchMissed
<1>1. ASSUME NEW m \in Reported("disappeared"), NEW n \in Reported("new")
      PROVE  Gap(report[m].distance, report[n].distance) > toleranceM
  BY DoneFound DEF Reported, Explained
<1>2. ASSUME NEW n \in Reported("loss_increased")
      PROVE  LET b == baseline[report[n].baseline]
                 c == current[report[n].current]
             IN  /\ Gap(b.distance, c.distance) <= toleranceM
                 /\ c.loss >= b.loss + lossIncreaseDB
  <2>. DEFINE d == report[n]
  <2>1. /\ d.baseline \in 1 .. base - 1 /\ d.current \in used
        /\ Gap(baseline[d.baseline].distance, current[d.current].distance) <= toleranceM
        /\ Worse(d.baseline, d.current)
    BY DoneFound DEF Reported, Explained
  <2>2. baseline[d.baseline] \in Event /\ current[d.current] \in Event
    BY <2>1, Lists DEF Sound, Progress
  <2>. QED BY <2>1, <2>2, EventNumbers, ParametersAssumption DEF Worse
<1>. QED BY <1>1, <1>2 DEF NoMatchMissed

LEMMA SoundSameIsSame == Sound => SameIsSame
<1>. SUFFICES ASSUME Sound, Done, baseline = current PROVE report = <<>>
  BY DEF SameIsSame
<1>1. \A n \in DOMAIN report : FALSE
  BY DoneFound DEF Sound, SameSoFar
<1>. QED BY <1>1, DoneFound

-----------------------------------------------------------------------------
(* PrimaryDifference.  Its loop is a recursive function; that the function *)
(* exists, and what holds of every turn, are shown by least counterexample. *)

LEMMA LeastNatural ==
    ASSUME NEW T, T \subseteq Nat, T # {}
    PROVE  \E m \in T : \A n \in T : m <= n
<1>1. PICK m \in T : \A n \in T : ~ (<<n, m>> \in OpToRel(<, Nat))
  BY NatLessThanWellFounded, WFMin
<1>2. ASSUME NEW n \in T PROVE m <= n
  <2>1. n \in Nat /\ m \in Nat
    OBVIOUS
  <2>2. n < m => <<n, m>> \in OpToRel(<, Nat)
    BY <2>1, Zenon DEF OpToRel
  <2>3. ~ (n < m)
    BY <1>1, <2>2, Zenon
  <2>. QED BY <2>1, <2>3
<1>. QED BY <1>2

\* The best so far after turn n, when f has those of the turns before.
Turn(f, n) == IF n > 1 /\ ~ Preferred(report[n], f[n - 1]) THEN f[n - 1] ELSE report[n]

\* f has the best so far of the first N turns.
Follows(f, N) == f = [n \in 1 .. N |-> Turn(f, n)]

LEMMA TurnsExist ==
    ASSUME report \in Seq(Difference)
    PROVE  \E f : Follows(f, Len(report))
<1>. DEFINE T == {N \in 0 .. Len(report) : ~ \E f : Follows(f, N)}
<1>0. Len(report) \in Nat
  OBVIOUS
<1>1. SUFFICES ASSUME T # {} PROVE FALSE
  BY <1>0
<1>2. PICK N \in T : \A M \in T : N <= M
  <2>1. T \subseteq Nat
    BY <1>0
  <2>. HIDE DEF T
  <2>. QED BY <1>1, <2>1, LeastNatural
<1>3. N \in 0 .. Len(report) /\ N \in Nat
  BY <1>0
<1>4. N # 0
  <2>. DEFINE e == [n \in 1 .. 0 |-> report[n]]
  <2>1. Follows(e, 0)
    BY DEF Follows
  <2>. QED BY <2>1
<1>5. N - 1 \in 0 .. Len(report) /\ N - 1 \in Nat /\ N - 1 \notin T
  BY <1>0, <1>2, <1>3, <1>4
<1>6. PICK f : Follows(f, N - 1)
  BY <1>5
<1>. DEFINE g == [n \in 1 .. N |-> IF n = N THEN Turn(f, N) ELSE f[n]]
<1>7. ASSUME NEW n \in 1 .. N PROVE g[n] = Turn(g, n)
  <2>1. n > 1 => g[n - 1] = f[n - 1]
    BY <1>3
  <2>2. Turn(g, n) = Turn(f, n)
    <3>. HIDE DEF g
    <3>. QED BY <1>3, <2>1 DEF Turn
  <2>3. g[n] = Turn(f, n)
    <3>1. n # N => n \in 1 .. N - 1
      BY <1>3
    <3>2. n # N => f[n] = Turn(f, n)
      BY <1>6, <3>1 DEF Follows
    <3>. QED BY <3>2
  <2>. QED BY <2>2, <2>3
<1>8. Follows(g, N)
  <2>1. DOMAIN g = 1 .. N /\ g = [n \in 1 .. N |-> g[n]]
    OBVIOUS
  <2>. HIDE DEF g
  <2>. QED BY <1>7, <2>1 DEF Follows
<1>. QED BY <1>8

\* PrimaryDifference is what the loop has after its last turn.
LEMMA PrimaryIsLast ==
    ASSUME report \in Seq(Difference)
    PROVE  \E f : Follows(f, Len(report)) /\ PrimaryDifference = f[Len(report)]
<1>. DEFINE best == CHOOSE f : f = [n \in DOMAIN report |->
                        IF n > 1 /\ ~ Preferred(report[n], f[n - 1]) THEN f[n - 1] ELSE report[n]]
<1>1. PrimaryDifference = best[Len(report)]
  BY DEF PrimaryDifference
<1>2. best = CHOOSE f : Follows(f, Len(report))
  BY DEF Follows, Turn
<1>. HIDE DEF best
<1>3. Follows(best, Len(report))
  BY <1>2, TurnsExist
<1>. QED BY <1>1, <1>3

LossAmong(n) == {m \in 1 .. n : report[m].kind = "loss_increased"}

\* No difference of the first n is more confident than d.
TopOf(n, d) == \A m \in 1 .. n : report[m].confidence <= d.confidence

\* PrimaryIsBest, of the first n differences and the best of them.
BestSoFar(d, n) ==
    /\ \E m \in 1 .. n : d = report[m]
    /\ \/ /\ TopOf(n, d)
          /\ \A m \in LossAmong(n) : TopOf(n, report[m]) => d.kind = "loss_increased"
       \/ /\ LossAmong(n) # {}
          /\ \A m \in LossAmong(n) : ~ TopOf(n, report[m])

\* A turn keeps it: a best so far that is not the most confident one was a
\* loss increase, or came after one, and no loss increase has caught up since.
LEMMA TurnKeeps ==
    ASSUME report \in Seq(Difference), NEW n \in Nat \ {0}, n + 1 <= Len(report),
           NEW d, BestSoFar(d, n),
           NEW e, e = IF ~ Preferred(report[n + 1], d) THEN d ELSE report[n + 1]
    PROVE  BestSoFar(e, n + 1)
<1>. DEFINE x == report[n + 1]
<1>1. \A m \in 1 .. n + 1 : report[m] \in Difference /\ report[m].confidence \in Nat
  <2>1. \A m \in 1 .. n + 1 : report[m] \in Difference
    OBVIOUS
  <2>. QED BY <2>1 DEF Difference
<1>2. 1 .. n + 1 = (1 .. n) \cup {n + 1} /\ n + 1 \notin 1 .. n
  OBVIOUS
<1>3. /\ d \in Difference /\ d.confidence \in Nat /\ x \in Difference /\ x.confidence \in Nat
      /\ \E m \in 1 .. n + 1 : e = report[m]
  BY <1>1, <1>2 DEF BestSoFar
<1>4. \A y : TopOf(n + 1, y) <=> TopOf(n, y) /\ x.confidence <= y.confidence
  BY <1>2 DEF TopOf
<1>5. LossAmong(n + 1) = LossAmong(n) \cup (IF x.kind = "loss_increased" THEN {n + 1} ELSE {})
  BY <1>2 DEF LossAmong
<1>6. LossAmong(n) \subseteq 1 .. n /\ \A m \in LossAmong(n) : report[m].kind = "loss_increased"
  BY DEF LossAmong
<1>7. \A m \in 1 .. n : TopOf(n, report[m]) => d.confidence <= report[m].confidence
  BY DEF BestSoFar, TopOf
<1>8. TopOf(n, d) /\ d.confidence <= x.confidence => TopOf(n + 1, x)
  BY <1>1, <1>2, <1>3 DEF TopOf
<1>9. ~ TopOf(n, d) => \E m \in 1 .. n : report[m].confidence > d.confidence
  BY <1>1, <1>2, <1>3 DEF TopOf
<1>10. CASE /\ TopOf(n, d)
            /\ \A m \in LossAmong(n) : TopOf(n, report[m]) => d.kind = "loss_increased"
  <2>1. CASE ~ Preferred(x, d)
    <3>1. x.confidence <= d.confidence /\ (x.kind = "loss_increased" => d.kind = "loss_increased")
      BY <1>3, <2>1 DEF Preferred
    <3>2. TopOf(n + 1, d)
      BY <1>4, <1>10, <3>1
    <3>3. \A m \in LossAmong(n + 1) : TopOf(n + 1, report[m]) => d.kind = "loss_increased"
      BY <1>4, <1>5, <1>10, <3>1
    <3>. QED BY <1>3, <2>1, <3>2, <3>3 DEF BestSoFar
  <2>2. CASE x.confidence > d.confidence
    <3>1. e = x
      BY <2>2 DEF Preferred
    <3>2. TopOf(n + 1, x)
      BY <1>3, <1>8, <1>10, <2>2
    <3>3. \A m \in LossAmong(n) : ~ TopOf(n + 1, report[m])
      BY <1>1, <1>2, <1>3, <1>4, <1>6, <1>10, <2>2 DEF BestSoFar, TopOf
    <3>4. \A m \in LossAmong(n + 1) : TopOf(n + 1, report[m]) => x.kind = "loss_increased"
      BY <1>5, <3>3
    <3>. QED BY <1>3, <3>1, <3>2, <3>4 DEF BestSoFar
  <2>3. CASE /\ x.confidence <= d.confidence
             /\ x.kind = "loss_increased" /\ d.kind # "loss_increased"
    <3>1. e = x
      BY <2>3 DEF Preferred
    <3>2. LossAmong(n + 1) # {}
      BY <1>5, <2>3
    <3>3. \A m \in LossAmong(n) : ~ TopOf(n + 1, report[m])
      BY <1>4, <1>10, <2>3
    <3>4. CASE x.confidence = d.confidence
      <4>1. TopOf(n + 1, x)
        BY <1>3, <1>8, <1>10, <3>4
      <4>. QED BY <1>3, <2>3, <3>1, <4>1 DEF BestSoFar
    <3>5. CASE x.confidence < d.confidence
      <4>1. ~ TopOf(n + 1, x)
        BY <1>2, <1>3, <3>5 DEF TopOf, BestSoFar
      <4>. QED BY <1>3, <1>5, <3>2, <3>3, <4>1 DEF BestSoFar
    <3>. QED BY <1>3, <2>3, <3>4, <3>5
  <2>. QED BY <1>3, <2>1, <2>2, <2>3 DEF Preferred
<1>11. CASE /\ LossAmong(n) # {} /\ \A m \in LossAmong(n) : ~ TopOf(n, report[m])
            /\ ~ TopOf(n, d)
  <2>1. LossAmong(n + 1) # {} /\ \A m \in LossAmong(n) : ~ TopOf(n + 1, report[m])
    BY <1>4, <1>5, <1>11
  <2>2. CASE TopOf(n + 1, x)
    <3>1. x.confidence > d.confidence
      <4>1. PICK m \in 1 .. n : report[m].confidence > d.confidence
        BY <1>9, <1>11
      <4>2. report[m].confidence <= x.confidence /\ report[m].confidence \in Nat
        BY <1>1, <1>2, <2>2 DEF TopOf
      <4>. QED BY <1>3, <4>1, <4>2
    <3>2. e = x
      BY <3>1 DEF Preferred
    <3>3. \A m \in LossAmong(n + 1) : TopOf(n + 1, report[m]) => x.kind = "loss_increased"
      BY <1>5, <2>1
    <3>. QED BY <1>3, <2>2, <3>2, <3>3 DEF BestSoFar
  <2>3. CASE ~ TopOf(n + 1, x)
    <3>1. \A m \in LossAmong(n + 1) : ~ TopOf(n + 1, report[m])
      BY <1>5, <2>1, <2>3
    <3>. QED BY <1>3, <2>1, <3>1 DEF BestSoFar
  <2>. QED BY <2>2, <2>3
<1>. QED BY <1>10, <1>11 DEF BestSoFar

LEMMA AllTurnsKeep ==
    ASSUME report \in Seq(Difference), NEW f, Follows(f, Len(report)),
           NEW N \in 1 .. Len(report)
    PROVE  BestSoFar(f[N], N)
<1>. DEFINE T == {n \in 1 .. Len(report) : ~ BestSoFar(f[n], n)}
<1>0. Len(report) \in Nat /\ \A n \in 1 .. Len(report) : f[n] = Turn(f, n)
  BY DEF Follows
<1>1. SUFFICES ASSUME T # {} PROVE FALSE
  OBVIOUS
<1>2. PICK n \in T : \A m \in T : n <= m
  <2>1. T \subseteq Nat
    BY <1>0
  <2>. HIDE DEF T
  <2>. QED BY <1>1, <2>1, LeastNatural
<1>3. n \in 1 .. Len(report) /\ n \in Nat
  BY <1>0
<1>4. CASE n = 1
  <2>1. f[1] = report[1] /\ report[1] \in Difference
    BY <1>0, <1>3, <1>4 DEF Turn
  <2>2. report[1].confidence \in Nat
    BY <2>1 DEF Difference
  <2>3. 1 .. 1 = {1}
    OBVIOUS
  <2>4. BestSoFar(f[1], 1)
    BY <2>1, <2>2, <2>3 DEF BestSoFar, TopOf, LossAmong
  <2>. QED BY <1>4, <2>4
<1>5. CASE n # 1
  <2>1. PICK p \in Nat \ {0} : n = p + 1 /\ p \in 1 .. Len(report) /\ p \notin T
    <3>1. /\ n - 1 \in Nat \ {0} /\ n = (n - 1) + 1 /\ n - 1 \in 1 .. Len(report)
          /\ n - 1 < n
      BY <1>0, <1>3, <1>5
    <3>2. n - 1 \notin T
      <4>. HIDE DEF T
      <4>. QED BY <1>2, <1>3, <3>1
    <3>. QED BY <3>1, <3>2
  <2>2. BestSoFar(f[p], p)
    BY <2>1
  <2>3. f[p + 1] = IF ~ Preferred(report[p + 1], f[p]) THEN f[p] ELSE report[p + 1]
    <3>1. p + 1 > 1 /\ (p + 1) - 1 = p
      BY <2>1
    <3>2. f[p + 1] = Turn(f, p + 1)
      BY <1>0, <1>3, <2>1
    <3>. QED BY <3>1, <3>2 DEF Turn
  <2>4. BestSoFar(f[p + 1], p + 1)
    <3>1. p + 1 <= Len(report)
      BY <1>3, <2>1
    <3>. QED BY <2>2, <2>3, <3>1, TurnKeeps
  <2>. QED BY <2>1, <2>4
<1>. QED BY <1>4, <1>5

LEMMA SoundPrimaryIsBest == Sound => PrimaryIsBest
<1>. SUFFICES ASSUME Sound, Done, report # <<>> PROVE PrimaryIsBest
  BY DEF PrimaryIsBest
<1>. DEFINE N == Len(report)
            Top(n) == \A m \in DOMAIN report : report[m].confidence <= report[n].confidence
            best == CHOOSE n \in DOMAIN report : report[n] = PrimaryDifference
            Loss == Reported("loss_increased")
<1>1. report \in Seq(Difference) /\ DOMAIN report = 1 .. N /\ N \in 1 .. N
  BY DoneFound
<1>2. BestSoFar(PrimaryDifference, N)
  BY <1>1, PrimaryIsLast, AllTurnsKeep
<1>3. best \in DOMAIN report /\ report[best] = PrimaryDifference
  BY <1>1, <1>2 DEF BestSoFar
<1>4. Loss = LossAmong(N)
  BY <1>1 DEF Reported, LossAmong
<1>5. \A n : Top(n) <=> TopOf(N, report[n])
  BY <1>1 DEF TopOf
<1>6. best \in Loss <=> PrimaryDifference.kind = "loss_increased"
  BY <1>3 DEF Reported
<1>. HIDE DEF N, Top, best, Loss
<1>7. \/ Top(best) /\ (\A n \in Loss : Top(n) => best \in Loss)
      \/ Loss # {} /\ \A n \in Loss : ~ Top(n)
  BY <1>2, <1>3, <1>4, <1>5, <1>6 DEF BestSoFar
<1>. QED BY <1>7 DEF PrimaryIsBest, Top, best, Loss

-----------------------------------------------------------------------------
(* The theorems. *)

LEMMA SoundInit == Init => Sound
<1>. SUFFICES ASSUME Init PROVE Sound
  OBVIOUS
<1>1. TypeOK
  BY EventsAssumption DEF Init, TypeOK
<1>2. Found = {} /\ Gone = {}
  BY DEF Init, Found, Gone
<1>3. Counted
  BY <1>2, FS_EmptySet DEF Init, Counted
<1>4. Progress
  BY <1>1, Lists DEF Init, Progress
<1>. QED BY <1>1, <1>2, <1>3, <1>4
         DEF Init, Sound, AllExplained, Apart, ReportedOnce, AllNewFound, SameSoFar

LEMMA SoundStep == Sound /\ [Next]_vars => Sound'
<1>. SUFFICES ASSUME Sound, [Next]_vars PROVE Sound'
  OBVIOUS
<1>1. StepKind
  BY StepKinds DEF Sound
<1>. QED BY <1>1, TypeStep, ExplainedStep, ApartStep, ReportedStep, CountedStep, AllNewStep,
            ProgressStep, SameStep DEF Sound

LEMMA AlwaysSound == Spec => []Sound
BY SoundInit, SoundStep, PTL DEF Spec

\* Every event is accounted for once, for lists of any length.
THEOREM MatchingIsOneToOne == Spec => []OneToOne
BY AlwaysSound, SoundOneToOne, PTL

\* The greedy loop misses no match, for any distances and any tolerance.
THEOREM NoMatchIsMissed == Spec => []NoMatchMissed
BY AlwaysSound, SoundNoMatchMissed, PTL

\* A trace that equals its baseline shows no difference.
THEOREM SameShowsNothing == Spec => []SameIsSame
BY AlwaysSound, SoundSameIsSame, PTL

\* The difference a case is estimated by is the most confident one, and a loss
\* increase where one is as confident, unless the two criteria disagree; for
\* reports of any length.
THEOREM PrimaryIsTheBest == Spec => []PrimaryIsBest
BY AlwaysSound, SoundPrimaryIsBest, PTL
=============================================================================
