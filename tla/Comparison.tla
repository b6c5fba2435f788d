----------------------------- MODULE Comparison -----------------------------
(***************************************************************************)
(* The comparison of the events of a trace with those of its baseline:     *)
(* CompareBaseline, one iteration of its first loop per step, and          *)
(* PrimaryDifference, which picks the difference a case is estimated by.   *)
(*                                                                         *)
(* The events come from EventRepository.ForTrace, in the order of their    *)
(* distances and in no particular order among equal ones.  Distances and   *)
(* losses are whole numbers of the smallest unit the code tells apart, and *)
(* a confidence is one tenth of a step of the unit it is rounded to, so    *)
(* that the factor 0.9 stays whole.                                        *)
(***************************************************************************)
EXTENDS Integers, FiniteSets, Sequences

CONSTANTS MaxEvents,    \* bound: how many events a trace has
          Distances,    \* distances of events
          Losses,       \* insertion losses of events
          Confidences,  \* confidences of events
          toleranceM,   \* the distance tolerance of the request
          lossIncreaseDB  \* its loss threshold

ASSUME ParametersAssumption == /\ toleranceM \in Nat \ {0}
                               /\ lossIncreaseDB \in Nat \ {0}
ASSUME EventsAssumption == /\ MaxEvents \in Nat \ {0}
                           /\ Distances \subseteq Nat
                           /\ Losses \subseteq Nat
                           /\ Confidences \subseteq Nat

VARIABLES baseline,     \* the events of the baseline trace, in order
          current,      \* the events of the current trace, in order
          base,         \* the index of the baseline event of this iteration
          used,         \* the current events that have been matched
          differences,  \* the differences found and not yet in order
          report,       \* the differences in order
          pc

vars == <<baseline, current, base, used, differences, report, pc>>

-----------------------------------------------------------------------------
Event == [ distance : Distances, loss : Losses, confidence : Confidences ]

Sorted(events) ==
    \A i, j \in DOMAIN events : i < j => events[i].distance <= events[j].distance

\* compareEvents refuses a trace without events.
EventLists == UNION { {events \in [1 .. n -> Event] : Sorted(events)} : n \in 1 .. MaxEvents }

Kinds == <<"disappeared", "loss_increased", "new">>

\* baseline and current are indexes, 0 where the difference has no such event.
Difference == [ kind : {"disappeared", "loss_increased", "new"},
                baseline : 0 .. MaxEvents, current : 0 .. MaxEvents,
                distance : Distances, lossDelta : Nat, confidence : Nat ]

TypeOK == /\ baseline \in EventLists
          /\ current \in EventLists
          /\ base \in 1 .. MaxEvents + 1
          /\ used \subseteq DOMAIN current
          /\ differences \subseteq Difference
          /\ report \in Seq(Difference)
          /\ pc \in {"match", "new", "sort", "done"}

Gap(x, y) == IF x < y THEN y - x ELSE x - y

Lesser(x, y) == IF x < y THEN x ELSE y

-----------------------------------------------------------------------------
Init == /\ baseline \in EventLists
        /\ current \in EventLists
        /\ base = 1
        /\ used = {}
        /\ differences = {}
        /\ report = <<>>
        /\ pc = "match"

Delta(i) == Gap(baseline[base].distance, current[i].distance)

Free == DOMAIN current \ used

Reaches_Short(i) == Delta(i) < toleranceM

Reaches(i) == Delta(i) <= toleranceM

Candidates_AlsoUsed == {i \in DOMAIN current : Reaches(i)}

Candidates == {i \in Free : Reaches(i)}

Better_LastOfEqual(i, j) == Delta(i) < Delta(j) \/ (Delta(i) = Delta(j) /\ i > j)

\* The loop keeps the first of the nearest candidates.
Better(i, j) == Delta(i) < Delta(j) \/ (Delta(i) = Delta(j) /\ i < j)

Match(i) == i \in Candidates /\ \A j \in Candidates \ {i} : Better(i, j)

Disappeared(b) ==
    [ kind |-> "disappeared", baseline |-> b, current |-> 0,
      distance |-> baseline[b].distance, lossDelta |-> 0,
      confidence |-> 9 * baseline[b].confidence ]

LossIncreased(b, i) ==
    [ kind |-> "loss_increased", baseline |-> b, current |-> i,
      distance |-> current[i].distance,
      lossDelta |-> current[i].loss - baseline[b].loss,
      confidence |-> 10 * Lesser(baseline[b].confidence, current[i].confidence) ]

New(i) ==
    [ kind |-> "new", baseline |-> 0, current |-> i,
      distance |-> current[i].distance, lossDelta |-> current[i].loss,
      confidence |-> 10 * current[i].confidence ]

Worse(b, i) == current[i].loss - baseline[b].loss >= lossIncreaseDB

NextBase == /\ base' = base + 1
            /\ pc' = IF base = Len(baseline) THEN "new" ELSE "match"

MatchNone ==
    /\ pc = "match"
    /\ Candidates = {}
    /\ differences' = differences \cup {Disappeared(base)}
    /\ NextBase
    /\ UNCHANGED <<baseline, current, used, report>>

MatchOne ==
    /\ pc = "match"
    /\ \E i \in DOMAIN current :
          /\ Match(i)
          /\ used' = used \cup {i}
          /\ differences' = differences \cup
                               (IF Worse(base, i) THEN {LossIncreased(base, i)} ELSE {})
    /\ NextBase
    /\ UNCHANGED <<baseline, current, report>>

ReportNew ==
    /\ pc = "new"
    /\ differences' = differences \cup {New(i) : i \in Free}
    /\ pc' = "sort"
    /\ UNCHANGED <<baseline, current, base, used, report>>

KindIndex(kind) == CHOOSE n \in DOMAIN Kinds : Kinds[n] = kind

\* sort.Slice is not stable: where neither of two differences is before the
\* other, any of them may come first.
Before(d, e) == \/ d.distance < e.distance
                \/ d.distance = e.distance /\ KindIndex(d.kind) < KindIndex(e.kind)

Sort ==
    /\ pc = "sort"
    /\ \/ /\ differences = {}
          /\ pc' = "done"
          /\ UNCHANGED <<differences, report>>
       \/ /\ \E d \in differences :
                /\ \A e \in differences : ~ Before(e, d)
                /\ report' = Append(report, d)
                /\ differences' = differences \ {d}
          /\ UNCHANGED pc
    /\ UNCHANGED <<baseline, current, base, used>>

Next == MatchNone \/ MatchOne \/ ReportNew \/ Sort

Spec == Init /\ [][Next]_vars

-----------------------------------------------------------------------------
(* PrimaryDifference. *)

Preferred_ByConfidence(d, best) == d.confidence > best.confidence

Preferred(d, best) == \/ d.confidence > best.confidence
                      \/ d.kind = "loss_increased" /\ best.kind # "loss_increased"

\* For a report that is not empty.
PrimaryDifference ==
    LET best[n \in DOMAIN report] ==
            IF n > 1 /\ ~ Preferred(report[n], best[n - 1]) THEN best[n - 1] ELSE report[n]
    IN  best[Len(report)]

-----------------------------------------------------------------------------
(* Properties. *)

Done == pc = "done"

Reported(kind) == {n \in DOMAIN report : report[n].kind = kind}

\* Every event is accounted for once: no event is in two differences, and as
\* many baseline events were matched as current ones.
OneToOne ==
    Done =>
        /\ \A m, n \in DOMAIN report : m # n =>
              /\ report[m].baseline = report[n].baseline => report[m].baseline = 0
              /\ report[m].current = report[n].current => report[m].current = 0
        /\ Len(baseline) - Cardinality(Reported("disappeared"))
              = Len(current) - Cardinality(Reported("new"))

\* No match is missed: an event that is reported as gone and one reported as
\* new are never within the tolerance of each other, the pairs whose loss is
\* reported are within it, and their loss did grow by the threshold.
NoMatchMissed ==
    Done =>
        /\ \A m \in Reported("disappeared"), n \in Reported("new") :
              Gap(report[m].distance, report[n].distance) > toleranceM
        /\ \A n \in Reported("loss_increased") :
              LET b == baseline[report[n].baseline]
                  c == current[report[n].current]
              IN  /\ Gap(b.distance, c.distance) <= toleranceM
                  /\ c.loss >= b.loss + lossIncreaseDB

\* A trace whose events equal those of its baseline, in the same order, shows
\* no difference, however many of them lie at the same distance.
SameIsSame == Done /\ baseline = current => report = <<>>

\* Where the two criteria of PrimaryDifference agree it follows both: a loss
\* increase of the highest confidence is taken before anything else, and
\* without a loss increase a difference of the highest confidence is.
PrimaryIsBest ==
    Done /\ report # <<>> =>
        LET Top(n) == \A m \in DOMAIN report : report[m].confidence <= report[n].confidence
            best == CHOOSE n \in DOMAIN report : report[n] = PrimaryDifference
        IN  \/ Top(best) /\ (\A n \in Reported("loss_increased") :
                                Top(n) => best \in Reported("loss_increased"))
            \/ /\ Reported("loss_increased") # {}
               /\ \A n \in Reported("loss_increased") : ~ Top(n)

\* README: events are matched one to one with the nearest.  Two events nearer
\* to each other than to any other would then be matched, not reported apart.
Nearest(b, c) ==
    LET gap == Gap(baseline[b].distance, current[c].distance)
    IN  /\ gap <= toleranceM
        /\ \A i \in DOMAIN current \ {c} : Gap(baseline[b].distance, current[i].distance) > gap
        /\ \A i \in DOMAIN baseline \ {b} : Gap(baseline[i].distance, current[c].distance) > gap

NearestMatched ==
    Done => \A b \in DOMAIN baseline, c \in DOMAIN current :
               Nearest(b, c) =>
                  \A n \in DOMAIN report : report[n].baseline = b <=> report[n].current = c
=============================================================================
