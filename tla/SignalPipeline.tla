--------------------------- MODULE SignalPipeline ---------------------------
(***************************************************************************)
(* From the samples of a trace to its events, as EventService.Detect runs  *)
(* the algorithm package: MovingMedian, then DerivativePeaks, MergePeaks,  *)
(* one iteration of its loop per step, and the distances of what is left.  *)
(*                                                                         *)
(* A peak is its index: magnitude and direction follow from the filtered   *)
(* samples.  Samples are whole numbers, even ones so that the mean of two  *)
(* of them is whole.  The noise floor, the reflectance and the confidence  *)
(* decide nothing here and are left out.                                   *)
(***************************************************************************)
EXTENDS Integers, FiniteSets, Sequences

CONSTANTS Size,         \* the number of samples
          Stretches,    \* where the samples of a trace vary: pairs of indexes
          Levels,       \* the values of samples
          Windows,      \* denoise windows of requests
          threshold,
          mergeWindow,
          StepNumerator, StepDenominator,  \* the distance between two samples
          routeLength,
          NoPeak

ASSUME SizeAssumption == Size \in Nat /\ Size >= 16
ASSUME InputAssumption ==
    /\ \A s \in Stretches : /\ s[1] \in Nat /\ s[2] \in Nat
                            /\ s[1] <= s[2] /\ s[2] < Size
    /\ \A v \in Levels : v \in Int /\ v % 2 = 0
    /\ Windows \subseteq 1 .. 31
    /\ threshold \in Nat \ {0}
    /\ mergeWindow \in Nat \ {0}
    /\ StepNumerator \in Nat \ {0} /\ StepDenominator \in Nat \ {0}
    /\ routeLength \in Nat \ {0}
    /\ NoPeak \notin Nat

VARIABLES raw,      \* the samples
          window,   \* the denoise window
          filtered, \* the samples after denoising
          todo,     \* the peaks the loop at hand has not come to
          current,  \* the strongest of the peaks being merged
          merged,   \* the peaks MergePeaks returns
          events,   \* the events found
          rejected, \* how many lie beyond the route
          pc

vars == <<raw, window, filtered, todo, current, merged, events, rejected, pc>>

-----------------------------------------------------------------------------
Indexes == 0 .. Size - 1

\* Traces that are flat but for one stretch.
Traces ==
    UNION { {[i \in Indexes |-> f[IF i < s[1] THEN s[1] ELSE IF i > s[2] THEN s[2] ELSE i]]
               : f \in [s[1] .. s[2] -> Levels]} : s \in Stretches }

Types == {"connector", "splice", "bend", "break", "end"}

Event == [ index : Indexes, distance : 0 .. routeLength, type : Types, loss : Nat ]

TypeOK == /\ raw \in [Indexes -> Levels]
          /\ window \in Windows
          /\ filtered \in [Indexes -> Int]
          /\ todo \subseteq Indexes
          /\ current \in Indexes \cup {NoPeak}
          /\ merged \subseteq Indexes
          /\ events \in Seq(Event)
          /\ rejected \in 0 .. Size
          /\ pc \in {"denoise", "peaks", "merge", "locate", "done"}

Magnitude(p) == IF filtered[p] < filtered[p - 1] THEN filtered[p - 1] - filtered[p]
                                                 ELSE filtered[p] - filtered[p - 1]

Rises(p) == filtered[p] > filtered[p - 1]

First(S) == CHOOSE i \in S : \A j \in S : i <= j

-----------------------------------------------------------------------------
Init == /\ raw \in Traces
        /\ window \in Windows
        /\ filtered = raw
        /\ todo = {}
        /\ current = NoPeak
        /\ merged = {}
        /\ events = <<>>
        /\ rejected = 0
        /\ pc = "denoise"

\* The value at position k, counted from 0, when the bucket is sorted.
Sorted(points, bucket, k) ==
    CHOOSE v \in {points[j] : j \in bucket} :
        /\ Cardinality({j \in bucket : points[j] < v}) <= k
        /\ k < Cardinality({j \in bucket : points[j] <= v})

MedianOf(points, bucket) ==
    LET n == Cardinality(bucket)
    IN  IF n % 2 = 0 THEN (Sorted(points, bucket, n \div 2 - 1)
                             + Sorted(points, bucket, n \div 2)) \div 2
                     ELSE Sorted(points, bucket, n \div 2)

Half(w) == w \div 2

Bucket_NotWidened(i, w) == {j \in Indexes : i - Half(w) <= j /\ j < i - Half(w) + w}

\* An even window is widened by one, which leaves its half as it is.
Bucket(i, w) == {j \in Indexes : i - Half(w) <= j /\ j <= i + Half(w)}

MovingMedian(points, w) == [i \in Indexes |-> MedianOf(points, Bucket(i, w))]

Denoise ==
    /\ pc = "denoise"
    /\ filtered' = MovingMedian(raw, window)
    /\ pc' = "peaks"
    /\ UNCHANGED <<raw, window, todo, current, merged, events, rejected>>

DerivativePeaks ==
    /\ pc = "peaks"
    /\ todo' = {p \in Indexes \ {0} : Magnitude(p) >= threshold}
    /\ pc' = "merge"
    /\ UNCHANGED <<raw, window, filtered, current, merged, events, rejected>>

Joins_NotAtEdge(p) == current # NoPeak /\ p - current < mergeWindow

Joins(p) == current # NoPeak /\ p - current <= mergeWindow

Stronger(p) == Magnitude(p) > Magnitude(current)

Finished == IF current = NoPeak THEN merged ELSE merged \cup {current}

MergePeaks ==
    /\ pc = "merge"
    /\ todo # {}
    /\ LET p == First(todo)
       IN  /\ todo' = todo \ {p}
           /\ \/ /\ Joins(p)
                 /\ current' = IF Stronger(p) THEN p ELSE current
                 /\ UNCHANGED merged
              \/ /\ ~ Joins(p)
                 /\ merged' = Finished
                 /\ current' = p
    /\ UNCHANGED <<raw, window, filtered, events, rejected, pc>>

MergeLast ==
    /\ pc = "merge"
    /\ todo = {}
    /\ merged' = Finished
    /\ todo' = Finished
    /\ current' = NoPeak
    /\ pc' = "locate"
    /\ UNCHANGED <<raw, window, filtered, events, rejected>>

\* Distances are rounded to the nearest unit, halves up.
SampleDistance(p) == (2 * p * StepNumerator + StepDenominator) \div (2 * StepDenominator)

ValidRouteDistance(d) == d <= routeLength

ClassifyPeak(p) ==
    IF p >= Size - 3 THEN "end"
    ELSE IF Rises(p) THEN IF 2 * Magnitude(p) >= 3 * threshold THEN "connector" ELSE "splice"
    ELSE IF 2 * Magnitude(p) >= 5 * threshold THEN "break"
    ELSE IF 2 * Magnitude(p) < 3 * threshold THEN "bend"
    ELSE "splice"

EventAt(p) == [ index |-> p, distance |-> SampleDistance(p), type |-> ClassifyPeak(p),
                loss |-> IF Rises(p) THEN 0 ELSE Magnitude(p) ]

Locate ==
    /\ pc = "locate"
    /\ \/ /\ todo = {}
          /\ pc' = "done"
          /\ UNCHANGED <<todo, events, rejected>>
       \/ /\ todo # {}
          /\ LET p == First(todo)
             IN  /\ todo' = todo \ {p}
                 /\ \/ /\ ValidRouteDistance(SampleDistance(p))
                       /\ events' = Append(events, EventAt(p))
                       /\ UNCHANGED rejected
                    \/ /\ ~ ValidRouteDistance(SampleDistance(p))
                       /\ rejected' = rejected + 1
                       /\ UNCHANGED events
          /\ UNCHANGED pc
    /\ UNCHANGED <<raw, window, filtered, current, merged>>

Next == Denoise \/ DerivativePeaks \/ MergePeaks \/ MergeLast \/ Locate

Spec == Init /\ [][Next]_vars

-----------------------------------------------------------------------------
(* Properties. *)

Apart(p, q) == IF p < q THEN q - p ELSE p - q

\* Merging thins the peaks out without losing the strong ones: those it keeps
\* are further apart than the merge window, and each it drops has a neighbour
\* within the window that is at least as strong.
MergedWell ==
    pc = "done" =>
        /\ \A p, q \in merged : p # q => Apart(p, q) > mergeWindow
        /\ \A p \in Indexes \ {0} :
              Magnitude(p) >= threshold =>
                 \/ p \in merged
                 \/ \E q \in Indexes \ {0, p} : /\ Apart(p, q) <= mergeWindow
                                                /\ Magnitude(q) >= Magnitude(p)

StepAt(k) == /\ \A i \in 0 .. k - 1 : raw[i] = raw[0]
             /\ \A i \in k .. Size - 1 : raw[i] = raw[Size - 1]
             /\ Apart(raw[0], raw[Size - 1]) > threshold

\* A step that exceeds the threshold, further from both ends than half the
\* window, is found exactly where it is, alone, and with its full height:
\* denoising neither moves nor blurs it.  Of a step of just the threshold,
\* which the code takes for a peak and its documents do not, nothing is said.
StepsFound ==
    pc = "done" =>
        \A k \in Half(window) + 1 .. Size - Half(window) - 1 :
           StepAt(k) =>
              IF SampleDistance(k) <= routeLength
              THEN /\ Len(events) = 1
                   /\ events[1].index = k
                   /\ raw[k] < raw[0] => events[1].loss = raw[0] - raw[k]
              ELSE events = <<>> /\ rejected = 1

SpikeAt(k) == \A i \in Indexes \ {k} : raw[i] = raw[IF k = 0 THEN 1 ELSE 0]

\* A single sample off a flat trace is noise, however far off it is: nothing is
\* found when the window is four or more, and when it is two or three nothing is
\* found unless the sample is one of the two at an end, where a bucket of two
\* samples averages them.
SpikesIgnored ==
    pc = "done" =>
        \A k \in Indexes :
           (SpikeAt(k) /\ (window >= 4 \/ (window >= 2 /\ k \in 2 .. Size - 3)))
              => merged = {}
=============================================================================
