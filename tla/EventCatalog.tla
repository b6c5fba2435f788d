---------------------------- MODULE EventCatalog ----------------------------
(***************************************************************************)
(* What the events of the traces look like to a reader of the database, as *)
(* if every detection and every review happened in one instant.  A         *)
(* detection replaces all events of its trace that nobody has reviewed by  *)
(* what it found, together with the processed curve; a review revises one  *)
(* event that is there.                                                    *)
(***************************************************************************)
EXTENDS Naturals, FiniteSets

CONSTANTS Traces, Distances, Reviewers, NoReviewer, Ids, NoEvent, Runs

VARIABLES curve,   \* per trace: the run that processed it and what it found
          event,   \* per event number: the event or NoEvent
          nextId   \* the number of the next event

cvars == <<curve, event, nextId>>

Unprocessed == [ run |-> 0, found |-> {} ]

Init == /\ curve = [t \in Traces |-> Unprocessed]
        /\ event = [i \in Ids |-> NoEvent]
        /\ nextId = 1

Present == {i \in Ids : event[i] # NoEvent}

Unreviewed(t) == {i \in Present : /\ event[i].trace = t
                                  /\ event[i].reviewedBy = NoReviewer}

\* Events are stored in the order of their distances.
IdFor(found, d) == nextId + Cardinality({x \in found : x < d})

Fresh(t, run, d) == [ trace |-> t, run |-> run, algorithm |-> d, distance |-> d,
                      reviewedBy |-> NoReviewer ]

\* The table once the events old of trace t made way for those of the run.
Replaced(t, old, run, found) ==
    [i \in Ids |->
        IF \E d \in found : i = IdFor(found, d)
        THEN Fresh(t, run, CHOOSE d \in found : i = IdFor(found, d))
        ELSE IF i \in old THEN NoEvent ELSE event[i]]

Detect(t, run, found) ==
    /\ event' = Replaced(t, Unreviewed(t), run, found)
    /\ curve' = [curve EXCEPT ![t] = [ run |-> run, found |-> found ]]
    /\ nextId' = nextId + Cardinality(found)

Revised(i, w, d) == [event EXCEPT ![i].distance = d, ![i].reviewedBy = w]

Review(i, w, d) ==
    /\ i \in Present
    /\ event' = Revised(i, w, d)
    /\ UNCHANGED <<curve, nextId>>

Next == \/ \E t \in Traces, run \in Runs, found \in SUBSET Distances :
              Detect(t, run, found)
        \/ \E i \in Ids, w \in Reviewers, d \in Distances : Review(i, w, d)

Spec == Init /\ [][Next]_cvars
=============================================================================
