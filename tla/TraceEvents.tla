---------------------------- MODULE TraceEvents ----------------------------
(***************************************************************************)
(* Traces and their events: TraceService.Import, EventService.Detect and   *)
(* EventService.Review over TraceRepository and EventRepository, and the   *)
(* length of the route, which RouteService.Update may change meanwhile.    *)
(*                                                                         *)
(* Both handlers read first, outside any transaction, and write later.  A  *)
(* detection writes in one transaction of three statements: the update of  *)
(* the trace row, whose row lock it then holds to the end, the deletion of *)
(* the events nobody has reviewed, which locks those rows, and the insert  *)
(* of the new ones.  Other connections see nothing of it before it commits *)
(* (PostgreSQL's default isolation level, read committed).                 *)
(***************************************************************************)
EXTENDS Naturals, FiniteSets, Sequences

CONSTANTS Traces,      \* identifiers of traces, all of one route
          Actors,      \* request slots
          Analysts,    \* the slots whose user may import and detect
          Reviewers,   \* the slots whose user may review
          Nobody,      \* reviewed_by is NULL
          NoTrace,
          NoEvent,     \* no row with this event number
          Distances,   \* distances along the fibre
          MaxRuns,     \* bound: how many detections start
          MaxReviews,  \* bound: no review starts after that many are done
          MaxFaults    \* bound: how many requests stop before their end

ASSUME SlotsAssumption == /\ Analysts \subseteq Actors
                          /\ Reviewers \subseteq Actors
                          /\ Nobody \notin Actors
                          /\ NoTrace \notin Traces
ASSUME NumbersAssumption == /\ Distances \subseteq Nat
                            /\ IsFiniteSet(Distances)
                            /\ MaxRuns \in Nat
                            /\ MaxReviews \in Nat
                            /\ MaxFaults \in Nat

VARIABLES length,    \* length_m of the route
          imported,  \* the traces that have a row
          curve,     \* per trace: the run whose processed_json and parameters
                     \* its row holds, and the events these give
          event,     \* the table event_markers
          nextId,    \* its next primary key
          log,       \* the audit entries of reviews, in commit order
          req,       \* the request every slot is serving
          runs,      \* how many detections started
          faults     \* how many requests stopped before their end

tables == <<imported, curve, event, nextId, log>>
vars == <<length, imported, curve, event, nextId, log, req, runs, faults>>

-----------------------------------------------------------------------------
Ids == 1 .. MaxRuns * Cardinality(Distances)

\* distance stands for everything a review may change, algorithm for the
\* algorithm_ columns, run for the detection that inserted the row.
Event == [ trace : Traces, run : 1 .. MaxRuns, algorithm : Distances,
           distance : Distances, reviewedBy : Reviewers \cup {Nobody} ]

ASSUME EventsAssumption == NoEvent \notin Event

Curve == [ run : 0 .. MaxRuns, found : SUBSET Distances ]

Entry == [ id : Ids, before : Event, after : Event ]

\* trace, run, found and doomed belong to a detection: what it computed and
\* the rows its transaction has deleted; id, before and item to a review: the
\* event as read and as changed in memory.
Steps == {"idle", "update", "replace", "insert", "check", "write"}

Idle == [ pc |-> "idle", trace |-> NoTrace, run |-> 0, found |-> {},
          doomed |-> {}, id |-> 0, before |-> NoEvent, item |-> NoEvent ]

Request == [ pc : Steps, trace : Traces \cup {NoTrace}, run : 0 .. MaxRuns,
             found : SUBSET Distances, doomed : SUBSET Ids, id : Ids \cup {0},
             before : Event \cup {NoEvent}, item : Event \cup {NoEvent} ]

TypeOK == /\ length \in Distances
          /\ imported \subseteq Traces
          /\ curve \in [Traces -> Curve]
          /\ event \in [Ids -> Event \cup {NoEvent}]
          /\ nextId \in Ids \cup {Cardinality(Ids) + 1}
          /\ log \in Seq(Entry)
          /\ req \in [Actors -> Request]
          /\ runs \in 0 .. MaxRuns
          /\ faults \in 0 .. MaxFaults

Catalog == INSTANCE EventCatalog WITH
              NoReviewer <- Nobody, Runs <- 1 .. MaxRuns

At(w, step) == req[w].pc = step

Present == {i \in Ids : event[i] # NoEvent}

\* The row locks of the detections in progress.
TraceLocked_Early(t) == \E u \in Actors : req[u].trace = t

TraceLocked(t) ==
    \E u \in Actors : req[u].pc \in {"replace", "insert"} /\ req[u].trace = t

Deleted(i) == \E u \in Actors : i \in req[u].doomed

-----------------------------------------------------------------------------
Init == /\ length \in Distances
        /\ imported = {}
        /\ curve = [t \in Traces |-> [ run |-> 0, found |-> {} ]]
        /\ event = [i \in Ids |-> NoEvent]
        /\ nextId = 1
        /\ log = <<>>
        /\ req = [w \in Actors |-> Idle]
        /\ runs = 0
        /\ faults = 0

\* An import stores the samples and the processed curve, but no events.
Import(w, t) ==
    /\ At(w, "idle")
    /\ w \in Analysts
    /\ t \notin imported
    /\ imported' = imported \cup {t}
    /\ UNCHANGED <<length, curve, event, nextId, log, req, runs, faults>>

\* The write of RouteService.Update, as far as it concerns events.
RouteUpdate ==
    /\ length' \in Distances
    /\ UNCHANGED <<tables, req, runs, faults>>

-----------------------------------------------------------------------------
(* Detect. *)

ValidRouteDistance(d) == d <= length

\* Read the trace and its route, then compute.  What the algorithm finds
\* depends on the samples and the parameters of the request; candidates
\* beyond the length of the route, as read here, are rejected.
DetectGet(w, t) ==
    /\ At(w, "idle")
    /\ w \in Analysts
    /\ t \in imported
    /\ runs < MaxRuns
    /\ runs' = runs + 1
    /\ \E found \in SUBSET {d \in Distances : ValidRouteDistance(d)} :
          req' = [req EXCEPT ![w] = [ Idle EXCEPT !.pc = "update", !.trace = t,
                                          !.run = runs + 1, !.found = found ]]
    /\ UNCHANGED <<length, tables, faults>>

UpdateProcessing_NoLock(w) ==
    /\ At(w, "update")
    /\ req' = [req EXCEPT ![w].pc = "replace"]
    /\ UNCHANGED <<length, tables, runs, faults>>

\* The first statement waits for the row lock of the trace.
UpdateProcessing(w) ==
    /\ At(w, "update")
    /\ ~ TraceLocked(req[w].trace)
    /\ req' = [req EXCEPT ![w].pc = "replace"]
    /\ UNCHANGED <<length, tables, runs, faults>>

Replaceable_All(i, t) == event[i].trace = t

Replaceable(i, t) == event[i].trace = t /\ event[i].reviewedBy = Nobody

\* The second deletes the events of the trace that are not reviewed.
ReplaceForTrace(w) ==
    /\ At(w, "replace")
    /\ req' = [req EXCEPT ![w].pc = "insert",
                          ![w].doomed = {i \in Present : Replaceable(i, req[w].trace)}]
    /\ UNCHANGED <<length, tables, runs, faults>>

\* The third inserts the new ones; with the commit all three take effect.
DetectCommit(w) ==
    LET q == req[w]
    IN  /\ At(w, "insert")
        /\ event' = Catalog!Replaced(q.trace, q.doomed, q.run, q.found)
        /\ nextId' = nextId + Cardinality(q.found)
        /\ curve' = [curve EXCEPT ![q.trace] = [ run |-> q.run, found |-> q.found ]]
        /\ req' = [req EXCEPT ![w] = Idle]
        /\ UNCHANGED <<length, imported, log, runs, faults>>

-----------------------------------------------------------------------------
(* Review. *)

ReviewGet_AnyRole(w, i) ==
    /\ At(w, "idle")
    /\ i \in Present
    /\ Len(log) < MaxReviews
    /\ \E d \in Distances :
          req' = [req EXCEPT ![w] =
                    [ Idle EXCEPT !.pc = "check", !.id = i, !.before = event[i],
                        !.item = [event[i] EXCEPT !.distance = d, !.reviewedBy = w] ]]
    /\ UNCHANGED <<length, tables, runs, faults>>

\* Read the event and put the request's values into the copy; a request
\* without a distance keeps the one that was read.
ReviewGet(w, i) ==
    /\ At(w, "idle")
    /\ w \in Reviewers
    /\ i \in Present
    /\ Len(log) < MaxReviews
    /\ \E d \in Distances :
          req' = [req EXCEPT ![w] =
                    [ Idle EXCEPT !.pc = "check", !.id = i, !.before = event[i],
                        !.item = [event[i] EXCEPT !.distance = d, !.reviewedBy = w] ]]
    /\ UNCHANGED <<length, tables, runs, faults>>

\* Read the trace and the route and compare with the length.
ReviewCheck(w) ==
    /\ At(w, "check")
    /\ req' = [req EXCEPT ![w] = IF ValidRouteDistance(req[w].item.distance)
                                 THEN [@ EXCEPT !.pc = "write"]
                                 ELSE Idle]
    /\ UNCHANGED <<length, tables, runs, faults>>

\* The update by primary key waits for a deletion in progress and finds no row
\* when that commits.  Its audit entry carries the event as it was read.
ReviewTx(w) ==
    LET q == req[w]
    IN  /\ At(w, "write")
        /\ ~ Deleted(q.id)
        /\ \/ /\ q.id \in Present
              /\ event' = Catalog!Revised(q.id, w, q.item.distance)
              /\ log' = Append(log, [ id |-> q.id, before |-> q.before, after |-> q.item ])
           \/ /\ q.id \notin Present
              /\ UNCHANGED <<event, log>>
        /\ req' = [req EXCEPT ![w] = Idle]
        /\ UNCHANGED <<length, imported, curve, nextId, runs, faults>>

-----------------------------------------------------------------------------
\* A request that stops in the middle, for whatever reason, has its open
\* transaction rolled back: its locks go and its deletions never happened.
Abandon(w) ==
    /\ ~ At(w, "idle")
    /\ faults < MaxFaults
    /\ faults' = faults + 1
    /\ req' = [req EXCEPT ![w] = Idle]
    /\ UNCHANGED <<length, tables, runs>>

HandlerStep(w) == \/ UpdateProcessing(w) \/ ReplaceForTrace(w) \/ DetectCommit(w)
                  \/ ReviewCheck(w) \/ ReviewTx(w)

Next == \/ \E w \in Actors :
              \/ \E t \in Traces : Import(w, t) \/ DetectGet(w, t)
              \/ \E i \in Ids : ReviewGet(w, i)
              \/ HandlerStep(w)
              \/ Abandon(w)
        \/ RouteUpdate

Spec == Init /\ [][Next]_vars

\* The database goes on with every statement that is not waiting for a lock.
\* With boundedly many detections that is enough for a waiting one to get its
\* turn; PostgreSQL, which serves lock waiters in order, gives it anyway.
FairSpec == Spec /\ \A w \in Actors : WF_vars(HandlerStep(w))

-----------------------------------------------------------------------------
(* Properties. *)

\* What the row of a trace says and what its events say belong to the same
\* detection: the events that nobody reviewed come from the run whose curve
\* and parameters are stored, and every event of that run is there once,
\* reviewed or not, with the distance the algorithm gave it.
CurveAndEventsAgree ==
    \A t \in imported :
        LET ofRun == {i \in Present : event[i].trace = t /\ event[i].run = curve[t].run}
        IN  /\ \A i \in Present : (event[i].trace = t /\ event[i].reviewedBy = Nobody)
                                    => event[i].run = curve[t].run
            /\ {event[i].algorithm : i \in ofRun} = curve[t].found
            /\ Cardinality(ofRun) = Cardinality(curve[t].found)

\* Human work survives the machine: an event that was reviewed is never
\* removed or made unreviewed again, and what the algorithm found stays beside
\* what the reviewer made of it.
ReviewsKept ==
    [][\A i \in Present :
          /\ event[i].reviewedBy # Nobody
                => event'[i] # NoEvent /\ event'[i].reviewedBy # Nobody
          /\ event'[i] # NoEvent
                => /\ event'[i].algorithm = event[i].algorithm
                   /\ event'[i].trace = event[i].trace]_vars

\* To every reader of the tables a detection is a single step that replaces
\* exactly the events not reviewed at that moment, and a review a single step
\* on an event that is still there.
Atomic == Catalog!Spec

\* A detection or a review always comes to an end: the locks of the trace row
\* and of the event rows never wait for one another.
RequestsEnd == \A w \in Actors : ~ At(w, "idle") ~> At(w, "idle")

\* gb-522: no event beyond the length of the route can be marked as valid.  A
\* review would then never write such a distance.
ReviewWithinRoute ==
    [][\A i \in Present : (event'[i] # event[i] /\ event'[i] # NoEvent)
                            => event'[i].distance <= length]_vars

\* README: the audit entry of a revision carries the values before and after
\* it.  The value before one revision would be the value after the last.
RevisionsChain ==
    \A j, k \in 1 .. Len(log) :
        (j < k /\ log[j].id = log[k].id
               /\ \A m \in j + 1 .. k - 1 : log[m].id # log[k].id)
            => log[k].before = log[j].after
=============================================================================
