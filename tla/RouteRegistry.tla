--------------------------- MODULE RouteRegistry ---------------------------
(***************************************************************************)
(* The registry of fibre routes: Create, Update and SetBaseline of         *)
(* RouteService over FiberRouteRepository, and the traces that an import   *)
(* attaches to a route for good.                                           *)
(*                                                                         *)
(* Create looks for the code and inserts in one transaction, but another   *)
(* transaction may insert the same code in between: only the unique index  *)
(* of the table stands against that.  Update and SetBaseline read the row  *)
(* before their transaction and write it by primary key alone.             *)
(***************************************************************************)
EXTENDS Naturals, Sequences

CONSTANTS Routes,      \* primary keys, given out in any order
          Codes,       \* route codes, trimmed and in upper case
          Traces,
          Values,      \* what the other columns can hold
          Actors,      \* request slots
          Analysts,    \* the slots that may create and update routes
          Reviewers,   \* the slots that may set baselines
          Nothing,     \* no row, no route, no trace: NULL
          MaxWrites    \* bound: no request starts on a route with that many
                       \* audit entries

ASSUME RegistryAssumption == /\ Analysts \subseteq Actors
                             /\ Reviewers \subseteq Actors
                             /\ Nothing \notin Routes \cup Codes \cup Traces
                             /\ MaxWrites \in Nat

VARIABLES route,   \* the table fiber_routes
          owner,   \* route_id of every trace, Nothing before its import
          log,     \* the audit entries of every route, in commit order
          req      \* the request every slot is serving

vars == <<route, owner, log, req>>

-----------------------------------------------------------------------------
\* rest stands for the columns that Update writes.
RouteRow == [ code : Codes, rest : Values, baseline : Traces \cup {Nothing} ]

ASSUME RowsAssumption == Nothing \notin RouteRow

Entry == [ action : {"created", "updated"} ]
           \cup [ action : {"baseline"}, before : Traces \cup {Nothing}, after : Traces ]

Steps == {"idle", "insert", "update", "check", "baseline"}

\* id is the route, row the copy in memory, trace the baseline asked for.
Idle == [ pc |-> "idle", id |-> Nothing, row |-> Nothing, trace |-> Nothing ]

Request == [ pc : Steps, id : Routes \cup {Nothing},
             row : RouteRow \cup {Nothing}, trace : Traces \cup {Nothing} ]

TypeOK == /\ route \in [Routes -> RouteRow \cup {Nothing}]
          /\ owner \in [Traces -> Routes \cup {Nothing}]
          /\ log \in [Routes -> Seq(Entry)]
          /\ req \in [Actors -> Request]

Stored == {r \in Routes : route[r] # Nothing}

At(w, step) == req[w].pc = step

Refuse(w) == req' = [req EXCEPT ![w] = Idle]

Quiet(r) == Len(log[r]) < MaxWrites

CodeTaken(code) == \E r \in Stored : route[r].code = code

-----------------------------------------------------------------------------
Init == /\ route = [r \in Routes |-> Nothing]
        /\ owner = [t \in Traces |-> Nothing]
        /\ log = [r \in Routes |-> <<>>]
        /\ req = [w \in Actors |-> Idle]

\* TraceService.Import, as far as it concerns routes.
Import(w, t, r) ==
    /\ At(w, "idle")
    /\ w \in Analysts
    /\ r \in Stored
    /\ owner[t] = Nothing
    /\ owner' = [owner EXCEPT ![t] = r]
    /\ UNCHANGED <<route, log, req>>

\* The first statement of the transaction; a code that is there is refused.
CreateCheck(w, code) ==
    /\ At(w, "idle")
    /\ w \in Analysts
    /\ \/ /\ ~ CodeTaken(code)
          /\ \E v \in Values :
                req' = [req EXCEPT ![w] =
                          [ Idle EXCEPT !.pc = "insert",
                              !.row = [ code |-> code, rest |-> v, baseline |-> Nothing ] ]]
       \/ /\ CodeTaken(code)
          /\ Refuse(w)
    /\ UNCHANGED <<route, owner, log>>

IndexAllows_None(code) == TRUE

\* The unique index on route_code.
IndexAllows(code) == ~ CodeTaken(code)

CreateInsert(w) ==
    /\ At(w, "insert")
    /\ \/ /\ IndexAllows(req[w].row.code)
          /\ \E r \in Routes \ Stored :
                /\ route' = [route EXCEPT ![r] = req[w].row]
                /\ log' = [log EXCEPT ![r] = Append(@, [ action |-> "created" ])]
       \/ /\ ~ IndexAllows(req[w].row.code)
          /\ UNCHANGED <<route, log>>
    /\ Refuse(w)
    /\ UNCHANGED owner

\* The copy keeps what was read where the request does not name a column.
UpdateGet(w, r) ==
    /\ At(w, "idle")
    /\ w \in Analysts
    /\ r \in Stored
    /\ Quiet(r)
    /\ \E v \in Values :
          req' = [req EXCEPT ![w] = [ Idle EXCEPT !.pc = "update", !.id = r,
                                          !.row = [route[r] EXCEPT !.rest = v] ]]
    /\ UNCHANGED <<route, owner, log>>

Overwritten_AllColumns(row, after) == after

\* Update writes back every column but the code and the baseline.
Overwritten(row, after) == [row EXCEPT !.rest = after.rest]

UpdateTx(w) ==
    LET r == req[w].id
    IN  /\ At(w, "update")
        /\ route' = [route EXCEPT ![r] = Overwritten(@, req[w].row)]
        /\ log' = [log EXCEPT ![r] = Append(@, [ action |-> "updated" ])]
        /\ Refuse(w)
        /\ UNCHANGED owner

SetBaselineGet(w, r, t) ==
    /\ At(w, "idle")
    /\ w \in Reviewers
    /\ r \in Stored
    /\ Quiet(r)
    /\ req' = [req EXCEPT ![w] = [ pc |-> "check", id |-> r, row |-> route[r], trace |-> t ]]
    /\ UNCHANGED <<route, owner, log>>

BelongsToRoute_Exists(t, r) == owner[t] # Nothing

BelongsToRoute(t, r) == owner[t] = r

SetBaselineCheck(w) ==
    /\ At(w, "check")
    /\ req' = [req EXCEPT ![w] = IF BelongsToRoute(@.trace, @.id)
                                 THEN [@ EXCEPT !.pc = "baseline"]
                                 ELSE Idle]
    /\ UNCHANGED <<route, owner, log>>

BaselineEntry_WholeRow(row, q) ==
    [ action |-> "baseline", before |-> q.row, after |-> q.trace ]

\* The audit entry takes the value before from the row as it was read.
BaselineEntry(row, q) ==
    [ action |-> "baseline", before |-> q.row.baseline, after |-> q.trace ]

SetBaselineTx(w) ==
    LET q == req[w]
    IN  /\ At(w, "baseline")
        /\ route' = [route EXCEPT ![q.id].baseline = q.trace]
        /\ log' = [log EXCEPT ![q.id] = Append(@, BaselineEntry(route[q.id], q))]
        /\ Refuse(w)
        /\ UNCHANGED owner

\* A request may stop at any point; an open transaction is rolled back.
Abandon(w) == /\ ~ At(w, "idle")
              /\ Refuse(w)
              /\ UNCHANGED <<route, owner, log>>

Next == \E w \in Actors :
          \/ \E t \in Traces, r \in Routes : Import(w, t, r) \/ SetBaselineGet(w, r, t)
          \/ \E code \in Codes : CreateCheck(w, code)
          \/ \E r \in Routes : UpdateGet(w, r)
          \/ CreateInsert(w) \/ UpdateTx(w)
          \/ SetBaselineCheck(w) \/ SetBaselineTx(w)
          \/ Abandon(w)

Spec == Init /\ [][Next]_vars

-----------------------------------------------------------------------------
(* Properties. *)

\* No two routes have the same code, however the requests that create them
\* interleave their checks and inserts.
CodesUnique ==
    \A r, s \in Stored : route[r].code = route[s].code => r = s

\* The baseline of a route is a trace of this route.
BaselineBelongs ==
    \A r \in Stored : route[r].baseline # Nothing
                        => owner[route[r].baseline] = r

\* The last audit entry of a change of baseline names the baseline the route
\* has: no Update that read the route before it puts an older one back.
Changes(r) == {i \in 1 .. Len(log[r]) : log[r][i].action = "baseline"}

BaselineAudited ==
    \A r \in Stored :
        /\ Changes(r) = {} => route[r].baseline = Nothing
        /\ \A i \in Changes(r) :
              (\A j \in Changes(r) : j <= i) => route[r].baseline = log[r][i].after
=============================================================================
