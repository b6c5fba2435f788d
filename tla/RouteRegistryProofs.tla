------------------------ MODULE RouteRegistryProofs ------------------------
(***************************************************************************)
(* Theorems about RouteRegistry, for any routes, codes, traces and request *)
(* slots.                                                                  *)
(*                                                                         *)
(* CodesUnique is inductive with the types; the other two invariants are   *)
(* not.  Requests carry what they read into a later transaction: that the  *)
(* route is still there, that its new baseline is still its own trace, and *)
(* that a row to be inserted has no baseline, is RequestsSound.  That an   *)
(* audit entry was written for every baseline needs that a route which is  *)
(* not there has no entries (NoLogBefore).                                 *)
(***************************************************************************)
EXTENDS RouteRegistry, TLAPS

\* What a request knows when its next statement runs.
RequestSound(w) ==
    LET q == req[w]
    IN  /\ At(w, "insert") => q.row \in RouteRow /\ q.row.baseline = Nothing
        /\ At(w, "update") => q.id \in Stored /\ q.row \in RouteRow
        /\ At(w, "check") \/ At(w, "baseline") =>
              /\ q.id \in Stored
              /\ q.row \in RouteRow
              /\ q.trace \in Traces
        /\ At(w, "baseline") => owner[q.trace] = q.id

RequestsSound == \A w \in Actors : RequestSound(w)

NoLogBefore == \A r \in Routes \ Stored : log[r] = <<>>

Sound == /\ TypeOK
         /\ RequestsSound
         /\ NoLogBefore
         /\ CodesUnique
         /\ BaselineBelongs
         /\ BaselineAudited

-----------------------------------------------------------------------------
(* Facts about the values. *)

\* A request with nothing to do is one, and knows nothing.
LEMMA IdleRequest == Idle \in Request /\ Idle.pc = "idle"
BY DEF Idle, Request, Steps

\* A stored route has a row, whatever the row says.
LEMMA StoredRow ==
    ASSUME TypeOK, NEW r \in Routes
    PROVE  r \in Stored <=> route[r] \in RouteRow
BY RowsAssumption DEF TypeOK, Stored

\* The row an update writes differs from the one there in nothing but the
\* columns an update may change.
LEMMA OverwrittenRow ==
    ASSUME NEW row \in RouteRow, NEW after \in RouteRow
    PROVE  /\ Overwritten(row, after) \in RouteRow
           /\ Overwritten(row, after).code = row.code
           /\ Overwritten(row, after).baseline = row.baseline
BY DEF Overwritten, RouteRow

\* The row of a new baseline differs from the one there in this alone.
LEMMA RebasedRow ==
    ASSUME NEW row \in RouteRow, NEW t \in Traces
    PROVE  /\ [row EXCEPT !.baseline = t] \in RouteRow
           /\ [row EXCEPT !.baseline = t].code = row.code
           /\ [row EXCEPT !.baseline = t].baseline = t
BY DEF RouteRow

\* What an entry adds to the audit log of a route.
LEMMA LoggedEntry ==
    ASSUME TypeOK, NEW r \in Routes, NEW e \in Entry,
           log' = [log EXCEPT ![r] = Append(@, e)]
    PROVE  /\ log' \in [Routes -> Seq(Entry)]
           /\ Len(log'[r]) = Len(log[r]) + 1
           /\ \A i \in 1 .. Len(log[r]) : log'[r][i] = log[r][i]
           /\ log'[r][Len(log[r]) + 1] = e
           /\ \A s \in Routes \ {r} : log'[s] = log[s]
BY DEF TypeOK

-----------------------------------------------------------------------------
(* What the transactions write. *)

\* An insert stores one new row without a baseline, or nothing.
LEMMA InsertWrites ==
    ASSUME TypeOK, RequestsSound, NoLogBefore, NEW w \in Actors, CreateInsert(w)
    PROVE  \/ UNCHANGED <<route, log>>
           \/ \E r \in Routes \ Stored :
                 /\ req[w].row \in RouteRow
                 /\ req[w].row.baseline = Nothing
                 /\ ~ CodeTaken(req[w].row.code)
                 /\ route' = [route EXCEPT ![r] = req[w].row]
                 /\ log' = [log EXCEPT ![r] = Append(@, [ action |-> "created" ])]
                 /\ log[r] = <<>>
<1>1. req[w].row \in RouteRow /\ req[w].row.baseline = Nothing
  BY DEF CreateInsert, RequestsSound, RequestSound
<1>. QED BY <1>1 DEF CreateInsert, IndexAllows, NoLogBefore

\* An update changes one stored row, but neither its code nor its baseline.
LEMMA UpdateWrites ==
    ASSUME TypeOK, RequestsSound, NEW w \in Actors, UpdateTx(w)
    PROVE  \E r \in Stored, row \in RouteRow :
              /\ row.code = route[r].code
              /\ row.baseline = route[r].baseline
              /\ route' = [route EXCEPT ![r] = row]
              /\ log' = [log EXCEPT ![r] = Append(@, [ action |-> "updated" ])]
<1>. DEFINE r == req[w].id
            row == Overwritten(route[r], req[w].row)
<1>1. r \in Stored /\ req[w].row \in RouteRow
  BY DEF UpdateTx, RequestsSound, RequestSound
<1>2. r \in Routes /\ route[r] \in RouteRow
  BY <1>1, StoredRow DEF Stored
<1>3. row \in RouteRow /\ row.code = route[r].code /\ row.baseline = route[r].baseline
  BY <1>1, <1>2, OverwrittenRow
<1>4. /\ route' = [route EXCEPT ![r] = row]
      /\ log' = [log EXCEPT ![r] = Append(@, [ action |-> "updated" ])]
  BY DEF UpdateTx
<1>. QED BY <1>1, <1>3, <1>4

\* A change of baseline sets the baseline of one stored row to one of its own
\* traces and leaves an entry that names it.
LEMMA BaselineWrites ==
    ASSUME TypeOK, RequestsSound, NEW w \in Actors, SetBaselineTx(w)
    PROVE  \E r \in Stored, row \in RouteRow, e \in Entry :
              /\ row.code = route[r].code
              /\ row.baseline \in Traces
              /\ owner[row.baseline] = r
              /\ e.action = "baseline" /\ e.after = row.baseline
              /\ route' = [route EXCEPT ![r] = row]
              /\ log' = [log EXCEPT ![r] = Append(@, e)]
<1>. DEFINE r == req[w].id
            t == req[w].trace
            row == [route[r] EXCEPT !.baseline = t]
            e == BaselineEntry(route[r], req[w])
<1>1. /\ r \in Stored /\ req[w].row \in RouteRow /\ t \in Traces
      /\ owner[t] = r
  BY DEF SetBaselineTx, RequestsSound, RequestSound
<1>2. r \in Routes /\ route[r] \in RouteRow
  BY <1>1, StoredRow DEF Stored
<1>3. row \in RouteRow /\ row.code = route[r].code /\ row.baseline = t
  BY <1>1, <1>2, RebasedRow
<1>4. e \in Entry /\ e.action = "baseline" /\ e.after = t
  BY <1>1 DEF BaselineEntry, Entry, RouteRow
<1>5. /\ route' = [route EXCEPT ![r] = row]
      /\ log' = [log EXCEPT ![r] = Append(@, e)]
  BY DEF SetBaselineTx
<1>. QED BY <1>1, <1>3, <1>4, <1>5

\* Every step does one of these to the tables, or imports a trace.
Imported == \E t \in Traces, r \in Stored : /\ owner[t] = Nothing
                                            /\ owner' = [owner EXCEPT ![t] = r]

Inserted ==
    \E r \in Routes \ Stored, row \in RouteRow :
       /\ row.baseline = Nothing
       /\ ~ CodeTaken(row.code)
       /\ route' = [route EXCEPT ![r] = row]
       /\ log' = [log EXCEPT ![r] = Append(@, [ action |-> "created" ])]
       /\ log[r] = <<>>

Changed ==
    \E r \in Stored, row \in RouteRow, e \in Entry :
       /\ row.code = route[r].code
       /\ \/ /\ e.action # "baseline"
             /\ row.baseline = route[r].baseline
          \/ /\ e.action = "baseline" /\ e.after = row.baseline
             /\ row.baseline \in Traces
             /\ owner[row.baseline] = r
       /\ route' = [route EXCEPT ![r] = row]
       /\ log' = [log EXCEPT ![r] = Append(@, e)]

TableStep == \/ UNCHANGED <<route, log>> /\ (Imported \/ UNCHANGED owner)
             \/ UNCHANGED owner /\ (Inserted \/ Changed)

LEMMA StepKinds ==
    ASSUME TypeOK, RequestsSound, NoLogBefore, [Next]_vars
    PROVE  TableStep
<1>1. ASSUME NEW w \in Actors, NEW t \in Traces, NEW r \in Routes, Import(w, t, r)
      PROVE  TableStep
  BY <1>1 DEF Import, TableStep, Imported
<1>2. ASSUME NEW w \in Actors, CreateInsert(w) PROVE TableStep
  BY <1>2, InsertWrites DEF TableStep, Inserted, CreateInsert
<1>3. ASSUME NEW w \in Actors, UpdateTx(w) PROVE TableStep
  <2>1. [ action |-> "updated" ] \in Entry
    BY DEF Entry
  <2>. QED BY <1>3, <2>1, UpdateWrites DEF TableStep, Changed, UpdateTx
<1>4. ASSUME NEW w \in Actors, SetBaselineTx(w) PROVE TableStep
  <2>1. Changed
    BY <1>4, BaselineWrites DEF Changed
  <2>. QED BY <1>4, <2>1 DEF TableStep, SetBaselineTx
<1>5. ASSUME UNCHANGED <<route, owner, log>> PROVE TableStep
  BY <1>5 DEF TableStep
<1>6. ASSUME NEW w \in Actors,
             \/ \E code \in Codes : CreateCheck(w, code)
             \/ \E r \in Routes : UpdateGet(w, r)
             \/ \E t \in Traces, r \in Routes : SetBaselineGet(w, r, t)
             \/ SetBaselineCheck(w)
             \/ Abandon(w)
      PROVE  UNCHANGED <<route, owner, log>>
  BY <1>6 DEF CreateCheck, UpdateGet, SetBaselineGet, SetBaselineCheck, Abandon
<1>7. CASE UNCHANGED vars
  BY <1>5, <1>7 DEF vars
<1>. QED BY <1>1, <1>2, <1>3, <1>4, <1>5, <1>6, <1>7 DEF Next

\* Routes stay, and a trace stays with the route it was imported into.
LEMMA Growth ==
    ASSUME TypeOK, TableStep
    PROVE  /\ Stored \subseteq Stored'
           /\ \A t \in Traces : owner[t] # Nothing => owner'[t] = owner[t]
<1>1. UNCHANGED owner \/ Imported => \A t \in Traces : owner[t] # Nothing => owner'[t] = owner[t]
  BY DEF Imported, TypeOK
<1>2. Inserted \/ Changed => Stored \subseteq Stored'
  BY RowsAssumption DEF Inserted, Changed, Stored, TypeOK
<1>3. UNCHANGED route => Stored \subseteq Stored'
  BY DEF Stored
<1>. QED BY <1>1, <1>2, <1>3 DEF TableStep

-----------------------------------------------------------------------------
(* Each part of Sound is kept. *)

\* The tables keep their types.
LEMMA TablesTyped ==
    ASSUME TypeOK, TableStep
    PROVE  /\ route' \in [Routes -> RouteRow \cup {Nothing}]
           /\ owner' \in [Traces -> Routes \cup {Nothing}]
           /\ log' \in [Routes -> Seq(Entry)]
<1>1. UNCHANGED owner \/ Imported => owner' \in [Traces -> Routes \cup {Nothing}]
  BY DEF Imported, TypeOK, Stored
<1>2. Inserted \/ Changed => route' \in [Routes -> RouteRow \cup {Nothing}]
  BY DEF Inserted, Changed, TypeOK, Stored
<1>3. [ action |-> "created" ] \in Entry
  BY DEF Entry
<1>4. Inserted \/ Changed => log' \in [Routes -> Seq(Entry)]
  BY <1>3, LoggedEntry DEF Inserted, Changed, Stored
<1>. QED BY <1>1, <1>2, <1>4 DEF TableStep, TypeOK

\* So do the requests: they become idle, or hold what they read.
LEMMA RequestsTyped ==
    ASSUME TypeOK, RequestsSound, [Next]_vars
    PROVE  req' \in [Actors -> Request]
<1>. USE DEF TypeOK
<1>1. ASSUME NEW w \in Actors, Refuse(w) PROVE req' \in [Actors -> Request]
  BY <1>1, IdleRequest DEF Refuse
<1>2. ASSUME NEW w \in Actors, NEW code \in Codes, CreateCheck(w, code)
      PROVE  req' \in [Actors -> Request]
  <2>1. ASSUME NEW v \in Values
        PROVE  [ Idle EXCEPT !.pc = "insert",
                   !.row = [ code |-> code, rest |-> v, baseline |-> Nothing ] ] \in Request
    BY DEF Idle, Request, Steps, RouteRow
  <2>. QED BY <1>1, <1>2, <2>1 DEF CreateCheck
<1>3. ASSUME NEW w \in Actors, NEW r \in Routes, UpdateGet(w, r)
      PROVE  req' \in [Actors -> Request]
  <2>1. route[r] \in RouteRow
    BY <1>3, StoredRow DEF UpdateGet
  <2>2. ASSUME NEW v \in Values
        PROVE  [ Idle EXCEPT !.pc = "update", !.id = r,
                   !.row = [route[r] EXCEPT !.rest = v] ] \in Request
    BY <2>1 DEF Idle, Request, Steps, RouteRow
  <2>. QED BY <1>3, <2>2 DEF UpdateGet
<1>4. ASSUME NEW w \in Actors, NEW t \in Traces, NEW r \in Routes, SetBaselineGet(w, r, t)
      PROVE  req' \in [Actors -> Request]
  <2>1. [ pc |-> "check", id |-> r, row |-> route[r], trace |-> t ] \in Request
    BY DEF Request, Steps
  <2>. QED BY <1>4, <2>1 DEF SetBaselineGet
<1>5. ASSUME NEW w \in Actors, SetBaselineCheck(w) PROVE req' \in [Actors -> Request]
  <2>1. [req[w] EXCEPT !.pc = "baseline"] \in Request
    BY DEF Request, Steps
  <2>. QED BY <1>5, <2>1, IdleRequest DEF SetBaselineCheck
<1>6. ASSUME NEW w \in Actors, CreateInsert(w) \/ UpdateTx(w) \/ SetBaselineTx(w) \/ Abandon(w)
      PROVE  req' \in [Actors -> Request]
  BY <1>1, <1>6 DEF CreateInsert, UpdateTx, SetBaselineTx, Abandon
<1>7. ASSUME NEW w \in Actors, NEW t \in Traces, NEW r \in Routes, Import(w, t, r)
      PROVE  req' \in [Actors -> Request]
  BY <1>7 DEF Import
<1>8. CASE UNCHANGED vars
  BY <1>8 DEF vars
<1>. QED BY <1>2, <1>3, <1>4, <1>5, <1>6, <1>7, <1>8 DEF Next

\* A request that does nothing itself keeps what it knows, as routes and the
\* traces they own stay.
LEMMA RequestKept ==
    ASSUME TypeOK, TableStep, NEW w \in Actors, RequestSound(w), req'[w] = req[w]
    PROVE  RequestSound(w)'
<1>1. At(w, "baseline") => req[w].id \in Routes /\ owner[req[w].trace] = req[w].id
  BY DEF RequestSound, Stored
<1>2. Nothing \notin Routes
  BY RegistryAssumption
<1>3. At(w, "baseline") => owner'[req[w].trace] = req[w].id
  BY <1>1, <1>2, Growth DEF RequestSound, At
<1>. QED BY <1>3, Growth DEF RequestSound, At

\* One that becomes idle knows nothing.
LEMMA IdleKnowsNothing ==
    ASSUME NEW w \in Actors, req'[w] = Idle
    PROVE  RequestSound(w)'
BY IdleRequest DEF RequestSound, At

LEMMA RequestsStep ==
    ASSUME TypeOK, RequestsSound, NoLogBefore, [Next]_vars
    PROVE  RequestsSound'
<1>. SUFFICES ASSUME NEW d \in Actors PROVE RequestSound(d)'
  BY DEF RequestsSound
<1>. TableStep /\ RequestSound(d)
  BY StepKinds DEF RequestsSound
<1>. USE DEF TypeOK
<1>1. ASSUME NEW w \in Actors, NEW code \in Codes, CreateCheck(w, code)
      PROVE  RequestSound(d)'
  <2>1. CASE d # w
    BY <1>1, <2>1, RequestKept DEF CreateCheck, Refuse
  <2>2. CASE d = w /\ Refuse(w)
    BY <2>2, IdleKnowsNothing DEF Refuse
  <2>3. ASSUME d = w, NEW v \in Values,
               req'[d] = [ Idle EXCEPT !.pc = "insert",
                             !.row = [ code |-> code, rest |-> v, baseline |-> Nothing ] ]
        PROVE  RequestSound(d)'
    <3>1. req'[d].pc = "insert"
      BY <2>3 DEF Idle
    <3>2. req'[d].row = [ code |-> code, rest |-> v, baseline |-> Nothing ]
      BY <2>3 DEF Idle
    <3>. QED BY <3>1, <3>2 DEF RequestSound, At, RouteRow
  <2>. QED BY <1>1, <2>1, <2>2, <2>3 DEF CreateCheck
<1>2. ASSUME NEW w \in Actors, NEW r \in Routes, UpdateGet(w, r)
      PROVE  RequestSound(d)'
  <2>1. CASE d # w
    BY <1>2, <2>1, RequestKept DEF UpdateGet
  <2>2. CASE d = w
    <3>1. route[r] \in RouteRow /\ r \in Stored'
      BY <1>2, StoredRow, Growth DEF UpdateGet
    <3>2. PICK v \in Values :
             req'[d] = [ Idle EXCEPT !.pc = "update", !.id = r,
                                     !.row = [route[r] EXCEPT !.rest = v] ]
      BY <1>2, <2>2 DEF UpdateGet
    <3>3. req'[d].pc = "update" /\ req'[d].id = r
      BY <3>2 DEF Idle
    <3>4. req'[d].row \in RouteRow
      BY <3>1, <3>2 DEF Idle, RouteRow
    <3>. QED BY <3>1, <3>3, <3>4 DEF RequestSound, At
  <2>. QED BY <2>1, <2>2
<1>3. ASSUME NEW w \in Actors, NEW t \in Traces, NEW r \in Routes, SetBaselineGet(w, r, t)
      PROVE  RequestSound(d)'
  <2>1. CASE d # w
    BY <1>3, <2>1, RequestKept DEF SetBaselineGet
  <2>2. CASE d = w
    <3>1. route[r] \in RouteRow /\ r \in Stored'
      BY <1>3, StoredRow, Growth DEF SetBaselineGet
    <3>2. req'[d] = [ pc |-> "check", id |-> r, row |-> route[r], trace |-> t ]
      BY <1>3, <2>2 DEF SetBaselineGet
    <3>. QED BY <3>1, <3>2 DEF RequestSound, At
  <2>. QED BY <2>1, <2>2
<1>4. ASSUME NEW w \in Actors, SetBaselineCheck(w) PROVE RequestSound(d)'
  <2>1. CASE d # w
    BY <1>4, <2>1, RequestKept DEF SetBaselineCheck
  <2>2. CASE d = w /\ ~ BelongsToRoute(req[w].trace, req[w].id)
    BY <1>4, <2>2, IdleKnowsNothing DEF SetBaselineCheck
  <2>3. CASE d = w /\ BelongsToRoute(req[w].trace, req[w].id)
    <3>1. req'[d] = [req[d] EXCEPT !.pc = "baseline"] /\ owner' = owner
      BY <1>4, <2>3 DEF SetBaselineCheck
    <3>2. /\ req'[d].pc = "baseline" /\ req'[d].id = req[d].id
          /\ req'[d].row = req[d].row /\ req'[d].trace = req[d].trace
      BY <3>1 DEF Request
    <3>3. req[d].id \in Stored' /\ req[d].row \in RouteRow /\ req[d].trace \in Traces
      BY <1>4, <2>3, Growth DEF SetBaselineCheck, RequestSound
    <3>. QED BY <2>3, <3>1, <3>2, <3>3 DEF RequestSound, At, BelongsToRoute
  <2>. QED BY <2>1, <2>2, <2>3
<1>5. ASSUME NEW w \in Actors, CreateInsert(w) \/ UpdateTx(w) \/ SetBaselineTx(w) \/ Abandon(w)
      PROVE  RequestSound(d)'
  <2>1. req' = [req EXCEPT ![w] = Idle]
    BY <1>5 DEF CreateInsert, UpdateTx, SetBaselineTx, Abandon, Refuse
  <2>. QED BY <2>1, RequestKept, IdleKnowsNothing
<1>6. ASSUME NEW w \in Actors, NEW t \in Traces, NEW r \in Routes, Import(w, t, r)
      PROVE  RequestSound(d)'
  BY <1>6, RequestKept DEF Import
<1>7. CASE UNCHANGED vars
  BY <1>7, RequestKept DEF vars
<1>. QED BY <1>1, <1>2, <1>3, <1>4, <1>5, <1>6, <1>7 DEF Next

\* Entries are only written for routes that are there.
LEMMA LogsStep ==
    ASSUME TypeOK, NoLogBefore, TableStep
    PROVE  NoLogBefore'
<1>1. CASE UNCHANGED <<route, log>>
  BY <1>1 DEF NoLogBefore, Stored
<1>2. ASSUME NEW r \in Routes, NEW row \in RouteRow, NEW e \in Entry,
             route' = [route EXCEPT ![r] = row], log' = [log EXCEPT ![r] = Append(@, e)]
      PROVE  NoLogBefore'
  <2>1. r \in Stored'
    BY <1>2, RowsAssumption DEF Stored, TypeOK
  <2>2. \A s \in Routes \ {r} : log'[s] = log[s] /\ route'[s] = route[s]
    BY <1>2 DEF TypeOK
  <2>. QED BY <2>1, <2>2 DEF NoLogBefore, Stored
<1>3. [ action |-> "created" ] \in Entry
  BY DEF Entry
<1>. QED BY <1>1, <1>2, <1>3 DEF TableStep, Inserted, Changed, Stored

\* Only an insert brings a new code, and the index refuses one that is there.
LEMMA CodesStep ==
    ASSUME TypeOK, CodesUnique, TableStep
    PROVE  CodesUnique'
<1>1. CASE UNCHANGED route
  BY <1>1 DEF CodesUnique, Stored
<1>2. CASE Inserted
  <2>1. PICK r \in Routes \ Stored, row \in RouteRow :
           /\ ~ CodeTaken(row.code)
           /\ route' = [route EXCEPT ![r] = row]
    BY <1>2 DEF Inserted
  <2>2. \A s \in Routes : route'[s] = IF s = r THEN row ELSE route[s]
    BY <2>1 DEF TypeOK
  <2>3. Stored' \subseteq Stored \cup {r}
    BY <2>2 DEF Stored
  <2>. QED BY <2>1, <2>2, <2>3 DEF CodesUnique, CodeTaken, Stored
<1>3. CASE Changed
  <2>1. PICK r \in Stored, row \in RouteRow :
           /\ row.code = route[r].code
           /\ route' = [route EXCEPT ![r] = row]
    BY <1>3 DEF Changed
  <2>2. \A s \in Routes : route'[s] = IF s = r THEN row ELSE route[s]
    BY <2>1 DEF TypeOK
  <2>3. Stored' \subseteq Stored
    BY <2>2 DEF Stored
  <2>. QED BY <2>1, <2>2, <2>3 DEF CodesUnique
<1>. QED BY <1>1, <1>2, <1>3 DEF TableStep

LEMMA BelongsStep ==
    ASSUME TypeOK, BaselineBelongs, TableStep
    PROVE  BaselineBelongs'
<1>. SUFFICES ASSUME NEW s \in Stored', route'[s].baseline # Nothing
              PROVE  owner'[route'[s].baseline] = s
  BY DEF BaselineBelongs
<1>0. s \in Routes /\ Nothing \notin Routes
  BY RegistryAssumption DEF Stored
<1>1. ASSUME s \in Stored, route'[s].baseline = route[s].baseline
      PROVE  owner'[route'[s].baseline] = s
  <2>1. owner[route[s].baseline] = s /\ route[s].baseline \in Traces
    BY <1>1, StoredRow, <1>0 DEF BaselineBelongs, RouteRow
  <2>. QED BY <1>0, <1>1, <2>1, Growth
<1>2. CASE UNCHANGED route
  BY <1>1, <1>2 DEF Stored
<1>3. CASE Inserted
  <2>1. PICK r \in Routes \ Stored, row \in RouteRow :
           /\ row.baseline = Nothing
           /\ route' = [route EXCEPT ![r] = row]
    BY <1>3 DEF Inserted
  <2>2. s # r /\ route'[s] = route[s]
    BY <1>0, <2>1 DEF TypeOK
  <2>. QED BY <1>1, <2>2 DEF Stored
<1>4. CASE Changed /\ UNCHANGED owner
  <2>1. PICK r \in Stored, row \in RouteRow :
           /\ row.baseline = route[r].baseline \/ owner[row.baseline] = r
           /\ route' = [route EXCEPT ![r] = row]
    BY <1>4 DEF Changed
  <2>2. CASE s # r
    BY <1>0, <1>1, <2>1, <2>2 DEF TypeOK, Stored
  <2>3. CASE s = r
    <3>1. route'[s] = row
      BY <1>0, <2>1, <2>3 DEF TypeOK
    <3>. QED BY <1>1, <1>4, <2>1, <2>3, <3>1
  <2>. QED BY <2>2, <2>3
<1>. QED BY <1>2, <1>3, <1>4 DEF TableStep

LEMMA AuditedStep ==
    ASSUME TypeOK, NoLogBefore, BaselineAudited, TableStep
    PROVE  BaselineAudited'
<1>. DEFINE Told(r) == /\ Changes(r) = {} => route[r].baseline = Nothing
                       /\ \A i \in Changes(r) : (\A j \in Changes(r) : j <= i)
                                  => route[r].baseline = log[r][i].after
<1>. SUFFICES ASSUME NEW s \in Stored' PROVE Told(s)'
  BY DEF BaselineAudited
<1>0. s \in Routes
  BY DEF Stored
<1>1. ASSUME s \in Stored, route'[s] = route[s], log'[s] = log[s]
      PROVE  Told(s)'
  BY <1>1 DEF BaselineAudited, Changes
<1>2. CASE UNCHANGED <<route, log>>
  BY <1>1, <1>2 DEF Stored
<1>3. CASE Inserted
  <2>1. PICK r \in Routes \ Stored, row \in RouteRow :
           /\ row.baseline = Nothing
           /\ route' = [route EXCEPT ![r] = row]
           /\ log' = [log EXCEPT ![r] = Append(@, [ action |-> "created" ])]
           /\ log[r] = <<>>
    BY <1>3 DEF Inserted
  <2>2. CASE s # r
    BY <1>0, <1>1, <2>1, <2>2 DEF TypeOK, Stored
  <2>3. CASE s = r
    <3>1. route'[s].baseline = Nothing
      BY <1>0, <2>1, <2>3 DEF TypeOK
    <3>2. log'[s] = <<[ action |-> "created" ]>>
      BY <1>0, <2>1, <2>3 DEF TypeOK
    <3>3. Changes(s)' = {}
      BY <3>2 DEF Changes
    <3>. QED BY <3>1, <3>3
  <2>. QED BY <2>2, <2>3
<1>4. CASE Changed
  <2>1. PICK r \in Stored, row \in RouteRow, e \in Entry :
           /\ \/ e.action # "baseline" /\ row.baseline = route[r].baseline
              \/ e.action = "baseline" /\ e.after = row.baseline
           /\ route' = [route EXCEPT ![r] = row]
           /\ log' = [log EXCEPT ![r] = Append(@, e)]
    BY <1>4 DEF Changed
  <2>2. CASE s # r
    BY <1>0, <1>1, <2>1, <2>2 DEF TypeOK, Stored
  <2>3. CASE s = r
    <3>. DEFINE n == Len(log[s])
    <3>1. route'[s] = row
      BY <1>0, <2>1, <2>3 DEF TypeOK
    <3>2. /\ Len(log'[s]) = n + 1
          /\ \A i \in 1 .. n : log'[s][i] = log[s][i]
          /\ log'[s][n + 1] = e
      BY <1>0, <2>1, <2>3, LoggedEntry
    <3>3. n \in Nat
      BY <1>0 DEF TypeOK
    <3>4. CASE e.action # "baseline"
      <4>1. Changes(s)' = Changes(s)
        BY <3>2, <3>3, <3>4 DEF Changes
      <4>2. \A i \in Changes(s) : log'[s][i] = log[s][i]
        BY <3>2 DEF Changes
      <4>3. Told(s)
        BY <2>3 DEF BaselineAudited
      <4>4. route'[s].baseline = route[s].baseline
        BY <2>1, <2>3, <3>1, <3>4
      <4>. QED BY <4>1, <4>2, <4>3, <4>4
    <3>5. CASE e.action = "baseline"
      <4>1. n + 1 \in Changes(s)' /\ \A i \in Changes(s)' : i \in 1 .. n + 1
        BY <3>2, <3>3, <3>5 DEF Changes
      <4>2. \A i \in Changes(s)' : (\A j \in Changes(s)' : j <= i) => i = n + 1
        BY <3>3, <4>1
      <4>3. route'[s].baseline = log'[s][n + 1].after
        BY <2>1, <3>1, <3>2, <3>5
      <4>. QED BY <4>1, <4>2, <4>3
    <3>. QED BY <3>4, <3>5
  <2>. QED BY <2>2, <2>3
<1>. QED BY <1>2, <1>3, <1>4 DEF TableStep

-----------------------------------------------------------------------------
(* The theorems. *)

LEMMA SoundInit == Init => Sound
<1>. SUFFICES ASSUME Init PROVE Sound
  OBVIOUS
<1>1. Stored = {}
  BY DEF Init, Stored
<1>2. TypeOK
  BY IdleRequest DEF Init, TypeOK
<1>3. RequestsSound
  BY IdleRequest DEF Init, RequestsSound, RequestSound, At
<1>4. NoLogBefore
  BY DEF Init, NoLogBefore
<1>. QED BY <1>1, <1>2, <1>3, <1>4 DEF Sound, CodesUnique, BaselineBelongs, BaselineAudited

LEMMA SoundStep == Sound /\ [Next]_vars => Sound'
<1>. SUFFICES ASSUME Sound, [Next]_vars PROVE Sound'
  OBVIOUS
<1>1. TableStep
  BY StepKinds DEF Sound
<1>2. TypeOK'
  BY <1>1, TablesTyped, RequestsTyped DEF Sound, TypeOK
<1>. QED BY <1>1, <1>2, RequestsStep, LogsStep, CodesStep, BelongsStep, AuditedStep DEF Sound

LEMMA AlwaysSound == Spec => []Sound
BY SoundInit, SoundStep, PTL DEF Spec

\* The tables and requests keep their types.
THEOREM RegistryTyped == Spec => []TypeOK
<1>1. Sound => TypeOK
  BY DEF Sound
<1>. QED BY AlwaysSound, <1>1, PTL

\* No two routes ever have the same code, for any number of requests that
\* create them at the same time.
THEOREM CodesAreUnique == Spec => []CodesUnique
<1>1. Sound => CodesUnique
  BY DEF Sound
<1>. QED BY AlwaysSound, <1>1, PTL

\* The baseline of a route is one of its own traces, although this is checked
\* before the transaction that sets it.
THEOREM BaselinesBelong == Spec => []BaselineBelongs
<1>1. Sound => BaselineBelongs
  BY DEF Sound
<1>. QED BY AlwaysSound, <1>1, PTL

\* No overlapping update undoes a change of baseline: the route has the one of
\* its last audit entry.
THEOREM BaselinesAreAudited == Spec => []BaselineAudited
<1>1. Sound => BaselineAudited
  BY DEF Sound
<1>. QED BY AlwaysSound, <1>1, PTL
=============================================================================
