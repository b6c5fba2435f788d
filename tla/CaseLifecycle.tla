--------------------------- MODULE CaseLifecycle ---------------------------
(***************************************************************************)
(* The localization case service: Create, Get, Analyze, Confirm and Close  *)
(* of CaseService over the rows of CaseRepository.                         *)
(*                                                                         *)
(* A request is served by a goroutine that alternates single database      *)
(* statements and transactions with local work, so every statement or      *)
(* transaction is one action and the requests of all actors interleave     *)
(* between them.  A transaction that updates the row of a case also writes *)
(* its audit entry, so the two happen in one step.                         *)
(*                                                                         *)
(* An analysis holds no lock: the status "analyzing" of the row is the     *)
(* lease, its updated_at says how old the lease is, and any later Analyze  *)
(* request may take an overdue lease away.                                 *)
(***************************************************************************)
EXTENDS CaseConstants, Naturals, Sequences

CONSTANTS Cases,         \* identifiers of cases
          Actors,        \* request slots, one request in flight in each
          Role,          \* the role of the user behind a slot
          NoCase,        \* no case chosen
          NoActor,       \* reviewer_id is NULL
          LeaseTimeout,  \* analysisLeaseTimeout, in ticks
          MaxVersion,    \* bound: no analysis starts at this version or later
          MaxFaults      \* bound: how many requests stop before their end

ASSUME ActorsAssumption == /\ Role \in [Actors -> Roles]
                           /\ NoActor \notin Actors
                           /\ NoCase \notin Cases
ASSUME BoundsAssumption == /\ LeaseTimeout \in Nat
                           /\ MaxVersion \in Nat
                           /\ MaxFaults \in Nat

VARIABLES row,     \* the table localization_cases
          log,     \* the audit entries of every case, in commit order
          req,     \* the request every slot is serving
          view,    \* the case as the client of a slot last read it
          faults   \* how many requests stopped before their end

vars == <<row, log, req, view, faults>>

-----------------------------------------------------------------------------
(* Types. *)

\* version 0 and status "none" mean that there is no such row.  age is the
\* time since updated_at, counted up to the point where it makes no further
\* difference.  diffs stands for differences_json and parameters_json: 0 for
\* the initial "[]", otherwise the version of the row when the run that
\* computed them took its lease.  basis is not a column: it remembers which
\* differences the reviewer had on screen.
Row == [ status   : CaseStatuses \cup {"none"},
         version  : Nat,
         age      : 0 .. LeaseTimeout + 1,
         diffs    : Nat,
         estimate : {"nil", "algorithm", "reviewer"},
         error    : {"nil", "failed", "expired"},
         reviewer : Actors \cup {NoActor},
         closedAt : {"nil", "now"},
         basis    : Nat ]

NoRow == [ status |-> "none", version |-> 0, age |-> 0, diffs |-> 0,
           estimate |-> "nil", error |-> "nil", reviewer |-> NoActor,
           closedAt |-> "nil", basis |-> 0 ]

\* The status a case has once the entry is written.
StatusAfter == [ created   |-> "draft",          started   |-> "analyzing",
                 recovered |-> "draft",          failed    |-> "draft",
                 completed |-> "pending_review", confirmed |-> "confirmed",
                 closed    |-> "closed" ]

\* An audit entry records the previous status ("unrecorded" for "{}") and,
\* where it takes a snapshot of the whole row, the previous version.
Entry == [ action        : DOMAIN StatusAfter,
           before        : CaseStatuses \cup {"unrecorded"},
           beforeVersion : Nat ]

Item == [ status : CaseStatuses \cup {"none"}, version : Nat ]

NoItem == [ status |-> "none", version |-> 0 ]

Steps == {"idle", "recover", "reload", "start", "compare", "save", "fail",
          "confirm", "close", "reply"}

\* item is the local variable of the same name; while an analysis runs, its
\* version is the version that the start of this run gave to the row.
Request == [ pc : Steps, case : Cases \cup {NoCase}, item : Item ]

Idle == [ pc |-> "idle", case |-> NoCase, item |-> NoItem ]

View == [ case : Cases \cup {NoCase}, version : Nat, diffs : Nat ]

NoView == [ case |-> NoCase, version |-> 0, diffs |-> 0 ]

TypeOK == /\ row \in [Cases -> Row]
          /\ log \in [Cases -> Seq(Entry)]
          /\ req \in [Actors -> Request]
          /\ view \in [Actors -> View]
          /\ faults \in 0 .. MaxFaults

-----------------------------------------------------------------------------
(* The conditional updates of CaseRepository: what their WHERE clauses ask *)
(* of a row, and what every one of them writes.                            *)

TransitionMatches_NoVersion(r, version, from) == r.status = from

TransitionMatches(r, version, from) == r.version = version /\ r.status = from

SaveAnalysisMatches_AnyStatus(r) == r.status # "none"

SaveAnalysisMatches(r) == r.status = "analyzing"

RecoverMatches_Flipped(r) == r.status = "analyzing" /\ r.age < LeaseTimeout

RecoverMatches(r) == r.status = "analyzing" /\ r.age > LeaseTimeout

Written(r, to) == [r EXCEPT !.status = to, !.version = @ + 1, !.age = 0]

audit(action, before, beforeVersion) ==
    [ action |-> action, before |-> before, beforeVersion |-> beforeVersion ]

\* Commit r as the row of case c together with its audit entry.
Commit(c, r, entry) == /\ row' = [row EXCEPT ![c] = r]
                       /\ log' = [log EXCEPT ![c] = Append(@, entry)]

ItemOf(c) == [ status |-> row[c].status, version |-> row[c].version ]

ViewOf(c) == [ case |-> c, version |-> row[c].version, diffs |-> row[c].diffs ]

At(w, step) == req[w].pc = step

Goto(w, step) == req' = [req EXCEPT ![w].pc = step]

\* The handler answers with an error.
Refuse(w) == req' = [req EXCEPT ![w] = Idle]

Serve(w, step, c) ==
    req' = [req EXCEPT ![w] = [ pc |-> step, case |-> c, item |-> ItemOf(c) ]]

-----------------------------------------------------------------------------
Init == /\ row = [c \in Cases |-> NoRow]
        /\ log = [c \in Cases |-> <<>>]
        /\ req = [w \in Actors |-> Idle]
        /\ view = [w \in Actors |-> NoView]
        /\ faults = 0

\* The checks on the traces read what no operation of the service changes,
\* so the request as a whole is the transaction that inserts the row.
Create(w, c) ==
    /\ At(w, "idle")
    /\ Role[w] \in AnalyzeRoles
    /\ row[c].status = "none"
    /\ Commit(c, Written(NoRow, "draft"), audit("created", "unrecorded", 0))
    /\ UNCHANGED <<req, view, faults>>

\* GET /cases/:id by the client of the slot.
Get(w, c) ==
    /\ At(w, "idle")
    /\ row[c].status # "none"
    /\ view' = [view EXCEPT ![w] = ViewOf(c)]
    /\ UNCHANGED <<row, log, req, faults>>

-----------------------------------------------------------------------------
(* Analyze. *)

\* Only a draft goes on to the start of the analysis.
StartOrRefuse(w, c) ==
    \/ /\ CanTransition(row[c].status, "analyzing")
       /\ Serve(w, "start", c)
    \/ /\ ~ CanTransition(row[c].status, "analyzing")
       /\ Refuse(w)

AnalyzeGet(w, c) ==
    /\ At(w, "idle")
    /\ Role[w] \in AnalyzeRoles
    /\ \/ /\ row[c].status = "analyzing"
          /\ Serve(w, "recover", c)
       \/ /\ row[c].status # "analyzing"
          /\ StartOrRefuse(w, c)
    /\ UNCHANGED <<row, log, view, faults>>

Expired_NewStatus(r) == [Written(r, "expired") EXCEPT !.error = "expired"]

Expired(r) == [Written(r, "draft") EXCEPT !.error = "expired"]

AnalyzeRecover(w) ==
    LET c == req[w].case
    IN  /\ At(w, "recover")
        /\ \/ /\ RecoverMatches(row[c])
              /\ Commit(c, Expired(row[c]), audit("recovered", "analyzing", 0))
              /\ Goto(w, "reload")
           \/ /\ ~ RecoverMatches(row[c])
              /\ Refuse(w)
              /\ UNCHANGED <<row, log>>
        /\ UNCHANGED <<view, faults>>

AnalyzeReload(w) ==
    /\ At(w, "reload")
    /\ StartOrRefuse(w, req[w].case)
    /\ UNCHANGED <<row, log, view, faults>>

Started_KeepError(r) == Written(r, "analyzing")

Started_SameVersion(r) ==
    [Written(r, "analyzing") EXCEPT !.error = "nil", !.version = r.version]

Started(r) == [Written(r, "analyzing") EXCEPT !.error = "nil"]

AnalyzeStart(w) ==
    LET c == req[w].case
        item == req[w].item
        starts == /\ TransitionMatches(row[c], item.version, "draft")
                  /\ row[c].version < MaxVersion
    IN  /\ At(w, "start")
        /\ \/ /\ starts
              /\ Commit(c, Started(row[c]), audit("started", item.status, 0))
              /\ req' = [req EXCEPT ![w].pc = "compare",
                                    ![w].item = [ status |-> "analyzing",
                                                  version |-> item.version + 1 ]]
           \/ /\ ~ starts
              /\ Refuse(w)
              /\ UNCHANGED <<row, log>>
        /\ UNCHANGED <<view, faults>>

\* compareEvents reads the events of two traces; it fails when a read fails,
\* when a trace has no events or when the algorithm rejects its input.
AnalyzeCompare(w) ==
    /\ At(w, "compare")
    /\ \E outcome \in {"save", "fail"} : Goto(w, outcome)
    /\ UNCHANGED <<row, log, view, faults>>

Failed(r) == [Written(r, "draft") EXCEPT !.error = "failed"]

\* The error of this transaction is dropped: the handler answers that the
\* analysis could not be completed whether or not the row was updated.
AnalyzeFail(w) ==
    LET c == req[w].case
    IN  /\ At(w, "fail")
        /\ \/ /\ SaveAnalysisMatches(row[c])
              /\ Commit(c, Failed(row[c]), audit("failed", "unrecorded", 0))
           \/ /\ ~ SaveAnalysisMatches(row[c])
              /\ UNCHANGED <<row, log>>
        /\ Refuse(w)
        /\ UNCHANGED <<view, faults>>

Completed(r, lease, found) ==
    [Written(r, "pending_review") EXCEPT
        !.diffs = lease, !.error = "nil",
        !.estimate = IF found THEN "algorithm" ELSE @]

AnalyzeSave(w) ==
    LET c == req[w].case
        lease == req[w].item.version
    IN  /\ At(w, "save")
        /\ \/ /\ SaveAnalysisMatches(row[c])
              /\ \E found \in BOOLEAN :
                    Commit(c, Completed(row[c], lease, found),
                           audit("completed", "unrecorded", 0))
              /\ Goto(w, "reply")
           \/ /\ ~ SaveAnalysisMatches(row[c])
              /\ Refuse(w)
              /\ UNCHANGED <<row, log>>
        /\ UNCHANGED <<view, faults>>

-----------------------------------------------------------------------------
(* Confirm and Close.  The version in the body of the request is the one   *)
(* the client last read; the item that ends up in the audit entry is read  *)
(* by the handler before its transaction begins.                           *)

ConfirmGet_AnyRole(w) ==
    /\ At(w, "idle")
    /\ view[w].case # NoCase
    /\ row[view[w].case].status # "closed"
    /\ Serve(w, "confirm", view[w].case)
    /\ UNCHANGED <<row, log, view, faults>>

ConfirmGet(w) ==
    /\ At(w, "idle")
    /\ Role[w] \in ReviewRoles
    /\ view[w].case # NoCase
    /\ row[view[w].case].status # "closed"
    /\ Serve(w, "confirm", view[w].case)
    /\ UNCHANGED <<row, log, view, faults>>

Confirmed(r, w) ==
    [Written(r, "confirmed") EXCEPT
        !.estimate = "reviewer", !.reviewer = w, !.basis = view[w].diffs]

ConfirmTx(w) ==
    LET c == req[w].case
        item == req[w].item
        matches == TransitionMatches(row[c], view[w].version, "pending_review")
    IN  /\ At(w, "confirm")
        /\ \/ /\ matches
              /\ Commit(c, Confirmed(row[c], w),
                        audit("confirmed", item.status, item.version))
              /\ Goto(w, "reply")
           \/ /\ ~ matches
              /\ Refuse(w)
              /\ UNCHANGED <<row, log>>
        /\ UNCHANGED <<view, faults>>

CloseGet(w) ==
    /\ At(w, "idle")
    /\ Role[w] \in ReviewRoles
    /\ view[w].case # NoCase
    /\ Serve(w, "close", view[w].case)
    /\ UNCHANGED <<row, log, view, faults>>

Closed(r) == [Written(r, "closed") EXCEPT !.closedAt = "now"]

CloseTx(w) ==
    LET c == req[w].case
        item == req[w].item
        matches == TransitionMatches(row[c], view[w].version, "confirmed")
    IN  /\ At(w, "close")
        /\ \/ /\ matches
              /\ Commit(c, Closed(row[c]),
                        audit("closed", item.status, item.version))
              /\ Goto(w, "reply")
           \/ /\ ~ matches
              /\ Refuse(w)
              /\ UNCHANGED <<row, log>>
        /\ UNCHANGED <<view, faults>>

\* The last read of a successful request is what its client sees next.
Reply(w) ==
    /\ At(w, "reply")
    /\ view' = [view EXCEPT ![w] = ViewOf(req[w].case)]
    /\ req' = [req EXCEPT ![w] = Idle]
    /\ UNCHANGED <<row, log, faults>>

-----------------------------------------------------------------------------
(* The environment. *)

\* A database error, a panic, the end of the process or of its database pool
\* stops a request between two of its steps; nothing it committed is undone.
Abandon(w) ==
    /\ ~ At(w, "idle")
    /\ faults < MaxFaults
    /\ faults' = faults + 1
    /\ Refuse(w)
    /\ UNCHANGED <<row, log, view>>

\* Time passes.  Only the age of a running analysis is ever looked at.
Ticking(c) == row[c].status = "analyzing" /\ row[c].age <= LeaseTimeout

Tick ==
    /\ \E c \in Cases : Ticking(c)
    /\ row' = [c \in Cases |-> IF Ticking(c) THEN [row[c] EXCEPT !.age = @ + 1]
                                             ELSE row[c]]
    /\ UNCHANGED <<log, req, view, faults>>

HandlerStep(w) ==
    \/ AnalyzeRecover(w) \/ AnalyzeReload(w) \/ AnalyzeStart(w)
    \/ AnalyzeCompare(w) \/ AnalyzeFail(w) \/ AnalyzeSave(w)
    \/ ConfirmTx(w) \/ CloseTx(w) \/ Reply(w)

Next == \/ \E w \in Actors :
              \/ \E c \in Cases : Create(w, c) \/ Get(w, c) \/ AnalyzeGet(w, c)
              \/ ConfirmGet(w) \/ CloseGet(w)
              \/ HandlerStep(w)
              \/ Abandon(w)
        \/ Tick

Spec == Init /\ [][Next]_vars

\* A goroutine that can go on does, time passes, and an analyst asks again
\* for the analysis of a case.  The last conjunct is about the users, not
\* about the code: the server itself never looks for overdue leases.
Fairness == /\ \A w \in Actors : WF_vars(HandlerStep(w))
            /\ WF_vars(Tick)
            /\ \A w \in Actors, c \in Cases :
                  Role[w] = "analyst" => WF_vars(AnalyzeGet(w, c))

FairSpec == Spec /\ Fairness

-----------------------------------------------------------------------------
(* Properties. *)

Consistent(r) ==
    /\ (r.error # "nil") <=> (r.status = "draft" /\ r.version > 1)
    /\ (r.diffs # 0) <=> r.status \in {"pending_review", "confirmed", "closed"}
    /\ (r.reviewer # NoActor) <=> r.status \in {"confirmed", "closed"}
    /\ (r.estimate = "reviewer") <=> r.status \in {"confirmed", "closed"}
    /\ (r.closedAt # "nil") <=> r.status = "closed"

\* What the columns of a row say agrees with its status: a draft that was
\* worked on carries the reason it came back, a running or finished analysis
\* carries no error, differences are there exactly from pending_review on, a
\* reviewer and the reviewer's estimate exactly from confirmed on.
RowConsistent == \A c \in Cases : Consistent(row[c])

LegalEntry(entries, i) ==
    LET after(k) == StatusAfter[entries[k].action]
    IN  IF i = 1
        THEN entries[i].action = "created"
        ELSE /\ CanTransition(after(i - 1), after(i))
             /\ entries[i].before \in {"unrecorded", after(i - 1)}
             /\ entries[i].beforeVersion \in {0, i - 1}

Replays(entries, r) ==
    /\ Len(entries) = r.version
    /\ r.status = IF r.version = 0 THEN "none"
                  ELSE StatusAfter[entries[r.version].action]
    /\ \A i \in 1 .. Len(entries) : LegalEntry(entries, i)

\* The audit log of a case tells its whole story: one entry per version, each
\* a legal move from the status the previous entry left, ending at the status
\* of the row; and what an entry recorded as the previous value is what the
\* row held when the entry was committed, although Confirm and Close read it
\* before their transaction.
AuditReplay == \A c \in Cases : Replays(log[c], row[c])

\* A confirmed case rests on the differences its reviewer had read, however
\* many analyses ran and expired between that read and the confirmation.
ConfirmedWhatWasSeen ==
    \A c \in Cases : row[c].status \in {"confirmed", "closed"}
                        => row[c].basis = row[c].diffs

ViewIsOld(w) ==
    LET v == view[w]
    IN  v.case # NoCase =>
            /\ v.version <= row[v.case].version
            /\ v.version = row[v.case].version => v.diffs = row[v.case].diffs

RequestIsOld(w) ==
    LET q == req[w]
    IN  /\ q.pc # "idle" => q.case # NoCase
        /\ q.pc \in {"start", "confirm", "close"} =>
              /\ q.item.version <= row[q.case].version
              /\ q.item.version = row[q.case].version
                    => q.item.status = row[q.case].status
        /\ q.pc = "start" => q.item.status = "draft"
        /\ q.pc \in {"compare", "save", "fail"} => q.item.version \in 1 .. MaxVersion
        /\ q.pc \in {"confirm", "close"} =>
              /\ Role[w] \in ReviewRoles
              /\ q.case = view[w].case
              /\ view[w].version <= q.item.version

\* What a client or a handler read earlier is never newer than the row, and
\* at the version it was read it still tells the truth; the version a client
\* sends is no newer than what the handler read after it.
ReadsAreOld == \A w \in Actors : ViewIsOld(w) /\ RequestIsOld(w)

\* The result of an analysis is never overwritten, and from the confirmation
\* on nothing but the closing of the case changes its row.
ConclusionsKept ==
    [][\A c \in Cases :
          /\ row[c].diffs # 0 => row'[c].diffs = row[c].diffs
          /\ row[c].status = "confirmed" => row'[c] \in {row[c], Closed(row[c])}
          /\ row[c].status = "closed" => row'[c] = row[c]]_vars

\* The service implements the workflow: the rows and the audit log move as
\* CaseWorkflow says, whatever the requests in flight do.
W == INSTANCE CaseWorkflow WITH
        Results    <- 1 .. MaxVersion,
        NoResult   <- 0,
        Reviewers  <- {w \in Actors : Role[w] \in ReviewRoles},
        NoReviewer <- NoActor,
        stage      <- [c \in Cases |-> row[c].status],
        trail      <- [c \in Cases |->
                          [i \in 1 .. Len(log[c]) |-> StatusAfter[log[c][i].action]]],
        result     <- [c \in Cases |-> row[c].diffs],
        verdict    <- [c \in Cases |-> row[c].reviewer]

Implements == W!Spec

\* A case does not stay in analysis: a run that finishes, fails or dies leaves
\* the case to be analyzed again or reviewed, once an analyst asks again.
LeaseReleased ==
    \A c \in Cases : row[c].status = "analyzing" ~> row[c].status # "analyzing"

\* README: every move is guarded by the version.  The result a case shows for
\* review would then come from the run whose lease the save ended.
ResultFromCurrentRun ==
    \A c \in Cases : row[c].status = "pending_review"
                        => row[c].version = row[c].diffs + 1
=============================================================================
