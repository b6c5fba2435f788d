------------------------ MODULE CaseLifecycleProofs ------------------------
(***************************************************************************)
(* Proofs about CaseLifecycle, for every set of cases and of request slots,*)
(* every assignment of roles, every lease timeout and every bound.         *)
(***************************************************************************)
EXTENDS CaseLifecycle, SequenceTheorems, TLAPS

-----------------------------------------------------------------------------
(* What the conditional updates write, column by column. *)

\* The numeric columns of a row are numbers.
LEMMA RowFields ==
    ASSUME NEW r \in Row
    PROVE  /\ r.status \in CaseStatuses \cup {"none"}
           /\ r.version \in Nat
           /\ r.age \in 0 .. LeaseTimeout + 1
           /\ r.diffs \in Nat
           /\ r.basis \in Nat
BY DEF Row

\* s has the status and the version a write to r gives, r's estimate,
\* reviewer and so on where the write does not name them.
Writes(s, r, to) == /\ s \in Row
                    /\ s.status = to
                    /\ s.version = r.version + 1

KeepsResult(s, r) == s.diffs = r.diffs /\ s.estimate = r.estimate

KeepsVerdict(s, r) == /\ s.reviewer = r.reviewer
                      /\ s.closedAt = r.closedAt
                      /\ s.basis = r.basis

\* Every conditional update sets the status, bumps the version and touches
\* updated_at, and by itself nothing else.
LEMMA WrittenRow ==
    ASSUME NEW r \in Row, NEW to \in CaseStatuses
    PROVE  /\ Writes(Written(r, to), r, to)
           /\ KeepsResult(Written(r, to), r)
           /\ KeepsVerdict(Written(r, to), r)
           /\ Written(r, to).error = r.error
<1>1. r.version + 1 \in Nat BY RowFields
<1>2. 0 \in 0 .. LeaseTimeout + 1 BY BoundsAssumption
<1> DEFINE next == r.version + 1
<1> HIDE DEF next
<1>3. [r EXCEPT !.status = to, !.version = next, !.age = 0] \in Row
  BY <1>1, <1>2 DEF Row, next
<1>4. Written(r, to) = [r EXCEPT !.status = to, !.version = next, !.age = 0]
  BY DEF Written, next
<1> QED BY <1>3, <1>4 DEF Row, Writes, KeepsResult, KeepsVerdict, next

\* Recovery leaves result and verdict alone and explains the draft.
LEMMA ExpiredRow ==
    ASSUME NEW r \in Row
    PROVE  /\ Writes(Expired(r), r, "draft")
           /\ KeepsResult(Expired(r), r)
           /\ KeepsVerdict(Expired(r), r)
           /\ Expired(r).error = "expired"
<1> DEFINE q == Written(r, "draft")
           s == Expired(r)
<1>1. q \in Row BY WrittenRow DEF CaseStatuses, Writes
<1>2. s = [q EXCEPT !.error = "expired"]
  BY DEF Expired
<1> HIDE DEF q, s
<1>3. s \in Row BY <1>1, <1>2 DEF Row
<1>4. /\ s.status = q.status /\ s.version = q.version
      /\ KeepsResult(s, q)
      /\ KeepsVerdict(s, q)
      /\ s.error = "expired"
  BY <1>1, <1>2 DEF Row, KeepsResult, KeepsVerdict
<1> QED BY <1>3, <1>4, WrittenRow
        DEF s, q, CaseStatuses, Writes, KeepsResult, KeepsVerdict

\* The start of an analysis clears the error.
LEMMA StartedRow ==
    ASSUME NEW r \in Row
    PROVE  /\ Writes(Started(r), r, "analyzing")
           /\ KeepsResult(Started(r), r)
           /\ KeepsVerdict(Started(r), r)
           /\ Started(r).error = "nil"
<1> DEFINE q == Written(r, "analyzing")
           s == Started(r)
<1>1. q \in Row BY WrittenRow DEF CaseStatuses, Writes
<1>2. s = [q EXCEPT !.error = "nil"]
  BY DEF Started
<1> HIDE DEF q, s
<1>3. s \in Row BY <1>1, <1>2 DEF Row
<1>4. /\ s.status = q.status /\ s.version = q.version
      /\ KeepsResult(s, q)
      /\ KeepsVerdict(s, q)
      /\ s.error = "nil"
  BY <1>1, <1>2 DEF Row, KeepsResult, KeepsVerdict
<1> QED BY <1>3, <1>4, WrittenRow
        DEF s, q, CaseStatuses, Writes, KeepsResult, KeepsVerdict

\* A failed analysis stores its error and nothing else.
LEMMA FailedRow ==
    ASSUME NEW r \in Row
    PROVE  /\ Writes(Failed(r), r, "draft")
           /\ KeepsResult(Failed(r), r)
           /\ KeepsVerdict(Failed(r), r)
           /\ Failed(r).error = "failed"
<1> DEFINE q == Written(r, "draft")
           s == Failed(r)
<1>1. q \in Row BY WrittenRow DEF CaseStatuses, Writes
<1>2. s = [q EXCEPT !.error = "failed"]
  BY DEF Failed
<1> HIDE DEF q, s
<1>3. s \in Row BY <1>1, <1>2 DEF Row
<1>4. /\ s.status = q.status /\ s.version = q.version
      /\ KeepsResult(s, q)
      /\ KeepsVerdict(s, q)
      /\ s.error = "failed"
  BY <1>1, <1>2 DEF Row, KeepsResult, KeepsVerdict
<1> QED BY <1>3, <1>4, WrittenRow
        DEF s, q, CaseStatuses, Writes, KeepsResult, KeepsVerdict

\* A finished analysis stores its result and leaves the verdict alone.
LEMMA CompletedRow ==
    ASSUME NEW r \in Row, NEW lease \in Nat, NEW found \in BOOLEAN
    PROVE  /\ Writes(Completed(r, lease, found), r, "pending_review")
           /\ KeepsVerdict(Completed(r, lease, found), r)
           /\ Completed(r, lease, found).diffs = lease
           /\ Completed(r, lease, found).estimate \in {"algorithm", r.estimate}
           /\ Completed(r, lease, found).error = "nil"
<1> DEFINE q == Written(r, "pending_review")
           s == Completed(r, lease, found)
<1>1. q \in Row BY WrittenRow DEF CaseStatuses, Writes
<1>2. s = [q EXCEPT !.diffs = lease, !.error = "nil",
                        !.estimate = IF found THEN "algorithm" ELSE q.estimate]
  BY DEF Completed
<1> HIDE DEF q, s
<1>3. s \in Row BY <1>1, <1>2 DEF Row
<1>4. /\ s.status = q.status /\ s.version = q.version
      /\ KeepsVerdict(s, q)
      /\ s.diffs = lease
      /\ s.estimate \in {"algorithm", q.estimate}
      /\ s.error = "nil"
  BY <1>1, <1>2 DEF Row, KeepsResult, KeepsVerdict
<1> QED BY <1>3, <1>4, WrittenRow
        DEF s, q, CaseStatuses, Writes, KeepsResult, KeepsVerdict

\* A confirmation stores the verdict and leaves the result alone.
LEMMA ConfirmedRow ==
    ASSUME NEW r \in Row, NEW w \in Actors, view[w].diffs \in Nat
    PROVE  /\ Writes(Confirmed(r, w), r, "confirmed")
           /\ Confirmed(r, w).diffs = r.diffs
           /\ Confirmed(r, w).estimate = "reviewer"
           /\ Confirmed(r, w).error = r.error
           /\ Confirmed(r, w).reviewer = w
           /\ Confirmed(r, w).closedAt = r.closedAt
           /\ Confirmed(r, w).basis = view[w].diffs
<1> DEFINE q == Written(r, "confirmed")
           s == Confirmed(r, w)
<1>1. q \in Row BY WrittenRow DEF CaseStatuses, Writes
<1>2. s = [q EXCEPT !.estimate = "reviewer", !.reviewer = w,
                        !.basis = view[w].diffs]
  BY DEF Confirmed
<1> HIDE DEF q, s
<1>3. s \in Row BY <1>1, <1>2 DEF Row
<1>4. /\ s.status = q.status /\ s.version = q.version
      /\ s.diffs = q.diffs
      /\ s.estimate = "reviewer"
      /\ s.error = q.error
      /\ s.reviewer = w
      /\ s.closedAt = q.closedAt
      /\ s.basis = view[w].diffs
  BY <1>1, <1>2 DEF Row, KeepsResult, KeepsVerdict
<1> QED BY <1>3, <1>4, WrittenRow
        DEF s, q, CaseStatuses, Writes, KeepsResult, KeepsVerdict

\* Closing changes neither result nor verdict.
LEMMA ClosedRow ==
    ASSUME NEW r \in Row
    PROVE  /\ Writes(Closed(r), r, "closed")
           /\ KeepsResult(Closed(r), r)
           /\ Closed(r).error = r.error
           /\ Closed(r).reviewer = r.reviewer
           /\ Closed(r).closedAt = "now"
           /\ Closed(r).basis = r.basis
<1> DEFINE q == Written(r, "closed")
           s == Closed(r)
<1>1. q \in Row BY WrittenRow DEF CaseStatuses, Writes
<1>2. s = [q EXCEPT !.closedAt = "now"]
  BY DEF Closed
<1> HIDE DEF q, s
<1>3. s \in Row BY <1>1, <1>2 DEF Row
<1>4. /\ s.status = q.status /\ s.version = q.version
      /\ KeepsResult(s, q)
      /\ s.error = q.error
      /\ s.reviewer = q.reviewer
      /\ s.closedAt = "now"
      /\ s.basis = q.basis
  BY <1>1, <1>2 DEF Row, KeepsResult, KeepsVerdict
<1> QED BY <1>3, <1>4, WrittenRow
        DEF s, q, CaseStatuses, Writes, KeepsResult, KeepsVerdict

-----------------------------------------------------------------------------
(* The inductive invariant.  The three facts a reader cares about do not   *)
(* stand alone: that an audit entry records the truth, and that a reviewer *)
(* confirmed what was on screen, hold because an earlier read that still   *)
(* has the version of the row also has its contents (ReadsAreOld).         *)

IndInv == /\ TypeOK
          /\ ReadsAreOld
          /\ RowConsistent
          /\ AuditReplay
          /\ ConfirmedWhatWasSeen

\* What every transaction of the service does to the row r of its case: it
\* writes s together with the audit entry e.
GoodWrite(r, s, e) ==
    /\ e \in Entry
    /\ Writes(s, r, StatusAfter[e.action])
    /\ IF r.version = 0
       THEN e.action = "created"
       ELSE /\ CanTransition(r.status, s.status)
            /\ e.before \in {"unrecorded", r.status}
            /\ e.beforeVersion \in {0, r.version}
    /\ Consistent(s)
    /\ IF s.status = "pending_review"
       THEN r.diffs = 0 /\ s.diffs \in 1 .. MaxVersion
       ELSE s.diffs = r.diffs
    /\ IF s.status = "confirmed"
       THEN /\ r.diffs # 0
            /\ r.reviewer = NoActor
            /\ s.reviewer \in Actors
            /\ Role[s.reviewer] \in ReviewRoles
       ELSE s.reviewer = r.reviewer
    /\ s.status \in {"confirmed", "closed"} => s.basis = s.diffs
    /\ r.status = "confirmed" => s = Closed(r)

\* Every other step leaves the log alone and lets running leases age.
SameButAge(s, r) == /\ s \in Row
                    /\ s.status = r.status
                    /\ s.version = r.version
                    /\ s.error = r.error
                    /\ KeepsResult(s, r)
                    /\ KeepsVerdict(s, r)

QuietStep == /\ log' = log
             /\ row' \in [Cases -> Row]
             /\ \A c \in Cases : \/ row'[c] = row[c]
                                 \/ /\ row[c].status = "analyzing"
                                    /\ SameButAge(row'[c], row[c])

WriteStep == \E c \in Cases : \E s \in Row, e \in Entry :
                 Commit(c, s, e) /\ GoodWrite(row[c], s, e)

\* A row that exists has a version, and the other way round.
LEMMA ExistsVersion ==
    ASSUME TypeOK, AuditReplay, NEW c \in Cases
    PROVE  /\ row[c] \in Row
           /\ row[c].version \in Nat
           /\ row[c].status = "none" <=> row[c].version = 0
<1>1. row[c] \in Row BY DEF TypeOK
<1>2. row[c].version \in Nat BY <1>1, RowFields
<1>3. log[c] \in Seq(Entry) BY DEF TypeOK
<1>4. Replays(log[c], row[c]) BY DEF AuditReplay
<1>5. ASSUME row[c].version # 0 PROVE row[c].status # "none"
  <2>1. row[c].version \in 1 .. Len(log[c]) BY <1>2, <1>4, <1>5 DEF Replays
  <2> DEFINE entry == log[c][row[c].version]
  <2>2. entry \in Entry BY <1>3, <2>1
  <2>3. entry.action \in DOMAIN StatusAfter
    <3> HIDE DEF entry
    <3> QED BY <2>2 DEF Entry
  <2>4. row[c].status = StatusAfter[entry.action]
    BY <1>4, <1>5 DEF Replays
  <2> QED BY <2>3, <2>4 DEF StatusAfter
<1> QED BY <1>1, <1>2, <1>4, <1>5 DEF Replays

\* The names of the audit actions.
LEMMA Actions == DOMAIN StatusAfter = {"created", "started", "recovered",
                    "failed", "completed", "confirmed", "closed"}
BY DEF StatusAfter

\* Create inserts a good first row.
LEMMA CreateWrites ==
    ASSUME IndInv, NEW w \in Actors, NEW c \in Cases, Create(w, c)
    PROVE  WriteStep
<1> DEFINE s == Written(NoRow, "draft")
           e == audit("created", "unrecorded", 0)
<1>1. NoRow \in Row BY BoundsAssumption DEF NoRow, Row
<1>2. /\ row[c].version = 0 /\ row[c] \in Row
  BY ExistsVersion DEF IndInv, Create
<1>3. e \in Entry /\ StatusAfter[e.action] = "draft"
  BY DEF audit, Entry, StatusAfter, CaseStatuses
<1>4. /\ Writes(s, NoRow, "draft") /\ KeepsResult(s, NoRow)
      /\ KeepsVerdict(s, NoRow) /\ s.error = NoRow.error
  BY <1>1, WrittenRow DEF CaseStatuses
<1>5. Consistent(row[c]) /\ row[c].status = "none"
  BY DEF IndInv, RowConsistent, Create
<1>6. Consistent(s)
  <2>1. s.status = "draft" /\ s.version = 1 BY <1>4 DEF Writes, NoRow
  <2>2. /\ s.error = "nil" /\ s.diffs = 0 /\ s.estimate = "nil"
        /\ s.reviewer = NoActor /\ s.closedAt = "nil"
    BY <1>4 DEF KeepsResult, KeepsVerdict, NoRow
  <2> HIDE DEF s
  <2> QED BY <2>1, <2>2 DEF Consistent
<1>7. s.diffs = row[c].diffs /\ s.reviewer = row[c].reviewer
  BY <1>4, <1>5 DEF KeepsResult, KeepsVerdict, NoRow, Consistent
<1>8. Writes(s, row[c], "draft") BY <1>2, <1>4 DEF Writes, NoRow
<1>9. e.action = "created" BY DEF audit
<1>10. s \in Row BY <1>4 DEF Writes
<1>11. s.status = "draft" BY <1>4 DEF Writes
<1> HIDE DEF s, e
<1>12. GoodWrite(row[c], s, e)
  BY <1>2, <1>3, <1>5, <1>6, <1>7, <1>8, <1>9, <1>11 DEF GoodWrite
<1>13. Commit(c, s, e) BY DEF Create, s, e
<1> QED BY <1>3, <1>10, <1>12, <1>13 DEF WriteStep

\* The case an active request works on, and the row it finds there.
LEMMA RequestCase ==
    ASSUME IndInv, NEW w \in Actors, req[w].pc # "idle"
    PROVE  /\ req[w].case \in Cases
           /\ row[req[w].case] \in Row
           /\ row[req[w].case].version \in Nat
           /\ Consistent(row[req[w].case])
           /\ row[req[w].case].status = "none" <=> row[req[w].case].version = 0
           /\ req[w].item.version \in Nat
           /\ req[w].item.status \in CaseStatuses \cup {"none"}
<1>1. req[w] \in Request BY DEF IndInv, TypeOK
<1>2. req[w].case \in Cases
  BY <1>1 DEF IndInv, ReadsAreOld, RequestIsOld, Request
<1>3. req[w].item \in Item BY <1>1 DEF Request
<1>4. /\ req[w].item.version \in Nat
      /\ req[w].item.status \in CaseStatuses \cup {"none"} BY <1>3 DEF Item
<1> QED BY <1>2, <1>4, ExistsVersion DEF IndInv, RowConsistent

\* Recovery and a failed run return a case that was in analysis to draft.
LEMMA RecoverWrites ==
    ASSUME IndInv, NEW w \in Actors, AnalyzeRecover(w),
           RecoverMatches(row[req[w].case])
    PROVE  WriteStep
<1> DEFINE r == row[req[w].case]
           s == Expired(r)
           e == audit("recovered", "analyzing", 0)
<1>1. /\ req[w].case \in Cases /\ r \in Row /\ r.version \in Nat
      /\ Consistent(r) /\ (r.status = "none" <=> r.version = 0)
  BY RequestCase DEF AnalyzeRecover, At
<1>2. r.status = "analyzing" BY DEF RecoverMatches
<1>3. /\ Writes(s, r, "draft") /\ KeepsResult(s, r) /\ KeepsVerdict(s, r)
      /\ s.error = "expired" BY <1>1, ExpiredRow
<1>4. e \in Entry BY DEF audit, Entry, StatusAfter, CaseStatuses
<1>5. /\ e.action = "recovered" /\ e.before = "analyzing" /\ e.beforeVersion = 0
  BY DEF audit
<1>6. Commit(req[w].case, s, e) BY DEF AnalyzeRecover, RecoverMatches
<1> HIDE DEF s, e, r
<1>7. Consistent(s)
  BY <1>1, <1>2, <1>3 DEF Consistent, Writes, KeepsResult, KeepsVerdict
<1>8. GoodWrite(r, s, e)
  BY <1>1, <1>2, <1>3, <1>4, <1>5, <1>7
  DEF GoodWrite, Writes, KeepsResult, KeepsVerdict, StatusAfter,
      CanTransition, transitions, CaseStatuses
<1> QED BY <1>1, <1>3, <1>4, <1>6, <1>8 DEF WriteStep, Writes, r

\* The start of an analysis moves a draft to analyzing.
LEMMA StartWrites ==
    ASSUME IndInv, NEW w \in Actors, AnalyzeStart(w),
           TransitionMatches(row[req[w].case], req[w].item.version, "draft"),
           row[req[w].case].version < MaxVersion
    PROVE  WriteStep
<1> DEFINE r == row[req[w].case]
           s == Started(r)
           e == audit("started", req[w].item.status, 0)
<1>1. /\ req[w].case \in Cases /\ r \in Row /\ r.version \in Nat
      /\ Consistent(r) /\ (r.status = "none" <=> r.version = 0)
  BY RequestCase DEF AnalyzeStart, At
<1>2. r.status = "draft" BY DEF TransitionMatches
<1>3. /\ Writes(s, r, "analyzing") /\ KeepsResult(s, r) /\ KeepsVerdict(s, r)
      /\ s.error = "nil" BY <1>1, StartedRow
<1>4. req[w].item.status = "draft"
  BY DEF IndInv, ReadsAreOld, RequestIsOld, AnalyzeStart, At
<1>5. e \in Entry BY <1>4 DEF audit, Entry, StatusAfter, CaseStatuses
<1>6. /\ e.action = "started" /\ e.before = "draft" /\ e.beforeVersion = 0
  BY <1>4 DEF audit
<1>7. Commit(req[w].case, s, e) BY DEF AnalyzeStart, TransitionMatches
<1> HIDE DEF s, e, r
<1>8. Consistent(s)
  BY <1>1, <1>2, <1>3 DEF Consistent, Writes, KeepsResult, KeepsVerdict
<1>9. GoodWrite(r, s, e)
  BY <1>1, <1>2, <1>3, <1>5, <1>6, <1>8
  DEF GoodWrite, Writes, KeepsResult, KeepsVerdict, StatusAfter,
      CanTransition, transitions, CaseStatuses
<1> QED BY <1>1, <1>3, <1>5, <1>7, <1>9 DEF WriteStep, Writes, r

\* A failed run returns a case that is in analysis to draft.
LEMMA FailWrites ==
    ASSUME IndInv, NEW w \in Actors, AnalyzeFail(w),
           SaveAnalysisMatches(row[req[w].case])
    PROVE  WriteStep
<1> DEFINE r == row[req[w].case]
           s == Failed(r)
           e == audit("failed", "unrecorded", 0)
<1>1. /\ req[w].case \in Cases /\ r \in Row /\ r.version \in Nat
      /\ Consistent(r) /\ (r.status = "none" <=> r.version = 0)
  BY RequestCase DEF AnalyzeFail, At
<1>2. r.status = "analyzing" BY DEF SaveAnalysisMatches
<1>3. /\ Writes(s, r, "draft") /\ KeepsResult(s, r) /\ KeepsVerdict(s, r)
      /\ s.error = "failed" BY <1>1, FailedRow
<1>4. e \in Entry BY DEF audit, Entry, StatusAfter, CaseStatuses
<1>5. /\ e.action = "failed" /\ e.before = "unrecorded" /\ e.beforeVersion = 0
  BY DEF audit
<1>6. Commit(req[w].case, s, e) BY DEF AnalyzeFail, SaveAnalysisMatches
<1> HIDE DEF s, e, r
<1>7. Consistent(s)
  BY <1>1, <1>2, <1>3 DEF Consistent, Writes, KeepsResult, KeepsVerdict
<1>8. GoodWrite(r, s, e)
  BY <1>1, <1>2, <1>3, <1>4, <1>5, <1>7
  DEF GoodWrite, Writes, KeepsResult, KeepsVerdict, StatusAfter,
      CanTransition, transitions, CaseStatuses
<1> QED BY <1>1, <1>3, <1>4, <1>6, <1>8 DEF WriteStep, Writes, r

\* A finished run gives the case its first and only result.
LEMMA SaveWrites ==
    ASSUME IndInv, NEW w \in Actors, AnalyzeSave(w),
           SaveAnalysisMatches(row[req[w].case])
    PROVE  WriteStep
<1> DEFINE r == row[req[w].case]
           lease == req[w].item.version
           e == audit("completed", "unrecorded", 0)
<1>1. /\ req[w].case \in Cases /\ r \in Row /\ r.version \in Nat
      /\ Consistent(r) /\ (r.status = "none" <=> r.version = 0)
  BY RequestCase DEF AnalyzeSave, At
<1>2. r.status = "analyzing" BY DEF SaveAnalysisMatches
<1>3. lease \in 1 .. MaxVersion
  BY DEF IndInv, ReadsAreOld, RequestIsOld, AnalyzeSave, At
<1>4. PICK found \in BOOLEAN : Commit(req[w].case, Completed(r, lease, found), e)
  BY DEF AnalyzeSave, SaveAnalysisMatches
<1> DEFINE s == Completed(r, lease, found)
<1>5. /\ Writes(s, r, "pending_review") /\ KeepsVerdict(s, r)
      /\ s.diffs = lease /\ s.estimate \in {"algorithm", r.estimate}
      /\ s.error = "nil"
  BY <1>1, <1>3, CompletedRow
<1>6. e \in Entry BY DEF audit, Entry, StatusAfter, CaseStatuses
<1>7. /\ e.action = "completed" /\ e.before = "unrecorded" /\ e.beforeVersion = 0
  BY DEF audit
<1>8. Commit(req[w].case, s, e) BY <1>4
<1> HIDE DEF s, e, r, lease
<1>9. Consistent(s)
  BY <1>1, <1>2, <1>3, <1>5 DEF Consistent, Writes, KeepsVerdict
<1>10. r.diffs = 0 BY <1>1, <1>2 DEF Consistent
<1>11. GoodWrite(r, s, e)
  BY <1>1, <1>2, <1>3, <1>5, <1>6, <1>7, <1>9, <1>10
  DEF GoodWrite, Writes, KeepsVerdict, StatusAfter,
      CanTransition, transitions, CaseStatuses
<1> QED BY <1>1, <1>5, <1>6, <1>8, <1>11 DEF WriteStep, Writes, r

\* A confirmation that matches finds the row its handler and its client read.
LEMMA ConfirmWrites ==
    ASSUME IndInv, NEW w \in Actors, ConfirmTx(w),
           TransitionMatches(row[req[w].case], view[w].version, "pending_review")
    PROVE  WriteStep
<1> DEFINE r == row[req[w].case]
           item == req[w].item
           s == Confirmed(r, w)
           e == audit("confirmed", item.status, item.version)
<1>1. /\ req[w].case \in Cases /\ r \in Row /\ r.version \in Nat
      /\ Consistent(r) /\ (r.status = "none" <=> r.version = 0)
      /\ item.version \in Nat
  BY RequestCase DEF ConfirmTx, At
<1>2. r.status = "pending_review" /\ r.version = view[w].version
  BY DEF TransitionMatches
<1>3. view[w] \in View BY DEF IndInv, TypeOK
<1>4. view[w].diffs \in Nat BY <1>3 DEF View
<1>5. /\ Writes(s, r, "confirmed") /\ s.diffs = r.diffs
      /\ s.estimate = "reviewer" /\ s.error = r.error /\ s.reviewer = w
      /\ s.closedAt = r.closedAt /\ s.basis = view[w].diffs
  BY <1>1, <1>4, ConfirmedRow
<1>6. /\ view[w].version <= item.version /\ item.version <= r.version
      /\ item.version = r.version => item.status = r.status
      /\ Role[w] \in ReviewRoles
      /\ view[w].version = r.version => view[w].diffs = r.diffs
  BY <1>1 DEF IndInv, ReadsAreOld, RequestIsOld, ViewIsOld, ConfirmTx, At
<1>7. item.version = r.version /\ item.status = r.status
  BY <1>1, <1>2, <1>6
<1>8. e \in Entry BY <1>1, <1>2, <1>7 DEF audit, Entry, StatusAfter, CaseStatuses
<1>9. /\ e.action = "confirmed" /\ e.before = r.status
      /\ e.beforeVersion = r.version
  BY <1>7 DEF audit
<1>10. Commit(req[w].case, s, e) BY DEF ConfirmTx
<1>11. w # NoActor BY ActorsAssumption
<1> HIDE DEF s, e, r, item
<1>12. Consistent(s)
  BY <1>1, <1>2, <1>5, <1>11 DEF Consistent, Writes
<1>13. r.diffs # 0 /\ r.reviewer = NoActor BY <1>1, <1>2 DEF Consistent
<1>14. GoodWrite(r, s, e)
  BY <1>1, <1>2, <1>5, <1>6, <1>8, <1>9, <1>12, <1>13
  DEF GoodWrite, Writes, StatusAfter, CanTransition, transitions, CaseStatuses
<1> QED BY <1>1, <1>5, <1>8, <1>10, <1>14 DEF WriteStep, Writes, r

\* So does a closing.
LEMMA CloseWrites ==
    ASSUME IndInv, NEW w \in Actors, CloseTx(w),
           TransitionMatches(row[req[w].case], view[w].version, "confirmed")
    PROVE  WriteStep
<1> DEFINE r == row[req[w].case]
           item == req[w].item
           s == Closed(r)
           e == audit("closed", item.status, item.version)
<1>1. /\ req[w].case \in Cases /\ r \in Row /\ r.version \in Nat
      /\ Consistent(r) /\ (r.status = "none" <=> r.version = 0)
      /\ item.version \in Nat
  BY RequestCase DEF CloseTx, At
<1>2. r.status = "confirmed" /\ r.version = view[w].version
  BY DEF TransitionMatches
<1>3. /\ Writes(s, r, "closed") /\ KeepsResult(s, r) /\ s.error = r.error
      /\ s.reviewer = r.reviewer /\ s.closedAt = "now" /\ s.basis = r.basis
  BY <1>1, ClosedRow
<1>4. /\ view[w].version <= item.version /\ item.version <= r.version
      /\ item.version = r.version => item.status = r.status
  BY <1>1 DEF IndInv, ReadsAreOld, RequestIsOld, CloseTx, At
<1>5. item.version = r.version /\ item.status = r.status
  BY <1>1, <1>2, <1>4
<1>6. e \in Entry BY <1>1, <1>2, <1>5 DEF audit, Entry, StatusAfter, CaseStatuses
<1>7. /\ e.action = "closed" /\ e.before = r.status
      /\ e.beforeVersion = r.version
  BY <1>5 DEF audit
<1>8. Commit(req[w].case, s, e) BY DEF CloseTx
<1>9. r.basis = r.diffs BY <1>1, <1>2 DEF IndInv, ConfirmedWhatWasSeen
<1>10. s = Closed(r) OBVIOUS
<1> HIDE DEF s, e, r, item
<1>11. Consistent(s)
  BY <1>1, <1>2, <1>3 DEF Consistent, Writes, KeepsResult
<1>12. GoodWrite(r, s, e)
  BY <1>1, <1>2, <1>3, <1>6, <1>7, <1>9, <1>10, <1>11
  DEF GoodWrite, Writes, KeepsResult, StatusAfter,
      CanTransition, transitions, CaseStatuses
<1> QED BY <1>1, <1>3, <1>6, <1>8, <1>12 DEF WriteStep, Writes, r

-----------------------------------------------------------------------------
(* Every step is a good write to one case or leaves the cases alone. *)

LEMMA Unchanged ==
    ASSUME TypeOK, UNCHANGED <<row, log>>
    PROVE  QuietStep
BY DEF TypeOK, QuietStep

LEMMA TickIsQuiet ==
    ASSUME TypeOK, Tick
    PROVE  QuietStep
<1>1. log' = log BY DEF Tick
<1>2. ASSUME NEW c \in Cases
      PROVE  /\ row'[c] \in Row
             /\ \/ row'[c] = row[c]
                \/ row[c].status = "analyzing" /\ SameButAge(row'[c], row[c])
  <2>1. row[c] \in Row BY DEF TypeOK
  <2>2. CASE ~ Ticking(c) BY <2>1, <2>2 DEF Tick
  <2>3. CASE Ticking(c)
    <3>1. row'[c] = [row[c] EXCEPT !.age = @ + 1] BY <2>3 DEF Tick
    <3>2. row[c].age \in 0 .. LeaseTimeout BY <2>1, <2>3, RowFields DEF Ticking
    <3>3. row[c].age + 1 \in 0 .. LeaseTimeout + 1 BY <3>2, BoundsAssumption
    <3> DEFINE older == row[c].age + 1
    <3> HIDE DEF older
    <3>4. row'[c] = [row[c] EXCEPT !.age = older] BY <3>1 DEF older
    <3>5. row'[c] \in Row /\ SameButAge(row'[c], row[c])
      BY <2>1, <3>3, <3>4 DEF Row, SameButAge, KeepsResult, KeepsVerdict, older
    <3> QED BY <2>3, <3>5 DEF Ticking
  <2> QED BY <2>2, <2>3
<1>3. row' \in [Cases -> Row] BY <1>2 DEF Tick
<1> QED BY <1>1, <1>2, <1>3 DEF QuietStep

LEMMA StepKinds ==
    ASSUME IndInv, [Next]_vars
    PROVE  WriteStep \/ QuietStep
<1> USE DEF IndInv
<1>1. ASSUME NEW w \in Actors, NEW c \in Cases, Create(w, c) PROVE WriteStep
  BY <1>1, CreateWrites
<1>2. ASSUME NEW w \in Actors, AnalyzeRecover(w) PROVE WriteStep \/ QuietStep
  BY <1>2, RecoverWrites, Unchanged DEF AnalyzeRecover
<1>3. ASSUME NEW w \in Actors, AnalyzeStart(w) PROVE WriteStep \/ QuietStep
  BY <1>3, StartWrites, Unchanged DEF AnalyzeStart
<1>4. ASSUME NEW w \in Actors, AnalyzeFail(w) PROVE WriteStep \/ QuietStep
  BY <1>4, FailWrites, Unchanged DEF AnalyzeFail
<1>5. ASSUME NEW w \in Actors, AnalyzeSave(w) PROVE WriteStep \/ QuietStep
  BY <1>5, SaveWrites, Unchanged DEF AnalyzeSave
<1>6. ASSUME NEW w \in Actors, ConfirmTx(w) PROVE WriteStep \/ QuietStep
  BY <1>6, ConfirmWrites, Unchanged DEF ConfirmTx
<1>7. ASSUME NEW w \in Actors, CloseTx(w) PROVE WriteStep \/ QuietStep
  BY <1>7, CloseWrites, Unchanged DEF CloseTx
<1>8. CASE Tick BY <1>8, TickIsQuiet
<1>9. CASE UNCHANGED vars BY <1>9, Unchanged DEF vars
<1>10. ASSUME NEW w \in Actors, NEW c \in Cases, Get(w, c) \/ AnalyzeGet(w, c)
       PROVE  QuietStep
  BY <1>10, Unchanged DEF Get, AnalyzeGet
<1>11. ASSUME NEW w \in Actors,
              \/ ConfirmGet(w) \/ CloseGet(w) \/ AnalyzeReload(w)
              \/ AnalyzeCompare(w) \/ Reply(w) \/ Abandon(w)
       PROVE  QuietStep
  BY <1>11, Unchanged
  DEF ConfirmGet, CloseGet, AnalyzeReload, AnalyzeCompare, Reply, Abandon
<1> QED
  BY <1>1, <1>2, <1>3, <1>4, <1>5, <1>6, <1>7, <1>8, <1>9, <1>10, <1>11
  DEF Next, HandlerStep

-----------------------------------------------------------------------------
(* A good write keeps the invariants of the cases. *)

\* The log with one more entry still replays to the row.
LEMMA AppendReplays ==
    ASSUME NEW r \in Row, NEW s \in Row, NEW e \in Entry,
           NEW entries \in Seq(Entry),
           Replays(entries, r), GoodWrite(r, s, e)
    PROVE  Replays(Append(entries, e), s)
<1> DEFINE n == Len(entries)
           longer == Append(entries, e)
<1>1. n \in Nat /\ r.version = n BY DEF Replays
<1>2. /\ longer \in Seq(Entry) /\ Len(longer) = n + 1 /\ longer[n + 1] = e
      /\ \A i \in 1 .. n : longer[i] = entries[i]
  OBVIOUS
<1>3. s.version = n + 1 /\ s.status = StatusAfter[e.action]
  BY <1>1 DEF GoodWrite, Writes
<1> HIDE DEF n, longer
<1>4. ASSUME NEW i \in 1 .. n PROVE LegalEntry(longer, i)
  <2>1. LegalEntry(entries, i) BY DEF Replays, n
  <2>2. longer[i] = entries[i] BY <1>2
  <2>3. i # 1 => longer[i - 1] = entries[i - 1] BY <1>1, <1>2
  <2> QED BY <2>1, <2>2, <2>3 DEF LegalEntry
<1>5. LegalEntry(longer, n + 1)
  <2>1. CASE n = 0
    <3>1. e.action = "created" BY <1>1, <2>1 DEF GoodWrite
    <3> QED BY <1>2, <2>1, <3>1 DEF LegalEntry
  <2>2. CASE n # 0
    <3>1. /\ CanTransition(r.status, s.status)
          /\ e.before \in {"unrecorded", r.status}
          /\ e.beforeVersion \in {0, n}
      BY <1>1, <2>2 DEF GoodWrite
    <3>2. r.status = StatusAfter[entries[n].action]
      BY <1>1, <2>2 DEF Replays
    <3>3. longer[n] = entries[n] BY <1>1, <1>2, <2>2
    <3>4. n + 1 # 1 /\ (n + 1) - 1 = n BY <1>1, <2>2
    <3> QED BY <1>2, <1>3, <3>1, <3>2, <3>3, <3>4 DEF LegalEntry
  <2> QED BY <2>1, <2>2
<1>6. \A i \in 1 .. n + 1 : LegalEntry(longer, i)
  BY <1>1, <1>4, <1>5
<1>7. s.status = StatusAfter[longer[s.version].action] /\ s.version # 0
  BY <1>1, <1>2, <1>3
<1> QED BY <1>2, <1>3, <1>6, <1>7 DEF Replays, longer

\* Aging changes nothing the invariants of the cases speak of.
LEMMA AgeReplays ==
    ASSUME NEW r, NEW s, NEW entries, Replays(entries, r), SameButAge(s, r)
    PROVE  Replays(entries, s)
BY DEF Replays, SameButAge

LEMMA AgeConsistent ==
    ASSUME NEW r, NEW s, Consistent(r), SameButAge(s, r)
    PROVE  Consistent(s)
BY DEF Consistent, SameButAge, KeepsResult, KeepsVerdict

LEMMA CasesStep ==
    ASSUME IndInv, [Next]_vars
    PROVE  /\ row' \in [Cases -> Row]
           /\ log' \in [Cases -> Seq(Entry)]
           /\ RowConsistent'
           /\ AuditReplay'
           /\ ConfirmedWhatWasSeen'
<1> USE DEF IndInv, TypeOK
<1>1. CASE QuietStep
  <2>1. row' \in [Cases -> Row] /\ log' \in [Cases -> Seq(Entry)]
    BY <1>1 DEF QuietStep
  <2>2. ASSUME NEW c \in Cases
        PROVE  /\ Consistent(row'[c]) /\ Replays(log'[c], row'[c])
               /\ row'[c].status \in {"confirmed", "closed"}
                     => row'[c].basis = row'[c].diffs
    <3>1. /\ Consistent(row[c]) /\ Replays(log[c], row[c])
          /\ row[c].status \in {"confirmed", "closed"}
                => row[c].basis = row[c].diffs
      BY DEF RowConsistent, AuditReplay, ConfirmedWhatWasSeen
    <3>2. log'[c] = log[c] BY <1>1 DEF QuietStep
    <3>3. CASE row'[c] = row[c] BY <3>1, <3>2, <3>3
    <3>4. CASE SameButAge(row'[c], row[c])
      <4>1. Consistent(row'[c]) BY <3>1, <3>4, AgeConsistent
      <4>2. Replays(log'[c], row'[c]) BY <3>1, <3>2, <3>4, AgeReplays
      <4> QED BY <3>1, <3>4, <4>1, <4>2
              DEF SameButAge, KeepsResult, KeepsVerdict
    <3> QED BY <1>1, <3>3, <3>4 DEF QuietStep
  <2> QED BY <2>1, <2>2 DEF RowConsistent, AuditReplay, ConfirmedWhatWasSeen
<1>2. CASE WriteStep
  <2>1. PICK c0 \in Cases : \E s \in Row, e \in Entry :
                Commit(c0, s, e) /\ GoodWrite(row[c0], s, e)
    BY <1>2 DEF WriteStep
  <2>2. PICK s \in Row, e \in Entry : Commit(c0, s, e) /\ GoodWrite(row[c0], s, e)
    BY <2>1
  <2>3. row' \in [Cases -> Row] /\ log' \in [Cases -> Seq(Entry)]
    BY <2>2 DEF Commit
  <2>4. row'[c0] = s /\ log'[c0] = Append(log[c0], e) BY <2>2 DEF Commit
  <2>5. \A c \in Cases \ {c0} : row'[c] = row[c] /\ log'[c] = log[c]
    BY <2>2 DEF Commit
  <2>6. /\ Consistent(row'[c0])
        /\ row'[c0].status \in {"confirmed", "closed"}
              => row'[c0].basis = row'[c0].diffs
    BY <2>2, <2>4 DEF GoodWrite
  <2>7. Replays(log'[c0], row'[c0])
    <3>1. Replays(log[c0], row[c0]) BY DEF AuditReplay
    <3> QED BY <2>2, <2>4, <3>1, AppendReplays
  <2>8. ASSUME NEW c \in Cases
        PROVE  /\ Consistent(row'[c]) /\ Replays(log'[c], row'[c])
               /\ row'[c].status \in {"confirmed", "closed"}
                     => row'[c].basis = row'[c].diffs
    <3>1. CASE c = c0 BY <2>6, <2>7, <3>1
    <3>2. CASE c # c0
      BY <2>5, <3>2 DEF RowConsistent, AuditReplay, ConfirmedWhatWasSeen
    <3> QED BY <3>1, <3>2
  <2> QED BY <2>3, <2>8 DEF RowConsistent, AuditReplay, ConfirmedWhatWasSeen
<1> QED BY <1>1, <1>2, StepKinds

-----------------------------------------------------------------------------
(* What was read earlier stays old. *)

\* A row moves forward: a new version, or the same contents.
RowsGrow == \A c \in Cases :
                /\ row[c].version \in Nat /\ row'[c].version \in Nat
                /\ row[c].version <= row'[c].version
                /\ row'[c].version = row[c].version
                      => /\ row'[c].status = row[c].status
                         /\ row'[c].diffs = row[c].diffs

LEMMA Growth ==
    ASSUME IndInv, [Next]_vars
    PROVE  RowsGrow
<1> SUFFICES ASSUME NEW c \in Cases
             PROVE  /\ row[c].version \in Nat /\ row'[c].version \in Nat
                    /\ row[c].version <= row'[c].version
                    /\ row'[c].version = row[c].version
                          => /\ row'[c].status = row[c].status
                             /\ row'[c].diffs = row[c].diffs
  BY DEF RowsGrow
<1>1. row[c].version \in Nat /\ row[c] \in Row BY ExistsVersion DEF IndInv
<1>2. CASE QuietStep
  BY <1>1, <1>2 DEF QuietStep, SameButAge, KeepsResult
<1>3. CASE WriteStep
  <2>1. PICK c0 \in Cases : \E s \in Row, e \in Entry :
                Commit(c0, s, e) /\ GoodWrite(row[c0], s, e)
    BY <1>3 DEF WriteStep
  <2>2. PICK s \in Row, e \in Entry : Commit(c0, s, e) /\ GoodWrite(row[c0], s, e)
    BY <2>1
  <2>3. row'[c] = IF c = c0 THEN s ELSE row[c]
    BY <2>2 DEF Commit, IndInv, TypeOK
  <2>4. s.version = row[c0].version + 1 BY <2>2 DEF GoodWrite, Writes
  <2> QED BY <1>1, <2>3, <2>4
<1> QED BY <1>2, <1>3, StepKinds

ActorOK(w) == /\ req[w] \in Request
              /\ view[w] \in View
              /\ ViewIsOld(w)
              /\ RequestIsOld(w)

\* A view and a request that a step does not touch stay old.
LEMMA ViewKept ==
    ASSUME IndInv, RowsGrow, NEW w \in Actors, view'[w] = view[w]
    PROVE  view'[w] \in View /\ ViewIsOld(w)'
<1>1. view[w] \in View /\ ViewIsOld(w) BY DEF IndInv, TypeOK, ReadsAreOld
<1>2. view[w].version \in Nat /\ view[w].case \in Cases \cup {NoCase}
  BY <1>1 DEF View
<1> QED BY <1>1, <1>2 DEF ViewIsOld, RowsGrow

LEMMA ActorKept ==
    ASSUME IndInv, RowsGrow, NEW w \in Actors,
           view'[w] = view[w], req'[w] = req[w]
    PROVE  ActorOK(w)'
<1>1. view'[w] \in View /\ ViewIsOld(w)' BY ViewKept
<1>2. req[w] \in Request /\ RequestIsOld(w)
  BY DEF IndInv, TypeOK, ReadsAreOld
<1>3. RequestIsOld(w)'
  <2>1. CASE req[w].pc = "idle" BY <1>2, <2>1 DEF RequestIsOld
  <2>2. CASE req[w].pc # "idle"
    <3>1. req[w].case \in Cases /\ req[w].item.version \in Nat
      BY <2>2, RequestCase
    <3> QED BY <1>2, <3>1 DEF RequestIsOld, RowsGrow
  <2> QED BY <2>1, <2>2
<1> QED BY <1>1, <1>2, <1>3 DEF ActorOK

\* A request that ends leaves nothing to go stale.
LEMMA ActorEnds ==
    ASSUME IndInv, RowsGrow, NEW w \in Actors,
           view'[w] = view[w], req'[w] = Idle
    PROVE  ActorOK(w)'
<1>1. view'[w] \in View /\ ViewIsOld(w)' BY ViewKept
<1>2. Idle \in Request BY DEF Idle, NoItem, Request, Item, Steps
<1>3. RequestIsOld(w)' BY DEF RequestIsOld, Idle
<1> QED BY <1>1, <1>2, <1>3 DEF ActorOK

\* A step that only has a case number to carry on.
LEMMA ActorGoesOn ==
    ASSUME IndInv, RowsGrow, NEW w \in Actors, NEW step,
           step \in {"recover", "reload", "reply"},
           view'[w] = view[w], req'[w].pc = step, req'[w].case \in Cases,
           req'[w] \in Request
    PROVE  ActorOK(w)'
<1>1. view'[w] \in View /\ ViewIsOld(w)' BY ViewKept
<1>2. req'[w].case # NoCase BY ActorsAssumption
<1>3. RequestIsOld(w)' BY <1>2 DEF RequestIsOld
<1> QED BY <1>1, <1>3 DEF ActorOK

\* The request a handler builds when it reads the row of a case.
LEMMA Served ==
    ASSUME IndInv, NEW w \in Actors, NEW c \in Cases, NEW step \in Steps,
           Serve(w, step, c)
    PROVE  /\ req'[w] \in Request
           /\ req'[w].pc = step
           /\ req'[w].case = c
           /\ req'[w].item.version = row[c].version
           /\ req'[w].item.status = row[c].status
<1>1. row[c] \in Row BY DEF IndInv, TypeOK
<1>2. row[c].version \in Nat /\ row[c].status \in CaseStatuses \cup {"none"}
  BY <1>1, RowFields
<1>3. ItemOf(c) \in Item BY <1>2 DEF ItemOf, Item
<1>4. req'[w] = [ pc |-> step, case |-> c, item |-> ItemOf(c) ]
  BY DEF Serve, IndInv, TypeOK
<1> QED BY <1>3, <1>4 DEF Request, ItemOf

-----------------------------------------------------------------------------
(* One action after another: a step of slot w touches only the request and *)
(* the view of w, and leaves them old.                                     *)

Local(w) == /\ \E q : req' = [req EXCEPT ![w] = q]
            /\ \E v : view' = [view EXCEPT ![w] = v]

\* A draft that was just read may be started; anything else is refused.
LEMMA StartOrRefuseOK ==
    ASSUME IndInv, RowsGrow, UNCHANGED <<row, view>>,
           NEW w \in Actors, NEW c \in Cases, StartOrRefuse(w, c)
    PROVE  Local(w) /\ ActorOK(w)'
<1>1. Local(w)
  BY DEF StartOrRefuse, Serve, Refuse, Local, IndInv, TypeOK
<1>2. CASE Serve(w, "start", c) /\ CanTransition(row[c].status, "analyzing")
  <2>1. /\ req'[w] \in Request /\ req'[w].pc = "start" /\ req'[w].case = c
        /\ req'[w].item.version = row[c].version
        /\ req'[w].item.status = row[c].status
    BY <1>2, Served DEF Steps
  <2>2. row[c].status = "draft"
    BY <1>2 DEF CanTransition, transitions, CaseStatuses
  <2>3. view'[w] \in View /\ ViewIsOld(w)' BY ViewKept
  <2>4. c # NoCase /\ row[c].version \in Nat BY ActorsAssumption DEF RowsGrow
  <2>5. RequestIsOld(w)' BY <2>1, <2>2, <2>4 DEF RequestIsOld
  <2> QED BY <1>1, <2>1, <2>3, <2>5 DEF ActorOK
<1>3. CASE Refuse(w)
  BY <1>1, <1>3, ActorEnds DEF Refuse, IndInv, TypeOK
<1> QED BY <1>1, <1>2, <1>3 DEF StartOrRefuse

LEMMA GetOK ==
    ASSUME IndInv, RowsGrow, NEW w \in Actors, NEW c \in Cases, Get(w, c)
    PROVE  Local(w) /\ ActorOK(w)'
<1>1. Local(w) BY DEF Get, Local, IndInv, TypeOK
<1>2. row[c] \in Row /\ row' = row BY DEF Get, IndInv, TypeOK
<1>3. view'[w] = ViewOf(c) BY DEF Get, IndInv, TypeOK
<1>4. view'[w] \in View /\ ViewIsOld(w)'
  BY <1>2, <1>3, RowFields DEF ViewOf, View, ViewIsOld
<1>5. req'[w] \in Request /\ req'[w].pc = "idle"
  BY DEF Get, At, IndInv, TypeOK
<1>6. RequestIsOld(w)' BY <1>5 DEF RequestIsOld
<1> QED BY <1>1, <1>4, <1>5, <1>6 DEF ActorOK

LEMMA AnalyzeGetOK ==
    ASSUME IndInv, RowsGrow, NEW w \in Actors, NEW c \in Cases, AnalyzeGet(w, c)
    PROVE  Local(w) /\ ActorOK(w)'
<1>1. UNCHANGED <<row, view>> BY DEF AnalyzeGet
<1>2. CASE Serve(w, "recover", c)
  <2>1. req'[w] \in Request /\ req'[w].pc = "recover" /\ req'[w].case = c
    BY <1>2, Served DEF Steps
  <2>2. Local(w) BY <1>1, <1>2 DEF Serve, Local, IndInv, TypeOK
  <2> QED BY <1>1, <2>1, <2>2, ActorGoesOn
<1>3. CASE StartOrRefuse(w, c) BY <1>1, <1>3, StartOrRefuseOK
<1> QED BY <1>2, <1>3 DEF AnalyzeGet

\* Steps that carry on with the same case.
LEMMA GotoOK ==
    ASSUME IndInv, RowsGrow, NEW w \in Actors, NEW step,
           step \in {"reload", "reply"},
           req[w].pc # "idle", view' = view, Goto(w, step)
    PROVE  Local(w) /\ ActorOK(w)'
<1>1. req[w] \in Request /\ req \in [Actors -> Request]
  BY DEF IndInv, TypeOK
<1>2. req[w].case \in Cases BY RequestCase
<1>3. req'[w] = [req[w] EXCEPT !.pc = step] BY <1>1 DEF Goto
<1>4. req'[w] \in Request /\ req'[w].pc = step /\ req'[w].case \in Cases
  BY <1>1, <1>2, <1>3 DEF Request, Steps
<1>5. Local(w) BY <1>1 DEF Goto, Local, IndInv, TypeOK
<1> QED BY <1>4, <1>5, ActorGoesOn

\* Steps that answer.
LEMMA RefuseOK ==
    ASSUME IndInv, RowsGrow, NEW w \in Actors, view' = view, Refuse(w)
    PROVE  Local(w) /\ ActorOK(w)'
<1>1. Local(w) BY DEF Refuse, Local, IndInv, TypeOK
<1>2. req'[w] = Idle BY DEF Refuse, IndInv, TypeOK
<1> QED BY <1>1, <1>2, ActorEnds

LEMMA AnalyzeStartOK ==
    ASSUME IndInv, RowsGrow, NEW w \in Actors, AnalyzeStart(w)
    PROVE  Local(w) /\ ActorOK(w)'
<1> DEFINE lease == req[w].item.version + 1
           item == [ status |-> "analyzing", version |-> lease ]
<1>1. req[w] \in Request /\ req \in [Actors -> Request] /\ view' = view
  BY DEF IndInv, TypeOK, AnalyzeStart
<1>2. /\ req[w].case \in Cases /\ req[w].item.version \in Nat
      /\ row[req[w].case].version \in Nat
  BY RequestCase DEF AnalyzeStart, At
<1>3. CASE Refuse(w) BY <1>1, <1>3, RefuseOK
<1>4. CASE /\ TransitionMatches(row[req[w].case], req[w].item.version, "draft")
           /\ row[req[w].case].version < MaxVersion
           /\ req' = [req EXCEPT ![w].pc = "compare", ![w].item = item]
  <2>1. lease \in 1 .. MaxVersion
    BY <1>2, <1>4, BoundsAssumption DEF TransitionMatches
  <2>2. item \in Item /\ item.version = lease
    BY <2>1 DEF Item, CaseStatuses
  <2> HIDE DEF item, lease
  <2>3. req'[w] = [req[w] EXCEPT !.pc = "compare", !.item = item]
    BY <1>1, <1>4
  <2>4. /\ req'[w] \in Request /\ req'[w].pc = "compare"
        /\ req'[w].case = req[w].case /\ req'[w].item = item
    BY <1>1, <2>2, <2>3 DEF Request, Steps
  <2>5. RequestIsOld(w)'
    BY <1>2, <2>1, <2>2, <2>4, ActorsAssumption DEF RequestIsOld
  <2>6. view'[w] \in View /\ ViewIsOld(w)' BY <1>1, ViewKept
  <2>7. Local(w) BY <1>1, <1>4 DEF Local, IndInv, TypeOK
  <2> QED BY <2>4, <2>5, <2>6, <2>7 DEF ActorOK
<1> QED BY <1>3, <1>4 DEF AnalyzeStart

LEMMA AnalyzeCompareOK ==
    ASSUME IndInv, RowsGrow, NEW w \in Actors, AnalyzeCompare(w)
    PROVE  Local(w) /\ ActorOK(w)'
<1>1. req[w] \in Request /\ req \in [Actors -> Request] /\ view' = view
  BY DEF IndInv, TypeOK, AnalyzeCompare
<1>2. /\ req[w].pc = "compare" /\ req[w].case # NoCase
      /\ req[w].item.version \in 1 .. MaxVersion
  BY DEF AnalyzeCompare, At, IndInv, ReadsAreOld, RequestIsOld
<1>3. PICK outcome \in {"save", "fail"} : Goto(w, outcome)
  BY DEF AnalyzeCompare
<1>4. req'[w] = [req[w] EXCEPT !.pc = outcome] BY <1>1, <1>3 DEF Goto
<1>5. /\ req'[w] \in Request /\ req'[w].pc \in {"save", "fail"}
      /\ req'[w].case = req[w].case /\ req'[w].item = req[w].item
  BY <1>1, <1>4 DEF Request, Steps
<1>6. RequestIsOld(w)' BY <1>2, <1>5 DEF RequestIsOld
<1>7. view'[w] \in View /\ ViewIsOld(w)' BY <1>1, ViewKept
<1>8. Local(w) BY <1>1, <1>3 DEF Goto, Local, IndInv, TypeOK
<1> QED BY <1>5, <1>6, <1>7, <1>8 DEF ActorOK

\* Confirm and Close read the row after their client did.
LEMMA ReviewGetOK ==
    ASSUME IndInv, RowsGrow, NEW w \in Actors, NEW step,
           step \in {"confirm", "close"}, UNCHANGED <<row, view>>,
           Role[w] \in ReviewRoles, view[w].case # NoCase,
           Serve(w, step, view[w].case)
    PROVE  Local(w) /\ ActorOK(w)'
<1> DEFINE c == view[w].case
<1>1. view[w] \in View BY DEF IndInv, TypeOK
<1>2. c \in Cases BY <1>1 DEF View
<1>3. view[w].version <= row[c].version
  BY DEF IndInv, ReadsAreOld, ViewIsOld
<1>4. /\ req'[w] \in Request /\ req'[w].pc = step /\ req'[w].case = c
      /\ req'[w].item.version = row[c].version
      /\ req'[w].item.status = row[c].status
  BY <1>2, Served DEF Steps
<1>5. row[c].version \in Nat BY <1>2 DEF RowsGrow
<1>6. view'[w] = view[w] OBVIOUS
<1>7. RequestIsOld(w)' BY <1>2, <1>3, <1>4, <1>5, <1>6 DEF RequestIsOld
<1>8. view'[w] \in View /\ ViewIsOld(w)' BY ViewKept
<1>9. Local(w) BY DEF Serve, Local, IndInv, TypeOK
<1> QED BY <1>4, <1>7, <1>8, <1>9 DEF ActorOK

LEMMA ReplyOK ==
    ASSUME IndInv, RowsGrow, NEW w \in Actors, Reply(w)
    PROVE  Local(w) /\ ActorOK(w)'
<1> DEFINE c == req[w].case
<1>1. c \in Cases /\ row[c] \in Row BY RequestCase DEF Reply, At
<1>2. view'[w] = ViewOf(c) /\ req'[w] = Idle /\ row' = row
  BY DEF Reply, IndInv, TypeOK
<1> HIDE DEF c
<1>3. view'[w] \in View /\ ViewIsOld(w)'
  BY <1>1, <1>2, RowFields DEF ViewOf, View, ViewIsOld
<1>4. Idle \in Request BY DEF Idle, NoItem, Request, Item, Steps
<1>5. RequestIsOld(w)' BY <1>2 DEF RequestIsOld, Idle
<1>6. Local(w) BY DEF Reply, Local, IndInv, TypeOK
<1> QED BY <1>2, <1>3, <1>4, <1>5, <1>6 DEF ActorOK

\* In every step one slot moves, and what it read is old afterwards too.
LEMMA ActorsStep ==
    ASSUME IndInv, [Next]_vars
    PROVE  /\ req' \in [Actors -> Request]
           /\ view' \in [Actors -> View]
           /\ ReadsAreOld'
<1>0. RowsGrow BY Growth
<1> DEFINE OneMoves == \E w \in Actors : Local(w) /\ ActorOK(w)'
<1>1. ASSUME NEW w \in Actors, NEW c \in Cases, Create(w, c)
      PROVE  UNCHANGED <<req, view>>
  BY <1>1 DEF Create
<1>2. ASSUME NEW w \in Actors, NEW c \in Cases, Get(w, c) \/ AnalyzeGet(w, c)
      PROVE  OneMoves
  BY <1>0, <1>2, GetOK, AnalyzeGetOK
<1>3. ASSUME NEW w \in Actors, ConfirmGet(w) \/ CloseGet(w) PROVE OneMoves
  <2>1. CASE ConfirmGet(w) BY <1>0, <2>1, ReviewGetOK DEF ConfirmGet
  <2>2. CASE CloseGet(w) BY <1>0, <2>2, ReviewGetOK DEF CloseGet
  <2> QED BY <1>3, <2>1, <2>2
<1>4. ASSUME NEW w \in Actors, AnalyzeRecover(w) PROVE OneMoves
  BY <1>0, <1>4, GotoOK, RefuseOK DEF AnalyzeRecover, At
<1>5. ASSUME NEW w \in Actors, AnalyzeReload(w) PROVE OneMoves
  <2>1. req[w].case \in Cases BY <1>5, RequestCase DEF AnalyzeReload, At
  <2> QED BY <1>0, <1>5, <2>1, StartOrRefuseOK DEF AnalyzeReload
<1>6. ASSUME NEW w \in Actors, AnalyzeStart(w) \/ AnalyzeCompare(w) \/ Reply(w)
      PROVE  OneMoves
  BY <1>0, <1>6, AnalyzeStartOK, AnalyzeCompareOK, ReplyOK
<1>7. ASSUME NEW w \in Actors, AnalyzeFail(w) PROVE OneMoves
  BY <1>0, <1>7, RefuseOK DEF AnalyzeFail
<1>8. ASSUME NEW w \in Actors, AnalyzeSave(w) PROVE OneMoves
  BY <1>0, <1>8, GotoOK, RefuseOK DEF AnalyzeSave, At
<1>9. ASSUME NEW w \in Actors, ConfirmTx(w) PROVE OneMoves
  BY <1>0, <1>9, GotoOK, RefuseOK DEF ConfirmTx, At
<1>10. ASSUME NEW w \in Actors, CloseTx(w) PROVE OneMoves
  BY <1>0, <1>10, GotoOK, RefuseOK DEF CloseTx, At
<1>11. ASSUME NEW w \in Actors, Abandon(w) PROVE OneMoves
  BY <1>0, <1>11, RefuseOK DEF Abandon
<1>12. OneMoves \/ UNCHANGED <<req, view>>
  <2>1. CASE Tick BY <2>1 DEF Tick
  <2>2. CASE UNCHANGED vars BY <2>2 DEF vars
  <2> HIDE DEF OneMoves
  <2> QED BY <1>1, <1>2, <1>3, <1>4, <1>5, <1>6, <1>7, <1>8, <1>9, <1>10,
             <1>11, <2>1, <2>2 DEF Next, HandlerStep
<1>13. \A w \in Actors : ActorOK(w)'
  <2>1. CASE UNCHANGED <<req, view>> BY <1>0, <2>1, ActorKept
  <2>2. CASE OneMoves
    <3>1. PICK w \in Actors : Local(w) /\ ActorOK(w)' BY <2>2
    <3>2. ASSUME NEW u \in Actors, u # w PROVE ActorOK(u)'
      <4>1. req'[u] = req[u] /\ view'[u] = view[u]
        BY <3>1, <3>2 DEF Local, IndInv, TypeOK
      <4> QED BY <1>0, <4>1, ActorKept
    <3> QED BY <3>1, <3>2
  <2> QED BY <1>12, <2>1, <2>2
<1>14. /\ \E f : req' = [w \in Actors |-> f[w]]
       /\ \E f : view' = [w \in Actors |-> f[w]]
  <2>1. CASE UNCHANGED <<req, view>> BY <2>1 DEF IndInv, TypeOK
  <2>2. CASE OneMoves BY <2>2 DEF Local, IndInv, TypeOK
  <2> QED BY <1>12, <2>1, <2>2
<1> QED BY <1>13, <1>14 DEF ActorOK, ReadsAreOld

-----------------------------------------------------------------------------
(* Theorems. *)

LEMMA IndInvInit == Init => IndInv
<1> SUFFICES ASSUME Init PROVE IndInv OBVIOUS
<1>1. NoRow \in Row BY BoundsAssumption DEF NoRow, Row
<1>2. Idle \in Request /\ NoView \in View
  BY DEF Idle, NoItem, Request, Item, Steps, NoView, View
<1>3. TypeOK BY <1>1, <1>2, BoundsAssumption DEF Init, TypeOK
<1>4. ReadsAreOld
  BY DEF Init, ReadsAreOld, ViewIsOld, RequestIsOld, NoView, Idle
<1>5. RowConsistent BY DEF Init, RowConsistent, Consistent, NoRow
<1>6. AuditReplay BY DEF Init, AuditReplay, Replays, NoRow
<1>7. ConfirmedWhatWasSeen BY DEF Init, ConfirmedWhatWasSeen, NoRow
<1> QED BY <1>3, <1>4, <1>5, <1>6, <1>7 DEF IndInv

LEMMA IndInvStep == IndInv /\ [Next]_vars => IndInv'
<1> SUFFICES ASSUME IndInv, [Next]_vars PROVE IndInv' OBVIOUS
<1>1. faults' \in 0 .. MaxFaults
  <2>1. faults \in 0 .. MaxFaults BY DEF IndInv, TypeOK
  <2>2. faults' = faults \/ (faults < MaxFaults /\ faults' = faults + 1)
    BY DEF Next, vars, Create, Get, AnalyzeGet, ConfirmGet, CloseGet, HandlerStep,
           AnalyzeRecover, AnalyzeReload, AnalyzeStart, AnalyzeCompare, AnalyzeFail,
           AnalyzeSave, ConfirmTx, CloseTx, Reply, Abandon, Tick
  <2> QED BY <2>1, <2>2, BoundsAssumption
<1> QED BY <1>1, CasesStep, ActorsStep DEF IndInv, TypeOK

LEMMA IndInvAlways == Spec => []IndInv
BY IndInvInit, IndInvStep, PTL DEF Spec

\* Every column, log entry, request and view keeps its type.
THEOREM TypeCorrect == Spec => []TypeOK
BY IndInvAlways, PTL DEF IndInv

\* The columns of a case always agree with its status.
THEOREM RowsConsistent == Spec => []RowConsistent
BY IndInvAlways, PTL DEF IndInv

\* The audit log of every case replays to its row and records the truth.
THEOREM AuditReplays == Spec => []AuditReplay
BY IndInvAlways, PTL DEF IndInv

\* A confirmation rests on what its reviewer had read.
THEOREM ConfirmationsInformed == Spec => []ConfirmedWhatWasSeen
BY IndInvAlways, PTL DEF IndInv

\* No read is newer than the row or, at the same version, different from it.
THEOREM ReadsStayOld == Spec => []ReadsAreOld
BY IndInvAlways, PTL DEF IndInv

\* Results are never replaced; a confirmed case changes only by being closed,
\* a closed one not at all.
THEOREM ConclusionsStay == Spec => ConclusionsKept
<1> DEFINE Kept(c) ==
        /\ row[c].diffs # 0 => row'[c].diffs = row[c].diffs
        /\ row[c].status = "confirmed" => row'[c] \in {row[c], Closed(row[c])}
        /\ row[c].status = "closed" => row'[c] = row[c]
<1>1. ASSUME IndInv, [Next]_vars, NEW c \in Cases PROVE Kept(c)
  <2>1. CASE QuietStep
    BY <1>1, <2>1 DEF QuietStep, SameButAge, KeepsResult
  <2>2. CASE WriteStep
    <3>1. PICK c0 \in Cases : \E s \in Row, e \in Entry :
                  Commit(c0, s, e) /\ GoodWrite(row[c0], s, e)
      BY <2>2 DEF WriteStep
    <3>2. PICK s \in Row, e \in Entry :
                  Commit(c0, s, e) /\ GoodWrite(row[c0], s, e)
      BY <3>1
    <3>3. row'[c] = IF c = c0 THEN s ELSE row[c]
      BY <1>1, <3>2 DEF Commit, IndInv, TypeOK
    <3>4. row[c0].status # "closed"
      BY <1>1, <3>2, ExistsVersion
      DEF IndInv, GoodWrite, CanTransition, transitions, CaseStatuses
    <3> QED BY <3>2, <3>3, <3>4 DEF GoodWrite
  <2> QED BY <1>1, <2>1, <2>2, StepKinds
<1>2. IndInv /\ [Next]_vars => [\A c \in Cases : Kept(c)]_vars
  BY <1>1
<1> QED BY <1>2, IndInvAlways, PTL DEF Spec, ConclusionsKept

-----------------------------------------------------------------------------
(* CaseLifecycle implements CaseWorkflow. *)

Trail(entries) == [i \in 1 .. Len(entries) |-> StatusAfter[entries[i].action]]

\* One more entry is one more stage of the trail.
LEMMA TrailAppend ==
    ASSUME NEW entries \in Seq(Entry), NEW e \in Entry
    PROVE  Trail(Append(entries, e)) = Append(Trail(entries), StatusAfter[e.action])
<1> DEFINE n == Len(entries)
           longer == Append(entries, e)
           t == Trail(entries)
           last == StatusAfter[e.action]
<1>1. /\ n \in Nat /\ Len(longer) = n + 1 /\ longer[n + 1] = e
      /\ \A i \in 1 .. n : longer[i] = entries[i]
  OBVIOUS
<1>2. t \in Seq({StatusAfter[entries[i].action] : i \in 1 .. n}) /\ Len(t) = n
  BY <1>1 DEF Trail
<1>3. Append(t, last) = [i \in 1 .. n + 1 |-> IF i = n + 1 THEN last ELSE t[i]]
  BY <1>1, <1>2
<1>4. Trail(longer) = [i \in 1 .. n + 1 |-> StatusAfter[longer[i].action]]
  BY <1>1 DEF Trail
<1>5. ASSUME NEW i \in 1 .. n + 1
      PROVE  StatusAfter[longer[i].action] = IF i = n + 1 THEN last ELSE t[i]
  BY <1>1 DEF Trail
<1> HIDE DEF n, longer, t, last
<1> QED BY <1>3, <1>4, <1>5 DEF longer, t, last

\* A good write is a move of the workflow.
LEMMA WriteMoves ==
    ASSUME IndInv, NEW c0 \in Cases, NEW s \in Row, NEW e \in Entry,
           Commit(c0, s, e), GoodWrite(row[c0], s, e)
    PROVE  W!Next
<1> DEFINE r == row[c0]
           stage == [c \in Cases |-> row[c].status]
           trail == [c \in Cases |-> Trail(log[c])]
           result == [c \in Cases |-> row[c].diffs]
           verdict == [c \in Cases |-> row[c].reviewer]
<1>1. /\ row' = [row EXCEPT ![c0] = s] /\ row \in [Cases -> Row]
      /\ log' = [log EXCEPT ![c0] = Append(@, e)] /\ log \in [Cases -> Seq(Entry)]
  BY DEF Commit, IndInv, TypeOK
<1>2. s.status = StatusAfter[e.action] /\ s.version = r.version + 1
  BY DEF GoodWrite, Writes
<1>3. stage' = [stage EXCEPT ![c0] = s.status] BY <1>1
<1>4. trail' = [trail EXCEPT ![c0] = Append(@, s.status)]
  <2>1. Trail(Append(log[c0], e)) = Append(Trail(log[c0]), s.status)
    BY <1>1, <1>2, TrailAppend
  <2> QED BY <1>1, <2>1
<1>5. W!MoveTo(c0, s.status) BY <1>3, <1>4 DEF W!MoveTo, Trail
<1>6. result' = [result EXCEPT ![c0] = s.diffs] BY <1>1
<1>7. verdict' = [verdict EXCEPT ![c0] = s.reviewer] BY <1>1
<1>8. r \in Row /\ r.version \in Nat /\ (r.status = "none" <=> r.version = 0)
  BY ExistsVersion DEF IndInv
<1>9. CASE r.version = 0
  <2>1. s.status = "draft" BY <1>2, <1>9 DEF GoodWrite, StatusAfter
  <2>2. UNCHANGED <<result, verdict>> BY <1>1, <2>1 DEF GoodWrite
  <2>3. W!Open(c0) BY <1>5, <1>8, <1>9, <2>1, <2>2 DEF W!Open
  <2> QED BY <2>3 DEF W!Next
<1>10. CASE r.version # 0 /\ s.status \in {"analyzing", "draft", "closed"}
  <2>1. CanTransition(r.status, s.status) BY <1>10 DEF GoodWrite
  <2>2. UNCHANGED <<result, verdict>> BY <1>1, <1>10 DEF GoodWrite
  <2>3. W!Move(c0, s.status)
    BY <1>5, <1>10, <2>1, <2>2
    DEF W!Move, CanTransition, W!CanTransition, transitions, W!transitions,
        CaseStatuses, W!CaseStatuses
  <2> QED BY <1>10, <2>3 DEF W!Next, W!CaseStatuses
<1>11. CASE r.version # 0 /\ s.status = "pending_review"
  <2>1. CanTransition(r.status, s.status) BY <1>11 DEF GoodWrite
  <2>2. r.diffs = 0 /\ s.diffs \in 1 .. MaxVersion /\ s.reviewer = r.reviewer
    BY <1>11 DEF GoodWrite
  <2>3. UNCHANGED verdict BY <1>1, <2>2
  <2>4. W!Conclude(c0, s.diffs)
    BY <1>5, <1>6, <1>11, <2>1, <2>2, <2>3
    DEF W!Conclude, CanTransition, W!CanTransition, transitions, W!transitions,
        CaseStatuses, W!CaseStatuses
  <2> QED BY <2>2, <2>4 DEF W!Next
<1>12. CASE r.version # 0 /\ s.status = "confirmed"
  <2>1. CanTransition(r.status, s.status) BY <1>12 DEF GoodWrite
  <2>2. /\ r.diffs # 0 /\ r.reviewer = NoActor /\ s.diffs = r.diffs
        /\ s.reviewer \in {w \in Actors : Role[w] \in ReviewRoles}
    BY <1>12 DEF GoodWrite
  <2>3. UNCHANGED result BY <1>1, <2>2
  <2>4. W!Confirm(c0, s.reviewer)
    BY <1>5, <1>7, <1>12, <2>1, <2>2, <2>3
    DEF W!Confirm, CanTransition, W!CanTransition, transitions, W!transitions,
        CaseStatuses, W!CaseStatuses
  <2> QED BY <2>2, <2>4 DEF W!Next
<1>13. s.status \in CaseStatuses
  BY <1>2 DEF Entry, StatusAfter, CaseStatuses
<1> QED BY <1>9, <1>10, <1>11, <1>12, <1>13 DEF CaseStatuses

\* The service implements the workflow.
THEOREM ImplementsWorkflow == Spec => Implements
<1>1. Init => W!Init
  BY DEF Init, W!Init, NoRow
<1>2. IndInv /\ [Next]_vars => [W!Next]_W!wvars
  <2> SUFFICES ASSUME IndInv, [Next]_vars PROVE [W!Next]_W!wvars OBVIOUS
  <2>1. CASE WriteStep
    <3>1. PICK c0 \in Cases : \E s \in Row, e \in Entry :
                  Commit(c0, s, e) /\ GoodWrite(row[c0], s, e)
      BY <2>1 DEF WriteStep
    <3> QED BY <3>1, WriteMoves
  <2>2. CASE QuietStep
    <3>1. \A c \in Cases : /\ row'[c].status = row[c].status
                           /\ row'[c].diffs = row[c].diffs
                           /\ row'[c].reviewer = row[c].reviewer
      BY <2>2 DEF QuietStep, SameButAge, KeepsResult, KeepsVerdict
    <3>2. log' = log BY <2>2 DEF QuietStep
    <3> QED BY <3>1, <3>2 DEF W!wvars
  <2> QED BY <2>1, <2>2, StepKinds
<1> QED BY <1>1, <1>2, IndInvAlways, PTL DEF Spec, Implements, W!Spec
=============================================================================
