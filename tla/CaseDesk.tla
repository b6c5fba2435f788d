------------------------------ MODULE CaseDesk ------------------------------
(***************************************************************************)
(* The page of the cases in the browsers of several users, over a server   *)
(* that is the CaseWorkflow which CaseLifecycle implements.                *)
(*                                                                         *)
(* A page shows what it last read.  Its calls take time, are answered in   *)
(* any order, and may be given up by the client while the server goes on   *)
(* with them, or be cut off at the server.  Users press the buttons the    *)
(* page offers for what it shows, which the server may have left behind.   *)
(***************************************************************************)
EXTENDS CaseConstants, Naturals, FiniteSets, SequencesExt

CONSTANTS Cases,      \* the cases, numbered by the database as they are created
          Users,      \* users, with one page each
          Role,       \* their roles
          Colleagues, \* reviewers of whose pages only the effects are modelled
          NoCase,     \* no case chosen
          NoReviewer, \* nobody confirmed the case
          PageSize,   \* how many rows the page asks for
          Filters,    \* bound: the filters of the list that are used
          MaxLists,   \* bound: lists that a page is waiting for
          MaxChanges, \* bound: calls that change something it is waiting for
          MaxFaults   \* bound: lost calls, failed or overdue runs, changes of
                      \* mind, and what colleagues do

ASSUME UsersAssumption == /\ Role \in [Users -> Roles]
                          /\ NoReviewer \notin Users \cup Colleagues
                          /\ NoCase \notin Cases
                          /\ Cases \subseteq Nat
                          /\ IsFiniteSet(Cases)
ASSUME ListAssumption == /\ PageSize \in Nat \ {0}
                         /\ Filters \subseteq CaseStatuses \cup {"any"}
ASSUME BoundsAssumption ==
    MaxLists \in Nat /\ MaxChanges \in Nat /\ MaxFaults \in Nat

VARIABLES stage, trail, result, verdict,  \* the server, as in CaseWorkflow
          overdue,  \* the cases whose analysis is older than its lease
          items,    \* the list every page shows
          dialog,   \* the dialog every page has open
          busy,     \* the flag that disables the buttons while a call runs
          calls,    \* the calls on their way
          told,     \* the cases every user was told to have confirmed
          faults    \* how much went wrong so far

server == <<stage, trail, result, verdict>>
page == <<items, dialog, busy, told>>
vars == <<stage, trail, result, verdict, overdue, items, dialog, busy, calls, told, faults>>

Server == INSTANCE CaseWorkflow WITH Results <- {"found"}, NoResult <- "none",
                                     Reviewers <- Users \cup Colleagues

-----------------------------------------------------------------------------
\* One entry for every move, so its length is the version of the row.
Version(c) == Len(trail[c])

\* A row, or what a call says of one; a list names its filter as the status.
Item == [ case : Cases \cup {NoCase}, status : CaseStatuses \cup {"any"}, version : Nat ]

NoItem == [ case |-> NoCase, status |-> "any", version |-> 0 ]

\* refused: the server refused, or never answered, what was submitted in it.
Dialog == [ kind : {"none", "review", "close"}, item : Item, refused : BOOLEAN ]

NoDialog == [ kind |-> "none", item |-> NoItem, refused |-> FALSE ]

\* The calls that set busy exclude each other; lists and closings do not.
Slots == {"work", "close", "list"}

\* lost is 0 while the client waits for the answer.
Call == [ user : Users, slot : Slots,
          op : {"list", "create", "analyze", "confirm", "close"}, item : Item,
          at : {"sent", "running", "moved", "answered"},
          ok : BOOLEAN, answer : Seq(Item), lost : 0 .. MaxFaults ]

TypeOK == /\ stage \in [Cases -> CaseStatuses \cup {"none"}]
          /\ trail \in [Cases -> Seq(CaseStatuses)]
          /\ result \in [Cases -> {"found", "none"}]
          /\ verdict \in [Cases -> Users \cup Colleagues \cup {NoReviewer}]
          /\ overdue \in SUBSET {c \in Cases : stage[c] = "analyzing"}
          /\ items \in [Users -> Seq(Item \ {NoItem})]
          /\ dialog \in [Users -> Dialog]
          /\ busy \in [Users -> BOOLEAN]
          /\ calls \in SUBSET Call
          /\ \A u \in Users : busy[u] <=> \E k \in calls :
                k.user = u /\ k.slot = "work" /\ k.lost = 0
          /\ told \in [Users \cup Colleagues -> SUBSET Cases]
          /\ faults \in 0 .. MaxFaults

Shown(u) == ToSet(items[u])

ItemOf(c) == [ case |-> c, status |-> stage[c], version |-> Version(c) ]

Waiting(u, slot) == {k \in calls : k.user = u /\ k.slot = slot /\ k.lost = 0}

Send(u, slot, op, item) ==
    /\ slot = "list" => Cardinality(Waiting(u, slot)) < MaxLists
    /\ slot # "list" =>
          /\ Waiting(u, slot) = {}
          /\ Cardinality(Waiting(u, "work") \cup Waiting(u, "close")) < MaxChanges
    /\ calls' = calls \cup
          {[ user |-> u, slot |-> slot, op |-> op, item |-> item,
             at |-> "sent", ok |-> FALSE, answer |-> <<>>, lost |-> 0 ]}

GoesWrong == faults < MaxFaults /\ faults' = faults + 1

Init == /\ Server!Init
        /\ overdue = {}
        /\ items = [u \in Users |-> <<>>]
        /\ dialog = [u \in Users |-> NoDialog]
        /\ busy = [u \in Users |-> FALSE]
        /\ calls = {}
        /\ told = [u \in Users \cup Colleagues |-> {}]
        /\ faults = 0

-----------------------------------------------------------------------------
(* What a user can do. *)

\* An open dialog covers the rest of the page.  Bound: pages are used as long
\* as some case is not closed.
Free(u) == /\ dialog[u] = NoDialog
           /\ \E c \in Cases : stage[c] # "closed"

Start_FlagForgotten(u, op, item) ==
    /\ ~ busy[u]
    /\ Send(u, "work", op, item)
    /\ UNCHANGED <<server, overdue, items, busy, told, faults>>

Start(u, op, item) == /\ ~ busy[u]
                      /\ busy' = [busy EXCEPT ![u] = TRUE]
                      /\ Send(u, "work", op, item)
                      /\ UNCHANGED <<server, overdue, items, told, faults>>

Show(u, d) == dialog' = [dialog EXCEPT ![u] = d]

\* The page is entered, or another filter is chosen.
Search(u, filter) == /\ Free(u)
                     /\ Send(u, "list", "list", [NoItem EXCEPT !.status = filter])
                     /\ UNCHANGED <<server, overdue, page, faults>>

Unused == {c \in Cases : stage[c] = "none"}

\* Bound: no more cases are created than there are numbers for.
Create(u) == /\ Free(u)
             /\ Role[u] \in AnalyzeRoles
             /\ Cardinality({k \in calls : k.op = "create" /\ k.at = "sent"})
                   < Cardinality(Unused)
             /\ Start(u, "create", NoItem)
             /\ UNCHANGED dialog

\* An analysis asks for a case, whatever its version.
Analyze(u) == /\ Free(u)
              /\ Role[u] \in AnalyzeRoles
              /\ \E item \in Shown(u) :
                    /\ item.status = "draft"
                    /\ Start(u, "analyze", [item EXCEPT !.version = 0])
              /\ UNCHANGED dialog

\* The row as it is shown now stays in the dialog, whatever is read later.
Open(u, kind, status) ==
    /\ Free(u)
    /\ Role[u] \in ReviewRoles
    /\ \E item \in Shown(u) :
          /\ item.status = status
          /\ Show(u, [ kind |-> kind, item |-> item, refused |-> FALSE ])
    /\ UNCHANGED <<server, overdue, items, busy, calls, told, faults>>

OpenReview(u) == Open(u, "review", "pending_review")

OpenClose(u) == Open(u, "close", "confirmed")

Submit(u) == /\ dialog[u].kind = "review"
             /\ Start(u, "confirm", dialog[u].item)
             /\ UNCHANGED dialog

AcceptClose(u) == /\ dialog[u].kind = "close"
                  /\ Send(u, "close", "close", dialog[u].item)
                  /\ Show(u, NoDialog)
                  /\ UNCHANGED <<server, overdue, items, busy, told, faults>>

\* A user gives up after a refusal, or otherwise changes his mind.
Cancel(u) == /\ dialog[u] # NoDialog
             /\ \/ dialog[u].refused /\ UNCHANGED faults
                \/ ~ dialog[u].refused /\ GoesWrong
             /\ Show(u, NoDialog)
             /\ UNCHANGED <<server, overdue, items, busy, calls, told>>

-----------------------------------------------------------------------------
(* The server.  It goes on with a call whether or not anybody still waits. *)

Reply(k, ok, answer) ==
    calls' = (calls \ {k}) \cup
        IF k.lost # 0 THEN {}
        ELSE {[k EXCEPT !.at = "answered", !.ok = ok, !.answer = answer]}

Refuse(k) == Reply(k, FALSE, <<>>) /\ UNCHANGED server

\* After its move a call reads the row again, if there is anybody to tell.
Done(k) == calls' = (calls \ {k}) \cup
               IF k.lost # 0 THEN {} ELSE {[k EXCEPT !.at = "moved"]}

\* The row may have moved on since.
Reread(k) == /\ k.at = "moved"
             /\ Reply(k, TRUE, <<ItemOf(k.item.case)>>)
             /\ UNCHANGED <<server, overdue, faults>>

Conflict(k) == Refuse(k) /\ UNCHANGED overdue

Listable(filter) == {c \in Cases : stage[c] # "none" /\ filter \in {"any", stage[c]}}

\* The page asks for the newest rows that pass the filter, and for no others.
FirstPage(filter) ==
    {c \in Listable(filter) : Cardinality({d \in Listable(filter) : d > c}) < PageSize}

\* Newest first.
HandleList(k) ==
    /\ k.op = "list"
    /\ \E rows \in SetToSeqs(FirstPage(k.item.status)) :
          /\ \A i, j \in 1 .. Len(rows) : i < j => rows[i] > rows[j]
          /\ Reply(k, TRUE, [i \in 1 .. Len(rows) |-> ItemOf(rows[i])])
    /\ UNCHANGED <<server, overdue>>

HandleCreate(k) ==
    /\ k.op = "create"
    /\ \E c \in Unused :
          /\ \A d \in Unused : c <= d
          /\ Server!Open(c)
          /\ Reply(k, TRUE, <<[ case |-> c, status |-> "draft", version |-> 1 ]>>)
    /\ UNCHANGED overdue

\* A draft is analyzed; a case in analysis only after its overdue run has been
\* ended, which makes it a draft before the same call goes on.
HandleAnalyze(k) ==
    LET c == k.item.case
    IN  /\ k.op = "analyze"
        /\ \/ /\ Server!Move(c, "analyzing")
              /\ calls' = (calls \ {k}) \cup {[k EXCEPT !.at = "running"]}
              /\ UNCHANGED overdue
           \/ /\ c \in overdue
              /\ Server!Move(c, "draft")
              /\ overdue' = overdue \ {c}
              /\ UNCHANGED calls
           \/ /\ stage[c] # "draft" /\ c \notin overdue
              /\ Conflict(k)

\* The end of a run, successful or not, meets the row in analysis or is too
\* late.
EndRun(k) ==
    LET c == k.item.case
    IN  /\ k.at = "running"
        /\ overdue' = overdue \ {c}
        /\ \/ /\ Server!Conclude(c, "found")
              /\ Done(k)
              /\ UNCHANGED faults
           \/ /\ Server!Move(c, "draft")
              /\ Reply(k, FALSE, <<>>)
              /\ GoesWrong
           \/ /\ stage[c] # "analyzing"
              /\ Refuse(k)
              /\ UNCHANGED faults

Matches(k, status) == LET c == k.item.case
                      IN  k.item.version = Version(c) /\ stage[c] = status

HandleConfirm_Again(k) ==
    LET c == k.item.case
    IN  /\ k.op = "confirm"
        /\ \/ /\ Matches(k, "pending_review")
              /\ Server!Confirm(c, k.user)
              /\ Done(k)
           \/ /\ stage[c] = "confirmed"
              /\ verdict' = [verdict EXCEPT ![c] = k.user]
              /\ UNCHANGED <<stage, trail, result>>
              /\ Done(k)
           \/ /\ ~ Matches(k, "pending_review") /\ stage[c] # "confirmed"
              /\ Refuse(k)
        /\ UNCHANGED overdue

HandleConfirm(k) ==
    /\ k.op = "confirm"
    /\ \/ /\ Matches(k, "pending_review")
          /\ Server!Confirm(k.item.case, k.user)
          /\ Done(k)
       \/ /\ ~ Matches(k, "pending_review")
          /\ Refuse(k)
    /\ UNCHANGED overdue

HandleClose(k) ==
    /\ k.op = "close"
    /\ \/ /\ Matches(k, "confirmed")
          /\ Server!Move(k.item.case, "closed")
          /\ Done(k)
       \/ /\ ~ Matches(k, "confirmed")
          /\ Refuse(k)
    /\ UNCHANGED overdue

Handle(k) == \/ /\ k.at = "sent"
                /\ \/ HandleList(k) \/ HandleCreate(k) \/ HandleAnalyze(k)
                   \/ HandleConfirm(k) \/ HandleClose(k)
                /\ UNCHANGED <<page, faults>>
             \/ (EndRun(k) \/ Reread(k)) /\ UNCHANGED page

\* A handler dies before the server answers; what it did stays done.  To a
\* list this is as if it were given up.
Die(k) == /\ k.at \in {"sent", "running", "moved"}
          /\ k.op # "list"
          /\ GoesWrong
          /\ Refuse(k)
          /\ UNCHANGED <<overdue, page>>

\* The lease of a run passes: when the run has died, or when it is late.
Expire(c) == /\ stage[c] = "analyzing"
             /\ c \notin overdue
             /\ \/ /\ \A k \in calls : k.at = "running" => k.item.case # c
                   /\ UNCHANGED faults
                \/ /\ \E k \in calls : k.at = "running" /\ k.item.case = c
                   /\ GoesWrong
             /\ overdue' = overdue \cup {c}
             /\ UNCHANGED <<server, page, calls>>

\* No page offers the analysis of a case in analysis.  Somebody asks for it
\* through the API, and that request gets no further than this.
AskAgain(c) == /\ c \in overdue
               /\ Server!Move(c, "draft")
               /\ overdue' = overdue \ {c}
               /\ UNCHANGED <<page, calls, faults>>

\* A request of a colleague: any move of the workflow.
Elsewhere(c) ==
    /\ GoesWrong
    /\ overdue' = overdue \ {c}
    /\ \/ /\ \/ \E s \in CaseStatuses : Server!Move(c, s)
             \/ Server!Conclude(c, "found")
          /\ UNCHANGED told
       \/ \E w \in Colleagues :
             /\ Server!Confirm(c, w)
             /\ told' = [told EXCEPT ![w] = @ \cup {c}]
    /\ UNCHANGED <<items, dialog, busy, calls>>

-----------------------------------------------------------------------------
(* The answers. *)

\* replace: the first row of the list that has the case, if there is one.
Replaced(list, item) ==
    LET i == SelectInSeq(list, LAMBDA shown : shown.case = item.case)
    IN  IF i = 0 THEN list ELSE [list EXCEPT ![i] = item]

ListAfter(list, k) == CASE k.op = "list"   -> k.answer
                        [] k.op = "create" -> k.answer \o list
                        [] OTHER           -> Replaced(list, k.answer[1])

BusyAfter_Answered(k) == busy[k.user] /\ ~ (k.slot = "work" /\ k.ok)

\* The finally of every handler that set the flag.
BusyAfter(k) == busy[k.user] /\ k.slot # "work"

\* A confirmation that succeeds closes the dialog, whichever case that shows
\* by now; after one that fails it stays as it is.
DialogAfter(k) ==
    LET d == dialog[k.user]
    IN  IF k.op # "confirm" \/ d.kind # "review" THEN d
        ELSE IF k.ok THEN NoDialog ELSE [d EXCEPT !.refused = TRUE]

Settle(k) ==
    /\ busy' = [busy EXCEPT ![k.user] = BusyAfter(k)]
    /\ Show(k.user, DialogAfter(k))
    /\ UNCHANGED <<server, overdue>>

Receive(k) ==
    /\ k.at = "answered"
    /\ calls' = calls \ {k}
    /\ items' = [items EXCEPT ![k.user] = IF k.ok THEN ListAfter(@, k) ELSE @]
    /\ told' = [told EXCEPT ![k.user] =
                   IF k.ok /\ k.op = "confirm" THEN @ \cup {k.item.case} ELSE @]
    /\ Settle(k)
    /\ UNCHANGED faults

\* The client waits no longer, or the answer is lost.  Nothing is left of a
\* list, which only reads.
GiveUp(k) ==
    /\ k.lost = 0
    /\ GoesWrong
    /\ calls' = (calls \ {k}) \cup
          IF k.op = "list" \/ k.at \in {"moved", "answered"} THEN {}
          ELSE {[k EXCEPT !.lost = faults + 1]}
    /\ Settle([k EXCEPT !.ok = FALSE])
    /\ UNCHANGED <<items, told>>

-----------------------------------------------------------------------------
\* The buttons that carry a case on.
Press(u) == \/ Analyze(u) \/ OpenReview(u) \/ OpenClose(u)
            \/ Submit(u) \/ AcceptClose(u)

Act(u) == \/ Create(u) \/ Press(u) \/ Cancel(u)
          \/ \E filter \in Filters : Search(u, filter)

Next == \/ \E u \in Users : Act(u)
        \/ \E k \in calls : Handle(k) \/ Receive(k) \/ Die(k) \/ GiveUp(k)
        \/ \E c \in Cases : Expire(c) \/ AskAgain(c) \/ Elsewhere(c)

Spec == Init /\ [][Next]_vars

\* The network and the server go on; users look through their filters again
\* and again, press what the page offers again and again, and leave a dialog
\* that was refused.  Nobody is bound to ask for anything no page offers.
Fairness ==
    /\ \A u \in Users, slot \in Slots :
          WF_vars(\E k \in Waiting(u, slot) : Handle(k) \/ Receive(k))
    /\ WF_vars(\E k \in calls : k.lost # 0 /\ Handle(k))
    /\ \A u \in Users :
          /\ \A filter \in Filters : SF_vars(Search(u, filter))
          /\ SF_vars(Press(u))
          /\ WF_vars(UNCHANGED faults /\ Cancel(u))

FairSpec == Spec /\ Fairness

-----------------------------------------------------------------------------
(* Properties. *)

\* Whoever was told that his conclusion is confirmed is the reviewer of the
\* case from then on, although other reviewers submitted the same case, calls
\* were repeated, and answers were lost or came late.
AcknowledgedKept ==
    \A u \in Users \cup Colleagues : \A c \in told[u] :
        verdict[c] = u /\ stage[c] \in {"confirmed", "closed"}

\* The run of the case, maybe that of a colleague, died, so that nobody goes on
\* with it.
Abandoned(c) == /\ stage[c] = "analyzing"
                /\ \A k \in calls : k.at = "running" => k.item.case # c

\* Every case that is created is closed in the end, and stays closed, unless
\* its run died: for such a case no page has a button.  Users know no more
\* than their pages show, however old that is and however few rows of the
\* list it holds; no lost call, refusal or late answer leaves a page, or a case
\* far down the list, without a button that works.  As long as faults come to
\* an end: a case whose traces have no events fails every analysis.
CasesGetClosed ==
    \A c \in Cases :
        <>[](stage[c] \in {"none", "closed"} \/ Abandoned(c))
=============================================================================
