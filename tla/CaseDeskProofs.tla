--------------------------- MODULE CaseDeskProofs ---------------------------
(***************************************************************************)
(* The safety properties of CaseDesk, proved for any number of cases,      *)
(* users and colleagues and for any number of faults.                      *)
(*                                                                         *)
(* Most of a page can be behind the server.  What cannot is kept by the    *)
(* inductive invariant: the flag that disables the buttons stands for the  *)
(* one call that is waited for (OneWaits), and a confirmation that is on   *)
(* its way back vouches for a verdict that no later move of the server     *)
(* takes away (Vouched).                                                   *)
(***************************************************************************)
EXTENDS CaseDesk, FiniteSetTheorems, WellFoundedInduction, TLAPS

\* A row of the table, as some answer had it.
Row == [ case : Cases, status : CaseStatuses, version : Nat ]

\* u confirmed c.
Holds(u, c) == verdict[c] = u /\ stage[c] \in {"confirmed", "closed"}

\* An answer to a confirmation, or what will become one.
Confirmed(k) == /\ k.op = "confirm"
                /\ k.at = "moved" \/ (k.at = "answered" /\ k.ok)

\* The calls that are not about one case.
Unnamed == {"list", "create"}

CallTyped(k) ==
    /\ k \in Call
    /\ k.answer \in Seq(Row)
    /\ k.op \notin Unnamed => k.item \in Row
    /\ k.at = "running" => k.op = "analyze"
    /\ k.at = "moved" => k.op \notin Unnamed
    /\ k.at \in {"moved", "answered"} => k.lost = 0
    /\ (k.at = "answered" /\ k.ok /\ k.op # "list") => k.answer # <<>>

Vouched == \A k \in calls : /\ Confirmed(k) => Holds(k.user, k.item.case)
                            /\ k.at = "moved" => stage[k.item.case] # "none"

ServerTyped == /\ stage \in [Cases -> CaseStatuses \cup {"none"}]
               /\ trail \in [Cases -> Seq(CaseStatuses)]
               /\ result \in [Cases -> {"found", "none"}]
               /\ verdict \in [Cases -> Users \cup Colleagues \cup {NoReviewer}]
               /\ overdue \in SUBSET {c \in Cases : stage[c] = "analyzing"}
               /\ faults \in 0 .. MaxFaults

PageTyped == /\ items \in [Users -> Seq(Row)]
             /\ dialog \in [Users -> Dialog]
             /\ \A u \in Users : dialog[u].kind # "none" => dialog[u].item \in Row
             /\ told \in [Users \cup Colleagues -> SUBSET Cases]

CallsTyped == \A k \in calls : CallTyped(k)

\* The calls a page waits for with its buttons disabled.
WaitsWith(k, u) == k.user = u /\ k.slot = "work" /\ k.lost = 0

\* There is at most one, and exactly while the flag is set.
OneWaits == /\ busy \in [Users -> BOOLEAN]
            /\ \A u \in Users : busy[u] <=> \E k \in calls : WaitsWith(k, u)
            /\ \A u \in Users : \A k, l \in calls :
                  WaitsWith(k, u) /\ WaitsWith(l, u) => k = l

Sound == ServerTyped /\ PageTyped /\ CallsTyped /\ OneWaits /\ Vouched /\ AcknowledgedKept

-----------------------------------------------------------------------------
(* The server. *)

\* Confirmed cases keep their reviewer, and no case disappears.
CasesKept ==
    \A c \in Cases :
        /\ stage[c] \in {"confirmed", "closed"}
              => verdict'[c] = verdict[c] /\ stage'[c] \in {"confirmed", "closed"}
        /\ stage[c] # "none" => stage'[c] # "none"

\* What a step may do to the server.
Moved == ServerTyped' /\ CasesKept

\* Holds(u, c) after the step.
HeldAfter(u, c) == verdict'[c] = u /\ stage'[c] \in {"confirmed", "closed"}

\* The part of it that does not depend on leases and faults.
Workflow == /\ stage' \in [Cases -> CaseStatuses \cup {"none"}]
            /\ trail' \in [Cases -> Seq(CaseStatuses)]
            /\ result' \in [Cases -> {"found", "none"}]
            /\ verdict' \in [Cases -> Users \cup Colleagues \cup {NoReviewer}]
            /\ CasesKept

LEMMA SameTable == \A s, t : Server!CanTransition(s, t) <=> CanTransition(s, t)
  BY DEF CanTransition, transitions, CaseStatuses, Server!CanTransition,
         Server!transitions, Server!CaseStatuses

LEMMA StatusTable ==
    ASSUME NEW s, NEW t, CanTransition(s, t)
    PROVE  /\ s \in CaseStatuses /\ t \in CaseStatuses
           /\ s = "draft" => t = "analyzing"
           /\ s = "pending_review" => t = "confirmed"
           /\ s = "confirmed" => t = "closed"
           /\ s # "closed"
           /\ t = "confirmed" => s = "pending_review"
           /\ t = "analyzing" => s = "draft"
  BY DEF CanTransition, transitions, CaseStatuses

\* Moves of the workflow keep the types, confirmed cases and other cases.
LEMMA MoveTyped ==
    ASSUME ServerTyped, NEW c \in Cases, NEW s \in CaseStatuses, Server!MoveTo(c, s)
    PROVE  /\ stage' \in [Cases -> CaseStatuses \cup {"none"}]
           /\ trail' \in [Cases -> Seq(CaseStatuses)]
           /\ stage'[c] = s
           /\ \A d \in Cases \ {c} : stage'[d] = stage[d]
           /\ stage'[c] # "none"
<1>1. stage' = [stage EXCEPT ![c] = s] /\ trail' = [trail EXCEPT ![c] = Append(@, s)]
  BY DEF Server!MoveTo
<1>2. Append(trail[c], s) \in Seq(CaseStatuses)
  BY DEF ServerTyped
<1>3. trail' \in [Cases -> Seq(CaseStatuses)]
  BY <1>1, <1>2 DEF ServerTyped
<1> QED BY <1>1, <1>3 DEF ServerTyped, CaseStatuses

\* Every action of the workflow, on case c.
ServerStep(c) == \/ Server!Open(c)
                 \/ \E s : Server!Move(c, s)
                 \/ Server!Conclude(c, "found")
                 \/ \E w \in Users \cup Colleagues : Server!Confirm(c, w)

LEMMA StepTyped ==
    ASSUME ServerTyped, NEW c \in Cases, ServerStep(c)
    PROVE  /\ Workflow /\ stage'[c] # "none"
           /\ \A d \in Cases \ {c} : stage'[d] = stage[d]
<1>1. CASE Server!Open(c)
  <2>1. stage[c] = "none" /\ Server!MoveTo(c, "draft") /\ UNCHANGED <<result, verdict>>
    BY <1>1 DEF Server!Open
  <2>2. "draft" \in CaseStatuses
    BY DEF CaseStatuses
  <2> QED BY <2>1, <2>2, MoveTyped DEF Workflow, CasesKept, ServerTyped, CaseStatuses
<1>2. ASSUME NEW s, Server!Move(c, s)
      PROVE  /\ Workflow /\ stage'[c] # "none"
             /\ \A d \in Cases \ {c} : stage'[d] = stage[d]
  <2>1. CanTransition(stage[c], s) /\ Server!MoveTo(c, s) /\ UNCHANGED <<result, verdict>>
    BY <1>2, SameTable DEF Server!Move
  <2>2. s \in CaseStatuses
    BY <2>1, StatusTable
  <2>3. /\ stage' \in [Cases -> CaseStatuses \cup {"none"}]
        /\ trail' \in [Cases -> Seq(CaseStatuses)]
        /\ stage'[c] = s /\ stage'[c] # "none"
        /\ \A d \in Cases \ {c} : stage'[d] = stage[d]
    BY <2>1, <2>2, MoveTyped
  <2>4. CasesKept
    BY <2>1, <2>3, StatusTable DEF CasesKept
  <2> QED BY <2>1, <2>3, <2>4 DEF Workflow, ServerTyped
<1>3. CASE Server!Conclude(c, "found")
  <2>1. /\ CanTransition(stage[c], "pending_review")
        /\ Server!MoveTo(c, "pending_review")
        /\ result' = [result EXCEPT ![c] = "found"] /\ verdict' = verdict
    BY <1>3, SameTable DEF Server!Conclude
  <2> QED BY <2>1, MoveTyped, StatusTable DEF Workflow, CasesKept, ServerTyped, CaseStatuses
<1>4. ASSUME NEW w \in Users \cup Colleagues, Server!Confirm(c, w)
      PROVE  /\ Workflow /\ stage'[c] # "none"
             /\ \A d \in Cases \ {c} : stage'[d] = stage[d]
  <2>1. /\ CanTransition(stage[c], "confirmed")
        /\ Server!MoveTo(c, "confirmed")
        /\ verdict' = [verdict EXCEPT ![c] = w] /\ result' = result
    BY <1>4, SameTable DEF Server!Confirm
  <2> QED BY <2>1, MoveTyped, StatusTable DEF Workflow, CasesKept, ServerTyped, CaseStatuses
<1> QED BY <1>1, <1>2, <1>3, <1>4 DEF ServerStep

\* A step on c that takes c off the overdue ones, or leaves those alone when c
\* is not in analysis.
LEMMA StepMoved ==
    ASSUME ServerTyped, NEW c \in Cases, ServerStep(c), faults' \in 0 .. MaxFaults,
           \/ overdue' = overdue \ {c}
           \/ overdue' = overdue /\ stage[c] # "analyzing"
    PROVE  Moved /\ stage'[c] # "none"
<1>1. Workflow /\ stage'[c] # "none" /\ \A d \in Cases \ {c} : stage'[d] = stage[d]
  BY StepTyped
<1>2. overdue' \in SUBSET {d \in Cases : stage'[d] = "analyzing"}
  BY <1>1 DEF ServerTyped
<1> QED BY <1>1, <1>2 DEF Moved, Workflow, ServerTyped

LEMMA IdleMoved ==
    ASSUME ServerTyped, UNCHANGED server, overdue' \subseteq overdue,
           faults' \in 0 .. MaxFaults
    PROVE  Moved
  BY DEF Moved, CasesKept, ServerTyped, server

LEMMA CountsFaults ==
    ASSUME ServerTyped
    PROVE  /\ GoesWrong => faults' \in 0 .. MaxFaults /\ faults + 1 \in 0 .. MaxFaults
           /\ faults \in 0 .. MaxFaults
  BY BoundsAssumption DEF ServerTyped, GoesWrong

\* What was confirmed stays so.
LEMMA HoldsKept ==
    ASSUME Moved, NEW u, NEW c \in Cases, Holds(u, c)
    PROVE  HeldAfter(u, c)
  BY DEF Moved, CasesKept, Holds, HeldAfter

LEMMA AcknowledgedStays ==
    ASSUME Moved, AcknowledgedKept, NEW t, t \in [Users \cup Colleagues -> SUBSET Cases],
           told' = t, PageTyped,
           \A u \in Users \cup Colleagues : \A c \in t[u] \ told[u] : HeldAfter(u, c)
    PROVE  AcknowledgedKept'
<1> SUFFICES ASSUME NEW u \in Users \cup Colleagues, NEW c \in t[u]
             PROVE  verdict'[c] = u /\ stage'[c] \in {"confirmed", "closed"}
  BY DEF AcknowledgedKept
<1>1. CASE c \in told[u]
  <2>1. Holds(u, c) /\ c \in Cases
    BY <1>1 DEF AcknowledgedKept, Holds, PageTyped
  <2> QED BY <2>1, HoldsKept DEF HeldAfter
<1>2. CASE c \notin told[u]
  BY <1>2 DEF HeldAfter
<1> QED BY <1>1, <1>2

-----------------------------------------------------------------------------
(* The calls. *)

\* n is k at another place, with another answer, or given up.
SameCall(n, k) == n.user = k.user /\ n.slot = k.slot /\ n.op = k.op /\ n.item = k.item

LEMMA CallFields ==
    ASSUME NEW k, CallTyped(k)
    PROVE  /\ k.user \in Users /\ k.slot \in Slots /\ k.item \in Item
           /\ k.op \in {"list", "create", "analyze", "confirm", "close"}
           /\ k.at \in {"sent", "running", "moved", "answered"}
           /\ k.ok \in BOOLEAN /\ k.answer \in Seq(Row) /\ k.lost \in 0 .. MaxFaults
           /\ k.op \notin Unnamed => k.item \in Row /\ k.item.case \in Cases
  BY DEF CallTyped, Call, Row

LEMMA RowsAreItems == Row \subseteq Item /\ NoItem \in Item /\ NoItem \notin Row
  BY UsersAssumption DEF Row, Item, NoItem, CaseStatuses

Replied(k, ok, a) == [k EXCEPT !.at = "answered", !.ok = ok, !.answer = a]

LEMMA RepliedTyped ==
    ASSUME NEW k, CallTyped(k), k.lost = 0, NEW ok \in BOOLEAN, NEW a \in Seq(Row),
           (ok /\ k.op # "list") => a # <<>>
    PROVE  /\ CallTyped(Replied(k, ok, a)) /\ SameCall(Replied(k, ok, a), k)
           /\ Replied(k, ok, a).lost = 0 /\ Replied(k, ok, a).at = "answered"
           /\ Replied(k, ok, a).ok = ok
<1> DEFINE n == Replied(k, ok, a)
<1>1. a \in Seq(Item)
  BY RowsAreItems
<1>2. /\ n \in Call /\ SameCall(n, k) /\ n.lost = 0
      /\ n.at = "answered" /\ n.ok = ok /\ n.answer = a
  BY <1>1 DEF CallTyped, Call, SameCall, Replied
<1> HIDE DEF n
<1>3. CallTyped(n)
  BY <1>2 DEF CallTyped, SameCall
<1> QED BY <1>2, <1>3 DEF n

LEMMA MovedTyped ==
    ASSUME NEW k, CallTyped(k), k.op \notin Unnamed, k.lost = 0,
           NEW n, n = [k EXCEPT !.at = "moved"]
    PROVE  CallTyped(n) /\ SameCall(n, k) /\ n.lost = k.lost /\ n.at = "moved"
<1>1. /\ n \in Call /\ SameCall(n, k) /\ n.lost = k.lost /\ n.answer = k.answer
      /\ n.at = "moved"
  BY DEF CallTyped, Call, SameCall
<1> QED BY <1>1 DEF CallTyped, SameCall

LEMMA RunningTyped ==
    ASSUME NEW k, CallTyped(k), k.op = "analyze", NEW n, n = [k EXCEPT !.at = "running"]
    PROVE  CallTyped(n) /\ SameCall(n, k) /\ n.lost = k.lost /\ n.at = "running"
<1>1. /\ n \in Call /\ SameCall(n, k) /\ n.lost = k.lost /\ n.answer = k.answer
      /\ n.at = "running"
  BY DEF CallTyped, Call, SameCall
<1> QED BY <1>1 DEF CallTyped, SameCall

LEMMA LostTyped ==
    ASSUME NEW k, CallTyped(k), k.at \notin {"moved", "answered"},
           NEW f, f \in 0 .. MaxFaults, NEW n, n = [k EXCEPT !.lost = f]
    PROVE  CallTyped(n) /\ SameCall(n, k) /\ n.lost = f /\ n.at = k.at
<1>1. /\ n \in Call /\ SameCall(n, k) /\ n.lost = f /\ n.answer = k.answer
      /\ n.at = k.at /\ n.ok = k.ok
  BY DEF CallTyped, Call, SameCall
<1> QED BY <1>1 DEF CallTyped, SameCall

LEMMA SentTyped ==
    ASSUME NEW u \in Users, NEW slot \in Slots,
           NEW op \in {"list", "create", "analyze", "confirm", "close"},
           NEW item \in Item, op \notin Unnamed => item \in Row,
           NEW n, n = [ user |-> u, slot |-> slot, op |-> op, item |-> item,
                        at |-> "sent", ok |-> FALSE, answer |-> <<>>, lost |-> 0 ]
    PROVE  CallTyped(n) /\ ~ Confirmed(n)
<1>1. n \in Call
  BY BoundsAssumption DEF Call
<1> QED BY <1>1 DEF CallTyped, Confirmed

\* What a call vouches for stays true.
LEMMA VouchedStays ==
    ASSUME Moved, CallsTyped, Vouched, NEW k \in calls
    PROVE  /\ Confirmed(k) => HeldAfter(k.user, k.item.case)
           /\ k.at = "moved" => stage'[k.item.case] # "none"
<1>1. ASSUME Confirmed(k) PROVE HeldAfter(k.user, k.item.case)
  <2>1. Holds(k.user, k.item.case) /\ k.item.case \in Cases
    BY <1>1, CallFields DEF Vouched, CallsTyped, Confirmed, Unnamed
  <2> QED BY <2>1, HoldsKept
<1>2. ASSUME k.at = "moved" PROVE stage'[k.item.case] # "none"
  <2>1. stage[k.item.case] # "none" /\ k.item.case \in Cases
    BY <1>2, CallFields DEF Vouched, CallsTyped, CallTyped
  <2> QED BY <2>1 DEF Moved, CasesKept
<1> QED BY <1>1, <1>2

LEMMA CallsDropped ==
    ASSUME Moved, CallsTyped, Vouched, calls' \subseteq calls
    PROVE  CallsTyped' /\ Vouched'
<1>1. Vouched'
  BY VouchedStays DEF Vouched, HeldAfter, Holds
<1> QED BY <1>1 DEF CallsTyped

\* The calls after a step, when the one that is new is sound.
LEMMA CallsJoined ==
    ASSUME Moved, CallsTyped, Vouched, NEW n, calls' \subseteq calls \cup {n},
           CallTyped(n), Confirmed(n) => HeldAfter(n.user, n.item.case),
           n.at = "moved" => stage'[n.item.case] # "none"
    PROVE  CallsTyped' /\ Vouched'
<1>1. Vouched'
  BY VouchedStays DEF Vouched, HeldAfter, Holds
<1> QED BY <1>1 DEF CallsTyped

\* A call that is waited for is replaced by one that is waited for.
LEMMA WaitsOn ==
    ASSUME OneWaits, NEW k \in calls, UNCHANGED busy,
           \/ k.lost # 0 /\ calls' = calls \ {k}
           \/ \E n : /\ calls' = (calls \ {k}) \cup {n}
                     /\ n.user = k.user /\ n.slot = k.slot /\ n.lost = k.lost
    PROVE  OneWaits'
<1>1. CASE k.lost # 0 /\ calls' = calls \ {k}
  BY <1>1 DEF OneWaits, WaitsWith
<1>2. ASSUME NEW n, calls' = (calls \ {k}) \cup {n},
             n.user = k.user, n.slot = k.slot, n.lost = k.lost
      PROVE  OneWaits'
  <2>1. \A u : WaitsWith(n, u) <=> WaitsWith(k, u)
    BY <1>2 DEF WaitsWith
  <2>2. ASSUME NEW u \in Users
        PROVE  /\ busy'[u] <=> \E l \in calls' : WaitsWith(l, u)
               /\ \A l, m \in calls' : WaitsWith(l, u) /\ WaitsWith(m, u) => l = m
    BY <1>2, <2>1 DEF OneWaits
  <2> QED BY <2>2 DEF OneWaits, WaitsWith
<1> QED BY <1>1, <1>2

LEMMA WaitsFor ==
    ASSUME OneWaits, NEW u \in Users, ~ busy[u], busy' = [busy EXCEPT ![u] = TRUE],
           NEW n, calls' = calls \cup {n}, WaitsWith(n, u)
    PROVE  OneWaits'
<1>1. \A v \in Users : WaitsWith(n, v) => v = u
  BY DEF WaitsWith
<1>2. ASSUME NEW v \in Users
      PROVE  /\ busy'[v] <=> \E l \in calls' : WaitsWith(l, v)
             /\ \A l, m \in calls' : WaitsWith(l, v) /\ WaitsWith(m, v) => l = m
  BY <1>1 DEF OneWaits
<1> QED BY <1>2 DEF OneWaits, WaitsWith

LEMMA WaitsNoMore ==
    ASSUME OneWaits, CallsTyped, NEW k \in calls, k.lost = 0,
           busy' = [busy EXCEPT ![k.user] = BusyAfter(k)],
           \/ calls' = calls \ {k}
           \/ \E n : n.lost # 0 /\ calls' = (calls \ {k}) \cup {n}
    PROVE  OneWaits'
<1>1. k.user \in Users
  BY CallFields DEF CallsTyped
<1>2. ASSUME NEW u \in Users, NEW l
      PROVE  l \in calls' /\ WaitsWith(l, u) <=> l \in calls \ {k} /\ WaitsWith(l, u)
  BY DEF WaitsWith
<1>3. ASSUME NEW u \in Users
      PROVE  busy'[u] = IF u = k.user THEN busy[u] /\ k.slot # "work" ELSE busy[u]
  BY <1>1 DEF OneWaits, BusyAfter
<1>4. ASSUME NEW u \in Users
      PROVE  busy'[u] <=> \E l \in calls' : WaitsWith(l, u)
  <2>1. WaitsWith(k, u) <=> u = k.user /\ k.slot = "work"
    BY DEF WaitsWith
  <2>2. /\ busy[u] <=> \E l \in calls : WaitsWith(l, u)
        /\ \A l, m \in calls : WaitsWith(l, u) /\ WaitsWith(m, u) => l = m
    BY DEF OneWaits
  <2>3. CASE u = k.user /\ k.slot = "work"
    BY <1>2, <1>3, <2>1, <2>2, <2>3
  <2>4. CASE ~ (u = k.user /\ k.slot = "work")
    <3>1. busy'[u] <=> busy[u]
      BY <1>3, <2>4 DEF OneWaits
    <3> QED BY <1>2, <2>1, <2>2, <2>4, <3>1
  <2> QED BY <2>3, <2>4
<1>5. busy' \in [Users -> BOOLEAN]
  BY <1>1 DEF OneWaits, BusyAfter
<1>6. ASSUME NEW u \in Users, NEW l \in calls', NEW m \in calls',
             WaitsWith(l, u), WaitsWith(m, u)
      PROVE  l = m
  BY <1>2, <1>6 DEF OneWaits
<1> QED BY <1>4, <1>5, <1>6 DEF OneWaits, WaitsWith

LEMMA WaitsElse ==
    ASSUME OneWaits, UNCHANGED busy, calls \subseteq calls',
           \A n \in calls' \ calls : n.slot # "work"
    PROVE  OneWaits'
<1>1. ASSUME NEW u \in Users, NEW l
      PROVE  l \in calls' /\ WaitsWith(l, u) <=> l \in calls /\ WaitsWith(l, u)
  BY DEF WaitsWith
<1>2. ASSUME NEW u \in Users
      PROVE  /\ busy'[u] <=> \E l \in calls' : WaitsWith(l, u)
             /\ \A l, m \in calls' : WaitsWith(l, u) /\ WaitsWith(m, u) => l = m
  BY <1>1 DEF OneWaits
<1> QED BY <1>2 DEF OneWaits, WaitsWith

-----------------------------------------------------------------------------
(* The handlers of the server. *)

\* A handler leaves the pages alone.
LEMMA PagesKept ==
    ASSUME Sound, Moved, UNCHANGED page
    PROVE  ServerTyped' /\ PageTyped' /\ AcknowledgedKept'
<1>1. UNCHANGED <<items, dialog, told>>
  BY DEF page
<1>2. PageTyped'
  BY <1>1 DEF Sound, PageTyped
<1>3. AcknowledgedKept'
  BY <1>1, AcknowledgedStays DEF Sound, PageTyped
<1> QED BY <1>2, <1>3 DEF Moved

LEMMA ReplySound ==
    ASSUME Sound, Moved, UNCHANGED page, NEW k \in calls,
           NEW ok \in BOOLEAN, NEW a \in Seq(Row), Reply(k, ok, a),
           (ok /\ k.op # "list") => a # <<>>,
           (ok /\ k.op = "confirm") => HeldAfter(k.user, k.item.case)
    PROVE  Sound'
<1> DEFINE n == Replied(k, ok, a)
<1>1. CallTyped(k) /\ busy' = busy
  BY DEF Sound, CallsTyped, page
<1>2. CASE k.lost # 0
  <2>1. calls' = calls \ {k}
    BY <1>2 DEF Reply
  <2>2. CallsTyped' /\ Vouched'
    <3>1. calls' \subseteq calls
      BY <2>1
    <3> QED BY <3>1, CallsDropped DEF Sound
  <2>3. OneWaits'
    BY <1>1, <1>2, <2>1, WaitsOn DEF Sound
  <2> QED BY <2>2, <2>3, PagesKept DEF Sound
<1>3. CASE k.lost = 0
  <2>1. calls' = (calls \ {k}) \cup {n}
    BY <1>3 DEF Reply, Replied
  <2>2. CallTyped(n) /\ SameCall(n, k) /\ n.lost = 0 /\ n.at = "answered" /\ n.ok = ok
    BY <1>1, <1>3, RepliedTyped
  <2> HIDE DEF n
  <2>3. Confirmed(n) => HeldAfter(n.user, n.item.case)
    BY <2>2 DEF Confirmed, SameCall
  <2>4. CallsTyped' /\ Vouched'
    <3>1. calls' \subseteq calls \cup {n}
      BY <2>1
    <3> QED BY <2>2, <2>3, <3>1, CallsJoined DEF Sound
  <2>5. OneWaits'
    BY <1>1, <1>3, <2>1, <2>2, WaitsOn DEF Sound, SameCall
  <2> QED BY <2>4, <2>5, PagesKept DEF Sound
<1>4. k.lost \in Nat
  BY <1>1, CallFields, BoundsAssumption
<1> QED BY <1>2, <1>3

LEMMA DoneSound ==
    ASSUME Sound, Moved, UNCHANGED page, NEW k \in calls, k.op \notin Unnamed, Done(k),
           k.op = "confirm" => HeldAfter(k.user, k.item.case),
           stage'[k.item.case] # "none"
    PROVE  Sound'
<1> DEFINE n == [k EXCEPT !.at = "moved"]
<1>1. CallTyped(k) /\ busy' = busy
  BY DEF Sound, CallsTyped, page
<1>2. CASE k.lost # 0
  <2>1. calls' = calls \ {k}
    BY <1>2 DEF Done
  <2>2. CallsTyped' /\ Vouched'
    <3>1. calls' \subseteq calls
      BY <2>1
    <3> QED BY <3>1, CallsDropped DEF Sound
  <2>3. OneWaits'
    BY <1>1, <1>2, <2>1, WaitsOn DEF Sound
  <2> QED BY <2>2, <2>3, PagesKept DEF Sound
<1>3. CASE k.lost = 0
  <2>1. calls' = (calls \ {k}) \cup {n}
    BY <1>3 DEF Done
  <2>2. CallTyped(n) /\ SameCall(n, k) /\ n.lost = k.lost /\ n.at = "moved"
    BY <1>1, <1>3, MovedTyped
  <2> HIDE DEF n
  <2>3. (Confirmed(n) => HeldAfter(n.user, n.item.case)) /\ stage'[n.item.case] # "none"
    BY <2>2 DEF Confirmed, SameCall
  <2>4. CallsTyped' /\ Vouched'
    <3>1. calls' \subseteq calls \cup {n}
      BY <2>1
    <3> QED BY <2>2, <2>3, <3>1, CallsJoined DEF Sound
  <2>5. OneWaits'
    BY <1>1, <2>1, <2>2, WaitsOn DEF Sound, SameCall
  <2> QED BY <2>4, <2>5, PagesKept DEF Sound
<1> QED BY <1>2, <1>3

LEMMA RefuseSound ==
    ASSUME Sound, UNCHANGED page, NEW k \in calls, Refuse(k),
           overdue' \subseteq overdue, faults' \in 0 .. MaxFaults
    PROVE  Sound'
<1>1. Moved
  BY IdleMoved DEF Sound, Refuse
<1>2. <<>> \in Seq(Row) /\ FALSE \in BOOLEAN
  OBVIOUS
<1>3. Reply(k, FALSE, <<>>)
  BY DEF Refuse
<1> QED BY <1>1, <1>2, <1>3, ReplySound

LEMMA ItemOfIsRow ==
    ASSUME ServerTyped, NEW c \in Cases, stage[c] # "none"
    PROVE  ItemOf(c) \in Row
<1>1. trail[c] \in Seq(CaseStatuses) /\ stage[c] \in CaseStatuses
  BY DEF ServerTyped
<1>2. Len(trail[c]) \in Nat
  BY <1>1
<1> QED BY <1>1, <1>2 DEF ItemOf, Version, Row

LEMMA SoundList ==
    ASSUME Sound, NEW k \in calls, HandleList(k), UNCHANGED <<page, faults>>
    PROVE  Sound'
<1> DEFINE S == FirstPage(k.item.status)
<1>1. PICK order \in SetToSeqs(S) :
           Reply(k, TRUE, [i \in 1 .. Len(order) |-> ItemOf(order[i])])
  BY DEF HandleList
<1>2. order \in [1 .. Cardinality(S) -> S] /\ Cardinality(S) \in Nat
  <2>1. S \in SUBSET Cases
    BY DEF FirstPage, Listable
  <2> HIDE DEF S
  <2>2. Cardinality(S) \in Nat
    BY <2>1, UsersAssumption, FS_Subset, FS_CardinalityType
  <2> QED BY <2>2 DEF SetToSeqs
<1>3. Len(order) = Cardinality(S)
  <2> HIDE DEF S
  <2> QED BY <1>2
<1>4. ASSUME NEW i \in 1 .. Len(order) PROVE ItemOf(order[i]) \in Row
  <2>1. order[i] \in S
    BY <1>2, <1>3
  <2>2. order[i] \in Cases /\ stage[order[i]] # "none"
    BY <2>1 DEF FirstPage, Listable
  <2> QED BY <2>2, ItemOfIsRow DEF Sound
<1> DEFINE a == [i \in 1 .. Len(order) |-> ItemOf(order[i])]
<1>5. a \in Seq(Row)
  <2>1. a \in [1 .. Cardinality(S) -> Row]
    BY <1>3, <1>4
  <2> HIDE DEF a, S
  <2> QED BY <1>2, <2>1
<1>6. Moved
  BY IdleMoved, CountsFaults DEF Sound, HandleList
<1>7. k.op = "list" /\ Reply(k, TRUE, a) /\ UNCHANGED page
  BY <1>1 DEF HandleList
<1> HIDE DEF a
<1> QED BY <1>5, <1>6, <1>7, ReplySound

LEMMA SoundCreate ==
    ASSUME Sound, NEW k \in calls, HandleCreate(k), UNCHANGED <<page, faults>>
    PROVE  Sound'
<1>1. PICK c \in Unused :
           /\ Server!Open(c)
           /\ Reply(k, TRUE, <<[ case |-> c, status |-> "draft", version |-> 1 ]>>)
  BY DEF HandleCreate
<1> DEFINE a == <<[ case |-> c, status |-> "draft", version |-> 1 ]>>
<1>2. c \in Cases /\ stage[c] = "none"
  BY DEF Unused
<1>3. Moved
  <2>1. ServerStep(c)
    BY <1>1 DEF ServerStep
  <2> QED BY <1>2, <2>1, StepMoved, CountsFaults DEF Sound, HandleCreate
<1>4. a \in Seq(Row) /\ a # <<>>
  <2>1. [ case |-> c, status |-> "draft", version |-> 1 ] \in Row
    BY <1>2 DEF Row, CaseStatuses
  <2> QED BY <2>1
<1>5. k.op = "create" /\ Reply(k, TRUE, a) /\ UNCHANGED page
  BY <1>1 DEF HandleCreate
<1> HIDE DEF a
<1> QED BY <1>3, <1>4, <1>5, ReplySound

LEMMA SoundAnalyze ==
    ASSUME Sound, NEW k \in calls, HandleAnalyze(k), UNCHANGED <<page, faults>>
    PROVE  Sound'
<1> DEFINE c == k.item.case
<1>1. k.op = "analyze" /\ CallTyped(k) /\ c \in Cases
  BY CallFields DEF Sound, CallsTyped, HandleAnalyze, Unnamed
<1>2. CASE Server!Move(c, "analyzing") /\ UNCHANGED overdue
           /\ calls' = (calls \ {k}) \cup {[k EXCEPT !.at = "running"]}
  <2> DEFINE n == [k EXCEPT !.at = "running"]
  <2>1. Moved
    <3>1. ServerStep(c) /\ stage[c] # "analyzing"
      BY <1>2, SameTable, StatusTable DEF ServerStep, Server!Move
    <3> QED BY <1>1, <1>2, <3>1, StepMoved, CountsFaults DEF Sound
  <2>2. CallTyped(n) /\ SameCall(n, k) /\ n.lost = k.lost /\ n.at = "running"
    BY <1>1, RunningTyped
  <2>3. calls' = (calls \ {k}) \cup {n}
    BY <1>2
  <2> HIDE DEF n
  <2>4. CallsTyped' /\ Vouched'
    <3>1. calls' \subseteq calls \cup {n} /\ ~ Confirmed(n)
      BY <1>1, <2>2, <2>3 DEF Confirmed, SameCall
    <3> QED BY <2>1, <2>2, <3>1, CallsJoined DEF Sound
  <2>5. OneWaits'
    BY <2>2, <2>3, WaitsOn DEF Sound, SameCall, page
  <2> QED BY <2>1, <2>4, <2>5, PagesKept DEF Sound
<1>3. CASE c \in overdue /\ Server!Move(c, "draft") /\ overdue' = overdue \ {c}
           /\ UNCHANGED calls
  <2>1. Moved
    BY <1>1, <1>3, StepMoved, CountsFaults DEF Sound, ServerStep
  <2>2. CallsTyped' /\ Vouched'
    <3>1. calls' \subseteq calls
      BY <1>3
    <3> QED BY <2>1, <3>1, CallsDropped DEF Sound
  <2>3. OneWaits'
    BY <1>3 DEF Sound, OneWaits, page
  <2> QED BY <2>1, <2>2, <2>3, PagesKept DEF Sound
<1>4. CASE Conflict(k)
  BY <1>4, RefuseSound, CountsFaults DEF Conflict, Sound
<1> QED BY <1>2, <1>3, <1>4 DEF HandleAnalyze

LEMMA SoundEndRun ==
    ASSUME Sound, NEW k \in calls, EndRun(k), UNCHANGED page
    PROVE  Sound'
<1> DEFINE c == k.item.case
<1>1. k.op = "analyze" /\ c \in Cases /\ overdue' = overdue \ {c}
  BY CallFields DEF Sound, CallsTyped, CallTyped, EndRun, Unnamed
<1>2. CASE Server!Conclude(c, "found") /\ Done(k) /\ UNCHANGED faults
  <2>1. Moved /\ stage'[c] # "none"
    BY <1>1, <1>2, StepMoved, CountsFaults DEF Sound, ServerStep
  <2> QED BY <1>1, <1>2, <2>1, DoneSound DEF Unnamed
<1>3. CASE Server!Move(c, "draft") /\ Reply(k, FALSE, <<>>) /\ GoesWrong
  <2>1. Moved
    BY <1>1, <1>3, StepMoved, CountsFaults DEF Sound, ServerStep
  <2>2. <<>> \in Seq(Row) /\ FALSE \in BOOLEAN
    OBVIOUS
  <2> QED BY <1>3, <2>1, <2>2, ReplySound
<1>4. CASE Refuse(k) /\ UNCHANGED faults
  BY <1>1, <1>4, RefuseSound, CountsFaults DEF Sound
<1> QED BY <1>2, <1>3, <1>4 DEF EndRun

LEMMA SoundConfirm ==
    ASSUME Sound, NEW k \in calls, HandleConfirm(k), UNCHANGED <<page, faults>>
    PROVE  Sound'
<1> DEFINE c == k.item.case
<1>1. k.op = "confirm" /\ c \in Cases /\ k.user \in Users /\ overdue' = overdue
  BY CallFields DEF Sound, CallsTyped, HandleConfirm, Unnamed
<1>2. CASE Server!Confirm(c, k.user) /\ Done(k)
  <2>1. CanTransition(stage[c], "confirmed")
    BY <1>2, SameTable DEF Server!Confirm
  <2>2. Moved /\ stage'[c] # "none"
    <3>1. ServerStep(c) /\ stage[c] # "analyzing"
      BY <1>1, <1>2, <2>1, StatusTable DEF ServerStep
    <3> QED BY <1>1, <3>1, StepMoved, CountsFaults DEF Sound
  <2>3. HeldAfter(k.user, c)
    BY <1>1, <1>2 DEF Server!Confirm, Server!MoveTo, HeldAfter, Sound, ServerTyped
  <2> QED BY <1>1, <1>2, <2>2, <2>3, DoneSound DEF Unnamed
<1>3. CASE Refuse(k)
  BY <1>1, <1>3, RefuseSound, CountsFaults DEF Sound
<1> QED BY <1>2, <1>3 DEF HandleConfirm

LEMMA SoundClose ==
    ASSUME Sound, NEW k \in calls, HandleClose(k), UNCHANGED <<page, faults>>
    PROVE  Sound'
<1> DEFINE c == k.item.case
<1>1. k.op = "close" /\ c \in Cases /\ overdue' = overdue
  BY CallFields DEF Sound, CallsTyped, HandleClose, Unnamed
<1>2. CASE Matches(k, "confirmed") /\ Server!Move(c, "closed") /\ Done(k)
  <2>1. Moved /\ stage'[c] # "none"
    <3>1. ServerStep(c) /\ stage[c] # "analyzing"
      BY <1>2 DEF ServerStep, Matches
    <3> QED BY <1>1, <3>1, StepMoved, CountsFaults DEF Sound
  <2> QED BY <1>1, <1>2, <2>1, DoneSound DEF Unnamed
<1>3. CASE Refuse(k)
  BY <1>1, <1>3, RefuseSound, CountsFaults DEF Sound
<1> QED BY <1>2, <1>3 DEF HandleClose

LEMMA SoundReread ==
    ASSUME Sound, NEW k \in calls, Reread(k), UNCHANGED page
    PROVE  Sound'
<1> DEFINE c == k.item.case
           a == <<ItemOf(c)>>
<1>1. k.op \notin Unnamed /\ c \in Cases /\ k.at = "moved" /\ Reply(k, TRUE, a)
  BY CallFields DEF Sound, CallsTyped, CallTyped, Reread
<1>0. a \in Seq(Row) /\ a # <<>>
  <2>1. ItemOf(c) \in Row
    BY <1>1, ItemOfIsRow DEF Sound, Vouched
  <2> QED BY <2>1
<1>2. Moved
  BY IdleMoved, CountsFaults DEF Sound, Reread
<1>3. k.op = "confirm" => HeldAfter(k.user, c)
  BY <1>1, <1>2, HoldsKept DEF Sound, Vouched, Confirmed
<1> HIDE DEF a
<1> QED BY <1>0, <1>1, <1>2, <1>3, ReplySound

LEMMA SoundHandle ==
    ASSUME Sound, NEW k \in calls, Handle(k)
    PROVE  Sound'
  BY SoundList, SoundCreate, SoundAnalyze, SoundConfirm, SoundClose, SoundEndRun,
     SoundReread DEF Handle

LEMMA SoundDie == ASSUME Sound, NEW k \in calls, Die(k) PROVE Sound'
<1>1. Refuse(k) /\ overdue' \subseteq overdue /\ UNCHANGED page /\ GoesWrong
  BY DEF Die
<1> QED BY <1>1, RefuseSound, CountsFaults DEF Sound

\* What happens at the server without a call of a page.
LEMMA SoundAlone ==
    ASSUME Sound, NEW c \in Cases, Expire(c) \/ AskAgain(c)
    PROVE  Sound'
<1>1. Moved /\ UNCHANGED <<page, calls>>
  <2>1. CASE Expire(c)
    <3>1. faults' \in 0 .. MaxFaults
      BY <2>1, CountsFaults DEF Expire, Sound
    <3> QED BY <2>1, <3>1 DEF Expire, Moved, CasesKept, Sound, ServerTyped, server
  <2>2. CASE AskAgain(c)
    BY <2>2, StepMoved, CountsFaults DEF AskAgain, Sound, ServerStep
  <2> QED BY <2>1, <2>2
<1>2. CallsTyped' /\ Vouched'
  BY <1>1, CallsDropped DEF Sound
<1>3. OneWaits'
  BY <1>1 DEF Sound, OneWaits, page
<1> QED BY <1>1, <1>2, <1>3, PagesKept DEF Sound

LEMMA SoundElsewhere ==
    ASSUME Sound, NEW c \in Cases, Elsewhere(c)
    PROVE  Sound'
<1>1. UNCHANGED <<items, dialog, busy, calls>> /\ overdue' = overdue \ {c}
      /\ faults' \in 0 .. MaxFaults
  BY CountsFaults DEF Elsewhere, Sound
<1>2. Moved
  <2>1. ServerStep(c)
    BY DEF Elsewhere, ServerStep
  <2> QED BY <1>1, <2>1, StepMoved DEF Sound
<1>3. /\ told' \in [Users \cup Colleagues -> SUBSET Cases]
      /\ \A u \in Users \cup Colleagues : \A d \in told'[u] \ told[u] : HeldAfter(u, d)
  <2>1. CASE UNCHANGED told
    BY <2>1 DEF Sound, PageTyped
  <2>2. ASSUME NEW w \in Colleagues, Server!Confirm(c, w),
               told' = [told EXCEPT ![w] = @ \cup {c}]
        PROVE  /\ told' \in [Users \cup Colleagues -> SUBSET Cases]
               /\ \A u \in Users \cup Colleagues : \A d \in told'[u] \ told[u] : HeldAfter(u, d)
    <3>1. HeldAfter(w, c)
      BY <2>2 DEF Server!Confirm, Server!MoveTo, HeldAfter, Sound, ServerTyped
    <3>2. told' \in [Users \cup Colleagues -> SUBSET Cases]
      BY <2>2 DEF Sound, PageTyped
    <3>3. ASSUME NEW u \in Users \cup Colleagues, NEW d \in told'[u] \ told[u]
          PROVE  u = w /\ d = c
      BY <2>2, <3>3 DEF Sound, PageTyped
    <3> QED BY <3>1, <3>2, <3>3
  <2> QED BY <2>1, <2>2 DEF Elsewhere
<1>4. AcknowledgedKept'
  BY <1>2, <1>3, AcknowledgedStays DEF Sound
<1>5. PageTyped'
  BY <1>1, <1>3 DEF Sound, PageTyped
<1>6. CallsTyped' /\ Vouched'
  BY <1>1, <1>2, CallsDropped DEF Sound
<1>7. OneWaits'
  BY <1>1 DEF Sound, OneWaits
<1> QED BY <1>2, <1>4, <1>5, <1>6, <1>7 DEF Sound, Moved

-----------------------------------------------------------------------------
(* The pages. *)

LEMMA ShownAreRows ==
    ASSUME PageTyped, NEW u \in Users, NEW item \in Shown(u)
    PROVE  item \in Row
<1>1. items[u] \in Seq(Row)
  BY DEF PageTyped
<1> QED BY <1>1 DEF Shown, ToSet

\* A step of a user: the server stays, one call may be sent.
LEMMA SoundSend ==
    ASSUME Sound, NEW u \in Users, NEW slot \in Slots,
           NEW op \in {"list", "create", "analyze", "confirm", "close"},
           NEW item \in Item, op \notin Unnamed => item \in Row, Send(u, slot, op, item),
           UNCHANGED <<server, overdue, faults, items, told>>, PageTyped',
           \/ slot # "work" /\ UNCHANGED busy
           \/ slot = "work" /\ ~ busy[u] /\ busy' = [busy EXCEPT ![u] = TRUE]
    PROVE  Sound'
<1> SUFFICES ASSUME NEW n, n = [ user |-> u, slot |-> slot, op |-> op, item |-> item,
                                 at |-> "sent", ok |-> FALSE, answer |-> <<>>, lost |-> 0 ]
             PROVE  Sound'
  OBVIOUS
<1>1. calls' = calls \cup {n} /\ n.user = u /\ n.slot = slot /\ n.lost = 0 /\ n.at = "sent"
  BY DEF Send
<1>2. CallTyped(n) /\ ~ Confirmed(n)
  BY SentTyped
<1>3. Moved
  BY IdleMoved, CountsFaults DEF Sound
<1>4. CallsTyped' /\ Vouched'
  <2>1. calls' \subseteq calls \cup {n} /\ n.at # "moved"
    BY <1>1
  <2> QED BY <1>2, <1>3, <2>1, CallsJoined DEF Sound
<1>5. OneWaits'
  <2>1. CASE slot # "work" /\ UNCHANGED busy
    <3>1. calls \subseteq calls' /\ \A x \in calls' \ calls : x.slot # "work"
      BY <1>1, <2>1
    <3> QED BY <2>1, <3>1, WaitsElse DEF Sound
  <2>2. CASE slot = "work" /\ ~ busy[u] /\ busy' = [busy EXCEPT ![u] = TRUE]
    <3>1. WaitsWith(n, u)
      BY <1>1, <2>2 DEF WaitsWith
    <3> QED BY <1>1, <2>2, <3>1, WaitsFor DEF Sound
  <2> QED BY <2>1, <2>2
<1>6. AcknowledgedKept'
  BY <1>3, AcknowledgedStays DEF Sound, PageTyped
<1> QED BY <1>3, <1>4, <1>5, <1>6 DEF Sound, Moved

\* A dialog is opened or closed.
LEMMA SoundShow ==
    ASSUME Sound, NEW u \in Users, NEW d \in Dialog, Show(u, d),
           d.kind # "none" => d.item \in Row, UNCHANGED <<items, told>>
    PROVE  PageTyped'
  BY DEF Sound, PageTyped, Show

LEMMA NoDialogTyped == NoDialog \in Dialog /\ NoDialog.kind = "none"
  BY RowsAreItems DEF NoDialog, Dialog

LEMMA SoundQuiet ==
    ASSUME Sound, PageTyped', UNCHANGED <<server, overdue, items, busy, calls, told>>,
           faults' \in 0 .. MaxFaults
    PROVE  Sound'
<1>1. Moved
  BY IdleMoved DEF Sound
<1>2. CallsTyped' /\ Vouched'
  BY <1>1, CallsDropped DEF Sound
<1>3. OneWaits'
  BY DEF Sound, OneWaits
<1>4. AcknowledgedKept'
  BY <1>1, AcknowledgedStays DEF Sound, PageTyped
<1> QED BY <1>1, <1>2, <1>3, <1>4 DEF Sound, Moved

LEMMA SoundStart ==
    ASSUME Sound, NEW u \in Users, NEW op \in {"create", "analyze", "confirm"},
           NEW item, item \in Row \/ (op = "create" /\ item = NoItem),
           Start(u, op, item), UNCHANGED dialog
    PROVE  Sound'
<1>1. PageTyped'
  BY DEF Sound, PageTyped, Start
<1>2. item \in Item /\ "work" \in Slots /\ (op \notin Unnamed => item \in Row)
  BY RowsAreItems DEF Slots, Unnamed
<1>3. /\ Send(u, "work", op, item)
      /\ UNCHANGED <<server, overdue, faults, items, told>>
      /\ ~ busy[u] /\ busy' = [busy EXCEPT ![u] = TRUE]
  BY DEF Start
<1> QED BY <1>1, <1>2, <1>3, SoundSend

LEMMA SoundOpen ==
    ASSUME Sound, NEW u \in Users, NEW kind \in {"review", "close"}, NEW status,
           Open(u, kind, status)
    PROVE  Sound'
<1>1. PICK item \in Shown(u) : Show(u, [ kind |-> kind, item |-> item, refused |-> FALSE ])
  BY DEF Open
<1>2. item \in Row /\ item \in Item
  BY ShownAreRows, RowsAreItems DEF Sound
<1> DEFINE d == [ kind |-> kind, item |-> item, refused |-> FALSE ]
<1>3. d \in Dialog /\ d.item \in Row
  BY <1>2 DEF Dialog
<1>4. Show(u, d) /\ UNCHANGED <<server, overdue, items, busy, calls, told, faults>>
  BY <1>1 DEF Open
<1> HIDE DEF d
<1>5. PageTyped'
  BY <1>3, <1>4, SoundShow
<1> QED BY <1>4, <1>5, SoundQuiet, CountsFaults DEF Sound

LEMMA SoundAct == ASSUME Sound, NEW u \in Users, Act(u) PROVE Sound'
<1>1. ASSUME NEW filter \in Filters, Search(u, filter) PROVE Sound'
  <2> DEFINE item == [NoItem EXCEPT !.status = filter]
  <2>1. PageTyped' /\ UNCHANGED <<server, overdue, faults, items, told, busy>>
    BY <1>1 DEF Search, Sound, PageTyped, page
  <2>2. item \in Item /\ "list" \in Slots /\ Send(u, "list", "list", item)
    BY <1>1, RowsAreItems, ListAssumption DEF Slots, Search, Item, NoItem
  <2> HIDE DEF item
  <2> QED BY <2>1, <2>2, SoundSend DEF Unnamed
<1>2. CASE Create(u)
  BY <1>2, SoundStart DEF Create
<1>3. CASE Analyze(u)
  <2>1. PICK item \in Shown(u) : Start(u, "analyze", [item EXCEPT !.version = 0])
    BY <1>3 DEF Analyze
  <2>2. item \in Row /\ UNCHANGED dialog
    BY <1>3, ShownAreRows DEF Sound, Analyze
  <2>3. [item EXCEPT !.version = 0] \in Row
    BY <2>2 DEF Row
  <2> QED BY <2>1, <2>2, <2>3, SoundStart
<1>4. CASE OpenReview(u) \/ OpenClose(u)
  BY <1>4, SoundOpen DEF OpenReview, OpenClose
<1>5. CASE Submit(u)
  <2>1. dialog[u].item \in Row /\ Start(u, "confirm", dialog[u].item) /\ UNCHANGED dialog
    BY <1>5 DEF Submit, Sound, PageTyped
  <2> QED BY <2>1, SoundStart
<1>6. CASE AcceptClose(u)
  <2>1. dialog[u].item \in Row
    BY <1>6 DEF AcceptClose, Sound, PageTyped
  <2>2. PageTyped'
    BY <1>6, NoDialogTyped, SoundShow DEF AcceptClose
  <2>3. dialog[u].item \in Item /\ "close" \in Slots
    BY <2>1, RowsAreItems DEF Slots
  <2>4. /\ Send(u, "close", "close", dialog[u].item)
        /\ UNCHANGED <<server, overdue, faults, items, told, busy>>
    BY <1>6 DEF AcceptClose
  <2> QED BY <2>1, <2>2, <2>3, <2>4, SoundSend
<1>7. CASE Cancel(u)
  <2>1. PageTyped'
    BY <1>7, NoDialogTyped, SoundShow DEF Cancel
  <2>2. faults' \in 0 .. MaxFaults
    BY <1>7, CountsFaults DEF Cancel, Sound
  <2> QED BY <1>7, <2>1, <2>2, SoundQuiet DEF Cancel
<1> QED BY <1>1, <1>2, <1>3, <1>4, <1>5, <1>6, <1>7 DEF Act, Press

-----------------------------------------------------------------------------
(* The answers. *)

LEMMA LeastNatural ==
    ASSUME NEW T, T \subseteq Nat, T # {}
    PROVE  \E m \in T : \A n \in T : m <= n
<1>1. PICK m \in T : \A n \in T : ~ (<<n, m>> \in OpToRel(<, Nat))
  BY NatLessThanWellFounded, WFMin
<1>2. ASSUME NEW n \in T PROVE m <= n
  <2>1. n \in Nat /\ m \in Nat
    OBVIOUS
  <2>2. n < m => <<n, m>> \in OpToRel(<, Nat)
    BY <2>1, Zenon DEF OpToRel
  <2>3. ~ (n < m)
    BY <1>1, <2>2, Zenon
  <2> QED BY <2>1, <2>3
<1> QED BY <1>2

\* The row that is replaced is one of the list.
LEMMA ReplacedTyped ==
    ASSUME NEW list \in Seq(Row), NEW item \in Row
    PROVE  Replaced(list, item) \in Seq(Row)
<1> DEFINE I == {i \in 1 .. Len(list) : list[i].case = item.case}
           i == SelectInSeq(list, LAMBDA shown : shown.case = item.case)
<1>1. i = IF I # {} THEN Min(I) ELSE 0
  BY DEF SelectInSeq
<1>2. I # {} => Min(I) \in I
  <2>1. I \subseteq Nat /\ Len(list) \in Nat
    OBVIOUS
  <2> HIDE DEF I
  <2>2. ASSUME I # {} PROVE \E x \in I : \A y \in I : x <= y
    BY <2>1, <2>2, LeastNatural
  <2> QED BY <2>2 DEF Min
<1>3. i = 0 \/ i \in 1 .. Len(list)
  BY <1>1, <1>2
<1>4. Replaced(list, item) = IF i = 0 THEN list ELSE [list EXCEPT ![i] = item]
  BY DEF Replaced
<1> HIDE DEF I, i
<1> QED BY <1>3, <1>4

LEMMA ListTyped ==
    ASSUME NEW k, CallTyped(k), k.at = "answered", k.ok, NEW list \in Seq(Row)
    PROVE  ListAfter(list, k) \in Seq(Row)
<1>1. k.answer \in Seq(Row)
  BY DEF CallTyped
<1>2. CASE k.op = "list"
  BY <1>1, <1>2 DEF ListAfter
<1>3. CASE k.op = "create"
  BY <1>1, <1>3 DEF ListAfter
<1>4. CASE k.op # "list" /\ k.op # "create"
  <2>1. k.answer # <<>>
    BY <1>4 DEF CallTyped
  <2>2. k.answer[1] \in Row
    BY <1>1, <2>1
  <2>3. ListAfter(list, k) = Replaced(list, k.answer[1])
    BY <1>4 DEF ListAfter
  <2> QED BY <2>2, <2>3, ReplacedTyped
<1> QED BY <1>2, <1>3, <1>4

LEMMA DialogTyped ==
    ASSUME PageTyped, NEW k, k.user \in Users
    PROVE  /\ DialogAfter(k) \in Dialog
           /\ DialogAfter(k).kind # "none" => DialogAfter(k).item \in Row
<1> DEFINE d == dialog[k.user]
           r == [d EXCEPT !.refused = TRUE]
<1>1. d \in Dialog /\ (d.kind # "none" => d.item \in Row)
  BY DEF PageTyped
<1>2. r \in Dialog /\ r.kind = d.kind /\ r.item = d.item
  BY <1>1 DEF Dialog
<1>3. DialogAfter(k) \in {d, NoDialog, r}
  BY DEF DialogAfter
<1> HIDE DEF d, r
<1> QED BY <1>1, <1>2, <1>3, NoDialogTyped

\* The end of a call for the page that waited for it.
LEMMA SoundReceive == ASSUME Sound, NEW k \in calls, Receive(k) PROVE Sound'
<1>1. CallTyped(k) /\ k.user \in Users /\ k.at = "answered" /\ k.lost = 0
  BY CallFields DEF Sound, CallsTyped, CallTyped, Receive
<1>2. Moved
  BY IdleMoved, CountsFaults DEF Sound, Receive, Settle
<1>3. CallsTyped' /\ Vouched'
  <2>1. calls' \subseteq calls
    BY DEF Receive
  <2> QED BY <1>2, <2>1, CallsDropped DEF Sound
<1>4. OneWaits'
  BY <1>1, WaitsNoMore DEF Sound, Receive, Settle
<1>5. items' \in [Users -> Seq(Row)]
  <2> DEFINE l == IF k.ok THEN ListAfter(items[k.user], k) ELSE items[k.user]
  <2>1. items \in [Users -> Seq(Row)]
    BY DEF Sound, PageTyped
  <2>2. l \in Seq(Row)
    BY <1>1, <2>1, ListTyped
  <2>3. items' = [items EXCEPT ![k.user] = l]
    BY DEF Receive
  <2> HIDE DEF l
  <2> QED BY <2>1, <2>2, <2>3
<1>6. /\ dialog' \in [Users -> Dialog]
      /\ \A u \in Users : dialog'[u].kind # "none" => dialog'[u].item \in Row
  <2> DEFINE d == DialogAfter(k)
  <2>1. d \in Dialog /\ (d.kind # "none" => d.item \in Row)
    BY <1>1, DialogTyped DEF Sound
  <2>2. dialog' = [dialog EXCEPT ![k.user] = d]
    BY DEF Receive, Settle, Show
  <2> HIDE DEF d
  <2> QED BY <1>1, <2>1, <2>2 DEF Sound, PageTyped
<1>7. /\ told' \in [Users \cup Colleagues -> SUBSET Cases]
      /\ \A u \in Users \cup Colleagues : \A c \in told'[u] \ told[u] : HeldAfter(u, c)
  <2>1. CASE k.ok /\ k.op = "confirm"
    <3>1. HeldAfter(k.user, k.item.case) /\ k.item.case \in Cases
      BY <1>1, <1>2, <2>1, VouchedStays, CallFields DEF Sound, Confirmed, Unnamed
    <3>2. told' = [told EXCEPT ![k.user] = @ \cup {k.item.case}]
      BY <2>1 DEF Receive
    <3>3. told' \in [Users \cup Colleagues -> SUBSET Cases]
      BY <1>1, <3>1, <3>2 DEF Sound, PageTyped
    <3>4. ASSUME NEW u \in Users \cup Colleagues, NEW c \in told'[u] \ told[u]
          PROVE  u = k.user /\ c = k.item.case
      BY <1>1, <3>2, <3>4 DEF Sound, PageTyped
    <3> QED BY <3>1, <3>3, <3>4
  <2>2. CASE ~ (k.ok /\ k.op = "confirm")
    <3>1. told' = told
      BY <2>2 DEF Receive, Sound, PageTyped
    <3> QED BY <3>1 DEF Sound, PageTyped
  <2> QED BY <2>1, <2>2
<1>8. AcknowledgedKept'
  BY <1>2, <1>7, AcknowledgedStays DEF Sound
<1>9. PageTyped'
  BY <1>5, <1>6, <1>7 DEF PageTyped
<1> QED BY <1>2, <1>3, <1>4, <1>8, <1>9 DEF Sound, Moved

LEMMA SoundGiveUp == ASSUME Sound, NEW k \in calls, GiveUp(k) PROVE Sound'
<1> DEFINE g == [k EXCEPT !.ok = FALSE]
           n == [k EXCEPT !.lost = faults + 1]
<1>1. CallTyped(k) /\ k.user \in Users /\ k.lost = 0
  BY CallFields DEF Sound, CallsTyped, GiveUp
<1>2. g.user = k.user /\ g.slot = k.slot
  BY <1>1 DEF CallTyped, Call
<1>3. /\ faults' \in 0 .. MaxFaults /\ faults + 1 \in 0 .. MaxFaults
      /\ faults + 1 # 0
  BY CountsFaults DEF Sound, GiveUp, ServerTyped
<1>4. /\ Show(k.user, DialogAfter(g)) /\ UNCHANGED <<server, overdue, items, told>>
      /\ busy' = [busy EXCEPT ![k.user] = BusyAfter(g)]
  BY <1>2 DEF GiveUp, Settle
<1>5. BusyAfter(g) = BusyAfter(k)
  <2> HIDE DEF g
  <2> QED BY <1>2 DEF BusyAfter
<1>6. DialogAfter(g) \in Dialog /\ (DialogAfter(g).kind # "none" => DialogAfter(g).item \in Row)
  <2> HIDE DEF g
  <2> QED BY <1>1, <1>2, DialogTyped DEF Sound
<1> HIDE DEF g
<1>7. PageTyped'
  BY <1>1, <1>4, <1>6, SoundShow
<1>8. Moved
  BY <1>3, <1>4, IdleMoved DEF Sound
<1>9. AcknowledgedKept'
  BY <1>4, <1>8, AcknowledgedStays DEF Sound, PageTyped
<1>10. CASE k.op = "list" \/ k.at \in {"moved", "answered"}
  <2>1. calls' = calls \ {k} /\ calls' \subseteq calls
    BY <1>10 DEF GiveUp
  <2>2. CallsTyped' /\ Vouched'
    BY <1>8, <2>1, CallsDropped DEF Sound
  <2>3. OneWaits'
    BY <1>1, <1>4, <1>5, <2>1, WaitsNoMore DEF Sound
  <2> QED BY <1>7, <1>8, <1>9, <2>2, <2>3 DEF Sound, Moved
<1>11. CASE ~ (k.op = "list" \/ k.at \in {"moved", "answered"})
  <2>1. calls' = (calls \ {k}) \cup {n}
    BY <1>11 DEF GiveUp
  <2>2. CallTyped(n) /\ n.lost # 0 /\ n.at = k.at
    BY <1>1, <1>3, <1>11, LostTyped
  <2> HIDE DEF n
  <2>3. CallsTyped' /\ Vouched'
    <3>1. calls' \subseteq calls \cup {n} /\ ~ Confirmed(n) /\ n.at # "moved"
      BY <1>11, <2>1, <2>2 DEF Confirmed
    <3> QED BY <1>8, <2>2, <3>1, CallsJoined DEF Sound
  <2>4. OneWaits'
    BY <1>1, <1>4, <1>5, <2>1, <2>2, WaitsNoMore DEF Sound
  <2> QED BY <1>7, <1>8, <1>9, <2>3, <2>4 DEF Sound, Moved
<1> QED BY <1>10, <1>11

-----------------------------------------------------------------------------
(* The theorems. *)

LEMMA SoundInit == ASSUME Init PROVE Sound
<1>1. ServerTyped
  BY BoundsAssumption DEF Init, Server!Init, ServerTyped
<1>2. PageTyped
  BY NoDialogTyped DEF Init, PageTyped
<1>3. CallsTyped /\ OneWaits /\ Vouched
  BY DEF Init, CallsTyped, OneWaits, Vouched
<1>4. AcknowledgedKept
  BY DEF Init, AcknowledgedKept
<1> QED BY <1>1, <1>2, <1>3, <1>4 DEF Sound

LEMMA SoundStutter == ASSUME Sound, UNCHANGED vars PROVE Sound'
<1>1. PageTyped'
  BY DEF Sound, PageTyped, vars
<1>2. UNCHANGED <<server, overdue, items, busy, calls, told>> /\ faults' \in 0 .. MaxFaults
  BY CountsFaults DEF vars, server, Sound
<1> QED BY <1>1, <1>2, SoundQuiet

LEMMA SoundStep == ASSUME Sound, [Next]_vars PROVE Sound'
  BY SoundAct, SoundHandle, SoundReceive, SoundDie, SoundGiveUp, SoundAlone,
     SoundElsewhere, SoundStutter DEF Next

LEMMA AlwaysSound == Spec => []Sound
  BY SoundInit, SoundStep, PTL DEF Spec

\* The types of everything the pages and the server keep; and a page's buttons
\* are disabled (busy) exactly while it waits for a call that disabled them:
\* no answer, refusal, lost call or late answer leaves the flag set for ever
\* or clears it while such a call is on its way.
THEOREM DeskTyped == Spec => []TypeOK
<1>1. ASSUME Sound PROVE TypeOK
  <2>1. items \in [Users -> Seq(Item \ {NoItem})]
    <3>1. Row \subseteq Item \ {NoItem}
      BY RowsAreItems
    <3>2. Seq(Row) \subseteq Seq(Item \ {NoItem})
      BY <3>1
    <3> QED BY <1>1, <3>2 DEF Sound, PageTyped
  <2>2. calls \in SUBSET Call
    BY <1>1 DEF Sound, CallsTyped, CallTyped
  <2>3. \A u \in Users : busy[u] <=> \E k \in calls :
            k.user = u /\ k.slot = "work" /\ k.lost = 0
    BY <1>1 DEF Sound, OneWaits, WaitsWith
  <2> QED BY <1>1, <2>1, <2>2, <2>3
          DEF TypeOK, Sound, ServerTyped, PageTyped, OneWaits
<1> QED BY <1>1, AlwaysSound, PTL

\* Whoever was told that his conclusion is confirmed is the reviewer of the
\* case from then on, however many reviewers submit the same case, however
\* many calls are repeated, and whatever is lost or late.
THEOREM AcknowledgedIsKept == Spec => []AcknowledgedKept
<1>1. Sound => AcknowledgedKept
  BY DEF Sound
<1> QED BY <1>1, AlwaysSound, PTL
=============================================================================
