---------------------------- MODULE CaseWorkflow ----------------------------
(***************************************************************************)
(* What the life of a localization case promises, with no requests, leases *)
(* or versions: a case is opened as a draft and then moves along the table *)
(* of CaseConstants, one recorded move at a time.  A result appears exactly*)
(* with the move to pending_review, a verdict exactly with the move to     *)
(* confirmed and only by a reviewer; neither is ever replaced.             *)
(***************************************************************************)
EXTENDS CaseConstants, Sequences

CONSTANTS Cases,      \* the cases
          Results,    \* what an analysis can produce
          NoResult,   \* a case that has no result
          Reviewers,  \* who may confirm
          NoReviewer  \* a case nobody has confirmed

VARIABLES stage,   \* the status of every case, "none" before it is opened
          trail,   \* the statuses every case went through, in order
          result,  \* the result every case holds
          verdict  \* who confirmed it

wvars == <<stage, trail, result, verdict>>

Init == /\ stage = [c \in Cases |-> "none"]
        /\ trail = [c \in Cases |-> <<>>]
        /\ result = [c \in Cases |-> NoResult]
        /\ verdict = [c \in Cases |-> NoReviewer]

MoveTo(c, s) == /\ stage' = [stage EXCEPT ![c] = s]
                /\ trail' = [trail EXCEPT ![c] = Append(@, s)]

Open(c) == /\ stage[c] = "none"
           /\ MoveTo(c, "draft")
           /\ UNCHANGED <<result, verdict>>

\* Start an analysis, give one up, or close the case.
Move(c, s) == /\ s \in {"analyzing", "draft", "closed"}
              /\ CanTransition(stage[c], s)
              /\ MoveTo(c, s)
              /\ UNCHANGED <<result, verdict>>

Conclude(c, r) == /\ CanTransition(stage[c], "pending_review")
                  /\ result[c] = NoResult
                  /\ MoveTo(c, "pending_review")
                  /\ result' = [result EXCEPT ![c] = r]
                  /\ UNCHANGED verdict

Confirm(c, w) == /\ CanTransition(stage[c], "confirmed")
                 /\ result[c] # NoResult
                 /\ verdict[c] = NoReviewer
                 /\ MoveTo(c, "confirmed")
                 /\ verdict' = [verdict EXCEPT ![c] = w]
                 /\ UNCHANGED result

Next == \E c \in Cases :
           \/ Open(c)
           \/ \E s \in CaseStatuses : Move(c, s)
           \/ \E r \in Results : Conclude(c, r)
           \/ \E w \in Reviewers : Confirm(c, w)

Spec == Init /\ [][Next]_wvars
=============================================================================
