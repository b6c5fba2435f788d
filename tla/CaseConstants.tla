--------------------------- MODULE CaseConstants ---------------------------
(***************************************************************************)
(* The status table and the role sets of a localization case.  The status  *)
(* "none" is not a status of the code: it stands for a case that has no    *)
(* row yet.                                                                *)
(***************************************************************************)

CaseStatuses == {"draft", "analyzing", "pending_review", "confirmed", "closed"}

transitions ==
    [ draft          |-> {"analyzing"},
      analyzing      |-> {"draft", "pending_review"},
      pending_review |-> {"confirmed"},
      confirmed      |-> {"closed"},
      closed         |-> {} ]

CanTransition(from, to) == from \in CaseStatuses /\ to \in transitions[from]

Roles == {"analyst", "reviewer", "admin"}

\* The roles the router lets through to Create and Analyze ...
AnalyzeRoles == {"analyst", "admin"}

\* ... and to Confirm and Close.
ReviewRoles == {"reviewer", "admin"}
=============================================================================
