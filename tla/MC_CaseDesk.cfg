SPECIFICATION FairSpec
CONSTANTS
    u1 = u1  w1 = w1
    Cases = {1, 2}
    Users = {u1}
    Role <- DeskRole
    Colleagues = {w1}
    NoCase = NoCase
    NoReviewer = NoReviewer
    PageSize = 1
    Filters = {"draft", "pending_review", "confirmed"}
    MaxLists = 1
    MaxChanges = 1
    MaxFaults = 1
INVARIANTS
    TypeOK
    AcknowledgedKept
CHECK_DEADLOCK FALSE
PROPERTIES
    CasesGetClosed
