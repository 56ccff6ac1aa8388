SPECIFICATION Spec
CONSTANTS
    Reviewer = {v1, v2}
    NamedEvidence = {e1, e2}
    Known = {e1}
    Reason = {why}
    NoReason = NoReason
    Note = {n1, n2}
    NoNote = NoNote
    MaxClock = 1
    MaxHistory = 3
    Choice = {"included", "excluded", "final"}
INVARIANT HistoryEndsAtCurrentStatus
CHECK_DEADLOCK FALSE
