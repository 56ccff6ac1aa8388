SPECIFICATION Spec
CONSTANTS
    Request = {q1}
    Token = {t1, t2, t3}
    Family = {f1, f2}
    NoFamily = NoFamily
    Client = {chatgpt}
    Process = {p1, p2}
    MaxClock = 1
    RequestLife = 0
    CodeLife = 0
    CompletionLife = 0
    AccessLife = 0
    RefreshLife = 0
INVARIANTS
    TypeOK
    CodeRedeemedOnce
    OneLiveTokenOfAKind
    OneDecisionPerRequest
SYMMETRY MCSymmetry
CHECK_DEADLOCK FALSE
