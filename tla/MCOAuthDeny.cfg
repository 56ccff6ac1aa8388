SPECIFICATION Spec
CONSTANTS
    Request = {q1}
    Token = {t1, t2, t3, t4}
    Family = {f1, f2}
    NoFamily = NoFamily
    Client = {chatgpt}
    Process = {p1}
    MaxClock = 2
    RequestLife = 1
    CodeLife = 1
    CompletionLife = 0
    AccessLife = 1
    RefreshLife = 1
INVARIANT DenyIsNeverAnsweredWithCode
CHECK_DEADLOCK FALSE
