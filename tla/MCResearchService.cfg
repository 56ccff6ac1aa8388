SPECIFICATION Spec
CONSTANTS
    w1 = w1  w2 = w2  w3 = w3  p1 = p1  p2 = p2  p3 = p3
    Study = {s1}
    Provider = {"acl"}
    RunId = {r1, r2}
    Call = {c1, c2}
    EvidenceId = {e1, e2, e3}
    NoDoi = NoDoi
    NoRun = NoRun
    NoOffset = NoOffset
    Doi <- MCDoi
    DoiText <- MCDoiText
    Work = {w1, w2}
    StrongWork = {w1, w2}
    Similar = {}
    Identifier <- MCIdentifier
    Record <- MCRecord
    MaxLimit = 2
    MaxTotal = 2
    MaxPage = 2
    MaxOffset = 1
INVARIANTS
    TypeOK
    ClosedRunCountsItsHits
    CompleteIsTruthful
    NeverMoreThanRequested
    AuditAgreesWithRun
    AnswerMatchesRun
    StrandedOnlyByInterruption
PROPERTY
    ImplementsLedger
SYMMETRY MCSymmetry
CHECK_DEADLOCK FALSE
