SPECIFICATION FairSpec
CONSTANTS
    w1 = w1  w2 = w2  w3 = w3  p1 = p1  p2 = p2  p3 = p3
    Study = {s1}
    Provider = {"acl"}
    RunId = {r1}
    Call = {c1}
    EvidenceId = {e1, e2, e3}
    NoDoi = NoDoi
    NoRun = NoRun
    NoOffset = NoOffset
    Doi <- MCDoi
    DoiText <- MCDoiText
    Work = {w1, w2, w3}
    StrongWork = {w1, w2, w3}
    Similar = {}
    Identifier <- MCIdentifier
    Record <- MCThreePapers
    MaxLimit = 3
    MaxTotal = 2
    MaxPage = 2
    MaxOffset = 2
PROPERTY EveryCallEnds
CHECK_DEADLOCK FALSE
