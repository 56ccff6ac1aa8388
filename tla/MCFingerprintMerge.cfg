SPECIFICATION StoreSpec
CONSTANTS
    d1 = d1  d2 = d2  w1 = w1  w2 = w2  w3 = w3
    p1 = p1  p2 = p2  p3 = p3  p4 = p4  p5 = p5  p6 = p6
    Study = {s1}
    RunId = {r1, r2, r3}
    Provider = {"arxiv", "scopus", "acl"}
    EvidenceId = {e1, e2, e3, e4, e5}
    NoDoi = NoDoi
    Doi <- MCDoi
    DoiText <- MCDoiText
    Work <- MCWork
    StrongWork <- MCStrongWork
    Similar <- MCSimilar
    Identifier <- MCIdentifier
    Record <- MCRecord
    MaxLimit = 4
    MaxTotal = 4
INVARIANT ConflictingDoisPreventFingerprintMerge
CHECK_DEADLOCK FALSE
