SPECIFICATION HistorySpec
CONSTANTS
    d1 = d1  d2 = d2  w1 = w1  w2 = w2  w3 = w3
    p1 = p1  p2 = p2  p3 = p3  p4 = p4  p5 = p5  p6 = p6
    Study = {s1}
    RunId = {r1, r2, r3}
    Provider = {"arxiv", "scopus", "acl"}
    EvidenceId = {e1, e2, e3, e4, e5}
    NoDoi = NoDoi
    Doi <- MCDoi
    DoiText <- MCDoiText
    Work <- MCWork
    StrongWork <- MCStrongWork
    Similar <- MCSimilar
    Identifier <- MCIdentifier
    Record <- MCRecord
    MaxLimit = 4
    MaxTotal = 4
    Reviewer = {v1, v2}
    NamedEvidence = {e1, e2}
    Known = {e1}
    Reason = {why}
    NoReason = NoReason
    Note = {n1, n2}
    NoNote = NoNote
    MaxClock = 1
    MaxHistory = 3
    Choice = {"included", "excluded", "final"}
    Save = {c1, c2}
    FirstSave = c1
    TogetherLimits = {0, 3}
    Adapter = {"arxiv", "scopus", "wos_starter", "wos_expanded", "ieee_xplore", "acl_anthology"}
    PageSize <- MCPageSize
    Listings = {0, 3, 5}
    Requested = {0, 3, 5, 6}
    MaxFaults = 2
    Delay = 2
    Attempts = 2
INVARIANTS
    HistoryTypeOK
    EvidenceHasOneOrigin
    IdentifiersWereDiscovered
    ColumnDoiOwnsItsHits
    FingerprintRespectsColumnDoi
    TwinsAreFlagged
    HistoryIsAChain
    RowShowsLastDecision
    SavedInListingOrder
    StableSavesEndWell
PROPERTIES
    DiscoveriesAreKept
    CompleteHasAll
    PacedUnlessTogether
SYMMETRY HistorySymmetry
CHECK_DEADLOCK FALSE
