SPECIFICATION FairSpec
CONSTANTS
    e1 = e1  e2 = e2  e3 = e3  e4 = e4  w1 = w1  i1 = i1  f1 = f1  f2 = f2
    theirs = theirs
    Call = {c1, c2}
    Evidence = {e1, e2, e3, e4}
    Included = {e1, e3}
    NoEvidence = NoEvidence
    FinalCorpus <- MCFinalCorpus
    Work = {w1}
    WorkOf <- MCWorkOf
    ItemKey = {i1, i2, i3, i4}
    FolderKey = {f1, f2, f3, f4}
    NoKey = NoKey
    Tag = {theirs}
    CollectionKey = NoKey
    FirstItems <- MCFirstItems
    FirstFolders <- MCFirstFolders
    AskedFolder = {f1}
    Synchroniser = {c1}
    MaxCalls = 1
    MaxEdits = 1
    MaxFaults = 1
    MaxTogether = 2
INVARIANTS
    ZoteroTypeOK
    DuplicatesNeedARace
    CompletedSyncLinkedAll
PROPERTIES
    LosesOnlyWhatItSaw
    DeletesWhereItWasListed
    EveryFinalIsLinked
CHECK_DEADLOCK FALSE
