--------------------------- MODULE MCSearchHistory ---------------------------
(***************************************************************************)
(* What makes up the search history, side by side: the store, screening and  *)
(* the source adapters share no variable, the initial state picks one, and    *)
(* only that one moves.  The adapters come in two bounds of their own: one     *)
(* call that pages, and two calls at once that wait for one another.          *)
(***************************************************************************)
EXTENDS MCEvidenceStore, Screening, MCSourceAdapters

CONSTANTS
    FirstSave,      \* bound: the call that pages
    TogetherLimits  \* bound: values of requested_limit of calls at once

VARIABLE component

historyVars == <<component, storeVars, vars, sourcesVars>>

\* Bound: calls at once ask arXiv or Scopus, and one fault happens.
Together ==
    /\ \A s \in Save : saves[s] = NoSave \/ /\ saves[s].adapter \in {"arxiv", "scopus"}
                                            /\ saves[s].requested \in TogetherLimits
    /\ source_faults <= 1

HistoryInit ==
    /\ component \in {"store", "screening", "paging", "pacing"}
    /\ StoreInit /\ Init /\ SourcesInit
    /\ component # "paging" => Len(listing) = 3
    /\ component = "paging" => Len(listing) # 3

HistoryNext ==
    /\ UNCHANGED component
    /\ \/ component = "store" /\ StoreNext /\ UNCHANGED <<vars, sourcesVars>>
       \/ component = "screening" /\ Next /\ UNCHANGED <<storeVars, sourcesVars>>
       \/ /\ component = "paging" /\ SourcesNext /\ UNCHANGED <<storeVars, vars>>
          /\ \A s \in Save \ {FirstSave} : saves'[s] = NoSave
       \/ component = "pacing" /\ SourcesNext /\ Together' /\ UNCHANGED <<storeVars, vars>>

HistorySpec == HistoryInit /\ [][HistoryNext]_historyVars

\* Every part keeps its types.
HistoryTypeOK == StoreTypeOK /\ TypeOK /\ SourcesTypeOK

\* Runs and reviewers are interchangeable; evidence is not, for CHOOSE picks among it.
HistorySymmetry == RunSymmetry \union Permutations(Reviewer)
=============================================================================
