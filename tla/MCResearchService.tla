-------------------------- MODULE MCResearchService --------------------------
(***************************************************************************)
(* Finite instances of ResearchService: one provider with two or three    *)
(* papers, which its pages may repeat, so that a hit is new, existing or    *)
(* rejected.                                                               *)
(***************************************************************************)
EXTENDS ResearchService, TLC

CONSTANTS w1, w2, w3, p1, p2, p3

MCDoi == {}
MCDoiText == [d \in MCDoi |-> d]
MCIdentifier == {<<"acl_id", "x">>, <<"acl_id", "y">>, <<"acl_id", "z">>}

MCRecord ==
    {[provider |-> "acl", pid |-> p1, doi |-> NoDoi, ids |-> <<<<"acl_id", "x">>>>, work |-> w1],
     [provider |-> "acl", pid |-> p2, doi |-> NoDoi, ids |-> <<<<"acl_id", "y">>>>, work |-> w2]}
MCThreePapers == MCRecord \union
    {[provider |-> "acl", pid |-> p3, doi |-> NoDoi, ids |-> <<<<"acl_id", "z">>>>, work |-> w3]}

\* Calls and runs are interchangeable; evidence is not, for CHOOSE picks among it.
MCSymmetry == Permutations(RunId) \union Permutations(Call)
=============================================================================
