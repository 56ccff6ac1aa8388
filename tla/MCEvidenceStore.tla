--------------------------- MODULE MCEvidenceStore ---------------------------
(***************************************************************************)
(* Finite instances of EvidenceStore.  The records are shaped as the       *)
(* adapters shape them: the provider's own identifier first, then the DOI. *)
(***************************************************************************)
EXTENDS EvidenceStore, TLC

CONSTANTS d1, d2, w1, w2, w3, p1, p2, p3, p4, p5, p6

MCDoi == {d1, d2}
MCDoiText == [d \in MCDoi |-> d]
MCWork == {w1, w2, w3}
MCStrongWork == {w1, w2}
MCSimilar == {<<w1, w2>>, <<w2, w1>>}

ArxivId == <<"arxiv_id", "x">>
ScopusId == <<"scopus_id", "y">>
ScopusId2 == <<"scopus_id", "y2">>
AclId == <<"acl_id", "z">>
DoiOf(d) == <<"doi", MCDoiText[d]>>
MCIdentifier == {ArxivId, ScopusId, ScopusId2, AclId} \union {DoiOf(d) : d \in MCDoi}

\* A preprint before and after its DOI is registered, two publications of the
\* same title with their own DOIs, a similar title, and a short title.
Preprint        == [provider |-> "arxiv", pid |-> p1, doi |-> NoDoi, ids |-> <<ArxivId>>, work |-> w1]
PreprintWithDoi == [provider |-> "arxiv", pid |-> p1, doi |-> d1, ids |-> <<ArxivId, DoiOf(d1)>>, work |-> w1]
Journal         == [provider |-> "scopus", pid |-> p2, doi |-> d1, ids |-> <<ScopusId, DoiOf(d1)>>, work |-> w1]
Proceedings     == [provider |-> "scopus", pid |-> p3, doi |-> d2, ids |-> <<ScopusId2, DoiOf(d2)>>, work |-> w1]
Extended        == [provider |-> "acl", pid |-> p4, doi |-> NoDoi, ids |-> <<AclId>>, work |-> w2]
Editorial       == [provider |-> "acl", pid |-> p5, doi |-> d2, ids |-> <<AclId, DoiOf(d2)>>, work |-> w3]
Bare            == [provider |-> "scopus", pid |-> p6, doi |-> NoDoi, ids |-> <<ScopusId>>, work |-> w3]

RunSymmetry == Permutations(RunId)

MCRecord == {Preprint, PreprintWithDoi, Journal, Proceedings, Bare, Extended, Editorial}
=============================================================================
