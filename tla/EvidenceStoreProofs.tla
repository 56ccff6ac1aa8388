-------------------------- MODULE EvidenceStoreProofs --------------------------
(***************************************************************************)
(* Proofs about EvidenceStore.  Each operation of the store is proved to   *)
(* preserve StoreInv by itself, so that the lemmas serve StoreSpec and any *)
(* other driver of the store.                                              *)
(***************************************************************************)
EXTENDS EvidenceStore, NumberLemmas, FiniteSetTheorems, TLAPS

-----------------------------------------------------------------------------
(* The inductive invariant                                                 *)

\* COUNT(*) is a number.
EvidenceIsFinite == IsFiniteSet(DOMAIN evidence)

\* MAX(search_code) is a number.
CodesAreBounded == \E b \in Nat : \A r \in DOMAIN runs : runs[r].code <= b

\* A created row's DOI is in no other row.
ColumnDoisDiffer ==
    \A d, e \in DOMAIN evidence :
        evidence[d].doi # NoDoi /\ evidence[d].doi = evidence[e].doi => d = e

\* The DOI of every hit is also in evidence_identifiers, where the next record with
\* this DOI finds it although no column holds it.
HitDoisAreKnown ==
    \A h \in hits : h.rec.doi # NoDoi => DoiIdentifier(h.rec.doi) \in DOMAIN identifiers

StoreInv ==
    /\ StoreTypeOK
    /\ EvidenceIsFinite
    /\ CodesAreBounded
    /\ ColumnDoisDiffer
    /\ HitDoisAreKnown
    /\ EvidenceHasOneOrigin
    /\ IdentifiersWereDiscovered
    /\ ColumnDoiOwnsItsHits
    /\ FingerprintRespectsColumnDoi
    /\ TwinsAreFlagged

-----------------------------------------------------------------------------
(* search_runs                                                             *)

\* The search code of a new run is a number.
LEMMA NextSearchCodeType ==
    ASSUME StoreTypeOK, CodesAreBounded, NEW study
    PROVE  NextSearchCode(study) \in Nat
<1> DEFINE used == {0} \union {runs[r].code : r \in {q \in DOMAIN runs : runs[q].study = study}}
<1>1. \A r \in DOMAIN runs : runs[r].code \in Nat
  BY DEF StoreTypeOK, Run
<1>2. used \subseteq Nat /\ used # {}
  BY <1>1
<1>3. PICK b \in Nat : \A r \in DOMAIN runs : runs[r].code <= b
  BY DEF CodesAreBounded
<1>4. \A n \in used : n <= b
  BY <1>3
<1>5. \E m \in used : \A n \in used : n <= m
  <2> HIDE DEF used
  <2> QED BY <1>2, <1>4, GreatestElement
<1>6. (CHOOSE m \in used : \A n \in used : n <= m) \in Nat
  <2> HIDE DEF used
  <2> QED BY <1>2, <1>5
<1> QED BY <1>6 DEF NextSearchCode

\* What a transaction on search_runs has to show: it does not touch the evidence.
LEMMA RunsOnlyPreserves ==
    ASSUME StoreInv, UNCHANGED evidenceVars,
           DOMAIN runs' \subseteq RunId, runs' \in [DOMAIN runs' -> Run], CodesAreBounded'
    PROVE  StoreInv'
<1> USE DEF StoreInv
<1>1. /\ hits' = hits /\ evidence' = evidence
      /\ identifiers' = identifiers /\ duplicates' = duplicates
  BY DEF evidenceVars
<1>2. StoreTypeOK'
  BY <1>1 DEF StoreTypeOK
<1>3. EvidenceIsFinite' /\ ColumnDoisDiffer' /\ HitDoisAreKnown'
  BY <1>1 DEF EvidenceIsFinite, ColumnDoisDiffer, HitDoisAreKnown
<1>4. EvidenceHasOneOrigin'
  BY <1>1 DEF EvidenceHasOneOrigin
<1>5. IdentifiersWereDiscovered'
  BY <1>1 DEF IdentifiersWereDiscovered, StoredIds
<1>6. ColumnDoiOwnsItsHits' /\ FingerprintRespectsColumnDoi'
  BY <1>1 DEF ColumnDoiOwnsItsHits, FingerprintRespectsColumnDoi
<1>7. TwinsAreFlagged'
  BY <1>1 DEF TwinsAreFlagged
<1> QED BY <1>2, <1>3, <1>4, <1>5, <1>6, <1>7

\* Opening a run preserves the invariant.
LEMMA CreateRunPreserves ==
    ASSUME StoreInv,
           NEW r \in RunId, NEW study \in Study, NEW provider \in Provider,
           NEW mode \in Mode, NEW limit \in Nat,
           CreateSearchRun(r, study, provider, mode, limit)
    PROVE  StoreInv'
<1> USE DEF StoreInv
<1> DEFINE row == [study |-> study, provider |-> provider, mode |-> mode, limit |-> limit,
                   code |-> NextSearchCode(study), status |-> "running",
                   total |-> 0, retrieved |-> 0, created |-> 0,
                   existing |-> 0, complete |-> FALSE]
<1>1. /\ r \notin DOMAIN runs
      /\ runs' = [q \in DOMAIN runs \union {r} |-> IF q = r THEN row ELSE runs[q]]
      /\ UNCHANGED evidenceVars
  BY DEF CreateSearchRun
<1>2. NextSearchCode(study) \in Nat
  BY NextSearchCodeType
<1>3. row \in Run
  BY <1>2 DEF Run, RunStatus
<1>4. DOMAIN runs' = DOMAIN runs \union {r}
  BY <1>1
<1>5. DOMAIN runs' \subseteq RunId /\ runs' \in [DOMAIN runs' -> Run]
  <2> HIDE DEF row
  <2> QED BY <1>1, <1>3, <1>4 DEF StoreTypeOK
<1>6. CodesAreBounded'
  <2>1. PICK b \in Nat : \A q \in DOMAIN runs : runs[q].code <= b
    BY DEF CodesAreBounded
  <2>2. row.code = NextSearchCode(study)
    OBVIOUS
  <2> DEFINE c == NextSearchCode(study)
             bound == IF b <= c THEN c ELSE b
  <2>3. bound \in Nat /\ b <= bound /\ c <= bound
    BY <1>2
  <2>4. \A q \in DOMAIN runs : runs[q].code \in Nat
    BY DEF StoreTypeOK, Run
  <2>5. ASSUME NEW q \in DOMAIN runs' PROVE runs'[q].code <= bound
    <3>1. CASE q = r
      BY <3>1, <1>1, <2>2, <2>3
    <3>2. CASE q # r
      <4> HIDE DEF bound, row
      <4> QED BY <3>2, <1>1, <1>4, <2>1, <2>3, <2>4
    <3> QED BY <3>1, <3>2
  <2> QED BY <2>3, <2>5 DEF CodesAreBounded
<1> QED BY <1>1, <1>5, <1>6, RunsOnlyPreserves

\* Closing a run, either way, preserves the invariant.
LEMMA CompleteRunPreserves ==
    ASSUME StoreInv,
           NEW r \in DOMAIN runs, NEW total \in Nat, NEW retrieved \in Nat,
           NEW created \in Nat, NEW existing \in Nat, NEW complete \in BOOLEAN,
           CompleteSearchRun(r, total, retrieved, created, existing, complete)
    PROVE  StoreInv'
<1> DEFINE row == [runs[r] EXCEPT !.status = "completed", !.total = total,
                               !.retrieved = retrieved, !.created = created,
                               !.existing = existing, !.complete = complete]
<1>1. /\ runs' \in [DOMAIN runs -> Run] /\ DOMAIN runs' = DOMAIN runs
      /\ \A q \in DOMAIN runs : runs'[q].code = runs[q].code
  <2>1. runs \in [DOMAIN runs -> Run]
    BY DEF StoreInv, StoreTypeOK
  <2>2. runs' = [runs EXCEPT ![r] = row]
    BY DEF CompleteSearchRun
  <2>3. row \in Run /\ row.code = runs[r].code
    BY <2>1 DEF Run, RunStatus
  <2> HIDE DEF row
  <2> QED BY <2>1, <2>2, <2>3
<1>2. CodesAreBounded'
  BY <1>1 DEF StoreInv, CodesAreBounded
<1> QED BY <1>1, <1>2, RunsOnlyPreserves DEF CompleteSearchRun, StoreInv, StoreTypeOK

LEMMA FailRunPreserves ==
    ASSUME StoreInv,
           NEW r \in DOMAIN runs, NEW retrieved \in Nat, NEW created \in Nat,
           NEW existing \in Nat, FailSearchRun(r, retrieved, created, existing)
    PROVE  StoreInv'
<1> DEFINE row == [runs[r] EXCEPT !.status = IF retrieved > 0 THEN "partial" ELSE "failed",
                               !.retrieved = retrieved, !.created = created,
                               !.existing = existing, !.complete = FALSE]
<1>1. /\ runs' \in [DOMAIN runs -> Run] /\ DOMAIN runs' = DOMAIN runs
      /\ \A q \in DOMAIN runs : runs'[q].code = runs[q].code
  <2>1. runs \in [DOMAIN runs -> Run]
    BY DEF StoreInv, StoreTypeOK
  <2>2. runs' = [runs EXCEPT ![r] = row]
    BY DEF FailSearchRun
  <2>3. row \in Run /\ row.code = runs[r].code
    BY <2>1 DEF Run, RunStatus
  <2> HIDE DEF row
  <2> QED BY <2>1, <2>2, <2>3
<1>2. CodesAreBounded'
  BY <1>1 DEF StoreInv, CodesAreBounded
<1> QED BY <1>1, <1>2, RunsOnlyPreserves DEF FailSearchRun, StoreInv, StoreTypeOK

-----------------------------------------------------------------------------
(* ingest_search_hit                                                       *)

\* The identifier that matches is the first one known, and it is a known one.
LEMMA FirstKnownIdIsKnown ==
    ASSUME NEW rec \in Record, KnownIds(rec) # {}
    PROVE  FirstKnownId(rec) \in DOMAIN identifiers
<1>1. KnownIds(rec) \subseteq Nat
  BY RecordAssumption DEF KnownIds
<1>2. \E i \in KnownIds(rec) : \A j \in KnownIds(rec) : i <= j
  BY <1>1, LeastElement
<1>3. PICK i \in KnownIds(rec) : FirstKnownId(rec) = rec.ids[i]
  BY <1>2 DEF FirstKnownId
<1> QED BY <1>3 DEF KnownIds

\* A record that matches is given a row of the table; one that does not, a fresh key.
LEMMA EvidenceForType ==
    ASSUME StoreInv, NEW rec \in Record,
           MatchOf(rec) = "none" => DOMAIN evidence # EvidenceId
    PROVE  /\ MatchOf(rec) \in MatchedBy
           /\ MatchOf(rec) # "none" => EvidenceFor(rec) \in DOMAIN evidence
           /\ MatchOf(rec) = "none" => EvidenceFor(rec) \in EvidenceId \ DOMAIN evidence
<1> USE DEF StoreInv
<1>1. MatchOf(rec) \in MatchedBy
  BY DEF MatchOf, MatchedBy
<1>2. DOMAIN evidence \subseteq EvidenceId
  BY DEF StoreTypeOK
<1>3. CASE MatchOf(rec) = "doi"
  <2>1. DoiMatches(rec) # {} /\ DoiMatches(rec) \subseteq DOMAIN evidence
    BY <1>3 DEF MatchOf, DoiMatches
  <2>2. EvidenceFor(rec) = CHOOSE e \in EvidenceId : e \in DoiMatches(rec)
    BY <1>3 DEF EvidenceFor
  <2> QED BY <1>1, <1>2, <1>3, <2>1, <2>2
<1>4. CASE MatchOf(rec) = "identifier"
  <2>1. KnownIds(rec) # {}
    BY <1>4 DEF MatchOf
  <2>2. EvidenceFor(rec) = identifiers[FirstKnownId(rec)]
    BY <1>4 DEF EvidenceFor
  <2>3. identifiers[FirstKnownId(rec)] \in DOMAIN evidence
    BY <2>1, FirstKnownIdIsKnown DEF StoreTypeOK
  <2> QED BY <1>1, <1>4, <2>2, <2>3
<1>5. CASE MatchOf(rec) = "fingerprint"
  <2>1. FingerprintMerges(rec) # {} /\ FingerprintMerges(rec) \subseteq DOMAIN evidence
    BY <1>5 DEF MatchOf, FingerprintMerges, FingerprintMatches
  <2>2. EvidenceFor(rec) = CHOOSE e \in EvidenceId : e \in FingerprintMerges(rec)
    BY <1>5 DEF EvidenceFor
  <2> QED BY <1>1, <1>2, <1>5, <2>1, <2>2
<1>6. CASE MatchOf(rec) = "none"
  <2>1. EvidenceFor(rec) = CHOOSE e \in EvidenceId : e \notin DOMAIN evidence
    BY <1>6 DEF EvidenceFor
  <2>2. \E e \in EvidenceId : e \notin DOMAIN evidence
    BY <1>2, <1>6
  <2> QED BY <1>1, <1>6, <2>1, <2>2
<1> QED BY <1>1, <1>3, <1>4, <1>5, <1>6 DEF MatchedBy

\* What a record stores are identifiers, its DOI's own among them.
LEMMA StoredIdsType ==
    ASSUME NEW rec \in Record
    PROVE  /\ StoredIds(rec) \subseteq Identifier
           /\ rec.doi # NoDoi => DoiIdentifier(rec.doi) \in StoredIds(rec)
<1>1. \A i \in DOMAIN rec.ids : rec.ids[i] \in Identifier
  BY RecordAssumption
<1>2. \A d \in Doi : DoiIdentifier(d) \in Identifier
  BY DoiAssumption
<1>3. rec.doi \in Doi \union {NoDoi}
  BY RecordAssumption
<1> QED BY <1>1, <1>2, <1>3 DEF StoredIds

\* Saving a hit preserves the invariant.
LEMMA IngestPreserves ==
    ASSUME StoreInv,
           NEW r \in RunId, NEW rank \in Nat, NEW rec \in Record,
           IngestSearchHit(r, rank, rec)
    PROVE  StoreInv'
<1> USE DEF StoreInv
<1> DEFINE e == EvidenceFor(rec)
           created == MatchOf(rec) = "none"
           added == StoredIds(rec) \ DOMAIN identifiers
           hit == [run |-> r, rank |-> rank, evidence |-> e, rec |-> rec, by |-> MatchOf(rec)]
           row == [code |-> Cardinality(DOMAIN evidence) + 1, doi |-> rec.doi, work |-> rec.work]
<1>1. /\ created => DOMAIN evidence # EvidenceId
      /\ evidence' = IF created
                     THEN [x \in DOMAIN evidence \union {e} |->
                             IF x = e THEN row ELSE evidence[x]]
                     ELSE evidence
      /\ duplicates' = duplicates \union
                         {{e, x} : x \in IF created THEN ResemblesButDiffers(rec) ELSE {}}
      /\ identifiers' = [i \in DOMAIN identifiers \union added |->
                           IF i \in added THEN e ELSE identifiers[i]]
      /\ hits' = hits \union {hit}
      /\ runs' = runs
  BY DEF IngestSearchHit, IdentifiersWith, NextEvidenceCode
<1>2. /\ MatchOf(rec) \in MatchedBy
      /\ ~created => e \in DOMAIN evidence
      /\ created => e \in EvidenceId \ DOMAIN evidence
  BY <1>1, EvidenceForType
<1>3. /\ rec.doi \in Doi \union {NoDoi}
      /\ rec.work \in Work
  BY RecordAssumption
<1>4. row \in Evidence
  BY <1>3, FS_CardinalityType DEF EvidenceIsFinite, Evidence
<1>5. /\ DOMAIN evidence' = DOMAIN evidence \union {e}
      /\ e \in EvidenceId
      /\ \A x \in DOMAIN evidence : evidence'[x] = evidence[x]
      /\ created => evidence'[e].doi = rec.doi
  <2>1. DOMAIN evidence \subseteq EvidenceId
    BY DEF StoreTypeOK
  <2>2. created => row.doi = rec.doi
    OBVIOUS
  <2> HIDE DEF e, created, row
  <2> QED BY <1>1, <1>2, <2>1, <2>2
<1>6. /\ DOMAIN identifiers' = DOMAIN identifiers \union added
      /\ \A i \in DOMAIN identifiers : identifiers'[i] = identifiers[i]
      /\ \A i \in added : identifiers'[i] = e
  <2> HIDE DEF e
  <2> QED BY <1>1
<1>7. hit.evidence = e /\ hit.rec = rec /\ hit.by = MatchOf(rec)
  OBVIOUS
<1> HIDE DEF e, created, added, hit, row
<1>8. StoreTypeOK'
  <2>1. DOMAIN evidence' \subseteq EvidenceId /\ evidence' \in [DOMAIN evidence' -> Evidence]
    BY <1>1, <1>2, <1>4, <1>5 DEF StoreTypeOK
  <2>2. hit \in Hit
    BY <1>2, <1>5 DEF hit, Hit
  <2>3. DOMAIN identifiers' \subseteq Identifier
    BY <1>6, StoredIdsType DEF added, StoreTypeOK
  <2>4. identifiers' \in [DOMAIN identifiers' -> DOMAIN evidence']
    BY <1>1, <1>5, <1>6 DEF StoreTypeOK
  <2>5. duplicates' \subseteq SUBSET DOMAIN evidence'
    <3>1. ResemblesButDiffers(rec) \subseteq DOMAIN evidence
      BY DEF ResemblesButDiffers, FingerprintMatches
    <3> QED BY <1>1, <1>5, <3>1 DEF StoreTypeOK
  <2> QED BY <1>1, <2>1, <2>2, <2>3, <2>4, <2>5 DEF StoreTypeOK
<1>9. EvidenceIsFinite'
  BY <1>5, FS_AddElement DEF EvidenceIsFinite
<1>10. CodesAreBounded'
  BY <1>1 DEF CodesAreBounded
<1>11. ColumnDoisDiffer'
  <2> SUFFICES ASSUME NEW x \in DOMAIN evidence', NEW y \in DOMAIN evidence',
                      evidence'[x].doi # NoDoi, evidence'[x].doi = evidence'[y].doi
               PROVE  x = y
    BY DEF ColumnDoisDiffer
  <2>1. CASE ~created
    BY <2>1, <1>1 DEF ColumnDoisDiffer
  <2>2. CASE created
    <3>1. \A z \in DOMAIN evidence : rec.doi # NoDoi => evidence[z].doi # rec.doi
      BY <2>2 DEF created, MatchOf, DoiMatches
    <3> QED BY <2>2, <3>1, <1>5 DEF ColumnDoisDiffer
  <2> QED BY <2>1, <2>2
<1>12. rec.doi # NoDoi => DoiIdentifier(rec.doi) \in DOMAIN identifiers'
  BY <1>6, StoredIdsType DEF added
<1>13. HitDoisAreKnown'
  BY <1>1, <1>6, <1>7, <1>12 DEF HitDoisAreKnown
<1>14. IdentifiersWereDiscovered'
  <2> SUFFICES ASSUME NEW i \in DOMAIN identifiers'
               PROVE  \E h \in hits' : h.evidence = identifiers'[i] /\ i \in StoredIds(h.rec)
    BY DEF IdentifiersWereDiscovered, StoredIds
  <2>1. CASE i \in added
    BY <2>1, <1>1, <1>6, <1>7 DEF added
  <2>2. CASE i \in DOMAIN identifiers
    BY <2>2, <1>1, <1>6 DEF IdentifiersWereDiscovered
  <2> QED BY <2>1, <2>2, <1>6
<1>15. ColumnDoiOwnsItsHits'
  <2> SUFFICES ASSUME NEW x \in DOMAIN evidence', NEW h \in hits',
                      evidence'[x].doi # NoDoi, h.rec.doi = evidence'[x].doi
               PROVE  h.evidence = x
    BY DEF ColumnDoiOwnsItsHits
  <2>1. CASE h \in hits /\ x \in DOMAIN evidence
    BY <2>1, <1>5 DEF ColumnDoiOwnsItsHits
  \* A record whose DOI a column holds is matched by that column.
  <2>2. CASE h = hit /\ x \in DOMAIN evidence
    <3>1. x \in DoiMatches(rec)
      BY <2>2, <1>5, <1>7 DEF DoiMatches
    <3>2. e = CHOOSE y \in EvidenceId : y \in DoiMatches(rec)
      BY <3>1 DEF e, EvidenceFor, MatchOf
    <3>3. e \in DoiMatches(rec)
      BY <3>1, <3>2 DEF DoiMatches, StoreTypeOK
    <3>4. e = x
      BY <3>1, <3>3 DEF DoiMatches, ColumnDoisDiffer
    <3> QED BY <3>4, <2>2, <1>7
  <2>3. CASE h = hit /\ x = e
    BY <2>3, <1>7
  \* A DOI seen before is a known identifier, so that its record creates no row.
  <2>4. CASE h \in hits /\ x = e /\ created
    <3>1. rec.doi = h.rec.doi /\ rec.doi # NoDoi
      BY <2>4, <1>5
    <3>2. DoiIdentifier(rec.doi) \in DOMAIN identifiers
      BY <2>4, <3>1 DEF HitDoisAreKnown
    <3>3. PICK i \in DOMAIN rec.ids : rec.ids[i] = DoiIdentifier(rec.doi)
      BY <3>1, RecordAssumption
    <3>4. i \in KnownIds(rec)
      BY <3>2, <3>3 DEF KnownIds
    <3>5. MatchOf(rec) # "none"
      BY <3>4 DEF MatchOf
    <3> QED BY <3>5, <2>4 DEF created
  <2>5. x \in DOMAIN evidence \/ (x = e /\ created)
    BY <1>2, <1>5
  <2> QED BY <2>1, <2>2, <2>3, <2>4, <2>5, <1>1
<1>16. FingerprintRespectsColumnDoi'
  <2> SUFFICES ASSUME NEW h \in hits', h.by = "fingerprint", h.rec.doi # NoDoi
               PROVE  evidence'[h.evidence].doi \in {NoDoi, h.rec.doi}
    BY DEF FingerprintRespectsColumnDoi
  <2>1. CASE h \in hits
    <3>1. h.evidence \in DOMAIN evidence
      BY <2>1 DEF EvidenceHasOneOrigin
    <3> QED BY <2>1, <3>1, <1>5 DEF FingerprintRespectsColumnDoi
  <2>2. CASE h = hit
    <3>1. MatchOf(rec) = "fingerprint"
      BY <2>2, <1>7
    <3>2. FingerprintMerges(rec) # {} /\ FingerprintMerges(rec) \subseteq DOMAIN evidence
      BY <3>1 DEF MatchOf, FingerprintMerges, FingerprintMatches
    <3>3. e = CHOOSE y \in EvidenceId : y \in FingerprintMerges(rec)
      BY <3>1 DEF e, EvidenceFor
    <3>4. e \in FingerprintMerges(rec)
      BY <3>2, <3>3 DEF StoreTypeOK
    <3>5. evidence[e].doi \in {NoDoi, rec.doi}
      BY <2>2, <3>4, <1>7 DEF FingerprintMerges, DoisAgree
    <3> QED BY <2>2, <3>2, <3>4, <3>5, <1>5, <1>7
  <2> QED BY <2>1, <2>2, <1>1
<1>17. EvidenceHasOneOrigin'
  <2> DEFINE creators(x) == {h \in hits : h.evidence = x /\ h.by = "none"}
             creatorsAfter(x) == {h \in hits' : h.evidence = x /\ h.by = "none"}
  <2>1. \A h \in hits : h.evidence \in DOMAIN evidence
    BY DEF EvidenceHasOneOrigin
  <2>2. ASSUME NEW x \in DOMAIN evidence' PROVE Cardinality(creatorsAfter(x)) = 1
    <3>1. CASE x = e /\ created
      <4>1. hit.by = "none" /\ x \notin DOMAIN evidence
        BY <3>1, <1>2, <1>7 DEF created
      <4>2. creatorsAfter(x) = {hit}
        BY <4>1, <3>1, <2>1, <1>1, <1>7
      <4> QED BY <4>2, FS_Singleton
    <3>2. CASE x \in DOMAIN evidence
      <4>1. hit \notin creatorsAfter(x)
        BY <3>2, <1>2, <1>7 DEF created
      <4>2. creatorsAfter(x) = creators(x)
        BY <4>1, <1>1
      <4> QED BY <3>2, <4>2 DEF EvidenceHasOneOrigin
    <3> QED BY <3>1, <3>2, <1>2, <1>5
  <2>3. {h.evidence : h \in hits'} = DOMAIN evidence'
    <3>1. {h.evidence : h \in hits'} = {h.evidence : h \in hits} \union {e}
      BY <1>1, <1>7
    <3> QED BY <3>1, <1>5 DEF EvidenceHasOneOrigin
  <2>4. {evidence'[x].code : x \in DOMAIN evidence'} = 1..Cardinality(DOMAIN evidence')
    <3>1. CASE ~created
      BY <3>1, <1>1 DEF EvidenceHasOneOrigin
    <3>2. CASE created
      <4> DEFINE n == Cardinality(DOMAIN evidence)
      <4>1. n \in Nat /\ Cardinality(DOMAIN evidence') = n + 1
        BY <3>2, <1>2, <1>5, FS_CardinalityType, FS_AddElement DEF EvidenceIsFinite
      <4>2. evidence'[e].code = n + 1
        BY <3>2, <1>1 DEF row
      <4>3. {evidence'[x].code : x \in DOMAIN evidence'}
              = {evidence[x].code : x \in DOMAIN evidence} \union {n + 1}
        BY <4>2, <1>5
      <4>4. {evidence[x].code : x \in DOMAIN evidence} = 1..n
        BY DEF EvidenceHasOneOrigin
      <4>5. (1..n) \union {n + 1} = 1..(n + 1)
        BY <4>1
      <4> QED BY <4>1, <4>3, <4>4, <4>5
    <3> QED BY <3>1, <3>2
  <2> QED BY <2>2, <2>3, <2>4 DEF EvidenceHasOneOrigin
<1>18. TwinsAreFlagged'
  <2> DEFINE twins(x) == {y \in DOMAIN evidence : evidence[y].work = evidence[x].work}
             twinsAfter(x) == {y \in DOMAIN evidence' : evidence'[y].work = evidence'[x].work}
  <2> SUFFICES ASSUME NEW a \in DOMAIN evidence', NEW b \in DOMAIN evidence',
                      a # b, evidence'[a].work \in StrongWork, twinsAfter(a) = {a, b}
               PROVE  /\ {a, b} \in duplicates'
                      /\ evidence'[a].doi # NoDoi /\ evidence'[b].doi # NoDoi
    BY DEF TwinsAreFlagged
  <2>1. evidence'[a].work = evidence'[b].work
    OBVIOUS
  <2>2. CASE a \in DOMAIN evidence /\ b \in DOMAIN evidence
    <3>1. twins(a) = {a, b}
      BY <2>1, <2>2, <1>5
    <3> QED BY <2>2, <3>1, <1>1, <1>5 DEF TwinsAreFlagged
  \* The twin of a row just created was the only row of its fingerprint, and since
  \* it did not absorb the record, their DOIs conflict.
  <2>3. ASSUME created, NEW x \in DOMAIN evidence, {a, b} = {e, x}
        PROVE  {a, b} \in duplicates' /\ rec.doi # NoDoi /\ evidence[x].doi # NoDoi
    <3>1. e \notin DOMAIN evidence /\ evidence'[e].work = rec.work
      BY <2>3, <1>1, <1>2 DEF row
    <3>2. evidence[x].work = rec.work /\ rec.work \in StrongWork
      BY <2>1, <2>3, <3>1, <1>5
    <3>3. FingerprintMatches(rec) = {x}
      <4>1. \A y \in DOMAIN evidence : evidence[y].work = rec.work => y \in twinsAfter(a)
        BY <2>1, <2>3, <3>1, <1>5
      <4>2. \A y \in DOMAIN evidence : evidence[y].work = rec.work => y = x
        BY <4>1, <2>3, <3>1
      <4> QED BY <3>2, <4>2 DEF FingerprintMatches
    <3>4. x \in ResemblesButDiffers(rec)
      BY <3>3 DEF ResemblesButDiffers
    <3>5. {a, b} \in duplicates'
      BY <2>3, <3>4, <1>1
    <3>6. ~DoisAgree(rec, x)
      BY <2>3, <3>3 DEF created, MatchOf, FingerprintMerges
    <3> QED BY <3>5, <3>6 DEF DoisAgree
  <2>4. CASE a = e /\ created /\ b \in DOMAIN evidence
    BY <2>3, <2>4, <1>5
  <2>5. CASE b = e /\ created /\ a \in DOMAIN evidence
    BY <2>3, <2>5, <1>5
  <2> QED BY <2>2, <2>4, <2>5, <1>2, <1>5
<1> QED BY <1>8, <1>9, <1>10, <1>11, <1>13, <1>14, <1>15, <1>16, <1>17, <1>18

-----------------------------------------------------------------------------
(* The store                                                               *)

LEMMA StoreInitially == StoreInit => StoreInv
<1> SUFFICES ASSUME StoreInit PROVE StoreInv
  OBVIOUS
<1>1. /\ DOMAIN runs = {} /\ DOMAIN evidence = {} /\ DOMAIN identifiers = {}
      /\ hits = {} /\ duplicates = {}
  BY DEF StoreInit
<1>2. StoreTypeOK
  BY <1>1 DEF StoreInit, StoreTypeOK
<1>3. IsFiniteSet(DOMAIN evidence) /\ Cardinality(DOMAIN evidence) = 0
  BY <1>1, FS_EmptySet
<1>4. EvidenceHasOneOrigin
  <2>1. {evidence[x].code : x \in DOMAIN evidence} = 1..0
    BY <1>1
  <2> QED BY <1>1, <1>3, <2>1 DEF EvidenceHasOneOrigin
<1> QED BY <1>1, <1>2, <1>3, <1>4
        DEF StoreInv, EvidenceIsFinite, CodesAreBounded, ColumnDoisDiffer, HitDoisAreKnown,
            IdentifiersWereDiscovered, ColumnDoiOwnsItsHits, FingerprintRespectsColumnDoi,
            TwinsAreFlagged

\* The hits of a run can be counted: their ranks, and so the next one, are numbers.
HitsAreFinite == IsFiniteSet(hits)

LEMMA StoreStep == StoreInv /\ HitsAreFinite /\ [StoreNext]_storeVars => (StoreInv /\ HitsAreFinite)'
<1> SUFFICES ASSUME StoreInv, HitsAreFinite, [StoreNext]_storeVars
             PROVE  (StoreInv /\ HitsAreFinite)'
  OBVIOUS
<1>1. CASE OpenRun
  <2>1. PICK r \in RunId, s \in Study, p \in Provider :
            CreateSearchRun(r, s, p, "save", MaxLimit)
    BY <1>1 DEF OpenRun
  <2>2. "save" \in Mode /\ MaxLimit \in Nat
    BY BoundAssumption DEF Mode
  <2>3. hits' = hits
    BY <2>1 DEF CreateSearchRun, evidenceVars
  <2> QED BY <2>1, <2>2, <2>3, CreateRunPreserves DEF HitsAreFinite
<1>2. CASE SaveHit
  <2>1. PICK r \in DOMAIN runs, rec \in Record :
            IngestSearchHit(r, Cardinality(HitsOf(r)) + 1, rec)
    BY <1>2 DEF SaveHit
  <2>2. r \in RunId
    BY DEF StoreInv, StoreTypeOK
  <2>3. Cardinality(HitsOf(r)) + 1 \in Nat
    <3>1. IsFiniteSet(HitsOf(r))
      BY FS_Subset DEF HitsAreFinite, HitsOf
    <3> QED BY <3>1, FS_CardinalityType
  <2>4. StoreInv'
    BY <2>1, <2>2, <2>3, IngestPreserves
  <2>5. HitsAreFinite'
    BY <2>1, FS_AddElement DEF HitsAreFinite, IngestSearchHit
  <2> QED BY <2>4, <2>5
<1>3. CASE UNCHANGED storeVars
  BY <1>3, RunsOnlyPreserves
     DEF storeVars, evidenceVars, StoreInv, StoreTypeOK, CodesAreBounded, HitsAreFinite
<1> QED BY <1>1, <1>2, <1>3 DEF StoreNext

LEMMA StoreInvariant == StoreSpec => [](StoreInv /\ HitsAreFinite)
<1>1. StoreInit => StoreInv /\ HitsAreFinite
  BY StoreInitially, FS_EmptySet DEF StoreInit, HitsAreFinite
<1> QED BY <1>1, StoreStep, PTL DEF StoreSpec

\* Every table keeps its columns' types, whatever the providers return.
THEOREM StoreTypesHold == StoreSpec => []StoreTypeOK
BY StoreInvariant, PTL DEF StoreInv

\* ingest_search_hit leaves no orphan evidence, and its codes stay 1..COUNT(*).
THEOREM EvidenceOriginHolds == StoreSpec => []EvidenceHasOneOrigin
BY StoreInvariant, PTL DEF StoreInv

\* No identifier points to evidence it was not discovered with.
THEOREM IdentifiersHold == StoreSpec => []IdentifiersWereDiscovered
BY StoreInvariant, PTL DEF StoreInv

\* The first lookup of ingest_search_hit and the identifiers it inserts keep every
\* hit with a DOI at the evidence created with that DOI.
THEOREM ColumnDoiHolds == StoreSpec => []ColumnDoiOwnsItsHits
BY StoreInvariant, PTL DEF StoreInv

\* The fingerprint lookup never crosses two DOIs that the evidence column shows.
THEOREM FingerprintHolds == StoreSpec => []FingerprintRespectsColumnDoi
BY StoreInvariant, PTL DEF StoreInv

\* Two rows of one fingerprint are always a pair to review.
THEOREM TwinsHold == StoreSpec => []TwinsAreFlagged
BY StoreInvariant, PTL DEF StoreInv

\* A saved hit adds to what was discovered and rewrites nothing.
LEMMA IngestKeeps ==
    ASSUME StoreInv, NEW r, NEW rank, NEW rec \in Record, IngestSearchHit(r, rank, rec)
    PROVE  /\ hits \subseteq hits'
           /\ duplicates \subseteq duplicates'
           /\ \A e \in DOMAIN evidence : e \in DOMAIN evidence' /\ evidence'[e] = evidence[e]
           /\ \A i \in DOMAIN identifiers :
                 i \in DOMAIN identifiers' /\ identifiers'[i] = identifiers[i]
<1>1. MatchOf(rec) = "none" => DOMAIN evidence # EvidenceId
  BY DEF IngestSearchHit
<1>2. MatchOf(rec) = "none" => EvidenceFor(rec) \notin DOMAIN evidence
  BY <1>1, EvidenceForType
<1>3. hits \subseteq hits' /\ duplicates \subseteq duplicates'
  BY DEF IngestSearchHit
<1>4. \A e \in DOMAIN evidence : e \in DOMAIN evidence' /\ evidence'[e] = evidence[e]
  BY <1>2 DEF IngestSearchHit
<1>5. \A i \in DOMAIN identifiers : i \in DOMAIN identifiers' /\ identifiers'[i] = identifiers[i]
  BY DEF IngestSearchHit, IdentifiersWith
<1> QED BY <1>3, <1>4, <1>5

\* No transaction of a search rewrites or removes what an earlier one discovered.
THEOREM DiscoveriesHold == StoreSpec => DiscoveriesAreKept
<1> DEFINE Kept == /\ hits \subseteq hits'
                   /\ duplicates \subseteq duplicates'
                   /\ \A e \in DOMAIN evidence :
                         e \in DOMAIN evidence' /\ evidence'[e] = evidence[e]
                   /\ \A i \in DOMAIN identifiers :
                         i \in DOMAIN identifiers' /\ identifiers'[i] = identifiers[i]
<1>1. StoreInv /\ [StoreNext]_storeVars => [Kept]_storeVars
  <2> SUFFICES ASSUME StoreInv, StoreNext PROVE Kept
    OBVIOUS
  <2>1. CASE OpenRun
    BY <2>1 DEF OpenRun, CreateSearchRun, evidenceVars
  <2>2. CASE SaveHit
    <3>1. PICK r \in DOMAIN runs, rec \in Record :
              IngestSearchHit(r, Cardinality(HitsOf(r)) + 1, rec)
      BY <2>2 DEF SaveHit
    <3> QED BY <3>1, IngestKeeps
  <2> QED BY <2>1, <2>2 DEF StoreNext
<1> QED BY <1>1, StoreInvariant, PTL DEF StoreSpec, DiscoveriesAreKept
=============================================================================
