---------------------------- MODULE EvidenceStore ----------------------------
(***************************************************************************)
(* The tables of db/database.py a search writes, and the transactions that *)
(* write them.  SQLite admits one writer at a time and every transaction   *)
(* here starts with BEGIN IMMEDIATE or is a single statement, so each is   *)
(* one atomic step; an exception inside one rolls it back.                 *)
(*                                                                         *)
(* A row is named by its primary key.  uuid4() is any key not yet in use;  *)
(* the texts of a record are abstracted to what the code compares:         *)
(*   - a "work" stands for the triple (normalized title, year, first       *)
(*     author); two records have the same bibliographic fingerprint iff    *)
(*     they have the same work and that work is in StrongWork (title of at *)
(*     least 12 characters, a year and an author);                         *)
(*   - Similar relates works of one year and first author whose titles     *)
(*     have a similarity ratio in [0.65, 1).                               *)
(***************************************************************************)
EXTENDS Integers, FiniteSets, Sequences

CONSTANTS
    Study,       \* study_id of the studies table
    Provider,    \* the registered source adapters
    RunId,       \* primary keys of search_runs
    EvidenceId,  \* primary keys of evidence
    Doi,         \* normalized DOIs
    NoDoi,       \* normalize_doi returned None
    DoiText,     \* [Doi -> text]: normalize_text of a DOI, which merges punctuation
    Identifier,  \* <<identifier_type, normalized value>>
    Work, StrongWork, Similar,
    Record,      \* the SourceRecords the adapters may return
    MaxLimit,    \* bound: largest requested_limit
    MaxTotal     \* bound: largest total a provider reports

DoiIdentifier(d) == <<"doi", DoiText[d]>>

ASSUME DoiAssumption ==
    /\ NoDoi \notin Doi
    /\ \A d \in Doi : DoiIdentifier(d) \in Identifier

ASSUME WorkAssumption ==
    /\ StrongWork \subseteq Work
    /\ Similar \subseteq Work \X Work
    /\ \A w \in Work : <<w, w>> \notin Similar

\* ids is record.identifiers in the order of the dictionary, the adapters'
\* "doi" entry included, which each of them adds to every record with a DOI, and
\* which the providers give bare ("10...."), not as a URL; pid is provider_record_id.
ASSUME RecordAssumption ==
    \A rec \in Record : /\ rec.provider \in Provider
                        /\ rec.doi \in Doi \union {NoDoi}
                        /\ rec.ids \in Seq(Identifier)
                        /\ rec.work \in Work
                        /\ rec.doi # NoDoi => \E i \in DOMAIN rec.ids :
                                                rec.ids[i] = DoiIdentifier(rec.doi)

ASSUME BoundAssumption == MaxLimit \in Nat /\ MaxTotal \in Nat

VARIABLES
    runs,        \* search_runs: a function from the used RunIds to rows
    hits,        \* search_hits
    evidence,    \* evidence: a function from the used EvidenceIds to rows
    identifiers, \* evidence_identifiers: UNIQUE(type, value), so a function to evidence
    duplicates   \* possible_duplicates: sorted pairs of evidence, as sets

storeVars == <<runs, hits, evidence, identifiers, duplicates>>
evidenceVars == <<hits, evidence, identifiers, duplicates>>

Mode == {"explore", "save"}
RunStatus == {"running", "completed", "partial", "failed"}
MatchedBy == {"doi", "identifier", "fingerprint", "none"}

Run == [study: Study, provider: Provider, mode: Mode, limit: Nat, code: Nat,
        status: RunStatus, total: Nat, retrieved: Nat, created: Nat, existing: Nat, complete: BOOLEAN]
Evidence == [code: Nat, doi: Doi \union {NoDoi}, work: Work]
\* by is IngestResult.matched_by, kept with the hit as an observation.
Hit == [run: RunId, rank: Nat, evidence: EvidenceId, rec: Record, by: MatchedBy]

StoreTypeOK ==
    /\ DOMAIN runs \subseteq RunId /\ runs \in [DOMAIN runs -> Run]
    /\ hits \subseteq Hit
    /\ DOMAIN evidence \subseteq EvidenceId /\ evidence \in [DOMAIN evidence -> Evidence]
    /\ DOMAIN identifiers \subseteq Identifier
    /\ identifiers \in [DOMAIN identifiers -> DOMAIN evidence]
    /\ duplicates \subseteq SUBSET DOMAIN evidence

StoreInit ==
    /\ runs = [r \in {} |-> 0]
    /\ hits = {}
    /\ evidence = [e \in {} |-> 0]
    /\ identifiers = [i \in {} |-> 0]
    /\ duplicates = {}

HitsOf(r) == {h \in hits : h.run = r}
Terminal(r) == runs[r].status # "running"

-----------------------------------------------------------------------------
(* search_runs                                                             *)

\* SELECT COALESCE(MAX(search_code), 0) + 1 ... WHERE study_id = ?
NextSearchCode(study) ==
    LET used == {0} \union {runs[r].code : r \in {q \in DOMAIN runs : runs[q].study = study}}
    IN  1 + CHOOSE m \in used : \A n \in used : n <= m

CreateSearchRun(r, study, provider, mode, limit) ==
    /\ r \in RunId \ DOMAIN runs
    /\ runs' = [q \in DOMAIN runs \union {r} |->
                  IF q = r
                  THEN [study |-> study, provider |-> provider, mode |-> mode, limit |-> limit,
                        code |-> NextSearchCode(study), status |-> "running",
                        total |-> 0, retrieved |-> 0, created |-> 0,
                        existing |-> 0, complete |-> FALSE]
                  ELSE runs[q]]
    /\ UNCHANGED evidenceVars

\* Neither UPDATE looks at the status it overwrites.
CompleteSearchRun(r, total, retrieved, created, existing, complete) ==
    /\ runs' = [runs EXCEPT ![r] =
                  [@ EXCEPT !.status = "completed", !.total = total,
                            !.retrieved = retrieved, !.created = created,
                            !.existing = existing, !.complete = complete]]
    /\ UNCHANGED evidenceVars

\* Mutant: is_complete keeps the value it had.
FailSearchRunKeepsComplete(r, retrieved, created, existing) ==
    /\ runs' = [runs EXCEPT ![r] =
                  [@ EXCEPT !.status = IF retrieved > 0 THEN "partial" ELSE "failed",
                            !.retrieved = retrieved, !.created = created,
                            !.existing = existing]]
    /\ UNCHANGED evidenceVars

\* Mutant: a failure is a failure, whatever was saved before it.
FailSearchRunAlwaysFailed(r, retrieved, created, existing) ==
    /\ runs' = [runs EXCEPT ![r] =
                  [@ EXCEPT !.status = "failed", !.retrieved = retrieved,
                            !.created = created, !.existing = existing, !.complete = FALSE]]
    /\ UNCHANGED evidenceVars

FailSearchRun(r, retrieved, created, existing) ==
    /\ runs' = [runs EXCEPT ![r] =
                  [@ EXCEPT !.status = IF retrieved > 0 THEN "partial" ELSE "failed",
                            !.retrieved = retrieved, !.created = created,
                            !.existing = existing, !.complete = FALSE]]
    /\ UNCHANGED evidenceVars

-----------------------------------------------------------------------------
(* ingest_search_hit: which evidence a record belongs to                   *)

DoiMatches(rec) == {e \in DOMAIN evidence : rec.doi # NoDoi /\ evidence[e].doi = rec.doi}

KnownIds(rec) == {i \in DOMAIN rec.ids : rec.ids[i] \in DOMAIN identifiers}
FirstKnownId(rec) == rec.ids[CHOOSE i \in KnownIds(rec) : \A j \in KnownIds(rec) : i <= j]

FingerprintMatches(rec) ==
    {e \in DOMAIN evidence : rec.work \in StrongWork /\ evidence[e].work = rec.work}

\* Mutant: the DOIs are not compared.
DoisAgreeAlways(rec, e) == TRUE

DoisAgree(rec, e) == rec.doi = NoDoi \/ evidence[e].doi \in {NoDoi, rec.doi}

\* The one row of equal fingerprint, if there is one and its DOI does not conflict.
FingerprintMerges(rec) ==
    {e \in FingerprintMatches(rec) : FingerprintMatches(rec) = {e} /\ DoisAgree(rec, e)}

\* Mutant: the identifiers are looked up before the DOI.
MatchOfIdentifierFirst(rec) ==
    IF KnownIds(rec) # {} THEN "identifier"
    ELSE IF DoiMatches(rec) # {} THEN "doi"
    ELSE IF FingerprintMerges(rec) # {} THEN "fingerprint"
    ELSE "none"

MatchOf(rec) ==
    IF DoiMatches(rec) # {} THEN "doi"
    ELSE IF KnownIds(rec) # {} THEN "identifier"
    ELSE IF FingerprintMerges(rec) # {} THEN "fingerprint"
    ELSE "none"

\* The evidence matched, or a fresh uuid4.
EvidenceFor(rec) ==
    CASE MatchOf(rec) = "doi"         -> CHOOSE e \in EvidenceId : e \in DoiMatches(rec)
      [] MatchOf(rec) = "identifier"  -> identifiers[FirstKnownId(rec)]
      [] MatchOf(rec) = "fingerprint" -> CHOOSE e \in EvidenceId : e \in FingerprintMerges(rec)
      [] MatchOf(rec) = "none"        -> CHOOSE e \in EvidenceId : e \notin DOMAIN evidence

\* Mutant: only similar titles are recorded as possible duplicates.
ResemblesByTitle(rec) == {e \in DOMAIN evidence : <<rec.work, evidence[e].work>> \in Similar}

\* What a created row is recorded as a possible duplicate of: the only row of
\* equal fingerprint, when their DOIs conflict, and every row of a similar title.
ResemblesButDiffers(rec) ==
    {e \in FingerprintMatches(rec) : FingerprintMatches(rec) = {e}}
    \union {e \in DOMAIN evidence : <<rec.work, evidence[e].work>> \in Similar}

\* Mutant: the "doi" identifier is written even when there is no DOI.
StoredIdsAlwaysDoi(rec) == {rec.ids[i] : i \in DOMAIN rec.ids} \union {<<"doi", rec.doi>>}

\* dict(record.identifiers) with "doi" overwritten by the normalized DOI.
StoredIds(rec) ==
    {rec.ids[i] : i \in {j \in DOMAIN rec.ids : rec.doi = NoDoi \/ rec.ids[j][1] # "doi"}}
    \union {DoiIdentifier(d) : d \in Doi \intersect {rec.doi}}

\* Mutants: INSERT OR REPLACE; and the one row of equal fingerprint takes the
\* identifiers although its DOI conflicts.
IdentifiersReplaced(rec, e) ==
    [i \in DOMAIN identifiers \union StoredIds(rec) |->
        IF i \in StoredIds(rec) THEN e ELSE identifiers[i]]
IdentifiersOfTwin(rec, e) ==
    LET added == StoredIds(rec) \ DOMAIN identifiers
    IN  [i \in DOMAIN identifiers \union added |->
            IF i \notin added THEN identifiers[i]
            ELSE IF \E x \in DOMAIN evidence : FingerprintMatches(rec) = {x}
            THEN CHOOSE x \in DOMAIN evidence : FingerprintMatches(rec) = {x}
            ELSE e]

\* evidence_identifiers once e has the identifiers of a record: INSERT OR IGNORE.
IdentifiersWith(rec, e) ==
    LET added == StoredIds(rec) \ DOMAIN identifiers
    IN  [i \in DOMAIN identifiers \union added |-> IF i \in added THEN e ELSE identifiers[i]]

\* Mutant: COUNT(*) without + 1.
NextEvidenceCodeIsCount == Cardinality(DOMAIN evidence)

\* SELECT COUNT(*) + 1 FROM evidence
NextEvidenceCode == Cardinality(DOMAIN evidence) + 1

\* UNIQUE(search_run_id, rank) and UNIQUE(search_run_id, provider_record_id)
HitIsUnique(r, rank, rec) == \A h \in HitsOf(r) : h.rank # rank /\ h.rec.pid # rec.pid

IngestSearchHit(r, rank, rec) ==
    LET e == EvidenceFor(rec)
        created == MatchOf(rec) = "none"
    IN  /\ HitIsUnique(r, rank, rec)
        /\ created => DOMAIN evidence # EvidenceId       \* bound: EvidenceId is not used up
        /\ evidence' = IF created
                       THEN [x \in DOMAIN evidence \union {e} |->
                               IF x = e
                               THEN [code |-> NextEvidenceCode, doi |-> rec.doi, work |-> rec.work]
                               ELSE evidence[x]]
                       ELSE evidence
        /\ duplicates' = duplicates \union
                           {{e, x} : x \in IF created THEN ResemblesButDiffers(rec) ELSE {}}
        /\ identifiers' = IdentifiersWith(rec, e)
        /\ hits' = hits \union
                     {[run |-> r, rank |-> rank, evidence |-> e, rec |-> rec, by |-> MatchOf(rec)]}
        /\ UNCHANGED runs

-----------------------------------------------------------------------------
(* The store driven by any callers that rank a run's hits 1, 2, 3, ...     *)
(* The calls that really drive it are in ResearchService.                  *)

OpenRun == \E r \in RunId, s \in Study, p \in Provider :
             CreateSearchRun(r, s, p, "save", MaxLimit)
SaveHit == \E r \in DOMAIN runs, rec \in Record :
             /\ rec.provider = runs[r].provider
             /\ IngestSearchHit(r, Cardinality(HitsOf(r)) + 1, rec)

StoreNext == OpenRun \/ SaveHit
StoreSpec == StoreInit /\ [][StoreNext]_storeVars
-----------------------------------------------------------------------------
(* Properties                                                              *)

\* Atomicity of ingest_search_hit: whatever fails or interleaves, no evidence
\* exists that no saved hit discovered, exactly one hit created it, and its
\* evidence_code (COUNT(*) + 1) is nobody else's.
EvidenceHasOneOrigin ==
    /\ \A e \in DOMAIN evidence :
          Cardinality({h \in hits : h.evidence = e /\ h.by = "none"}) = 1
    /\ {h.evidence : h \in hits} = DOMAIN evidence
    /\ {evidence[e].code : e \in DOMAIN evidence} = 1..Cardinality(DOMAIN evidence)

\* Every row of evidence_identifiers was supplied by a record that was merged
\* into the very evidence the row points to.
IdentifiersWereDiscovered ==
    \A i \in DOMAIN identifiers :
        \E h \in hits : h.evidence = identifiers[i] /\ i \in StoredIds(h.rec)

\* Once evidence is created with a DOI, every hit with that DOI, of any run
\* and saved before or after, belongs to it: a created row's DOI was never seen.
ColumnDoiOwnsItsHits ==
    \A e \in DOMAIN evidence, h \in hits :
        evidence[e].doi # NoDoi /\ h.rec.doi = evidence[e].doi => h.evidence = e

\* A fingerprint never merges a record into evidence created with another DOI.
FingerprintRespectsColumnDoi ==
    \A h \in hits :
        h.by = "fingerprint" /\ h.rec.doi # NoDoi
            => evidence[h.evidence].doi \in {NoDoi, h.rec.doi}

\* When exactly two rows share a fingerprint, they conflict in their DOIs and the
\* pair waits for review in possible_duplicates.
TwinsAreFlagged ==
    \A a, b \in DOMAIN evidence :
        LET twins == {e \in DOMAIN evidence : evidence[e].work = evidence[a].work}
        IN  a # b /\ evidence[a].work \in StrongWork /\ twins = {a, b}
              => /\ {a, b} \in duplicates
                 /\ evidence[a].doi # NoDoi /\ evidence[b].doi # NoDoi

\* An identifier, once attached to evidence, is never moved to other evidence, and
\* no evidence or hit is ever rewritten or lost: every discovery is kept.
DiscoveriesAreKept ==
    [][ /\ hits \subseteq hits'
        /\ duplicates \subseteq duplicates'
        /\ \A e \in DOMAIN evidence : e \in DOMAIN evidence' /\ evidence'[e] = evidence[e]
        /\ \A i \in DOMAIN identifiers :
              i \in DOMAIN identifiers' /\ identifiers'[i] = identifiers[i] ]_storeVars

\* tests/unit/test_database.py, test_conflicting_dois_prevent_fingerprint_merge:
\* two records that share only a fingerprint and have different DOIs are not merged.
ConflictingDoisPreventFingerprintMerge ==
    \A g, h \in hits :
        g.evidence = h.evidence /\ NoDoi \notin {g.rec.doi, h.rec.doi} /\ g.rec.doi # h.rec.doi
            => "identifier" \in {g.by, h.by}

\* README.md:29, "Exact normalized DOI, trusted stable identifier, then ...": hits
\* with the same normalized DOI belong to one evidence, whatever else they carry.
SameDoiIsOneEvidence ==
    \A g, h \in hits : g.rec.doi # NoDoi /\ g.rec.doi = h.rec.doi => g.evidence = h.evidence
=============================================================================
