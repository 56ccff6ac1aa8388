---------------------------- MODULE SourceAdapters ----------------------------
(***************************************************************************)
(* The adapters of sources/: how `count` and `search` ask a provider, and   *)
(* how ResearchService.explore and save page through it.  ResearchService   *)
(* takes any page an adapter could return; here the adapters' own paging,   *)
(* retries and pacing are modelled, against a provider whose listing may    *)
(* change between two pages.                                                *)
(*                                                                         *)
(* Providers are external.  A record is a number; the listing of a query is  *)
(* the sequence the provider would page through now.  A page may hold fewer  *)
(* records than it has room for, or none; entries that are no records, which *)
(* the adapters leave out of the middle of a page, are not modelled.  Time is *)
(* relative: how long ago arXiv was asked, and how long a call has paused, up *)
(* to Delay.                                                               *)
(***************************************************************************)
EXTENDS Integers, Sequences, FiniteSets

CONSTANTS
    Save,          \* concurrent calls of explore and save
    Adapter,       \* adapters that are configured and available
    PageSize,      \* retention_policy.max_page_size of each adapter
    Listings,      \* bound: lengths of the provider's listing at first
    Requested,     \* bound: values of requested_limit; 0 stands for explore, which only counts
    MaxFaults,     \* bound: failed answers, short and empty pages and changes of the listing
    Delay,         \* polite_delay_seconds
    Attempts       \* retry_attempts of Scopus

ASSUME SourcesAssumption ==
    /\ Adapter \subseteq {"arxiv", "scopus", "wos_starter", "wos_expanded", "ieee_xplore",
                          "acl_anthology"}
    /\ PageSize \in [Adapter -> Nat \ {0}]
    /\ Listings \subseteq Nat /\ Requested \subseteq Nat /\ MaxFaults \in Nat
    /\ Delay \in Nat \ {0} /\ Attempts \in Nat \ {0}

VARIABLES
    listing,        \* the provider's records for the query
    saves,
    has_requested,  \* ArxivAdapter._has_requested
    age,            \* time since the last request to arXiv, at most Delay
    index_built,    \* the local ACL index is there
    source_faults

sourcesVars == <<listing, saves, has_requested, age, index_built, source_faults>>

NoSave == [state |-> "idle"]

\* What can happen to the listing, and to the pages of a call, while it runs (observations).
Change == {"added", "moved", "withdrawn"}
Cut == {"none", "short", "empty"}

SourcesTypeOK ==
    /\ \A s \in Save : saves[s] = NoSave \/
          /\ saves[s].adapter \in Adapter /\ saves[s].requested \in Requested
          /\ saves[s].state \in {"page", "pause", "wait", "saved", "failed"}
          /\ saves[s].offset \in 0..saves[s].requested /\ Len(saves[s].got) \in 0..saves[s].requested
          /\ saves[s].slept \in 0..Delay /\ saves[s].attempt \in 0..Attempts - 1
          /\ saves[s].error \in {"none", "provider", "value", "repeated"}
          /\ saves[s].complete \in BOOLEAN
          /\ saves[s].changes \subseteq Change /\ saves[s].cut \in Cut
    /\ has_requested \in BOOLEAN /\ age \in 0..Delay /\ index_built \in BOOLEAN
    /\ source_faults \in 0..MaxFaults

SourcesInit ==
    /\ \E n \in Listings : listing = [i \in 1..n |-> i]
    /\ saves = [s \in Save |-> NoSave]
    /\ has_requested = FALSE /\ age = Delay /\ index_built = FALSE
    /\ source_faults = 0

-----------------------------------------------------------------------------
Smaller(a, b) == IF a < b THEN a ELSE b
Faulty == source_faults < MaxFaults /\ source_faults' = source_faults + 1
SaveGoes(s, save) == saves' = [saves EXCEPT ![s] = save]
Fails(s, error) == SaveGoes(s, [saves[s] EXCEPT !.state = "failed", !.error = error])

\* status.available: ACL answers once its index was built.
IsAvailable(a) == a = "acl_anthology" => index_built

StartCall(s) ==
    /\ saves[s] = NoSave
    /\ \E a \in Adapter, requested \in Requested :
          /\ IsAvailable(a)
          /\ saves' = [saves EXCEPT ![s] =
                [state |-> "page", adapter |-> a, requested |-> requested, limit |-> 0,
                 offset |-> 0, got |-> <<>>, attempt |-> 0, slept |-> 0, error |-> "none",
                 complete |-> FALSE, changes |-> {}, cut |-> "none"]]
    /\ UNCHANGED <<listing, has_requested, age, index_built, source_faults>>

PageLimit(s) ==
    IF saves[s].requested = 0 THEN 1
    ELSE Smaller(PageSize[saves[s].adapter], saves[s].requested - Len(saves[s].got))

\* What the parameters of a request name: start, start_record, firstRecord, or page and limit.
FirstRecord(s) ==
    LET offset == saves[s].offset
        limit == saves[s].limit
    IN  CASE saves[s].adapter = "wos_starter" -> (offset \div limit + 1 - 1) * limit + 1
          [] OTHER -> offset + 1

Misaligned(s) ==
    /\ saves[s].adapter = "wos_starter" /\ saves[s].requested # 0
    /\ saves[s].offset % PageLimit(s) # 0

\* Mutant: the flag is set once arXiv has answered.
RequestedLate(s) == has_requested' = has_requested

\* ArxivAdapter._request sets the flag before it sends.
MarkRequested(s) == has_requested' = (has_requested \/ saves[s].adapter = "arxiv")

Asks(s, limit) ==
    /\ SaveGoes(s, [saves[s] EXCEPT !.state = "wait", !.limit = limit, !.attempt = 0, !.slept = 0])
    /\ age' = IF saves[s].adapter = "arxiv" THEN 0 ELSE age

\* The loop of save asks for a page, or explore for the count.
AskPage(s) ==
    /\ saves[s].state = "page"
    /\ IF Misaligned(s) THEN Fails(s, "value") /\ UNCHANGED <<has_requested, age>>
       ELSE IF saves[s].adapter = "arxiv" /\ has_requested
         THEN /\ SaveGoes(s, [saves[s] EXCEPT !.state = "pause", !.limit = PageLimit(s), !.slept = 0])
              /\ UNCHANGED <<has_requested, age>>
         ELSE MarkRequested(s) /\ Asks(s, PageLimit(s))
    /\ UNCHANGED <<listing, index_built, source_faults>>

\* The polite delay is over.
Wake(s) ==
    /\ saves[s].state = "pause" /\ saves[s].slept = Delay
    /\ MarkRequested(s) /\ Asks(s, saves[s].limit)
    /\ UNCHANGED <<listing, index_built, source_faults>>

\* Mutant: the next page begins where a full page would have ended.
NextOffsetOfFullPage(s, returned) == saves[s].offset + saves[s].limit

NextOffset(s, returned) == saves[s].offset + returned

\* Mutant: the last record of the listing is not worth a page.
HasNextButOne(s, returned) == NextOffset(s, returned) < Len(listing) - 1

\* next_offset is None at the end of the listing.
HasNext(s, returned) == NextOffset(s, returned) < Len(listing)

\* Mutant: a run is complete when the provider had no more for it.
CompleteWhenExhausted(s, got) == Len(got) < saves[s].requested

\* is_complete: as many as the provider reported with the last page.
IsComplete(s, got) == Len(got) >= Len(listing)

\* The hits of a page are saved one by one; UNIQUE(search_run_id, provider_record_id) refuses
\* a record the run has, and the call fails there.  An empty page ends the loop.
SavePage(s, records, cut) ==
    LET save == [saves[s] EXCEPT !.cut = cut]
        new == {i \in 1..Len(records) :
                   \A j \in 1..i : records[j] \notin {save.got[k] : k \in 1..Len(save.got)}}
        got == save.got \o SubSeq(records, 1, Cardinality(new))
        more == records # <<>> /\ HasNext(s, Len(records)) /\ Len(got) < save.requested
    IN  SaveGoes(s,
          IF Cardinality(new) < Len(records)
            THEN [save EXCEPT !.state = "failed", !.error = "repeated", !.got = got]
          ELSE IF more
            THEN [save EXCEPT !.state = "page", !.got = got, !.limit = 0, !.attempt = 0,
                              !.offset = NextOffset(s, Len(records))]
            ELSE [save EXCEPT !.state = "saved", !.got = got, !.complete = IsComplete(s, got)])

\* The page that was asked for.
Page(s) == SubSeq(listing, FirstRecord(s),
                  Smaller(FirstRecord(s) + saves[s].limit - 1, Len(listing)))

CutTo(s, n) == IF n = Len(Page(s)) THEN saves[s].cut ELSE IF n = 0 THEN "empty" ELSE "short"

\* The provider answers with the page that was asked for, or with fewer of its records: a payload
\* without hits, articles or entries is a page without records.  The local index of ACL has all.
Answer(s) ==
    /\ saves[s].state = "wait"
    /\ IF saves[s].requested = 0
         THEN SaveGoes(s, [saves[s] EXCEPT !.state = "saved"]) /\ UNCHANGED source_faults
         ELSE \E n \in 0..Len(Page(s)) :
                /\ IF n = Len(Page(s)) THEN UNCHANGED source_faults
                                        ELSE saves[s].adapter # "acl_anthology" /\ Faulty
                /\ SavePage(s, SubSeq(Page(s), 1, n), CutTo(s, n))
    /\ UNCHANGED <<listing, has_requested, age, index_built>>

\* Another attempt is left.
TriesAgain(s) == saves[s].adapter = "scopus" /\ saves[s].attempt + 1 < Attempts

\* A timeout or an HTTP error may be worth another attempt, 401, 403 and a payload that cannot
\* be read are not; only Scopus tries again.
AnswerFails(s) ==
    /\ saves[s].state = "wait" /\ Faulty
    /\ \E retryable \in BOOLEAN :
         IF retryable /\ TriesAgain(s)
           THEN SaveGoes(s, [saves[s] EXCEPT !.attempt = @ + 1])
           ELSE Fails(s, "provider")
    /\ UNCHANGED <<listing, has_requested, age, index_built>>

\* A call that ended makes room for the next one.
EndCall(s) ==
    /\ saves[s].state \in {"saved", "failed"}
    /\ saves' = [saves EXCEPT ![s] = NoSave]
    /\ UNCHANGED <<listing, has_requested, age, index_built, source_faults>>

-----------------------------------------------------------------------------
(* The world                                                               *)

Without(n) == SubSeq(listing, 1, n - 1) \o SubSeq(listing, n + 1, Len(listing))

\* Between two requests a publication is added in front, one moves there, or one is withdrawn.
Drift ==
    /\ Faulty
    /\ \E change \in Change, n \in 1..Len(listing) + 1 :
          /\ (change = "added") = (n = Len(listing) + 1)
          /\ listing' = CASE change = "added" -> <<0 - source_faults>> \o listing
                           [] change = "moved" -> <<listing[n]>> \o Without(n)
                           [] change = "withdrawn" -> Without(n)
          /\ saves' = [s \in Save |-> IF saves[s] = NoSave THEN NoSave
                                      ELSE [saves[s] EXCEPT !.changes = @ \union {change}]]
    /\ UNCHANGED <<has_requested, age, index_built>>

\* build_official_index replaces the index file when it is complete.
RefreshIndex ==
    /\ "acl_anthology" \in Adapter /\ ~index_built /\ index_built' = TRUE
    /\ UNCHANGED <<listing, saves, has_requested, age, source_faults>>

Tick ==
    /\ age < Delay \/ \E s \in Save : saves[s].state = "pause" /\ saves[s].slept < Delay
    /\ age' = Smaller(age + 1, Delay)
    /\ saves' = [s \in Save |-> IF saves[s].state = "pause"
                                  THEN [saves[s] EXCEPT !.slept = Smaller(@ + 1, Delay)]
                                  ELSE saves[s]]
    /\ UNCHANGED <<listing, has_requested, index_built, source_faults>>

SourcesNext ==
    \/ \E s \in Save : StartCall(s) \/ AskPage(s) \/ Wake(s) \/ Answer(s) \/ AnswerFails(s)
                       \/ EndCall(s)
    \/ Drift \/ RefreshIndex \/ Tick

SourcesSpec == SourcesInit /\ [][SourcesNext]_sourcesVars

-----------------------------------------------------------------------------
(* Properties                                                              *)

\* From a listing that does not change while a call runs, the call has its first records, each
\* once and in order, whatever the page size, the limit of the last page and the length of the
\* pages the provider returned: zero-based, one-based and numbered pages agree with next_offset.
SavedInListingOrder ==
    \A s \in Save : saves[s] # NoSave /\ saves[s].changes = {} =>
        saves[s].got = SubSeq(listing, 1, Len(saves[s].got))

\* Over such a listing a call that ended saved has every record it asked for, unless the provider
\* sent an empty page before the end (`if not page.records: break`), and then it is not complete;
\* no record is refused as repeated; and the gateway's own ValueError is met by Web of Science
\* Starter alone, behind a short page or for a last page whose limit does not divide its offset.
StableSavesEndWell ==
    \A s \in Save : saves[s] # NoSave /\ saves[s].changes = {} =>
        LET wanted == Smaller(saves[s].requested, Len(listing))
            left == saves[s].requested - Len(saves[s].got)
        IN  /\ saves[s].state = "saved" /\ Len(saves[s].got) # wanted =>
                  saves[s].cut = "empty" /\ ~saves[s].complete
            /\ saves[s].error # "repeated"
            /\ saves[s].error = "value" =>
                  /\ saves[s].adapter = "wos_starter"
                  /\ saves[s].cut = "none" => left < PageSize[saves[s].adapter]

\* A run is recorded as complete only when it has every record the provider lists by then, pages
\* cut short, records added and records moved between its pages included: a record that is
\* skipped can only be made up for by one that is repeated, which fails the run.  Only records
\* withdrawn meanwhile can make it claim too much, one of them hiding one that was skipped.
CompleteHasAll ==
    [][\A s \in Save :
          saves[s].state = "wait" /\ saves'[s].state = "saved" /\ saves'[s].complete
              /\ "withdrawn" \notin saves'[s].changes =>
            \A n \in 1..Len(listing) : \E k \in 1..Len(saves'[s].got) :
                saves'[s].got[k] = listing[n]]_sourcesVars

AsksArxiv(s) ==
    /\ saves[s] # NoSave /\ saves[s].adapter = "arxiv"
    /\ saves[s].state # "wait" /\ saves'[s].state = "wait"

\* "consecutive requests are paced by at least 3 seconds" (ArxivAdapter.status), unless another
\* call asked while this one was in its pause.
PacedUnlessTogether ==
    [][\A s \in Save : AsksArxiv(s) => age = Delay \/ saves[s].slept > age]_sourcesVars

\* "consecutive requests are paced by at least 3 seconds" (ArxivAdapter.status).
ConsecutiveRequestsArePaced == [][\A s \in Save : AsksArxiv(s) => age = Delay]_sourcesVars
=============================================================================
