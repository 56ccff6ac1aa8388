# Research Gateway in TLA+

Research Gateway is a local Python service that runs literature searches against
scholarly sources for an MCP client (ChatGPT, Claude) and a local web interface, and
keeps every search, every hit and every screening decision in one SQLite database.
These modules model what a search writes and what the tables promise afterwards, how
overlapping reviewers change one evidence row, how the single-user OAuth server issues,
rotates and revokes tokens, how the gateway writes a Zotero library and a GitHub
repository that others write too, how adapters page through a provider, and the commands
that run, move and back up a gateway. TLC checks small instances; TLAPS proves every
safety property of the modules, and the service's refinement, for every value of the constants.

Paths below are relative to `src/`; `rg/` stands for `src/src/research_gateway/`.

## 1. The system

| Component | State | Operations | Interacts with |
| --- | --- | --- | --- |
| Evidence store, `rg/db/database.py` | SQLite tables `search_runs`, `search_hits`, `evidence`, `evidence_identifiers`, `possible_duplicates` | `create_search_run`, `ingest_search_hit`, `complete_search_run`, `fail_search_run` | called by the research service; read by lists, exports, UI |
| Screening and notes, same file | screening columns of `evidence`, `screening_events`, `notes` | `set_screening`, `add_note`, `screening_history`, `list_notes` | MCP tools and HTTP routes |
| Studies and topics, same file | `studies`, `topics` | create, update, list | parents of runs |
| Audit, same file | `audit_events` | `audit` | every service operation |
| Research service, `rg/services/research.py` | the locals of each `explore`/`save` call | `explore`, `save`, `_record_failure` | source adapters, evidence store, audit |
| Source adapters, `rg/sources/` | HTTP client; arXiv's pacing flag | `count`, `search`, `lookup` | external providers |
| OAuth store, `rg/oauth/store.py` | SQLite table `oauth_records`, `oauth_clients` | `put_record`, `get_record`, `consume_record`, `complete_approval`, `revoke_family` | OAuth provider |
| OAuth provider and routes, `rg/oauth/provider.py`, `routes.py` | none of its own beyond the store | `authorize`, `approve`, code exchange, refresh, revocation | browser, MCP SDK's token endpoint |
| Zotero integration, `rg/integrations/zotero.py` | remote library; `zotero_links`, `citation_references` | `create_item`, edits of tags and folders, `delete_item`, collections, `sync_final_corpus`, `record_citation_reference` | Zotero Web API, evidence store, audit |
| GitHub integration, `rg/integrations/github.py` | remote branches and pull requests; `github_operations` | `publish_files`, `create_issue`, `comment_issue` | GitHub API |
| Service lifecycle, `rg/cli.py`, `rg/operations/service.py`, `supervisor.py`, `rg/tunnel.py` | `service.json`, `tunnel.json`, a systemd user unit; processes | service `start`, `stop`, `restart`, `install`, `uninstall`; `serve` | the operating system, systemd, ngrok |
| Storage relocation, `rg/operations/storage.py` | database file, configuration file | `relocate_storage`; `oauth-init` rewrites the same file | the file system, the running gateway |
| Exports and backups, `rg/services/exports.py`, `rg/operations/backups.py` | workbooks, `latest.xlsx` | `create`, export, prune | evidence store |
| HTTP and MCP surface, `rg/api/`, `rg/mcp/` | none | routes and tools, each one service call | all of the above |
| Configuration, setup, runtime, logging, classification, acceptance harness | files read at start | | |
| Web interface, `ui/` | browser state | | HTTP API |

### What is hard in it, and what makes it correct

* **Evidence store.** `ingest_search_hit` decides which evidence a record belongs to by
  normalized DOI, then by known identifier, then by a bibliographic fingerprint, and the
  answer depends on the order in which records arrived. Correct means: no evidence
  without a hit that created it, codes that nobody shares, identifiers that never move,
  a DOI that stays with its row, twins that are flagged for review. A unit test reaches
  one or two orders of two records; the hazard is in a long one.
* **Research service.** A save awaits the provider and the store in turn. Other calls
  run between any two awaits, any await can raise, the client can cancel, and the
  provider promises nothing about its pages. The handler's `try` covers the audit too, so
  a search that was completed can be restated as failed. Correct means that status,
  counts, hits, audit and answer agree whatever happens.
* **Screening.** Each call reads the clock before it queues for SQLite's write lock.
  The history is read back in clock order; the row shows commit order.
* **OAuth.** Each store call is its own transaction, the process can end between two of
  them, a second process can share the store, browsers repeat POSTs, clients replay
  refresh tokens. Correct means one code per approval, one family per code, one live token
  of a kind per family, and no revival of a family that was revoked.
* **Zotero.** Every write is decided by a read made one or more requests earlier, in a library
  that other clients and other calls change meanwhile; a POST and the `zotero_links` row that
  remembers it are two steps, and the answer of the POST may be lost. Correct means: no edit
  of another client is overwritten unseen, no duplicate item without a race, a deletion only
  of what is still where it was found, and a synchronisation that ends up complete when
  it is repeated.
* **Source adapters.** Five offset conventions must agree with one `next_offset`; retries,
  pacing and a listing that changes between two pages meet in one call.
* **GitHub.** A chain of requests, each of which may fail or be answered in vain, with other users
  in between. Correct means that nothing that was pushed is lost.
* **Lifecycle.** Commands look at a pid, a port and a unit and then act on what they saw,
  while processes start, hang, die and pids are reused. Correct means that no server is
  orphaned and an active unit recovers.
* **Relocation and backups.** Several file operations whose order is all that protects the
  data when one of them fails or a gateway goes on writing.
* **Topics.** `update_topic` reads and writes in two transactions (not modelled, section 5).

Each hazard is listed with its line and the properties that would catch it in
`PROJECT.json`; one without a property carries a note that says why.

## 2. The modules

| Module | What it is |
| --- | --- |
| `EvidenceStore` | the five search tables and the transactions that write them |
| `ResearchService` | `EXTENDS EvidenceStore`: concurrent `explore` and `save` calls, one action per awaited call, and the audit |
| `SearchLedger` | abstract specification: what the search history promises of a run |
| `Screening` | `set_screening` and `add_note` |
| `OAuthStore` | `oauth_records` and its transactions |
| `OAuthProvider` | `EXTENDS OAuthStore`: approvals, codes, token families |
| `ZoteroSync` | `ZoteroAdapter` over an external library |
| `ServiceLifecycle` | service commands, processes, state files, systemd unit |
| `SourceAdapters` | the adapters' requests, paging, retries and pacing |
| `GithubPublish` | `publish_files` over an external repository |
| `StorageRelocation` | the commands that rewrite the configuration file |
| `Backups` | `ExcelBackupService` with the export it makes |
| `MCEvidenceStore`, `MCResearchService`, `MCOAuth`, `MCZoteroSync`, `MCSourceAdapters` | constants and symmetries for TLC |
| `MCSearchHistory` | one specification out of the store, screening and the adapters, which share no variable |
| `MCOperations` | one specification out of `ServiceLifecycle`, `GithubPublish`, `StorageRelocation` and `Backups`, which share no state |
| `EvidenceStoreProofs`, `ResearchServiceProofs`, `ScreeningProofs`, `OAuthProofs`, `ZoteroProofs` | theorems about the module of that name (`OAuthProofs`: `OAuthProvider`; `ZoteroProofs`: `ZoteroSync`) |
| `ProviderProofs` | theorems about `GithubPublish` and `SourceAdapters` |
| `OperationsProofs` | theorems about `ServiceLifecycle`, `Backups`, `StorageRelocation` and their composition in `MCOperations` |
| `NumberLemmas` | a finite set of numbers has a least and a greatest member |

Operators commented "Mutant" stand directly before the definition they are a faulty form
of, and are used by nothing else: each one is a plausible bug that makes a named property
fail (`PROJECT.json`, `mutants`).

### EvidenceStore

A table is a function from the primary keys in use to rows (`runs`, `evidence`,
`identifiers`) or a set of rows (`hits`, `duplicates`). SQLite has one writer at a time,
and every transaction here starts with `BEGIN IMMEDIATE` or is one statement, so each is
one atomic step. `IngestSearchHit(r, rank, rec)` is the whole of `ingest_search_hit`: the
uniqueness constraints are its guard (a violation raises and rolls back: the step does
not happen, and the caller sees an exception), `MatchOf` the three lookups in the code's
order, `ResemblesButDiffers` the rows recorded as possible duplicates, `IdentifiersWith`
the `INSERT OR IGNORE`.

Abstractions: a record carries its DOI, its identifiers in dictionary order, and a *work*
that stands for (normalized title, year, first author); `StrongWork` holds the works long
enough for a fingerprint, `Similar` those whose title ratio is in [0.65, 1). `DoiText`
keeps the one thing the text normalization of identifiers does to a DOI that can
matter: it may map two DOIs to one identifier. The columns a merge fills in without the
lookups reading them (abstract, citation count, search index) are left out; the columns
they do read (`normalized_doi`, fingerprint) are never changed by a merge, in the code
and here. `uuid4()` is any unused key. Records come with bare DOIs, and with the DOI
among their identifiers, as every adapter supplies them. A commit that succeeds is
followed by no further failure inside the transaction's function.

`StoreSpec` drives the store by any callers that rank a run's hits 1, 2, 3, ...; the theorems
are about it, and every step of `ResearchService` that touches `evidence` is one of its
operations with the call's own rank.

### ResearchService

`calls[c]` holds the locals of one call and what it is awaiting. `Start` is
`_available` with `create_search_run` (before the `try`), `Count`, `FetchPage`,
`Ingest`, `Complete` and `AuditCompleted` are the awaits inside the `try`, `StepRaises` an
exception from any of them, `RecordFailure` and `AuditFailure` the awaits of
`_record_failure`, `HandlerRaises` an exception there. `Cancel` is a cancelled client or
the end of the process: `CancelledError` is not an `Exception`, so no handler runs.
`AfterHit` is the loop control of `save`: the `break` at `requested_limit`, the page's end,
the comparison of `next_offset` with `offset`, the `while` condition. The provider
(external) answers any total, any page up to `MaxPage` records whatever limit it was
given, records repeated or not, and any next offset. A call that ended forgets its
counts and a call that left the page loop its page; no later step reads them.

### SearchLedger

An entry per run: opened once, gains hits while running, closed with a report of exactly
its hits, and after that only restated from completed to partial or failed (the failing
audit) with the same report. `ImplementsLedger` reads the entry from `runs` and `hits`
(`Ledger == INSTANCE SearchLedger WITH ledger <- ...`) and checks that every step of
`ResearchService` is a ledger step or a stutter.

### Screening

`RequestScreening` and `RequestNote` read the clock and then wait; `SetScreening` and
`AddNote` are the transaction from `BEGIN IMMEDIATE` to commit; `Abandon` is any exception
or cancellation, an unknown evidence id included (`NamedEvidence` is larger than `Known` for
that). `events` and `notes` are kept in commit order, with the timestamp each row carries.
`notes_summary` holds the first 500 characters of the note; the model keeps the note.

### OAuthStore and OAuthProvider

`records` is `oauth_records`; a secret and its keyed digest are one identity. The digests
of an approval, its completion and its code are all computed from the request id, so a
request names the three. `handler[p]` says between which two transactions process `p` is.
A handler awaits nothing between its transactions, so one process never interleaves two
handlers, but `Crash` may end it between two; with several members of `Process`, processes
that share the store interleave there. A read followed by a conditional update of the same
record with no use of the read in between (`load_authorization_code` and its
`consume_record`) is one step. Registered clients, the password, the CSRF cookie and the
rendered pages change none of this state and are left out. `answers`, `origin` and `dead` are observations:
what POSTs were answered, which request founded a family, which families a replay or a
revocation ended. No guard depends on them, except that a new family is one not in `origin` (a fresh `uuid4`).

### ZoteroSync

`items` and `folders` are the remote library: an object has a version, a PATCH or DELETE with
an older one is refused (412). `links` is `zotero_links`. As in `ResearchService`, `calls[c]`
holds the locals of one call and one action is one request or one statement: `Sync...` is
`sync_final_corpus` (plan, folder, link and search per evidence, patches, links of matched items,
one bulk POST of which the library may take a part, links of created items, audit),
`Create...` is `create_item`, `Edit...` the five operations that read an item and patch its tags
or collections, `DeleteItem...` reads the item, its children, deletes and unlinks,
`CollectionRead` to `TreeDelete` is `delete_collection` with the recursion as a stack of
folders, `Cite...` is `record_citation_reference`. `StepFails` is a request that fails or is
refused, `Answered` a write whose answer is lost, `Interrupt` a cancellation of one call or the end of the
process. `Others...` are other clients. A *work* is what DOI, arXiv id and
title-year-author identify. Keys that nothing names any more stand for keys never given.
`create_item` takes evidence of the final corpus and evidence that is only included (`Included`).
Two simplifications limit what follows: `MatchesOf` and the search for folders find every match, where
the code asks for 25 items and the first 100 collections, and matching is one relation, where the code
compares DOI, arXiv id and title-year-author in turn, which need not be transitive.
`raced` (works held twice at first, or posted or added by somebody while a call was about to post them) and `unlinked` are
observations that only the properties read.

### ServiceLifecycle

`procs` is the process table: gateways by who started them and other programs, starting or
serving on the one port. `serve` opens its tunnel, then binds (`OpenTunnel`, `Bind`); SIGTERM is
a flag that `ShutDown` honours in its own time. `Classification` and
`SupervisedClassification` are the two `status` functions; `ActiveState` is what `systemctl show` says of the
unit, `failed` and `activating` included. The unit may be another program's under the same name or the
gateway's own from the start. Its `ExecStartPre` check and the backup before it succeed: a
configuration that never passes keeps any unit down. A command is a sequence of steps
(`LookDetached`, `ClearState`, `Spawn`, `WriteState`, `WaitForHealth` for a detached start),
between which processes, systemd (`UnitSpawn`, `Restart=always`) and other commands move.
A free pid may be given again. `excused` observes what `StartedServersAreManaged` makes an exception of: overlapping or
interrupted commands, and a start that took another gateway's health for its own.

### SourceAdapters

`ResearchService` lets a provider return any page; here the adapters themselves are
modelled. The listing of a query is a sequence of numbers, and each adapter turns an
offset into what it asks (zero-based, one-based, page number), so that an off-by-one
repeats or skips a number. Failed answers, pages that come short or empty, and a listing to which a
record is added, in which one moves or from which one is withdrawn (`Drift`) are bounded faults. An empty page ends the run, as
`if not page.records: break` does. A short page leaves Web of Science Starter at an offset that its next limit
may not divide, and the adapter raises. `complete` is what `complete_search_run` is told,
against the total reported with the last page; `changes` and `cut` are observations. For arXiv, `age` is the time since its last request and a call that pauses
counts how long it slept; the lock is not there in the code, nor here.

### GithubPublish, StorageRelocation, Backups

`GithubPublish`: `publish_files` request by request over branches, commits with their
history and pull requests; a request may fail before or after it took effect, and others push,
delete, merge and close. `pushed` observes what was pushed to a branch since it exists.

`StorageRelocation`: `relocate_storage` looks at its target, copies the database unless one is there,
reads and replaces the configuration; `oauth-init` reads and replaces the same file; a gateway keeps the
root it was started with. `apart` and `adopted` observe the two exceptions of its property.

`Backups`: the three reads of an export, the workbook written under its second's
name, `latest.xlsx` overwritten in place, the pruning; searches are saved in between, a
backup may be interrupted at any step, and two may overlap. Discoveries are read after the evidence they belong to, so a
search may have rediscovered it meanwhile (`found`). The pruning goes by `st_mtime`,
here the number of the write that was a snapshot's last; the clock is assumed to go forward.

### MCSearchHistory and MCOperations

`EvidenceStore`, `Screening` and `SourceAdapters` share no variable, nor do `ServiceLifecycle`,
`GithubPublish`, `StorageRelocation` and `Backups`. Each of these two modules puts its components
side by side: the initial state picks the one that moves, so the state space is the sum and not the
product of theirs. `MCSearchHistory` picks the adapters in one of two bounds, one call that pages
(`"paging"`) or two at once (`"pacing"`).

## 3. The runs

| Run | Instance | Question |
| --- | --- | --- |
| `search_history` | store: 3 runs, 5 evidence rows, 7 records of 3 providers; screening: 2 reviewers, 1 known and 1 unknown evidence, 3 decisions or notes, clock 0..1; paging: 1 call of 6 adapters, a listing of 0 or 5 in pages of 2 or 3, limits 0, 3, 5 and 6, 2 faults; pacing: 2 calls of arXiv and Scopus, a listing of 3, limits 0 and 3, 1 fault, delay 2 | Does every order of ingestion keep the store's invariants? Do row and history agree in commit order? Are pages saved in listing order, how may a save end, and what may a complete run claim? Is arXiv paced unless two calls pause together? |
| `fingerprint_merge` | 3 runs, 5 evidence rows, 7 records | Do conflicting DOIs prevent a fingerprint merge? No: finding 1 |
| `same_doi` | 3 runs, 5 evidence rows, 7 records | Is one normalized DOI one evidence? No: finding 2 |
| `research_service` | 2 calls, 2 runs, 2 records, limit 2, total 2, pages of 2, offsets to 1 | Do runs, hits, audits and answers agree, and implement the ledger, under interleaving, exceptions and cancellation? |
| `calls_end` | 1 call, 3 records, limit 3, pages of 2, offsets to 2 | Does every call end, whatever the provider pages? |
| `screening_order` | 2 reviewers, 1 known and 1 unknown evidence, 3 decisions or notes, clock 0..1 | Does the history in timestamp order end at the current status? No: finding 3 |
| `oauth_sessions` | 1 process, 2 requests, 3 tokens, 2 families, clock 0..1 | Do families die once and only by their owners' tokens? |
| `oauth_overlap` | 2 processes, 1 request, 3 tokens, 2 families, clock 0..1 | Do approvals, codes and rotations stay single when two processes share the store? |
| `oauth_deny` | 1 process, 1 request | Is a denial ever answered with a code? Yes: finding 4 |
| `zotero` | 2 calls, one of which synchronises again and again, a corpus of 2 evidence of one work, 3 libraries to start from, 4 item and 4 folder keys | Is no edit overwritten unseen, no item duplicated without a race, nothing deleted that was moved away, and everything linked in the end? |
| `operations` | lifecycle: 2 operators, 2 pids, 2 commands; GitHub: 2 calls, 3 branches; relocation: 2 roots, 3 rewrites; backups: 2 of 2 processes, retention 1 | Are started servers managed, does an active unit recover, do pushes survive, does the configured store hold every search, is `latest.xlsx` the newest snapshot? |
| `arxiv_pacing` | 2 calls of arXiv | Are consecutive requests always paced? No: finding 5 |

**Bounds, and why they are enough.** `MCEvidenceStore`'s seven records are the shapes that make the
lookups disagree: a preprint before and after its DOI is registered (one
`provider_record_id`, so one run cannot save both), the journal version that shares its DOI,
the proceedings of the same title with another DOI, a record known only by identifier, a
similar title, and a record that shares an identifier with one row and a DOI with another.
Five evidence rows are as many as these can create at once, and three runs are needed to
save one record again after two others. In `research_service`
two records that pages may repeat make hits new, existing (the other call saved it) or
rejected (this run saved it), a limit of 2 makes the page longer than what is left, and
two offsets make the next offset larger, equal or smaller. `calls_end` needs three records to
reach a third page. In `Screening` two readings of the clock and three commits order two
overlapping decisions both ways and leave one before them. In the OAuth runs a life of 0
expires with the next tick; three tokens are one issue and the first half of a rotation,
per kind, which is where a second live token would appear; `oauth_sessions`
gives the refresh token a longer life than the access token so that it can be used after it.
In `zotero` two evidence of one work are what a synchronisation can mistake for
one another; the libraries hold no item, an item without the folder, or one with children in a nested folder;
of the other call, an edit and a fault, a behaviour contains two, which
is what the races between a read and a write need. Of the adapters, five
records in pages of 2 or 3 give two full pages and a last one that is shorter for every
convention, limits of 5 and 6 end with and before the listing, and two faults are what
it takes for one change to hide another; the missing lock of arXiv needs
two calls. In `operations` two pids make one be reused; two publications, a push and two failures or deletions are a retry after a failure;
three rewrites are a move there and back with another one inside; retention of 1 prunes
at every second backup, and two backups are one that is disturbed and one that repairs.
`MaxLimit`, `MaxTotal`, `MaxPage`, `MaxOffset`, `MaxClock`, `MaxHistory`, the constants that
the later modules comment as bounds, and the finite sets of identities are the only bounds;
each is named where it is a guard. Symmetry is used over runs, calls, reviewers and the OAuth identities, never over
evidence, among which `CHOOSE` picks, and never with a liveness property.

**Deadlock** is not checked: calls and commands end, and instances use up their runs,
evidence, clock, commands or faults.

**Fairness.** Three runs assume any. `calls_end`: `WF(Progress(c))` for each call. Every await of
a call ends, with an answer or an exception, because the adapters set HTTP timeouts and
SQLite a busy timeout, and the event loop resumes what is ready. Nothing is assumed about
which: a provider may answer as it likes forever. Starting and cancelling are not fair.
`zotero`: `WF(Step(c))` for the same reason, and `WF(StartSync(c))`: `EveryFinalIsLinked` is
about a user who keeps asking for the synchronisation, as one whose library must follow the
final corpus does. `operations`: processes run (`Runs(p)`), commands
go on (each wait in them has a timeout), and systemd starts a unit's process again
(`UnitSpawn`), which is what `Restart=always` with `StartLimitIntervalSec=0` promises. Other
clients, faults, crashes, strangers and new commands are never fair, and the faults are finite in number.

### Findings

1. `tests/unit/test_database.py:236` promises that conflicting DOIs prevent a fingerprint
   merge. The conflict is looked for in `evidence.normalized_doi`, which merges leave
   empty: a row created without a DOI absorbs two records with different DOIs
   (`rg/db/database.py:662`). `FingerprintRespectsColumnDoi` is what does hold.
2. `README.md:29` promises that the exact DOI comes first. The DOI lookup reads the same
   column; a DOI brought by a merge is found only among identifiers, in the record's own
   order, so two hits with one DOI can be split (`rg/db/database.py:639`). What does hold
   is `ColumnDoiOwnsItsHits`.
3. `set_screening` reads the clock before the lock, so the history in timestamp order
   may end at a status the evidence no longer has (`rg/db/database.py:845`).
   `HistoryIsAChain` holds in commit order.
4. `docs/safety.md:13` says that a duplicate *approval* is answered with the same redirect;
   `approve` answers any form of a completed request so, a denial included
   (`rg/oauth/provider.py:197`).
5. `rg/sources/arxiv.py:60` says that consecutive requests are at least 3 seconds apart. There is no
   lock: two calls that pause together ask together (`rg/sources/arxiv.py:64`).
   `PacedUnlessTogether` is what does hold.

Four more statements of the documents are stronger than the code; the models reach these states, the
properties say what holds instead, and section 5 lists them. A pid that `service.json` still names may
be given to a gateway started by hand, which `stop` then ends (`docs/operations.md:81`);
`latest.xlsx` is behind or half written between the snapshot and the end of its copy (`README.md:134`);
what is filed in a collection between the look and the DELETE goes with it without `recursive=true`
(`docs/zotero.md:58`); a process that ends between the DELETE of an item and the removal of its links
leaves a link to nothing (`docs/zotero.md:52`).

## 4. What is proved

`EvidenceStoreProofs` proves of `StoreSpec`, for any studies, providers, runs, records,
DOIs and identifiers and any number of them:

| Theorem | Statement |
| --- | --- |
| `StoreTypesHold` | `StoreSpec => []StoreTypeOK` |
| `EvidenceOriginHolds` | `StoreSpec => []EvidenceHasOneOrigin` |
| `IdentifiersHold` | `StoreSpec => []IdentifiersWereDiscovered` |
| `ColumnDoiHolds` | `StoreSpec => []ColumnDoiOwnsItsHits` |
| `FingerprintHolds` | `StoreSpec => []FingerprintRespectsColumnDoi` |
| `TwinsHold` | `StoreSpec => []TwinsAreFlagged` |
| `DiscoveriesHold` | `StoreSpec => DiscoveriesAreKept` |

They rest on the named assumptions of `EvidenceStore`: `NoDoi` is no DOI, every DOI has its
identifier, no work is similar to itself, records are typed and carry their DOI among
their identifiers.

The argument is one inductive invariant, `StoreInv`. None of the properties is inductive
alone. That a created row's DOI was never seen before (`ColumnDoiOwnsItsHits`) needs to know
that a DOI ever brought by a hit is among the identifiers (`HitDoisAreKnown`), for only then
does "no row matched" exclude every earlier hit with that DOI; that the row found by
DOI is the only one needs `ColumnDoisDiffer`; that `COUNT(*) + 1` is a fresh code needs the codes to
be exactly 1..COUNT (`CodesAreBounded` with `EvidenceIsFinite`); that twins conflict needs to know
why the second one was created. The proof has one lemma per operation
(`CreateRunPreserves`, `CompleteRunPreserves`, `FailRunPreserves`, `IngestPreserves`), stated of
the operation and not of `StoreNext`, so that they carry over to `ResearchService`. The
`CHOOSE` of a least known identifier and of MAX(code) is justified by `LeastElement` and
`GreatestElement` of `NumberLemmas`, from the library's theorems about finite and well-founded sets.

`OAuthProofs` proves of `OAuthProvider`, for any requests, tokens, families and clients, any
lives and any clock bound, and any number of processes, each of which may end
between any two transactions:

| Theorem | Statement |
| --- | --- |
| `TypesHold` | `Spec => []TypeOK` |
| `CodesHold` | `Spec => []CodeRedeemedOnce` |
| `DecisionsHold` | `Spec => []OneDecisionPerRequest` |
| `OneLiveTokenHolds` | `Spec => []OneLiveTokenOfAKind` |
| `OwnersHold` | `Spec => []UnusedTokenIsRevokedOnlyWithItsFamily` |
| `DeadFamilyHolds` | for one process, `Spec => []DeadFamilyStaysDead` |

They rest on `StoreAssumption` (`NoFamily` is no family, the clock bound is a number) and
`LifeAssumption` (the lives are numbers). Each theorem adds what its property lacks to the
invariant before it:

* `TypeInv` adds to `TypeOK` that every family a token or a handler names was founded
  (`FamiliesAreFounded`), so a new family starts empty. The lemma of every action also shows
  `RowsKept`: a row is never deleted, never changes its family, and a use or a
  revocation is never taken back.
* A code that founded a family is used, and a used row is never active again.
* A denial used the approval and created no code; an approval is completed in one
  transaction that uses it. So a used approval without a code can never get one.
* `OneHolder`: a family has at most one *holder*, a refresh token that was neither used nor
  revoked or a handler that is issuing the next pair, and at most one access token that was not
  revoked, none while a handler is about to add one. `OneLiveTokenOfAKind` is not inductive
  without the handlers: between `consume_record` and `put_record` the family has no token, and
  what excludes a second pair is that the handler stands in the used token's place. A
  crash loses the holder and never adds one.
* A rotation revokes nothing unused, for the handler that revokes is the only holder.
* For one process a replay or a revocation runs while no handler is between two
  transactions, so it leaves the family without a holder, and only a holder makes tokens.
  With two processes the theorem is false, see section 5.

`ResearchServiceProofs` proves of `ResearchService`, for any number of overlapping calls,
any providers, records, limits and page lengths, and exceptions and cancellations at any await:

| Theorem | Statement |
| --- | --- |
| `ServiceTypesHold` | `Spec => []TypeOK` |
| `StoreHoldsUnderCalls` | `Spec => []StoreInv`, and so every invariant of the store above |
| `DiscoveriesHoldUnderCalls` | `Spec => DiscoveriesAreKept`: the store's action property |
| `ClosedRunsHold` | `Spec => []ClosedRunCountsItsHits` |
| `CompleteHolds` | `Spec => []CompleteIsTruthful` |
| `LimitHolds` | `Spec => []NeverMoreThanRequested` |
| `AuditHolds` | `Spec => []AuditAgreesWithRun` |
| `AnswerHolds` | `Spec => []AnswerMatchesRun` |
| `StrandedHolds` | `Spec => []StrandedOnlyByInterruption` |
| `LedgerHolds` | `Spec => ImplementsLedger`: the refinement |

The invariant is `ServiceInv`. Its parts are per run (`RunAgrees`), per call (`CallAgrees`) and
per audit (`AuditAgrees`), and what lets them be proved one at a time is `Owned`: a run
belongs to the one call that created it, for good. A call under way has counted exactly the
hits of its run (`Counted`), ranked 1..retrieved, so the next rank is free and the row
that `complete_search_run` or `fail_search_run` writes is true when it is written; nobody else
writes that row later. Without `Owned` none of this is inductive: another call could add a hit
after the count. The lemma `OwnStep` says once that a step which touches only the row,
hits and audits of its own run leaves all the others in agreement; `CallStep`, `RowStep` and
`AuditStep` specialise it, and each action has one lemma (`...Safe`). The store's part is
inherited from the per-operation lemmas of `EvidenceStoreProofs`. For `LedgerHolds`
each action is a ledger step for the call's run or a stutter; the ledger's report is truthful
because of `Counted`, and restating a completed run keeps the report because the failing call
still carries the counts it completed with.

| Module | Theorem | Statement | Invariant |
| --- | --- | --- | --- |
| `ScreeningProofs` | `ScreeningTypesHold` | `Spec => []TypeOK` | `ScreeningInv` |
| | `HistoryHolds` | `Spec => []HistoryIsAChain` | |
| | `RowsHold` | `Spec => []RowShowsLastDecision` | |
| `ProviderProofs` | `GithubTypesHold` | `GithubSpec => []GithubTypeOK` | `GithubInv` |
| | `PushesHold` | `GithubSpec => []PushesSurvive` | |
| | `SourcesTypesHold` | `SourcesSpec => []SourcesTypeOK` | `SourcesInv` |
| | `SavedInOrder` | `SourcesSpec => []SavedInListingOrder` | |
| | `SavesEndWell` | `SourcesSpec => []StableSavesEndWell` | |
| | `CompleteRunsHaveAll` | `SourcesSpec => CompleteHasAll` | |
| | `PacedRequests` | `SourcesSpec => PacedUnlessTogether` | |
| `OperationsProofs` | `LifecycleTypesHold` | `LifecycleSpec => []LifecycleTypeOK` | `LifecycleInv` |
| | `StartedServersHold` | `LifecycleSpec => []StartedServersAreManaged` | |
| | `BackupsInvHolds` | `BackupsSpec => []BackupsInv` | `BackupsInv` |
| | `BackupsTypesHold` | `BackupsSpec => []BackupsTypeOK`, with the bound of retention after a backup that ran alone | |
| | `LatestHolds` | `BackupsSpec => []LatestIsNewestSnapshot` | |
| | `StorageTypesHold` | `StorageSpec => []StorageTypeOK` | `StorageInv` |
| | `ConfiguredStoreHolds` | `StorageSpec => []ConfiguredStoreHoldsAll` | |
| | `OperationsCompose` | `OperationsSpec` implies the specification of each of its four components | |
| | `OperationsTypesHold` | `OperationsSpec => []OperationsTypeOK` | |
| `ZoteroProofs` | `ZoteroInvHolds` | `Spec => []ZoteroInv` | `ZoteroInv` |
| | `ZoteroTypesHold` | `Spec => []ZoteroTypeOK` | |
| | `DuplicatesAreRaces` | `Spec => []DuplicatesNeedARace` | |
| | `SyncsLinkAll` | `Spec => []CompletedSyncLinkedAll` | |
| | `NothingUnseenIsLost` | `Spec => LosesOnlyWhatItSaw` | |
| | `FoldersGoWhereListed` | `Spec => DeletesWhereItWasListed` | |

* `ScreeningInv`: the row and the last event are written together; a chain also needs the
  record without an event to be unreviewed, for that is what its first event will say
  (`UndecidedIsUnreviewed`).
* `GithubInv`: a commit's history contains it and the history of every commit in it, so a
  branch that moves to a commit whose history holds the old one keeps every push
  (fast-forward is transitive). The branch of every push and of every open pull request is
  there.
* `StorageInv`: `RewriteIsSafe` says what each step of a command may rely on: its source holds
  every search, once copied so does its target, and the root of the text it is about
  to put in place does too. `apart` and `adopted` are what breaks it, and are latched.
* `BackupsInv`: while a backup runs alone, its discoveries are
  of the evidence it read before and of runs it reads after them (`Sound`), its stamp is the newest and the snapshot
  is there from the moment it is opened (`Placed`), so the pruning, which keeps the newest,
  never removes it. `disturbed` is set by an interruption or by a backup that starts while another runs, and cleared by
  the next one that starts alone: whatever was left before, that one repairs `latest.xlsx` and the
  number of snapshots. The bound of retention is a set argument: as many stamps as
  `RetentionCount` are newer than what the pruning removes.
* `SourcesInv`: a call that goes on begins its next page exactly behind what it has
  (`SaveGoesOn`: offset and length agree), whatever the adapter's own convention, so what it has is
  a prefix of the listing (`InOrder`). Neither is inductive alone: that Web of Science Starter's
  numbered page is the one the offset means needs the offset to be a multiple of the limit, and
  that a page never repeats a record needs the prefix. Of a listing that changes the invariant keeps what
  `CompleteHasAll` needs: the records of the listing and of a run are distinct, and a run's records are
  among the listing's unless one was withdrawn; a run with as many records as the listing then has all of them, which
  is a counting argument over finite sets. `PacedUnlessTogether` needs
  `~has_requested => age = Delay`: before the first request, which does not wait, the delay has passed.
* `LifecycleInv`: while nothing is excused, at most one command is under way, and
  `Accounted` says for each of its steps what it knows of the server that `start` made: before the
  spawn there is none, between the spawn and the write of `service.json` it is the one
  in the command's local, after that the file names it. `StartedServersAreManaged` speaks only of states
  without a command and is not inductive without the steps between.
* `OperationsCompose` carries every theorem about one component over to the specification that
  TLC runs; `OperationsTypesHold` is its first use.
* `ZoteroInv` says of each call what it may rely on at its next request, as a predicate
  `Sound` of the call and of the library, so that a step of one call is proved for its caller
  and, by `MovesOn` (an object keeps its record or gets a later version) and `RacesKnown`, for everybody
  else at once. `ReadsAgree`: an item whose version is the one a call read *is* the item it
  read, and so a conditional write overwrites nothing unseen; it needs that versions only
  grow and that a key is never given again while a call or a link still holds it.
  `SearchesHold`: a work that a call is about to post is not in the library, unless `raced`
  knows it; this is what a search promises until the POST, and `DuplicatesNeedARace` is
  its consequence. `ListingsAgree` says the same of folders for the recursion's stack.
  `AccountsFor`: a synchronisation has linked what it went through or still has it in
  `matched`, `create` or `created`, also when the bulk POST took only a part, and
  `missing` remembers the part that was not; only then does `CompletedSyncLinkedAll` follow from the last
  link. `StepFits` gives the locals that a step reads the values earlier steps set. Each action has
  one lemma that it keeps `ZoteroInv`, and each write one that it loses only what was seen.

TLC checked each inductive invariant on the instances above before it was proved (for `ZoteroInv`
with one more call, edit or fault in a behaviour than the `zotero` run has).

**Assumptions.** Each module names its own (`StoreAssumption`, `CallAssumption`,
`ScreeningAssumption`, `GithubAssumption`, `StorageAssumption`, `BackupsAssumption`, ...):
bounds are numbers, the null values are no members of their sets, the first root and the
default branch exist. TLC evaluates them in the runs.

**Only model-checked:** the three liveness properties (`EveryCallEnds`, `EveryFinalIsLinked`,
`ActiveUnitRecovers`), because the prover does not reason about fairness and ENABLED. Every
other property of a passing run is stated by a theorem (`HistoryTypeOK` by the three type theorems of its parts). What a recursive definition computes
by induction over data is out of reach too; none is used.

## 5. What is not modelled

* **Studies and topics.** `create_study`, `create_topic` and the lists are single statements.
  `update_topic` reads in one transaction and writes every column back in another, so two
  partial updates lose one; it is listed as a hazard, and a model would repeat those few lines.
* **Other export formats** make the same reads as the workbook and write one file.
* **Reads that change nothing**: Zotero and GitHub searches, `inspect`, lists, lookups.
* **Formatting**: how a provider's payload becomes a record, citations, the workbook's layout.
  The ACM adapter is never available.
* **Thin layers**: HTTP routes, MCP tools and the other commands check arguments and make one call of a
  modelled operation; the access rules of the remote surface are a pure function.
* **The rest**: keyword classification, cryptographic primitives, logging, the acceptance harness and
  the web interface keep no state the properties tell apart.

**What the properties do not catch.** These behaviours of the code are in the models, and the property
of that part names each one as an exception or is silent about it; none would notice if they got worse.

* Two overlapping `service start` may leave a server that `service.json` does not name, and a start
  may take another gateway's health for its own (`excused`). Nor is it a property whom `stop` signals
  when a pid was reused.
* A search saved by a gateway that still has the old root is not in the relocated store (`apart`), and a
  relocation to a root that has a database keeps that one, also the copy of a relocation that was
  killed and is repeated (`adopted`).
* A publication that fails after its branch was created leaves the branch, and a retry under that name is refused.
* A run may be recorded as complete without a record that was skipped, when another was withdrawn
  between two of its pages (`CompleteHasAll`).
* Web of Science Starter raises `ValueError` at an offset that the limit does not divide: for a last page, or
  behind a short one (`StableSavesEndWell`).
* A work that somebody adds between a search and a POST is there twice (`raced`).
* A link whose item is gone still counts as linked (`EveryFinalIsLinked`), and what was filed in a collection
  after the look is deleted with it (`DeletesWhereItWasListed` is about folders).
* `latest.xlsx` while backups overlap, and after one was interrupted, until one that runs alone repairs
  it (`LatestIsNewestSnapshot`).
* Two pauses at once let requests of arXiv come together (`PacedUnlessTogether`; finding 5).

In `OAuthProvider` a revocation that falls between the two transactions of a rotation in
*another* process is undone by the tokens that follow. `DeadFamilyStaysDead` is therefore
checked and proved for one process, the deployment the documentation describes. The SDK's
revocation endpoint, which is not in the repository, decides which tokens reach
`revoke_token`; the model lets any token reach it, active or not.

## 6. What is left

* An abstract specification of a token family (founded, rotated, dead) that `OAuthProvider`
  implements step by step, as `ResearchService` implements `SearchLedger`, and one of the
  screening history that `Screening` implements.
* A module for topics, should `update_topic` change.
