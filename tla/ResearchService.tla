--------------------------- MODULE ResearchService ---------------------------
(***************************************************************************)
(* services/research.py: the explore and save calls of concurrent MCP and  *)
(* HTTP clients against one EvidenceStore.  A call awaits the provider and *)
(* then one store transaction after another, so the calls interleave       *)
(* between any two of them.  The exception a provider or a transaction     *)
(* raises is handled by _record_failure; a cancellation or the end of the  *)
(* process is not an Exception and skips the handler.                      *)
(*                                                                         *)
(* The provider is external: the SourceAdapter protocol promises nothing   *)
(* about the totals, the records or the next offset of a page.             *)
(***************************************************************************)
EXTENDS EvidenceStore

CONSTANTS
    Call,        \* the tool calls and requests that run a search
    NoRun,       \* a call that has no search run yet
    NoOffset,    \* page.next_offset is None
    MaxPage,     \* bound: records a provider puts in one page
    MaxOffset    \* bound: offsets a provider names

ASSUME CallAssumption ==
    /\ NoRun \notin RunId
    /\ NoOffset \notin Nat
    /\ MaxPage \in Nat /\ MaxOffset \in Nat

VARIABLES
    calls,       \* the local variables of each call, and where it awaits
    audits       \* audit_events of the searches

serviceVars == <<storeVars, calls, audits>>

\* searching, ingesting, ...: what the call awaits.  returned, raised: it ended.
\* unrecorded: it raised and the failure could not be written.  cancelled: it was
\* cancelled, or its process ended.
Active == {"counting", "searching", "ingesting", "completing", "auditing",
           "failing", "auditingFailure"}
Ended == {"returned", "raised", "unrecorded", "cancelled"}

CallState ==
    [state: {"idle"} \union Active \union Ended, run: RunId \union {NoRun},
     limit: Nat, offset: Nat, total: Nat, retrieved: Nat, created: Nat, existing: Nat,
     page: Seq(Record), next: Nat \union {NoOffset}]

IdleCall == [state |-> "idle", run |-> NoRun, limit |-> 0, offset |-> 0, total |-> 0,
             retrieved |-> 0, created |-> 0, existing |-> 0, page |-> <<>>, next |-> NoOffset]

Audit == [run: RunId, status: {"completed", "failed"}]

TypeOK ==
    /\ StoreTypeOK
    /\ calls \in [Call -> CallState]
    /\ audits \subseteq Audit

Init ==
    /\ StoreInit
    /\ calls = [c \in Call |-> IdleCall]
    /\ audits = {}

In(c, state) == calls[c].state = state
Goto(c, state) == calls' = [calls EXCEPT ![c].state = state]

\* A call that left the page loop has no more use for its page, nor an ended one for
\* its counts: their values are forgotten, which keeps the state space small.
LeaveLoop(call, state) ==
    [call EXCEPT !.state = state, !.page = <<>>, !.next = NoOffset, !.offset = 0]
End(c, state) ==
    calls' = [calls EXCEPT ![c] = [IdleCall EXCEPT !.state = state, !.run = calls[c].run]]

-----------------------------------------------------------------------------
(* explore and save                                                        *)

\* _available and create_search_run, before the try block.
Start(c, mode, limit, first) ==
    /\ In(c, "idle")
    /\ \E r \in RunId, s \in Study, p \in Provider :
         /\ CreateSearchRun(r, s, p, mode, limit)
         /\ calls' = [calls EXCEPT ![c] = [IdleCall EXCEPT !.state = first, !.run = r,
                                                           !.limit = limit]]
    /\ UNCHANGED audits

\* The MCP tool passes no limit to explore, which is then 0; the HTTP route does.
StartExplore(c) == \E limit \in 0..MaxLimit : Start(c, "explore", limit, "counting")
StartSave(c) == \E limit \in 1..MaxLimit : Start(c, "save", limit, "searching")

\* An unavailable source, a limit below 1, or create_search_run raised: no run.
Refuse(c) ==
    /\ In(c, "idle")
    /\ End(c, "raised")
    /\ UNCHANGED <<storeVars, audits>>

Count(c) ==
    /\ In(c, "counting")
    /\ \E total \in 0..MaxTotal :
         calls' = [calls EXCEPT ![c].total = total, ![c].state = "completing"]
    /\ UNCHANGED <<storeVars, audits>>

\* External: the pages of a provider, of any length whatever limit it was given.
Pages(provider) ==
    LET own == {rec \in Record : rec.provider = provider}
    IN  UNION {[1..n -> own] : n \in 0..MaxPage}

\* Mutant: an empty page that names a next offset is skipped.
FetchPageSkipsEmpty(c) ==
    /\ In(c, "searching")
    /\ \E total \in 0..MaxTotal, page \in Pages(runs[calls[c].run].provider),
          next \in {NoOffset} \union 0..MaxOffset :
         calls' = [calls EXCEPT ![c] =
                     IF page # <<>>
                     THEN [@ EXCEPT !.total = total, !.page = page, !.next = next,
                                    !.state = "ingesting"]
                     ELSE IF next # NoOffset THEN [@ EXCEPT !.total = total, !.offset = next]
                     ELSE LeaveLoop([@ EXCEPT !.total = total], "completing")]
    /\ UNCHANGED <<storeVars, audits>>

FetchPage(c) ==
    /\ In(c, "searching")
    /\ \E total \in 0..MaxTotal, page \in Pages(runs[calls[c].run].provider),
          next \in {NoOffset} \union 0..MaxOffset :
         calls' = [calls EXCEPT ![c] =
                     IF page = <<>>
                     THEN LeaveLoop([@ EXCEPT !.total = total], "completing")
                     ELSE [@ EXCEPT !.total = total, !.page = page, !.next = next,
                                    !.state = "ingesting"]]
    /\ UNCHANGED <<storeVars, audits>>

\* Mutants: a page is saved to its end, whatever the limit; and only a new record
\* counts as retrieved.
AfterHitOfWholePage(call, isNew) ==
    LET retrieved == call.retrieved + 1
        goesOn == call.next # NoOffset /\ call.next > call.offset /\ retrieved < call.limit
        counted == [call EXCEPT !.retrieved = retrieved,
                                !.created = @ + (IF isNew THEN 1 ELSE 0),
                                !.existing = @ + (IF isNew THEN 0 ELSE 1)]
    IN  IF Len(call.page) > 1 THEN [counted EXCEPT !.page = Tail(@)]
        ELSE IF goesOn THEN [counted EXCEPT !.page = <<>>, !.next = NoOffset,
                                            !.offset = call.next, !.state = "searching"]
        ELSE LeaveLoop(counted, "completing")
AfterHitCountingNew(call, isNew) ==
    LET retrieved == call.retrieved + (IF isNew THEN 1 ELSE 0)
        counted == [call EXCEPT !.retrieved = retrieved,
                                !.created = @ + (IF isNew THEN 1 ELSE 0),
                                !.existing = @ + (IF isNew THEN 0 ELSE 1)]
    IN  IF retrieved < call.limit /\ Len(call.page) > 1 THEN [counted EXCEPT !.page = Tail(@)]
        ELSE LeaveLoop(counted, "completing")

\* The call after one more record: the two breaks and the loop condition of save.
AfterHit(call, isNew) ==
    LET retrieved == call.retrieved + 1
        pageDone == retrieved >= call.limit \/ Len(call.page) = 1
        goesOn == call.next # NoOffset /\ call.next > call.offset /\ retrieved < call.limit
        counted == [call EXCEPT !.retrieved = retrieved,
                                !.created = @ + (IF isNew THEN 1 ELSE 0),
                                !.existing = @ + (IF isNew THEN 0 ELSE 1)]
    IN  IF ~pageDone THEN [counted EXCEPT !.page = Tail(@)]
        ELSE IF goesOn THEN [counted EXCEPT !.page = <<>>, !.next = NoOffset,
                                            !.offset = call.next, !.state = "searching"]
        ELSE LeaveLoop(counted, "completing")

Ingest(c) ==
    /\ In(c, "ingesting")
    /\ LET rec == Head(calls[c].page)
       IN  /\ IngestSearchHit(calls[c].run, calls[c].retrieved + 1, rec)
           /\ calls' = [calls EXCEPT ![c] = AfterHit(@, MatchOf(rec) = "none")]
    /\ UNCHANGED audits

\* Mutant: the two counts are passed in the wrong order.
CompleteSwapsCounts(c) ==
    /\ In(c, "completing")
    /\ LET call == calls[c]
       IN  CompleteSearchRun(call.run, call.total, call.retrieved, call.existing, call.created,
                             runs[call.run].mode = "explore" \/ call.retrieved >= call.total)
    /\ Goto(c, "auditing")
    /\ UNCHANGED audits

Complete(c) ==
    /\ In(c, "completing")
    /\ LET call == calls[c]
       IN  CompleteSearchRun(call.run, call.total, call.retrieved, call.created, call.existing,
                             runs[call.run].mode = "explore" \/ call.retrieved >= call.total)
    /\ Goto(c, "auditing")
    /\ UNCHANGED audits

\* Mutant: the answer is built inside the try block, after the audit, and may raise.
AuditThenRaise(c) ==
    /\ In(c, "auditing")
    /\ audits' = audits \union {[run |-> calls[c].run, status |-> "completed"]}
    /\ Goto(c, "returned") \/ Goto(c, "failing")
    /\ UNCHANGED storeVars

AuditCompleted(c) ==
    /\ In(c, "auditing")
    /\ audits' = audits \union {[run |-> calls[c].run, status |-> "completed"]}
    /\ Goto(c, "returned")
    /\ UNCHANGED storeVars

\* Mutant: only a ProviderError is caught.
StepRaisesUncaught(c) ==
    /\ calls[c].state \in {"counting", "searching", "ingesting", "completing", "auditing"}
    /\ \/ calls' = [calls EXCEPT ![c] = [LeaveLoop(@, "failing") EXCEPT !.total = 0]]
       \/ End(c, "raised")
    /\ UNCHANGED <<storeVars, audits>>

\* A ProviderError, a constraint of search_hits, a locked database: any await of
\* the try block may raise, and what it had begun is rolled back.
StepRaises(c) ==
    /\ calls[c].state \in {"counting", "searching", "ingesting", "completing", "auditing"}
    /\ calls' = [calls EXCEPT ![c] = [LeaveLoop(@, "failing") EXCEPT !.total = 0]]
    /\ UNCHANGED <<storeVars, audits>>

-----------------------------------------------------------------------------
(* _record_failure, and calls that never reach it                          *)

RecordFailure(c) ==
    /\ In(c, "failing")
    /\ FailSearchRun(calls[c].run, calls[c].retrieved, calls[c].created, calls[c].existing)
    /\ Goto(c, "auditingFailure")
    /\ UNCHANGED audits

\* Mutant: the status of the run is audited in place of the outcome.
AuditFailureStatus(c) ==
    /\ In(c, "auditingFailure")
    /\ audits' = audits \union {[run |-> calls[c].run, status |-> runs[calls[c].run].status]}
    /\ End(c, "raised")
    /\ UNCHANGED storeVars

AuditFailure(c) ==
    /\ In(c, "auditingFailure")
    /\ audits' = audits \union {[run |-> calls[c].run, status |-> "failed"]}
    /\ End(c, "raised")
    /\ UNCHANGED storeVars

HandlerRaises(c) ==
    /\ \/ In(c, "failing") /\ End(c, "unrecorded")
       \/ In(c, "auditingFailure") /\ End(c, "raised")
    /\ UNCHANGED <<storeVars, audits>>

Cancel(c) ==
    /\ calls[c].state \in Active
    /\ End(c, "cancelled")
    /\ UNCHANGED <<storeVars, audits>>

Progress(c) == \/ Count(c) \/ FetchPage(c) \/ Ingest(c) \/ Complete(c) \/ AuditCompleted(c)
               \/ StepRaises(c) \/ RecordFailure(c) \/ AuditFailure(c) \/ HandlerRaises(c)

Next == \E c \in Call : \/ StartExplore(c) \/ StartSave(c) \/ Refuse(c)
                        \/ Progress(c) \/ Cancel(c)

Spec == Init /\ [][Next]_serviceVars

\* Every await ends: the adapters set HTTP timeouts and SQLite a busy timeout.
Fairness == \A c \in Call : WF_serviceVars(Progress(c))
FairSpec == Spec /\ Fairness

-----------------------------------------------------------------------------
(* Properties                                                              *)

Created(r) == {h \in HitsOf(r) : h.by = "none"}

\* A run that has ended, normally or not, reports exactly what it saved: its hits
\* are ranked 1..retrieved_count without a gap, and the new and existing counts
\* split them as ingest_search_hit did; "failed" saved nothing and "partial" something.
ClosedRunCountsItsHits ==
    \A r \in DOMAIN runs : Terminal(r) =>
        /\ {h.rank : h \in HitsOf(r)} = 1..runs[r].retrieved
        /\ Cardinality(Created(r)) = runs[r].created
        /\ runs[r].created + runs[r].existing = Cardinality(HitsOf(r))
        /\ runs[r].status = "failed" => HitsOf(r) = {}
        /\ runs[r].status = "partial" => HitsOf(r) # {}

\* is_complete is never set on a run that missed something: only on a completed
\* run, with all the hits its provider reported, or on an explore, without any.
CompleteIsTruthful ==
    \A r \in DOMAIN runs : runs[r].complete =>
        /\ runs[r].status = "completed"
        /\ IF runs[r].mode = "explore" THEN HitsOf(r) = {}
           ELSE Cardinality(HitsOf(r)) >= runs[r].total

\* No run, ended or not, saves more than requested_limit, even from a provider
\* whose pages are longer than the limit it was given; an explore saves nothing.
NeverMoreThanRequested ==
    \A r \in DOMAIN runs :
        Cardinality(HitsOf(r)) <= IF runs[r].mode = "explore" THEN 0 ELSE runs[r].limit

\* The audit tells what the run's row tells, at most once: a run audited as
\* completed is completed and one audited as failed is partial or failed.
AuditAgreesWithRun ==
    \A a \in audits :
        /\ a.status = "completed" <=> runs[a.run].status = "completed"
        /\ Terminal(a.run)
        /\ \A b \in audits : b.run = a.run => b = a

\* A call that returned its counts to the client finds its run completed, audited,
\* and with these counts.
AnswerMatchesRun ==
    \A c \in Call : calls[c].state = "returned" =>
        LET run == runs[calls[c].run]
        IN  /\ run.status = "completed"
            /\ <<run.total, run.retrieved, run.created, run.existing>> =
                 <<calls[c].total, calls[c].retrieved, calls[c].created, calls[c].existing>>
            /\ [run |-> calls[c].run, status |-> "completed"] \in audits

\* Only an interruption strands a run as "running": its call is under way, was
\* cancelled with its process or its client, or could not write its failure.
StrandedOnlyByInterruption ==
    \A r \in DOMAIN runs : runs[r].status = "running" =>
        \E c \in Call : /\ calls[c].run = r
                        /\ calls[c].state \in Active \union {"unrecorded", "cancelled"}

\* Every call ends, whatever the provider pages: no page loop runs forever.
EveryCallEnds == \A c \in Call : (calls[c].state \in Active) ~> (calls[c].state \in Ended)

\* The entry SearchLedger keeps for a run, read from the tables.
LedgerEntry(r) ==
    IF r \in DOMAIN runs
    THEN [status |-> runs[r].status, hits |-> Cardinality(HitsOf(r)),
          reported |-> runs[r].retrieved]
    ELSE [status |-> "absent", hits |-> 0, reported |-> 0]

Ledger == INSTANCE SearchLedger WITH ledger <- [r \in RunId |-> LedgerEntry(r)]

\* The two tables, written by interleaved calls that may raise, be cancelled or lose
\* their audit anywhere, implement the ledger: every step is one of its steps.
ImplementsLedger == Ledger!LedgerSpec

=============================================================================
