------------------------------ MODULE Screening ------------------------------
(***************************************************************************)
(* set_screening and add_note of db/database.py, called by reviewers       *)
(* through MCP and the UI.  A call reads the clock when it connects and    *)
(* only then waits for the write lock of BEGIN IMMEDIATE; under the lock   *)
(* it reads the old status, updates the evidence row and appends to the    *)
(* history.  Lists are read back in the order of the timestamps.           *)
(***************************************************************************)
EXTENDS Integers, Sequences, FiniteSets

CONSTANTS
    Reviewer,    \* calls that may be in progress at once
    NamedEvidence, \* evidence a call may name
    Known,       \* evidence the table holds
    Reason, NoReason,
    Note, NoNote,
    Choice,      \* bound: the statuses reviewers choose from
    MaxClock,    \* bound: readings of the clock
    MaxHistory   \* bound: decisions and notes committed, together

ScreeningStatus == {"unreviewed", "candidate", "included", "excluded", "final"}

ASSUME ScreeningAssumption ==
    /\ Known \subseteq NamedEvidence
    /\ NoReason \notin Reason /\ NoNote \notin Note
    /\ Choice \subseteq ScreeningStatus
    /\ MaxClock \in Nat /\ MaxHistory \in Nat

VARIABLES
    clock,       \* datetime.now(UTC)
    rows,        \* screening columns of the evidence table
    events,      \* screening_events, in the order they were committed
    notes,       \* notes, in the order they were committed
    requests     \* the call each reviewer has in progress

vars == <<clock, rows, events, notes, requests>>

Row == [status: ScreeningStatus, exclusion_reason: Reason \union {NoReason},
        final_corpus: BOOLEAN, notes_summary: Note \union {NoNote}, updated_at: Nat]
Event == [evidence: NamedEvidence, at: Nat, old: ScreeningStatus, new: ScreeningStatus,
          reason: Reason \union {NoReason}]
NoteRow == [evidence: NamedEvidence, at: Nat, text: Note]

Idle == [kind |-> "none"]
Decision == [kind: {"screen"}, evidence: NamedEvidence, now: Nat,
             status: ScreeningStatus, reason: Reason \union {NoReason}]
Remark == [kind: {"note"}, evidence: NamedEvidence, now: Nat, text: Note]

TypeOK ==
    /\ clock \in Nat
    /\ rows \in [Known -> Row]
    /\ events \in Seq(Event)
    /\ notes \in Seq(NoteRow)
    /\ requests \in [Reviewer -> {Idle} \union Decision \union Remark]

Init ==
    /\ clock = 0
    /\ rows = [e \in Known |-> [status |-> "unreviewed", exclusion_reason |-> NoReason,
                                final_corpus |-> FALSE, notes_summary |-> NoNote,
                                updated_at |-> 0]]
    /\ events = <<>>
    /\ notes = <<>>
    /\ requests = [v \in Reviewer |-> Idle]

ClockTicks ==
    /\ clock < MaxClock
    /\ clock' = clock + 1
    /\ UNCHANGED <<rows, events, notes, requests>>

\* _connect, now = _utc_text(): the call then waits for the write lock.
Request(v, request) ==
    /\ requests[v] = Idle
    /\ requests' = [requests EXCEPT ![v] = request]
    /\ UNCHANGED <<clock, rows, events, notes>>

RequestScreening(v) ==
    \E e \in NamedEvidence, status \in Choice, reason \in Reason \union {NoReason} :
        Request(v, [kind |-> "screen", evidence |-> e, now |-> clock,
                    status |-> status, reason |-> reason])

RequestNote(v) ==
    \E e \in NamedEvidence, text \in Note :
        Request(v, [kind |-> "note", evidence |-> e, now |-> clock, text |-> text])

HistoryBound == Len(events) + Len(notes) < MaxHistory

\* Mutants: the old status is read after the update; and the final corpus is never left.
SetScreeningReadsBack(v) ==
    LET request == requests[v]
        e == request.evidence
    IN  /\ request.kind = "screen" /\ e \in Known
        /\ HistoryBound
        /\ rows' = [rows EXCEPT ![e].status = request.status]
        /\ events' = Append(events, [evidence |-> e, at |-> request.now,
                                     old |-> request.status, new |-> request.status,
                                     reason |-> request.reason])
        /\ requests' = [requests EXCEPT ![v] = Idle]
        /\ UNCHANGED <<clock, notes>>
SetScreeningKeepsFinal(v) ==
    LET request == requests[v]
        e == request.evidence
    IN  /\ request.kind = "screen" /\ e \in Known
        /\ HistoryBound
        /\ rows' = [rows EXCEPT ![e] =
                      [@ EXCEPT !.status = request.status,
                                !.exclusion_reason = IF request.status = "excluded"
                                                     THEN request.reason ELSE NoReason,
                                !.final_corpus = @ \/ request.status = "final"]]
        /\ events' = Append(events, [evidence |-> e, at |-> request.now,
                                     old |-> rows[e].status, new |-> request.status,
                                     reason |-> request.reason])
        /\ requests' = [requests EXCEPT ![v] = Idle]
        /\ UNCHANGED <<clock, notes>>

\* BEGIN IMMEDIATE to commit.
SetScreening(v) ==
    LET request == requests[v]
        e == request.evidence
    IN  /\ request.kind = "screen" /\ e \in Known
        /\ HistoryBound
        /\ rows' = [rows EXCEPT ![e] =
                      [@ EXCEPT !.status = request.status,
                                !.exclusion_reason = IF request.status = "excluded"
                                                     THEN request.reason ELSE NoReason,
                                !.final_corpus = (request.status = "final"),
                                !.updated_at = request.now]]
        /\ events' = Append(events, [evidence |-> e, at |-> request.now,
                                     old |-> rows[e].status, new |-> request.status,
                                     reason |-> request.reason])
        /\ requests' = [requests EXCEPT ![v] = Idle]
        /\ UNCHANGED <<clock, notes>>

AddNote(v) ==
    LET request == requests[v]
        e == request.evidence
    IN  /\ request.kind = "note" /\ e \in Known
        /\ HistoryBound
        /\ rows' = [rows EXCEPT ![e].notes_summary = request.text, ![e].updated_at = request.now]
        /\ notes' = Append(notes, [evidence |-> e, at |-> request.now, text |-> request.text])
        /\ requests' = [requests EXCEPT ![v] = Idle]
        /\ UNCHANGED <<clock, events>>

\* KeyError or a foreign key that fails, a locked database, a cancelled call.
Abandon(v) ==
    /\ requests[v] # Idle
    /\ requests' = [requests EXCEPT ![v] = Idle]
    /\ UNCHANGED <<clock, rows, events, notes>>

Next ==
    \/ ClockTicks
    \/ \E v \in Reviewer : \/ RequestScreening(v) \/ RequestNote(v)
                           \/ SetScreening(v) \/ AddNote(v) \/ Abandon(v)

Spec == Init /\ [][Next]_vars

-----------------------------------------------------------------------------
(* Properties                                                              *)

\* The history of an evidence is a chain of decisions that starts at unreviewed,
\* each event leaving the status the one before it entered, however calls overlap.
HistoryIsAChain ==
    \A i \in DOMAIN events :
        LET before == {j \in 1..(i - 1) : events[j].evidence = events[i].evidence}
        IN  /\ before = {} => events[i].old = "unreviewed"
            /\ \A j \in before : (\A k \in before : k <= j) => events[i].old = events[j].new

\* The evidence row shows the last decision committed: its status, membership in the
\* final corpus exactly when that is final, and its reason only when it excluded.
RowShowsLastDecision ==
    \A i \in DOMAIN events :
        LET last == events[i]
            row == rows[last.evidence]
        IN  (\A j \in DOMAIN events : events[j].evidence = last.evidence => j <= i) =>
              /\ row.status = last.new
              /\ row.final_corpus <=> last.new = "final"
              /\ row.exclusion_reason = IF last.new = "excluded" THEN last.reason ELSE NoReason

\* tests/unit/test_database.py, test_screening_history_and_final_corpus: the history
\* screening_history returns, ordered by timestamp_utc, lists the decisions as they
\* were taken, so that its last entry is the current status.
HistoryEndsAtCurrentStatus ==
    \A i \in DOMAIN events :
        LET others == {j \in DOMAIN events : j # i /\ events[j].evidence = events[i].evidence}
        IN  (\A j \in others : events[j].at < events[i].at)
              => rows[events[i].evidence].status = events[i].new
=============================================================================
