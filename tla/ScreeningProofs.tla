---------------------------- MODULE ScreeningProofs ----------------------------
(***************************************************************************)
(* Proofs about Screening: row and history agree, for any number of           *)
(* reviewers, records and decisions.                                        *)
(***************************************************************************)
EXTENDS Screening, TLAPS

\* Besides the properties: decisions are about evidence that is there, and a record without
\* one is unreviewed, as its first decision will say.
UndecidedIsUnreviewed ==
    \A e \in Known :
        (\A i \in DOMAIN events : events[i].evidence # e) => rows[e].status = "unreviewed"

ScreeningInv ==
    /\ TypeOK
    /\ \A i \in DOMAIN events : events[i].evidence \in Known
    /\ UndecidedIsUnreviewed
    /\ HistoryIsAChain
    /\ RowShowsLastDecision

USE ScreeningAssumption

\* The kinds of request are told apart.
LEMMA RequestKinds ==
    ASSUME NEW request \in {Idle} \union Decision \union Remark
    PROVE  /\ request.kind = "screen" => request \in Decision
           /\ request.kind = "note" => request \in Remark
BY DEF Idle, Decision, Remark

LEMMA ScreeningInitially == Init => ScreeningInv
<1> SUFFICES ASSUME Init PROVE ScreeningInv
  OBVIOUS
<1>1. rows \in [Known -> Row]
  <2> DEFINE row == [status |-> "unreviewed", exclusion_reason |-> NoReason,
                     final_corpus |-> FALSE, notes_summary |-> NoNote, updated_at |-> 0]
  <2>1. row \in Row
    BY DEF Row, ScreeningStatus
  <2>2. rows = [e \in Known |-> row]
    BY DEF Init
  <2> HIDE DEF row
  <2> QED BY <2>1, <2>2
<1>2. TypeOK
  <2>1. events \in Seq(Event) /\ notes \in Seq(NoteRow)
    BY DEF Init
  <2>2. clock \in Nat /\ requests \in [Reviewer -> {Idle} \union Decision \union Remark]
    BY DEF Init
  <2> QED BY <1>1, <2>1, <2>2 DEF TypeOK
<1>3. DOMAIN events = {}
  BY DEF Init
<1>4. UndecidedIsUnreviewed
  BY DEF Init, UndecidedIsUnreviewed
<1> QED BY <1>2, <1>3, <1>4 DEF ScreeningInv, HistoryIsAChain, RowShowsLastDecision

\* A decision that is committed: its old status is what the row showed, which is what the
\* decision before it entered, or what the record began with.
LEMMA SetScreeningSafe ==
    ASSUME ScreeningInv, NEW v \in Reviewer, SetScreening(v)
    PROVE  ScreeningInv'
<1> USE DEF ScreeningInv
<1> DEFINE request == requests[v]
           e == request.evidence
           event == [evidence |-> e, at |-> request.now, old |-> rows[e].status,
                     new |-> request.status, reason |-> request.reason]
           row == [rows[e] EXCEPT !.status = request.status,
                                  !.exclusion_reason = IF request.status = "excluded"
                                                       THEN request.reason ELSE NoReason,
                                  !.final_corpus = (request.status = "final"),
                                  !.updated_at = request.now]
           n == Len(events)
<1>1. /\ request.kind = "screen" /\ e \in Known
      /\ rows' = [rows EXCEPT ![e] = row]
      /\ events' = Append(events, event)
      /\ requests' = [requests EXCEPT ![v] = Idle]
      /\ UNCHANGED <<clock, notes>>
  BY DEF SetScreening
<1>2. request \in Decision
  BY <1>1, RequestKinds DEF TypeOK
<1>3. rows[e] \in Row
  BY <1>1 DEF TypeOK
<1>4. event \in Event /\ event.evidence = e /\ event.old = rows[e].status
      /\ event.new = request.status /\ event.reason = request.reason
  BY <1>2, <1>3 DEF Decision, Row, Event
<1>5. row \in Row
  BY <1>2, <1>3 DEF Decision, Row
<1>6. /\ row.status = event.new
      /\ row.final_corpus <=> event.new = "final"
      /\ row.exclusion_reason = IF event.new = "excluded" THEN event.reason ELSE NoReason
  BY <1>3, <1>4 DEF Row
<1> HIDE DEF row, event, request, e
<1>7. /\ events' \in Seq(Event) /\ n \in Nat /\ DOMAIN events = 1..n
      /\ DOMAIN events' = 1..n + 1 /\ events'[n + 1] = event
      /\ \A i \in 1..n : events'[i] = events[i]
  BY <1>1, <1>4 DEF TypeOK
<1>8. /\ rows' \in [Known -> Row] /\ rows'[e] = row
      /\ \A d \in Known : d # e => rows'[d] = rows[d]
  BY <1>1, <1>5 DEF TypeOK
<1>9. TypeOK'
  BY <1>1, <1>7, <1>8 DEF TypeOK
<1>10. \A i \in DOMAIN events' : events'[i].evidence \in Known
  BY <1>1, <1>4, <1>7
<1>11. UndecidedIsUnreviewed'
  <2> SUFFICES ASSUME NEW d \in Known, \A i \in DOMAIN events' : events'[i].evidence # d
               PROVE  rows'[d].status = "unreviewed"
    BY DEF UndecidedIsUnreviewed
  <2>1. d # e
    BY <1>4, <1>7
  <2>2. \A i \in DOMAIN events : events[i].evidence # d
    BY <1>7
  <2> QED BY <1>8, <2>1, <2>2 DEF UndecidedIsUnreviewed
<1>12. HistoryIsAChain'
  <2> SUFFICES ASSUME NEW i \in DOMAIN events'
               PROVE  LET before == {j \in 1..(i - 1) : events'[j].evidence = events'[i].evidence}
                      IN  /\ before = {} => events'[i].old = "unreviewed"
                          /\ \A j \in before :
                                (\A k \in before : k <= j) => events'[i].old = events'[j].new
    BY DEF HistoryIsAChain
  <2> DEFINE before == {j \in 1..(i - 1) : events'[j].evidence = events'[i].evidence}
  <2>1. CASE i \in 1..n
    <3>1. before = {j \in 1..(i - 1) : events[j].evidence = events[i].evidence}
      BY <1>7, <2>1
    <3>2. before \subseteq 1..n
      BY <1>7, <2>1
    <3>3. i \in DOMAIN events
      BY <1>7, <2>1
    <3>4. /\ before = {} => events[i].old = "unreviewed"
          /\ \A j \in before : (\A k \in before : k <= j) => events[i].old = events[j].new
      BY <3>1, <3>3 DEF HistoryIsAChain
    <3> HIDE DEF before
    <3> QED BY <1>7, <2>1, <3>2, <3>4 DEF before
  <2>2. CASE i = n + 1
    <3>1. before = {j \in 1..n : events[j].evidence = e}
      BY <1>4, <1>7, <2>2
    <3>2. events'[i].old = rows[e].status
      BY <1>4, <1>7, <2>2
    <3>3. before = {} => events'[i].old = "unreviewed"
      BY <1>1, <1>7, <3>1, <3>2 DEF UndecidedIsUnreviewed
    <3>4. ASSUME NEW j \in before, \A k \in before : k <= j
          PROVE  events'[i].old = events'[j].new
      <4>1. j \in DOMAIN events /\ events[j].evidence = e /\ events'[j] = events[j]
        BY <1>7, <3>1
      <4>2. \A k \in DOMAIN events : events[k].evidence = events[j].evidence => k <= j
        BY <1>7, <3>1, <3>4, <4>1
      <4> QED BY <3>2, <4>1, <4>2 DEF RowShowsLastDecision
    <3> QED BY <3>3, <3>4
  <2> QED BY <1>7, <2>1, <2>2
<1>13. RowShowsLastDecision'
  <2> SUFFICES ASSUME NEW i \in DOMAIN events',
                      \A j \in DOMAIN events' : events'[j].evidence = events'[i].evidence => j <= i
               PROVE  LET last == events'[i]
                          d == rows'[last.evidence]
                      IN  /\ d.status = last.new
                          /\ d.final_corpus <=> last.new = "final"
                          /\ d.exclusion_reason = IF last.new = "excluded" THEN last.reason
                                                  ELSE NoReason
    BY DEF RowShowsLastDecision
  <2>1. CASE i = n + 1
    BY <1>4, <1>6, <1>7, <1>8, <2>1
  <2>2. CASE i \in 1..n
    <3>1. events'[i] = events[i] /\ i \in DOMAIN events /\ events[i].evidence \in Known
      BY <1>7, <2>2
    <3>2. events[i].evidence # e
      BY <1>4, <1>7, <2>2, <3>1
    <3>3. \A j \in DOMAIN events : events[j].evidence = events[i].evidence => j <= i
      BY <1>7, <3>1
    <3>4. rows'[events[i].evidence] = rows[events[i].evidence]
      BY <1>8, <3>1, <3>2
    <3> QED BY <3>1, <3>3, <3>4 DEF RowShowsLastDecision
  <2> QED BY <1>7, <2>1, <2>2
<1> QED BY <1>9, <1>10, <1>11, <1>12, <1>13

\* What leaves the history and the screening columns alone.
LEMMA SameDecisions ==
    ASSUME ScreeningInv, UNCHANGED events, TypeOK',
           \A e \in Known : /\ rows'[e].status = rows[e].status
                            /\ rows'[e].final_corpus = rows[e].final_corpus
                            /\ rows'[e].exclusion_reason = rows[e].exclusion_reason
    PROVE  ScreeningInv'
<1> USE DEF ScreeningInv
<1>1. UndecidedIsUnreviewed' /\ HistoryIsAChain'
  BY DEF UndecidedIsUnreviewed, HistoryIsAChain
<1>2. RowShowsLastDecision'
  BY DEF RowShowsLastDecision
<1> QED BY <1>1, <1>2

LEMMA AddNoteSafe ==
    ASSUME ScreeningInv, NEW v \in Reviewer, AddNote(v)
    PROVE  ScreeningInv'
<1> DEFINE request == requests[v]
           e == request.evidence
           row == [rows[e] EXCEPT !.notes_summary = request.text, !.updated_at = request.now]
           note == [evidence |-> e, at |-> request.now, text |-> request.text]
<1>1. /\ request.kind = "note" /\ e \in Known
      /\ rows' = [rows EXCEPT ![e] = row]
      /\ notes' = Append(notes, note)
      /\ requests' = [requests EXCEPT ![v] = Idle]
      /\ UNCHANGED <<clock, events>>
  BY DEF AddNote, ScreeningInv, TypeOK
<1>2. request \in Remark /\ rows[e] \in Row
  BY <1>1, RequestKinds DEF ScreeningInv, TypeOK
<1>3. row \in Row /\ note \in NoteRow
      /\ row.status = rows[e].status /\ row.final_corpus = rows[e].final_corpus
      /\ row.exclusion_reason = rows[e].exclusion_reason
  BY <1>2 DEF Remark, Row, NoteRow
<1> HIDE DEF row, note, e, request
<1>4. TypeOK'
  BY <1>1, <1>3 DEF ScreeningInv, TypeOK
<1>5. \A d \in Known : rows'[d] = IF d = e THEN row ELSE rows[d]
  BY <1>1 DEF ScreeningInv, TypeOK
<1> QED BY <1>1, <1>3, <1>4, <1>5, SameDecisions

\* Requests wait, or are dropped.
LEMMA RequestSafe ==
    ASSUME ScreeningInv, NEW v \in Reviewer,
           RequestScreening(v) \/ RequestNote(v) \/ Abandon(v)
    PROVE  ScreeningInv'
<1>1. UNCHANGED <<clock, rows, events, notes>>
  BY DEF RequestScreening, RequestNote, Abandon, Request
<1>2. \E request \in {Idle} \union Decision \union Remark :
          requests' = [requests EXCEPT ![v] = request]
  <2>1. CASE Abandon(v)
    BY <2>1 DEF Abandon
  <2>2. CASE RequestScreening(v)
    <3>1. PICK e \in NamedEvidence, status \in Choice, reason \in Reason \union {NoReason} :
              Request(v, [kind |-> "screen", evidence |-> e, now |-> clock,
                          status |-> status, reason |-> reason])
      BY <2>2 DEF RequestScreening
    <3>2. [kind |-> "screen", evidence |-> e, now |-> clock, status |-> status,
           reason |-> reason] \in Decision
      BY DEF ScreeningInv, TypeOK, Decision
    <3> QED BY <3>1, <3>2 DEF Request
  <2>3. CASE RequestNote(v)
    <3>1. PICK e \in NamedEvidence, text \in Note :
              Request(v, [kind |-> "note", evidence |-> e, now |-> clock, text |-> text])
      BY <2>3 DEF RequestNote
    <3>2. [kind |-> "note", evidence |-> e, now |-> clock, text |-> text] \in Remark
      BY DEF ScreeningInv, TypeOK, Remark
    <3> QED BY <3>1, <3>2 DEF Request
  <2> QED BY <2>1, <2>2, <2>3
<1>3. TypeOK'
  BY <1>1, <1>2 DEF ScreeningInv, TypeOK
<1> QED BY <1>1, <1>3, SameDecisions

LEMMA ScreeningStep == ScreeningInv /\ [Next]_vars => ScreeningInv'
<1> SUFFICES ASSUME ScreeningInv, [Next]_vars PROVE ScreeningInv'
  OBVIOUS
<1>1. CASE ClockTicks
  <2>1. clock' \in Nat /\ UNCHANGED <<rows, events, notes, requests>>
    BY <1>1 DEF ClockTicks, ScreeningInv, TypeOK
  <2>2. TypeOK'
    BY <2>1 DEF ScreeningInv, TypeOK
  <2> QED BY <2>1, <2>2, SameDecisions
<1>2. CASE UNCHANGED vars
  <2>1. TypeOK' /\ UNCHANGED <<rows, events>>
    BY <1>2 DEF vars, ScreeningInv, TypeOK
  <2> QED BY <2>1, SameDecisions
<1> QED BY <1>1, <1>2, SetScreeningSafe, AddNoteSafe, RequestSafe DEF Next

LEMMA ScreeningInvariant == Spec => []ScreeningInv
BY ScreeningInitially, ScreeningStep, PTL DEF Spec

\* Rows, history and notes keep their types, a note its text.
THEOREM ScreeningTypesHold == Spec => []TypeOK
BY ScreeningInvariant, PTL DEF ScreeningInv

\* set_screening reads the old status under the write lock: no decision is lost between two.
THEOREM HistoryHolds == Spec => []HistoryIsAChain
BY ScreeningInvariant, PTL DEF ScreeningInv

\* The evidence row and the end of its history are written together.
THEOREM RowsHold == Spec => []RowShowsLastDecision
BY ScreeningInvariant, PTL DEF ScreeningInv
=============================================================================
