------------------------- MODULE ResearchServiceProofs -------------------------
(***************************************************************************)
(* Proofs about ResearchService: what a search run reports is what it         *)
(* saved, and the two tables implement the SearchLedger, for any number of    *)
(* concurrent calls, providers, records and pages.                            *)
(***************************************************************************)
EXTENDS ResearchService, EvidenceStoreProofs

-----------------------------------------------------------------------------
(* The inductive invariant                                                 *)

\* The counts in n, of a call or of a row, are those of the hits of run r.
Counted(r, n) ==
    /\ IsFiniteSet(HitsOf(r)) /\ Cardinality(HitsOf(r)) = n.retrieved
    /\ {h.rank : h \in HitsOf(r)} = 1..n.retrieved
    /\ Cardinality(Created(r)) = n.created
    /\ n.created + n.existing = n.retrieved

RunAgrees(r) ==
    /\ IsFiniteSet(HitsOf(r))
    /\ Cardinality(HitsOf(r)) <= IF runs[r].mode = "explore" THEN 0 ELSE runs[r].limit
    /\ Terminal(r) => Counted(r, runs[r])
    /\ runs[r].status = "failed" => runs[r].retrieved = 0
    /\ runs[r].status = "partial" => runs[r].retrieved > 0
    /\ runs[r].complete => /\ runs[r].status = "completed"
                           /\ runs[r].mode = "explore" \/ runs[r].retrieved >= runs[r].total

\* What a call under way knows of its run: it is the only one that writes it.
ActiveAgrees(call) ==
    /\ call.run \in DOMAIN runs
    /\ Counted(call.run, call)
    /\ call.limit = runs[call.run].limit
    /\ \A a \in audits : a.run # call.run
    /\ call.state \in {"counting", "searching", "ingesting", "completing"} =>
          runs[call.run].status = "running"
    /\ call.state \in {"searching", "ingesting"} =>
          runs[call.run].mode = "save" /\ call.retrieved < call.limit
    /\ call.state = "ingesting" => call.page # <<>>
    /\ call.state = "failing" => runs[call.run].status \in {"running", "completed"}
    /\ call.state = "auditingFailure" => runs[call.run].status \in {"partial", "failed"}

\* The row of a call that has completed its run.
Answered(call) ==
    /\ call.run \in DOMAIN runs
    /\ runs[call.run].status = "completed"
    /\ <<runs[call.run].total, runs[call.run].retrieved, runs[call.run].created,
         runs[call.run].existing>> = <<call.total, call.retrieved, call.created, call.existing>>

CallAgrees(call) ==
    /\ call.run \in DOMAIN runs \union {NoRun}
    /\ call.state = "idle" => call.run = NoRun
    /\ call.state \in Active => ActiveAgrees(call)
    /\ call.state \in {"auditing", "returned"} => Answered(call)
    /\ call.state = "returned" => [run |-> call.run, status |-> "completed"] \in audits
    /\ call.state = "raised" /\ call.run # NoRun => Terminal(call.run)

AuditAgrees(a) ==
    /\ a.run \in DOMAIN runs /\ Terminal(a.run)
    /\ a.status = "completed" <=> runs[a.run].status = "completed"
    /\ \A b \in audits : b.run = a.run => b = a

\* A run belongs to the call that created it, for good.
Owned ==
    /\ \A c, d \in Call : calls[c].run # NoRun /\ calls[c].run = calls[d].run => c = d
    /\ \A r \in DOMAIN runs : \E c \in Call : calls[c].run = r
    /\ \A h \in hits : h.run \in DOMAIN runs

ServiceInv ==
    /\ StoreInv
    /\ calls \in [Call -> CallState]
    /\ audits \subseteq Audit
    /\ Owned
    /\ \A r \in DOMAIN runs : RunAgrees(r)
    /\ \A c \in Call : CallAgrees(calls[c])
    /\ \A a \in audits : AuditAgrees(a)

-----------------------------------------------------------------------------
(* What a step of one call leaves alone                                    *)

\* A step of call c that touches at most the row, the hits and the audits of its own run r
\* keeps the invariant, if the call and the run agree after it.
LEMMA OwnStep ==
    ASSUME ServiceInv, StoreInv',
           NEW c \in Call, NEW new \in CallState, calls' = [calls EXCEPT ![c] = new],
           NEW r \in RunId \union {NoRun}, new.run = r,
           calls[c].run \in {r, NoRun}, r \in DOMAIN runs => calls[c].run = r,
           DOMAIN runs' = DOMAIN runs \union ({r} \ {NoRun}),
           \A q \in DOMAIN runs : q # r => runs'[q] = runs[q],
           \A h \in hits \union hits' : h.run # r => (h \in hits <=> h \in hits'),
           \A h \in hits' : h.run = r => r # NoRun,
           audits' \subseteq Audit,
           \A a \in audits \union audits' : a.run # r => (a \in audits <=> a \in audits'),
           \A a \in audits' : a.run = r => AuditAgrees(a)',
           \A q \in {r} \ {NoRun} : RunAgrees(q)',
           CallAgrees(calls[c])'
    PROVE  ServiceInv'
<1>1. /\ calls \in [Call -> CallState] /\ calls' \in [Call -> CallState]
      /\ calls'[c] = new /\ \A d \in Call : d # c => calls'[d] = calls[d]
  BY DEF ServiceInv
<1>2. ASSUME NEW q \in DOMAIN runs, q # r
      PROVE  /\ HitsOf(q)' = HitsOf(q) /\ Created(q)' = Created(q)
             /\ q \in DOMAIN runs' /\ runs'[q] = runs[q]
             /\ \A n : Counted(q, n)' = Counted(q, n)
  <2>1. HitsOf(q)' = HitsOf(q) /\ runs'[q] = runs[q] /\ q \in DOMAIN runs'
    BY <1>2 DEF HitsOf
  <2>2. Created(q)' = Created(q)
    BY <2>1 DEF Created
  <2> QED BY <2>1, <2>2 DEF Counted
<1>3. ASSUME NEW q \in DOMAIN runs, q # r
      PROVE  RunAgrees(q)'
  <2>1. RunAgrees(q)
    BY DEF ServiceInv
  <2>2. Counted(q, runs[q])' <=> Counted(q, runs[q])
    BY <1>2, <1>3 DEF Counted
  <2> QED BY <1>2, <1>3, <2>1, <2>2 DEF RunAgrees, Terminal
<1>4. \A q \in DOMAIN runs' : RunAgrees(q)'
  <2>1. \A q \in DOMAIN runs' : q \in {r} \ {NoRun} \/ (q \in DOMAIN runs /\ q # r)
    BY CallAssumption DEF ServiceInv, StoreInv, StoreTypeOK
  <2> QED BY <1>3, <2>1
<1>5. ASSUME NEW d \in Call, d # c
      PROVE  CallAgrees(calls[d])'
  <2> DEFINE q == calls[d].run
  <2>1. CallAgrees(calls[d]) /\ calls'[d] = calls[d] /\ q \in DOMAIN runs \union {NoRun}
    BY <1>1, <1>5 DEF ServiceInv, CallAgrees
  <2>2. q # NoRun => q # r
    BY <1>1, <1>5, <2>1 DEF ServiceInv, Owned
  <2>3. CASE q = NoRun
    <3>1. q \notin DOMAIN runs
      BY <2>3, CallAssumption DEF ServiceInv, StoreInv, StoreTypeOK
    <3>2. ~(calls[d].state \in Active) /\ calls[d].state \notin {"auditing", "returned"}
      BY <2>1, <3>1 DEF CallAgrees, ActiveAgrees, Answered
    <3> QED BY <2>1, <2>3, <3>2 DEF CallAgrees
  <2>4. CASE q # NoRun
    <3>1. q \in DOMAIN runs /\ q # r
      BY <2>1, <2>2, <2>4
    <3>2. q \in DOMAIN runs' /\ runs'[q] = runs[q] /\ (Counted(q, calls[d])' <=> Counted(q, calls[d]))
      BY <1>2, <2>1, <3>1 DEF Counted
    <3>3. calls[d].state \in Active => ActiveAgrees(calls[d])'
      <4> SUFFICES ASSUME calls[d].state \in Active PROVE ActiveAgrees(calls[d])'
        OBVIOUS
      <4>1. ActiveAgrees(calls[d])
        BY <2>1 DEF CallAgrees
      <4>2. \A a \in audits' : a.run # q
        BY <3>1, <4>1 DEF ActiveAgrees
      <4> QED BY <2>1, <3>2, <4>1, <4>2 DEF ActiveAgrees
    <3>4. Answered(calls[d]) => Answered(calls[d])'
      BY <2>1, <3>2 DEF Answered
    <3>5. Terminal(q) => Terminal(q)'
      BY <2>1, <3>2 DEF Terminal
    <3>6. [run |-> q, status |-> "completed"] \in audits =>
             [run |-> q, status |-> "completed"] \in audits'
      BY <3>1
    <3> QED BY <2>1, <2>4, <3>2, <3>3, <3>4, <3>5, <3>6 DEF CallAgrees
  <2> QED BY <2>3, <2>4
<1>6. \A d \in Call : CallAgrees(calls[d])'
  BY <1>5
<1>7. ASSUME NEW a \in audits', a.run # r
      PROVE  AuditAgrees(a)'
  <2>1. a \in audits /\ AuditAgrees(a)
    BY <1>7 DEF ServiceInv
  <2>2. a.run \in DOMAIN runs' /\ runs'[a.run] = runs[a.run]
    BY <1>2, <1>7, <2>1 DEF AuditAgrees
  <2>3. \A b \in audits' : b.run = a.run => b = a
    BY <1>7, <2>1 DEF AuditAgrees
  <2> QED BY <2>1, <2>2, <2>3 DEF AuditAgrees, Terminal
<1>8. Owned'
  <2>1. \A d, e \in Call : calls'[d].run # NoRun /\ calls'[d].run = calls'[e].run => d = e
    <3>1. \A d \in Call : d # c /\ calls[d].run # NoRun => calls[d].run # r
      <4> SUFFICES ASSUME NEW d \in Call, d # c, calls[d].run # NoRun, calls[d].run = r
                   PROVE  FALSE
        OBVIOUS
      <4>1. r \in DOMAIN runs
        BY DEF ServiceInv, CallAgrees
      <4> QED BY <4>1 DEF ServiceInv, Owned
    <3> QED BY <1>1, <3>1 DEF ServiceInv, Owned
  <2>2. ASSUME NEW q \in DOMAIN runs' PROVE \E d \in Call : calls'[d].run = q
    <3>1. CASE q = r
      BY <1>1, <3>1
    <3>2. CASE q # r
      <4>1. PICK d \in Call : calls[d].run = q
        BY <2>2, <3>2 DEF ServiceInv, Owned
      <4>2. d # c
        <5>1. q \in RunId
          BY <2>2 DEF StoreInv, StoreTypeOK
        <5> QED BY <3>2, <4>1, <5>1, CallAssumption
      <4> QED BY <1>1, <4>1, <4>2
    <3> QED BY <3>1, <3>2
  <2>3. \A h \in hits' : h.run \in DOMAIN runs'
    BY DEF ServiceInv, Owned
  <2> QED BY <2>1, <2>2, <2>3 DEF Owned
<1> QED BY <1>1, <1>4, <1>6, <1>7, <1>8 DEF ServiceInv

\* A call that only moves on, keeping its run.
LEMMA CallStep ==
    ASSUME ServiceInv, UNCHANGED <<storeVars, audits>>,
           NEW c \in Call, NEW new \in CallState, calls' = [calls EXCEPT ![c] = new],
           new.run = calls[c].run, CallAgrees(new)
    PROVE  ServiceInv'
<1>1. /\ runs' = runs /\ hits' = hits /\ audits' = audits /\ evidence' = evidence
      /\ identifiers' = identifiers /\ duplicates' = duplicates
  BY DEF storeVars
<1>2. StoreInv'
  BY <1>1, RunsOnlyPreserves
     DEF ServiceInv, evidenceVars, StoreInv, StoreTypeOK, CodesAreBounded
<1>3. calls[c] \in CallState /\ calls[c].run \in DOMAIN runs \union {NoRun}
  BY DEF ServiceInv, CallAgrees
<1>4. \A q : /\ HitsOf(q)' = HitsOf(q) /\ Created(q)' = Created(q) /\ Terminal(q)' = Terminal(q)
  BY <1>1 DEF HitsOf, Created, Terminal
<1>5. calls'[c] = new
  BY DEF ServiceInv
<1>6. CallAgrees(calls[c])'
  BY <1>1, <1>4, <1>5 DEF CallAgrees, ActiveAgrees, Answered, Counted
<1>7. \A q \in DOMAIN runs : RunAgrees(q)'
  BY <1>1, <1>4 DEF ServiceInv, RunAgrees, Counted
<1>8. \A a \in audits : AuditAgrees(a)'
  BY <1>1, <1>4 DEF ServiceInv, AuditAgrees
<1>9. DOMAIN runs \subseteq RunId /\ NoRun \notin DOMAIN runs
  BY CallAssumption DEF ServiceInv, StoreInv, StoreTypeOK
<1>10. \A h \in hits : h.run # NoRun
  BY <1>9 DEF ServiceInv, Owned
<1> DEFINE r == calls[c].run
<1>11. /\ r \in RunId \union {NoRun} /\ (r # NoRun => r \in DOMAIN runs)
       /\ DOMAIN runs' = DOMAIN runs \union ({r} \ {NoRun})
  BY <1>1, <1>3, <1>9
<1>12. audits' \subseteq Audit
  BY <1>1 DEF ServiceInv
<1> HIDE DEF r
<1>13. new.run = r /\ calls[c].run = r
  BY DEF r
<1> QED BY <1>1, <1>2, <1>6, <1>7, <1>8, <1>10, <1>11, <1>12, <1>13, OwnStep, ZenonT(60)

LEMMA CallTypes ==
    /\ <<>> \in Seq(Record) /\ NoOffset \in Nat \union {NoOffset}
    /\ IdleCall \in CallState
    /\ \A call \in CallState, total \in Nat : [call EXCEPT !.total = total] \in CallState
    /\ \A call \in CallState, state \in Active :
          LET left == LeaveLoop(call, state)
          IN  /\ left \in CallState /\ left.state = state /\ left.run = call.run
              /\ left.limit = call.limit /\ left.retrieved = call.retrieved
              /\ left.created = call.created /\ left.existing = call.existing
<1>1. <<>> \in Seq(Record) /\ NoOffset \in Nat \union {NoOffset}
  OBVIOUS
<1>2. IdleCall \in CallState
  BY <1>1 DEF IdleCall, CallState
<1>3. \A call \in CallState, total \in Nat : [call EXCEPT !.total = total] \in CallState
  BY DEF CallState
<1>4. ASSUME NEW call \in CallState, NEW state \in Active
      PROVE  LET left == LeaveLoop(call, state)
             IN  /\ left \in CallState /\ left.state = state /\ left.run = call.run
                 /\ left.limit = call.limit /\ left.retrieved = call.retrieved
                 /\ left.created = call.created /\ left.existing = call.existing
  <2> DEFINE empty == <<>>
  <2>1. empty \in Seq(Record)
    BY <1>1
  <2> DEFINE left == [call EXCEPT !.state = state, !.page = empty, !.next = NoOffset,
                                  !.offset = 0]
  <2>2. LeaveLoop(call, state) = left
    BY DEF LeaveLoop
  <2> HIDE DEF empty
  <2>3. /\ left.state = state /\ left.run = call.run
        /\ left.limit = call.limit /\ left.retrieved = call.retrieved
        /\ left.created = call.created /\ left.existing = call.existing
    BY DEF CallState
  <2>4. left \in CallState
    BY <2>1 DEF CallState
  <2> HIDE DEF left
  <2> QED BY <2>2, <2>3, <2>4
<1> QED BY <1>1, <1>2, <1>3, <1>4

\* A call that ends forgets its counts; it agrees when what it ended with is true of its run.
LEMMA EndStep ==
    ASSUME ServiceInv, UNCHANGED <<storeVars, audits>>,
           NEW c \in Call, NEW state \in {"raised", "unrecorded", "cancelled"}, End(c, state),
           state = "raised" /\ calls[c].run # NoRun => Terminal(calls[c].run)
    PROVE  ServiceInv'
<1> DEFINE new == [IdleCall EXCEPT !.state = state, !.run = calls[c].run]
<1>1. calls[c].run \in RunId \union {NoRun} /\ CallAgrees(calls[c])
  BY DEF ServiceInv, CallState
<1>2. new \in CallState /\ new.state = state /\ new.run = calls[c].run
  BY <1>1, CallTypes DEF CallState, Ended
<1>3. state \notin Active /\ state \notin {"idle", "auditing", "returned"}
  BY DEF Active
<1>4. calls' = [calls EXCEPT ![c] = new]
  BY DEF End
<1> HIDE DEF new
<1>5. CallAgrees(new)
  BY <1>1, <1>2, <1>3 DEF CallAgrees
<1> QED BY <1>2, <1>4, <1>5, CallStep

\* A call under way knows its run.
LEMMA ActiveCall ==
    ASSUME ServiceInv, NEW c \in Call, calls[c].state \in Active
    PROVE  /\ ActiveAgrees(calls[c]) /\ calls[c] \in CallState
           /\ calls[c].run \in DOMAIN runs /\ calls[c].run \in RunId /\ calls[c].run # NoRun
           /\ RunAgrees(calls[c].run)
<1>1. ActiveAgrees(calls[c]) /\ calls[c] \in CallState
  BY DEF ServiceInv, CallAgrees
<1>2. calls[c].run \in DOMAIN runs
  BY <1>1 DEF ActiveAgrees
<1>3. DOMAIN runs \subseteq RunId
  BY DEF ServiceInv, StoreInv, StoreTypeOK
<1> QED BY <1>1, <1>2, <1>3, CallAssumption DEF ServiceInv

-----------------------------------------------------------------------------
(* Steps that write nothing                                                *)

LEMMA RefuseSafe ==
    ASSUME ServiceInv, NEW c \in Call, Refuse(c)
    PROVE  ServiceInv'
<1>1. calls[c].run = NoRun
  BY DEF Refuse, In, ServiceInv, CallAgrees
<1> QED BY <1>1, EndStep DEF Refuse

LEMMA CountSafe ==
    ASSUME ServiceInv, NEW c \in Call, Count(c)
    PROVE  ServiceInv'
<1>1. PICK total \in 0..MaxTotal :
          calls' = [calls EXCEPT ![c].total = total, ![c].state = "completing"]
  BY DEF Count
<1> DEFINE call == calls[c]
           new == [call EXCEPT !.total = total, !.state = "completing"]
<1>2. calls[c].state = "counting" /\ calls[c].state \in Active
  BY DEF Count, In, Active
<1>3. ActiveAgrees(call) /\ call \in CallState
  BY <1>2, ActiveCall
<1>4. total \in Nat
  BY BoundAssumption
<1>5. /\ new \in CallState /\ new.state = "completing" /\ new.run = call.run
      /\ new.limit = call.limit /\ new.retrieved = call.retrieved
      /\ new.created = call.created /\ new.existing = call.existing
  BY <1>3, <1>4 DEF CallState, Active
<1>6. calls' = [calls EXCEPT ![c] = new]
  BY <1>1
<1> HIDE DEF new
<1>7. ActiveAgrees(new)
  BY <1>2, <1>3, <1>5 DEF ActiveAgrees, Counted
<1>8. CallAgrees(new)
  BY <1>3, <1>5, <1>7 DEF CallAgrees, ActiveAgrees
<1> QED BY <1>5, <1>6, <1>8, CallStep DEF Count

LEMMA FetchPageSafe ==
    ASSUME ServiceInv, NEW c \in Call, FetchPage(c)
    PROVE  ServiceInv'
<1> DEFINE call == calls[c]
           emptied(total) == LeaveLoop([call EXCEPT !.total = total], "completing")
           filled(total, page, next) ==
               [call EXCEPT !.total = total, !.page = page, !.next = next, !.state = "ingesting"]
<1>1. PICK total \in 0..MaxTotal, page \in Pages(runs[call.run].provider),
           next \in {NoOffset} \union 0..MaxOffset :
          calls' = [calls EXCEPT ![c] = IF page = <<>> THEN emptied(total)
                                        ELSE filled(total, page, next)]
  BY DEF FetchPage
<1>2. call.state = "searching" /\ call.state \in Active
  BY DEF FetchPage, In, Active
<1>3. ActiveAgrees(call) /\ call \in CallState /\ call.run # NoRun
  BY <1>2, ActiveCall
<1>4. total \in Nat /\ next \in Nat \union {NoOffset}
  BY BoundAssumption, CallAssumption
<1>5. page \in Seq(Record)
  <2>1. PICK n \in 0..MaxPage : page \in [1..n -> {rec \in Record : rec.provider = runs[call.run].provider}]
    BY DEF Pages
  <2>2. n \in Nat /\ page \in [1..n -> Record]
    BY <2>1, CallAssumption
  <2> QED BY <2>2
<1>6. CASE page = <<>>
  <2> DEFINE new == emptied(total)
  <2>1. /\ new \in CallState /\ new.state = "completing" /\ new.run = call.run
        /\ new.limit = call.limit /\ new.retrieved = call.retrieved
        /\ new.created = call.created /\ new.existing = call.existing
    <3> DEFINE totalled == [call EXCEPT !.total = total]
    <3>1. /\ totalled \in CallState /\ totalled.run = call.run
          /\ totalled.limit = call.limit /\ totalled.retrieved = call.retrieved
          /\ totalled.created = call.created /\ totalled.existing = call.existing
      BY <1>3, <1>4 DEF CallState
    <3>2. "completing" \in Active
      BY DEF Active
    <3> HIDE DEF totalled
    <3>3. LeaveLoop(totalled, "completing").state = "completing"
      BY <3>1, <3>2, CallTypes
    <3> QED BY <3>1, <3>2, <3>3, CallTypes DEF totalled
  <2>2. calls' = [calls EXCEPT ![c] = new]
    BY <1>1, <1>6
  <2> HIDE DEF new
  <2>3. ActiveAgrees(new)
    BY <1>2, <1>3, <2>1 DEF ActiveAgrees, Counted
  <2>4. CallAgrees(new)
    BY <1>3, <2>1, <2>3 DEF CallAgrees, ActiveAgrees
  <2> QED BY <2>1, <2>2, <2>4, CallStep DEF FetchPage
<1>7. CASE page # <<>>
  <2> DEFINE new == filled(total, page, next)
  <2>1. /\ new \in CallState /\ new.state = "ingesting" /\ new.run = call.run
        /\ new.limit = call.limit /\ new.retrieved = call.retrieved
        /\ new.created = call.created /\ new.existing = call.existing /\ new.page = page
    BY <1>3, <1>4, <1>5 DEF CallState, Active
  <2>2. calls' = [calls EXCEPT ![c] = new]
    BY <1>1, <1>7
  <2> HIDE DEF new
  <2>3. ActiveAgrees(new)
    BY <1>2, <1>3, <1>7, <2>1 DEF ActiveAgrees, Counted
  <2>4. CallAgrees(new)
    BY <1>3, <2>1, <2>3 DEF CallAgrees, ActiveAgrees
  <2> QED BY <2>1, <2>2, <2>4, CallStep DEF FetchPage
<1> QED BY <1>6, <1>7

LEMMA StepRaisesSafe ==
    ASSUME ServiceInv, NEW c \in Call, StepRaises(c)
    PROVE  ServiceInv'
<1> DEFINE call == calls[c]
           new == [LeaveLoop(call, "failing") EXCEPT !.total = 0]
<1>1. /\ call.state \in {"counting", "searching", "ingesting", "completing", "auditing"}
      /\ call.state \in Active
  BY DEF StepRaises, Active
<1>2. ActiveAgrees(call) /\ call \in CallState /\ CallAgrees(call)
  BY <1>1, ActiveCall DEF ServiceInv
<1>3. /\ new \in CallState /\ new.state = "failing" /\ new.run = call.run
      /\ new.limit = call.limit /\ new.retrieved = call.retrieved
      /\ new.created = call.created /\ new.existing = call.existing
  <2> DEFINE left == LeaveLoop(call, "failing")
  <2>1. "failing" \in Active
    BY DEF Active
  <2>2. /\ left \in CallState /\ left.state = "failing" /\ left.run = call.run
        /\ left.limit = call.limit /\ left.retrieved = call.retrieved
        /\ left.created = call.created /\ left.existing = call.existing
    <3> HIDE DEF call
    <3> QED BY <1>2, <2>1, CallTypes
  <2> HIDE DEF left
  <2>3. new = [left EXCEPT !.total = 0]
    BY DEF left
  <2> HIDE DEF new
  <2> QED BY <2>2, <2>3 DEF CallState
<1>4. calls' = [calls EXCEPT ![c] = new]
  BY DEF StepRaises
<1> HIDE DEF new
<1>5. runs[call.run].status \in {"running", "completed"}
  BY <1>1, <1>2 DEF ActiveAgrees, CallAgrees, Answered
<1> HIDE DEF call
<1>6. ActiveAgrees(new)
  BY <1>2, <1>3, <1>5 DEF ActiveAgrees, Counted
<1>7. CallAgrees(new)
  BY <1>2, <1>3, <1>6 DEF CallAgrees, ActiveAgrees
<1> QED BY <1>3, <1>4, <1>7, CallStep DEF StepRaises, call

LEMMA HandlerRaisesSafe ==
    ASSUME ServiceInv, NEW c \in Call, HandlerRaises(c)
    PROVE  ServiceInv'
<1>1. CASE In(c, "failing") /\ End(c, "unrecorded")
  BY <1>1, EndStep DEF HandlerRaises
<1>2. CASE In(c, "auditingFailure") /\ End(c, "raised")
  <2>1. calls[c].state = "auditingFailure" /\ calls[c].state \in Active
    BY <1>2 DEF In, Active
  <2>2. Terminal(calls[c].run)
    BY <2>1, ActiveCall DEF ActiveAgrees, Terminal
  <2> QED BY <1>2, <2>2, EndStep DEF HandlerRaises
<1> QED BY <1>1, <1>2 DEF HandlerRaises

LEMMA CancelSafe ==
    ASSUME ServiceInv, NEW c \in Call, Cancel(c)
    PROVE  ServiceInv'
BY EndStep DEF Cancel

-----------------------------------------------------------------------------
(* Steps that write the row of the run                                     *)

LEMMA StartSafe ==
    ASSUME ServiceInv, NEW c \in Call, NEW mode \in Mode, NEW limit \in Nat,
           mode = "save" => limit > 0, NEW first,
           first = IF mode = "explore" THEN "counting" ELSE "searching",
           Start(c, mode, limit, first)
    PROVE  ServiceInv'
<1>1. PICK r \in RunId, s \in Study, p \in Provider :
          /\ CreateSearchRun(r, s, p, mode, limit)
          /\ calls' = [calls EXCEPT ![c] = [IdleCall EXCEPT !.state = first, !.run = r,
                                                           !.limit = limit]]
  BY DEF Start
<1> DEFINE new == [IdleCall EXCEPT !.state = first, !.run = r, !.limit = limit]
<1>2. /\ new \in CallState /\ new.state = first /\ new.run = r /\ new.limit = limit
      /\ new.retrieved = 0 /\ new.created = 0 /\ new.existing = 0
  <2>1. first \in {"idle"} \union Active \union Ended /\ r \in RunId \union {NoRun} /\ limit \in Nat
    BY DEF Active
  <2>2. IdleCall \in CallState
    BY CallTypes
  <2>3. new \in CallState
    BY <2>1, <2>2, Zenon DEF CallState
  <2>4. new.state = first /\ new.run = r /\ new.limit = limit
    BY <2>2, Zenon DEF CallState
  <2>5. new.retrieved = 0 /\ new.created = 0 /\ new.existing = 0
    BY Zenon DEF IdleCall
  <2> QED BY <2>3, <2>4, <2>5
<1>3. calls' = [calls EXCEPT ![c] = new]
  BY <1>1
<1> HIDE DEF new
<1>4. /\ r \notin DOMAIN runs /\ DOMAIN runs' = DOMAIN runs \union {r}
      /\ \A q \in DOMAIN runs : runs'[q] = runs[q]
      /\ runs'[r].status = "running" /\ runs'[r].mode = mode /\ runs'[r].limit = limit
      /\ runs'[r].complete = FALSE
      /\ hits' = hits
  BY <1>1 DEF CreateSearchRun, evidenceVars
<1>5. audits' = audits /\ calls'[c] = new /\ calls[c].run = NoRun
  BY <1>3 DEF Start, In, ServiceInv, CallAgrees
<1>6. StoreInv'
  BY <1>1, CreateRunPreserves DEF ServiceInv
<1>7. HitsOf(r)' = {} /\ Created(r)' = {}
  BY <1>4 DEF HitsOf, Created, ServiceInv, Owned
<1>8. \A a \in audits : a.run # r
  BY <1>4 DEF ServiceInv, AuditAgrees
<1>9. IsFiniteSet(HitsOf(r)') /\ Cardinality(HitsOf(r)') = 0 /\ Cardinality(Created(r)') = 0
  BY <1>7, FS_EmptySet
<1>10. Counted(r, new)'
  BY <1>2, <1>7, <1>9 DEF Counted
<1>11. RunAgrees(r)'
  BY <1>4, <1>9 DEF RunAgrees, Terminal
<1>12. ActiveAgrees(new)'
  BY <1>2, <1>4, <1>5, <1>8, <1>10 DEF ActiveAgrees, Mode, Counted
<1>13. CallAgrees(calls[c])'
  <2>1. first \notin {"idle", "auditing", "returned", "raised"}
    OBVIOUS
  <2>2. CallAgrees(new)'
    BY <1>2, <1>4, <1>12, <2>1 DEF CallAgrees
  <2> QED BY <1>5, <2>2 DEF CallAgrees, ActiveAgrees, Answered, Counted
<1>14. r # NoRun /\ audits' \subseteq Audit
  BY <1>5, CallAssumption DEF ServiceInv
<1>15. \A q \in {r} \ {NoRun} : RunAgrees(q)'
  BY <1>11
<1>16. /\ r \in RunId \union {NoRun} /\ calls[c].run \in {r, NoRun}
       /\ r \in DOMAIN runs => calls[c].run = r
       /\ DOMAIN runs' = DOMAIN runs \union ({r} \ {NoRun})
  BY <1>4, <1>5, <1>14
<1>17. /\ \A h \in hits \union hits' : h.run # r => (h \in hits <=> h \in hits')
       /\ \A h \in hits' : h.run = r => r # NoRun
       /\ \A q \in DOMAIN runs : q # r => runs'[q] = runs[q]
  BY <1>4, <1>14
<1>18. /\ \A a \in audits \union audits' : a.run # r => (a \in audits <=> a \in audits')
       /\ \A a \in audits' : a.run = r => AuditAgrees(a)'
  BY <1>5, <1>8
<1> QED BY <1>2, <1>3, <1>6, <1>13, <1>14, <1>15, <1>16, <1>17, <1>18, OwnStep

\* A call under way that writes the row of its run, and nothing else.
LEMMA RowStep ==
    ASSUME ServiceInv, StoreInv',
           NEW c \in Call, calls[c].state \in Active,
           NEW new \in CallState, calls' = [calls EXCEPT ![c] = new], new.run = calls[c].run,
           NEW row, runs' = [runs EXCEPT ![calls[c].run] = row],
           UNCHANGED <<hits, audits>>,
           RunAgrees(calls[c].run)', CallAgrees(calls[c])'
    PROVE  ServiceInv'
<1> DEFINE r == calls[c].run
<1>1. r \in DOMAIN runs /\ r \in RunId /\ r # NoRun /\ \A a \in audits : a.run # r
  BY ActiveCall DEF ActiveAgrees
<1>2. calls'[c] = new /\ DOMAIN runs' = DOMAIN runs /\ \A q \in DOMAIN runs : q # r => runs'[q] = runs[q]
  BY DEF ServiceInv
<1>3. \A q \in {calls[c].run} \ {NoRun} : RunAgrees(q)'
  <2>1. calls'[c].run = calls[c].run
    BY <1>2
  <2> QED BY <2>1 DEF RunAgrees, Terminal, HitsOf, Counted, Created
<1>4. audits' \subseteq Audit
  BY DEF ServiceInv
<1>5. r \in RunId \union {NoRun} /\ new.run = r /\ calls[c].run = r
  BY <1>1
<1>6. DOMAIN runs' = DOMAIN runs \union ({r} \ {NoRun})
  BY <1>1, <1>2
<1>7. \A q \in {r} \ {NoRun} : RunAgrees(q)'
  BY <1>3
<1> HIDE DEF r
<1>8. /\ \A h \in hits \union hits' : h.run # r => (h \in hits <=> h \in hits')
      /\ \A h \in hits' : h.run = r => r # NoRun
  BY <1>1
<1>9. /\ \A a \in audits \union audits' : a.run # r => (a \in audits <=> a \in audits')
      /\ \A a \in audits' : a.run = r => AuditAgrees(a)'
  BY <1>1
<1>10. calls[c].run \in {r, NoRun} /\ (r \in DOMAIN runs => calls[c].run = r)
  BY <1>5
<1> QED BY <1>2, <1>4, <1>5, <1>6, <1>7, <1>8, <1>9, <1>10, OwnStep

LEMMA CompleteSafe ==
    ASSUME ServiceInv, NEW c \in Call, Complete(c)
    PROVE  ServiceInv'
<1> DEFINE call == calls[c]
           r == call.run
           complete == runs[r].mode = "explore" \/ call.retrieved >= call.total
           new == [call EXCEPT !.state = "auditing"]
           row == [runs[r] EXCEPT !.status = "completed", !.total = call.total,
                                  !.retrieved = call.retrieved, !.created = call.created,
                                  !.existing = call.existing, !.complete = complete]
<1>1. calls[c].state = "completing" /\ calls[c].state \in Active
  BY DEF Complete, In, Active
<1>2. ActiveAgrees(calls[c]) /\ calls[c] \in CallState /\ RunAgrees(calls[c].run)
      /\ calls[c].run \in DOMAIN runs
  BY <1>1, ActiveCall
<1>3. CompleteSearchRun(r, call.total, call.retrieved, call.created, call.existing, complete)
  BY DEF Complete
<1>4. StoreInv'
  <2>1. complete \in BOOLEAN
    OBVIOUS
  <2>2. call.total \in Nat /\ call.retrieved \in Nat /\ call.created \in Nat /\ call.existing \in Nat
    BY <1>2 DEF CallState
  <2>3. StoreInv
    BY DEF ServiceInv
  <2> HIDE DEF complete, call
  <2> QED BY <1>2, <1>3, <2>1, <2>2, <2>3, CompleteRunPreserves DEF call
<1>5. /\ new \in CallState /\ new.state = "auditing" /\ new.run = calls[c].run
      /\ new.limit = call.limit /\ new.retrieved = call.retrieved /\ new.total = call.total
      /\ new.created = call.created /\ new.existing = call.existing
  BY <1>2 DEF CallState, Active
<1>6. calls' = [calls EXCEPT ![c] = new] /\ calls'[c] = new /\ UNCHANGED <<hits, audits>>
  BY DEF Complete, Goto, CompleteSearchRun, evidenceVars, ServiceInv
<1>7. runs' = [runs EXCEPT ![r] = row] /\ DOMAIN runs' = DOMAIN runs /\ runs'[r] = row
  BY <1>2, <1>3 DEF CompleteSearchRun
<1>8. /\ row.status = "completed" /\ row.total = call.total /\ row.retrieved = call.retrieved
      /\ row.created = call.created /\ row.existing = call.existing /\ row.complete = complete
      /\ row.mode = runs[r].mode /\ row.limit = runs[r].limit
  <2>1. runs[r] \in Run
    BY <1>2 DEF ServiceInv, StoreInv, StoreTypeOK
  <2> HIDE DEF complete
  <2> QED BY <2>1 DEF Run
<1> HIDE DEF new, row
<1>10. HitsOf(calls[c].run)' = HitsOf(calls[c].run) /\ Created(calls[c].run)' = Created(calls[c].run)
  BY <1>5, <1>6 DEF HitsOf, Created
<1>11. RunAgrees(calls[c].run)'
  BY <1>2, <1>5, <1>6, <1>7, <1>8, <1>10 DEF RunAgrees, Terminal, Counted, ActiveAgrees
<1>12. CallAgrees(calls[c])'
  <2>1. ActiveAgrees(calls[c])'
    BY <1>2, <1>5, <1>6, <1>7, <1>8, <1>10 DEF ActiveAgrees, Counted
  <2>2. Answered(calls[c])'
    BY <1>2, <1>5, <1>6, <1>7, <1>8 DEF Answered
  <2>3. (calls[c].run \in DOMAIN runs)' /\ calls'[c].state = "auditing"
    BY <1>2, <1>5, <1>6, <1>7
  <2> QED BY <2>1, <2>2, <2>3 DEF CallAgrees
<1> QED BY <1>1, <1>4, <1>5, <1>6, <1>7, <1>11, <1>12, RowStep

LEMMA RecordFailureSafe ==
    ASSUME ServiceInv, NEW c \in Call, RecordFailure(c)
    PROVE  ServiceInv'
<1> DEFINE call == calls[c]
           r == call.run
           status == IF call.retrieved > 0 THEN "partial" ELSE "failed"
           new == [call EXCEPT !.state = "auditingFailure"]
           row == [runs[r] EXCEPT !.status = status,
                                  !.retrieved = call.retrieved, !.created = call.created,
                                  !.existing = call.existing, !.complete = FALSE]
<1>1. calls[c].state = "failing" /\ calls[c].state \in Active
  BY DEF RecordFailure, In, Active
<1>2. ActiveAgrees(calls[c]) /\ calls[c] \in CallState /\ RunAgrees(calls[c].run)
      /\ calls[c].run \in DOMAIN runs
  BY <1>1, ActiveCall
<1>3. FailSearchRun(r, call.retrieved, call.created, call.existing)
  BY DEF RecordFailure
<1>4. StoreInv'
  <2>1. call.retrieved \in Nat /\ call.created \in Nat /\ call.existing \in Nat
    BY <1>2 DEF CallState
  <2>2. StoreInv
    BY DEF ServiceInv
  <2> HIDE DEF call
  <2> QED BY <1>2, <1>3, <2>1, <2>2, FailRunPreserves DEF call
<1>5. /\ new \in CallState /\ new.state = "auditingFailure" /\ new.run = calls[c].run
      /\ new.limit = call.limit /\ new.retrieved = call.retrieved
      /\ new.created = call.created /\ new.existing = call.existing
  BY <1>2 DEF CallState, Active
<1>6. calls' = [calls EXCEPT ![c] = new] /\ calls'[c] = new /\ UNCHANGED <<hits, audits>>
  BY DEF RecordFailure, Goto, FailSearchRun, evidenceVars, ServiceInv
<1>7. runs' = [runs EXCEPT ![r] = row] /\ DOMAIN runs' = DOMAIN runs /\ runs'[r] = row
  BY <1>2, <1>3 DEF FailSearchRun
<1>8. /\ row.status = status /\ row.retrieved = call.retrieved
      /\ row.created = call.created /\ row.existing = call.existing /\ row.complete = FALSE
      /\ row.mode = runs[r].mode /\ row.limit = runs[r].limit
  <2>1. runs[r] \in Run
    BY <1>2 DEF ServiceInv, StoreInv, StoreTypeOK
  <2> HIDE DEF status
  <2> QED BY <2>1 DEF Run
<1> HIDE DEF new, row
<1>9. calls[c].retrieved \in Nat
  BY <1>2 DEF CallState
<1>10. HitsOf(calls[c].run)' = HitsOf(calls[c].run) /\ Created(calls[c].run)' = Created(calls[c].run)
  BY <1>5, <1>6 DEF HitsOf, Created
<1>11. RunAgrees(calls[c].run)'
  BY <1>2, <1>5, <1>6, <1>7, <1>8, <1>9, <1>10 DEF RunAgrees, Terminal, Counted, ActiveAgrees
<1>12. CallAgrees(calls[c])'
  <2>1. ActiveAgrees(calls[c])'
    BY <1>2, <1>5, <1>6, <1>7, <1>8, <1>10 DEF ActiveAgrees, Counted
  <2>2. (calls[c].run \in DOMAIN runs)' /\ calls'[c].state = "auditingFailure"
    BY <1>2, <1>5, <1>6, <1>7
  <2> QED BY <2>1, <2>2 DEF CallAgrees
<1> QED BY <1>1, <1>4, <1>5, <1>6, <1>7, <1>11, <1>12, RowStep

-----------------------------------------------------------------------------
(* Steps that write an audit event                                         *)

LEMMA AuditStep ==
    ASSUME ServiceInv, UNCHANGED storeVars,
           NEW c \in Call, calls[c].state \in Active,
           NEW new \in CallState, calls' = [calls EXCEPT ![c] = new], new.run = calls[c].run,
           NEW status \in {"completed", "failed"},
           audits' = audits \union {[run |-> calls[c].run, status |-> status]},
           Terminal(calls[c].run),
           status = "completed" <=> runs[calls[c].run].status = "completed",
           new.state \in {"returned", "raised"},
           new.state = "returned" => status = "completed" /\ Answered(new)
    PROVE  ServiceInv'
<1> DEFINE r == calls[c].run
           audit == [run |-> r, status |-> status]
<1>1. r \in DOMAIN runs /\ r \in RunId /\ r # NoRun /\ \A a \in audits : a.run # r
  BY ActiveCall DEF ActiveAgrees
<1>2. /\ runs' = runs /\ hits' = hits /\ evidence' = evidence
      /\ identifiers' = identifiers /\ duplicates' = duplicates
  BY DEF storeVars
<1>3. StoreInv'
  BY <1>2, RunsOnlyPreserves
     DEF ServiceInv, evidenceVars, StoreInv, StoreTypeOK, CodesAreBounded
<1>4. calls'[c] = new /\ audits' = audits \union {audit} /\ audit.run = r /\ audit.status = status
  BY DEF ServiceInv
<1>5. audits' \subseteq Audit
  BY <1>1, <1>4 DEF ServiceInv, Audit
<1>6. Terminal(r) /\ (status = "completed" <=> runs[r].status = "completed") /\ new.run = r
  OBVIOUS
<1>7. new.state = "returned" => [run |-> r, status |-> "completed"] \in audits'
  BY <1>4
<1> HIDE DEF r, audit
<1>8. \A q \in DOMAIN runs : RunAgrees(q)'
  BY <1>2 DEF ServiceInv, RunAgrees, Counted, Terminal, HitsOf, Created
<1>9. \A q \in {r} \ {NoRun} : RunAgrees(q)'
  BY <1>1, <1>8
<1>10. \A a \in audits' : a.run = r => AuditAgrees(a)'
  <2> SUFFICES ASSUME NEW a \in audits', a.run = r PROVE AuditAgrees(a)'
    OBVIOUS
  <2>1. \A b \in audits' : b.run = r => b = audit
    BY <1>1, <1>4
  <2>2. a = audit
    BY <2>1
  <2> QED BY <1>1, <1>2, <1>4, <1>6, <2>1, <2>2 DEF AuditAgrees, Terminal
<1>11. CallAgrees(calls[c])'
  <2>1. ~(new.state \in Active)
    BY DEF Active
  <2>2. new.state = "returned" => Answered(new)'
    BY <1>2 DEF Answered
  <2>3. Terminal(new.run)'
    BY <1>2, <1>6 DEF Terminal
  <2>4. r \in DOMAIN runs'
    BY <1>1, <1>2
  <2>5. CallAgrees(new)'
    BY <1>6, <1>7, <2>1, <2>2, <2>3, <2>4 DEF CallAgrees
  <2> QED BY <1>4, <2>5 DEF CallAgrees, ActiveAgrees, Answered, Counted
<1>12. /\ r \in RunId \union {NoRun} /\ calls[c].run \in {r, NoRun} /\ new.run = r
       /\ r \in DOMAIN runs => calls[c].run = r
       /\ DOMAIN runs' = DOMAIN runs \union ({r} \ {NoRun})
  BY <1>1, <1>2, <1>6 DEF r
<1>13. /\ \A h \in hits \union hits' : h.run # r => (h \in hits <=> h \in hits')
       /\ \A h \in hits' : h.run = r => r # NoRun
       /\ \A q \in DOMAIN runs : q # r => runs'[q] = runs[q]
       /\ \A a \in audits \union audits' : a.run # r => (a \in audits <=> a \in audits')
  BY <1>1, <1>2, <1>4
<1> QED BY <1>3, <1>5, <1>9, <1>10, <1>11, <1>12, <1>13, OwnStep

LEMMA AuditCompletedSafe ==
    ASSUME ServiceInv, NEW c \in Call, AuditCompleted(c)
    PROVE  ServiceInv'
<1> DEFINE new == [calls[c] EXCEPT !.state = "returned"]
<1>1. calls[c].state = "auditing" /\ calls[c].state \in Active
  BY DEF AuditCompleted, In, Active
<1>2. calls[c] \in CallState /\ Answered(calls[c])
  BY <1>1, ActiveCall DEF ServiceInv, CallAgrees
<1>3. /\ new \in CallState /\ new.state = "returned" /\ new.run = calls[c].run
      /\ new.retrieved = calls[c].retrieved /\ new.total = calls[c].total
      /\ new.created = calls[c].created /\ new.existing = calls[c].existing
  BY <1>2 DEF CallState, Ended
<1>4. calls' = [calls EXCEPT ![c] = new]
  BY DEF AuditCompleted, Goto
<1> HIDE DEF new
<1>5. Answered(new) /\ Terminal(calls[c].run) /\ runs[calls[c].run].status = "completed"
  BY <1>2, <1>3 DEF Answered, Terminal
<1>6. /\ UNCHANGED storeVars
      /\ audits' = audits \union {[run |-> calls[c].run, status |-> "completed"]}
  BY DEF AuditCompleted
<1> QED BY <1>1, <1>3, <1>4, <1>5, <1>6, AuditStep

LEMMA AuditFailureSafe ==
    ASSUME ServiceInv, NEW c \in Call, AuditFailure(c)
    PROVE  ServiceInv'
<1> DEFINE new == [IdleCall EXCEPT !.state = "raised", !.run = calls[c].run]
<1>1. calls[c].state = "auditingFailure" /\ calls[c].state \in Active
  BY DEF AuditFailure, In, Active
<1>2. calls[c] \in CallState /\ ActiveAgrees(calls[c])
  BY <1>1, ActiveCall
<1>3. new \in CallState /\ new.state = "raised" /\ new.run = calls[c].run
  BY <1>2, CallTypes DEF CallState, Ended
<1>4. calls' = [calls EXCEPT ![c] = new]
  BY DEF AuditFailure, End
<1> HIDE DEF new
<1>5. Terminal(calls[c].run) /\ runs[calls[c].run].status # "completed"
  BY <1>1, <1>2 DEF ActiveAgrees, Terminal
<1>6. /\ UNCHANGED storeVars
      /\ audits' = audits \union {[run |-> calls[c].run, status |-> "failed"]}
  BY DEF AuditFailure
<1> QED BY <1>1, <1>3, <1>4, <1>5, <1>6, AuditStep

-----------------------------------------------------------------------------
(* Saving a hit                                                            *)

\* What the call is after one more record: one more is retrieved, and it is new or existing.
LEMMA AfterHitType ==
    ASSUME NEW call \in CallState, call.state = "ingesting", call.page # <<>>,
           NEW isNew \in BOOLEAN
    PROVE  LET after == AfterHit(call, isNew)
           IN  /\ after \in CallState
               /\ after.state \in {"ingesting", "searching", "completing"}
               /\ after.run = call.run /\ after.limit = call.limit
               /\ after.retrieved = call.retrieved + 1
               /\ after.created = call.created + (IF isNew THEN 1 ELSE 0)
               /\ after.existing = call.existing + (IF isNew THEN 0 ELSE 1)
               /\ after.state \in {"ingesting", "searching"} => after.retrieved < after.limit
               /\ after.state = "ingesting" => after.page # <<>>
<1> DEFINE more == IF isNew THEN 1 ELSE 0
           others == IF isNew THEN 0 ELSE 1
           counted == [call EXCEPT !.retrieved = call.retrieved + 1,
                                   !.created = call.created + more,
                                   !.existing = call.existing + others]
           pageDone == call.retrieved + 1 >= call.limit \/ Len(call.page) = 1
           goesOn == call.next # NoOffset /\ call.next > call.offset
                     /\ call.retrieved + 1 < call.limit
           goingOn == [counted EXCEPT !.page = Tail(call.page)]
           turning == [counted EXCEPT !.page = <<>>, !.next = NoOffset,
                                      !.offset = call.next, !.state = "searching"]
           leaving == LeaveLoop(counted, "completing")
<1>1. more \in Nat /\ others \in Nat
  OBVIOUS
<1>2. /\ call.retrieved \in Nat /\ call.created \in Nat /\ call.existing \in Nat /\ call.limit \in Nat
      /\ call.page \in Seq(Record) /\ call.next \in Nat \union {NoOffset}
  BY DEF CallState
<1> HIDE DEF more, others
<1>3. /\ counted \in CallState /\ counted.state = "ingesting" /\ counted.run = call.run
      /\ counted.limit = call.limit /\ counted.retrieved = call.retrieved + 1
      /\ counted.created = call.created + more /\ counted.existing = call.existing + others
      /\ counted.page = call.page /\ counted.next = call.next
  <2> DEFINE retrieved == call.retrieved + 1
             created == call.created + more
             existing == call.existing + others
             one == [call EXCEPT !.retrieved = retrieved, !.created = created,
                                 !.existing = existing]
  <2>1. retrieved \in Nat /\ created \in Nat /\ existing \in Nat
    BY <1>1, <1>2, SMTT(30)
  <2>2. counted = one
    OBVIOUS
  <2> HIDE DEF retrieved, created, existing, counted
  <2>3. one \in CallState
    BY <2>1 DEF CallState
  <2>4. /\ one.state = "ingesting" /\ one.run = call.run
        /\ one.limit = call.limit /\ one.retrieved = retrieved
        /\ one.created = created /\ one.existing = existing
        /\ one.page = call.page /\ one.next = call.next
    BY DEF CallState
  <2> HIDE DEF one
  <2> QED BY <2>2, <2>3, <2>4 DEF retrieved, created, existing
<1>4. AfterHit(call, isNew) = IF ~pageDone THEN goingOn ELSE IF goesOn THEN turning ELSE leaving
  BY <1>3 DEF AfterHit, more, others
<1> HIDE DEF counted
<1>5. CASE ~pageDone
  <2> DEFINE rest == Tail(call.page)
  <2>1. rest \in Seq(Record) /\ rest # <<>>
    <3> DEFINE page == call.page
    <3>1. page \in Seq(Record) /\ page # <<>> /\ Len(page) # 1
      BY <1>2, <1>5
    <3> HIDE DEF page
    <3>2. Len(page) \in Nat /\ Len(page) # 0
      BY <3>1
    <3>3. Tail(page) \in Seq(Record) /\ Len(Tail(page)) = Len(page) - 1
      BY <3>1
    <3>4. Len(Tail(page)) # 0
      BY <3>1, <3>2, <3>3
    <3>5. Tail(page) # <<>>
      <4>1. Len(<<>>) = 0
        OBVIOUS
      <4> QED BY <3>4, <4>1, Zenon
    <3> QED BY <3>3, <3>5 DEF page
  <2>2. AfterHit(call, isNew) = [counted EXCEPT !.page = rest]
    BY <1>4, <1>5
  <2> HIDE DEF rest
  <2> DEFINE after == [counted EXCEPT !.page = rest]
  <2>3. /\ after \in CallState /\ after.state = "ingesting" /\ after.run = call.run
        /\ after.limit = call.limit /\ after.retrieved = call.retrieved + 1
        /\ after.created = call.created + more /\ after.existing = call.existing + others
        /\ after.page = rest
    BY <1>3, <2>1 DEF CallState
  <2> HIDE DEF after
  <2>4. call.retrieved + 1 < call.limit
    BY <1>2, <1>5
  <2> QED BY <2>1, <2>2, <2>3, <2>4 DEF after, more, others
<1>6. CASE pageDone /\ goesOn
  <2> DEFINE empty == <<>>
             after == [counted EXCEPT !.page = empty, !.next = NoOffset,
                                      !.offset = call.next, !.state = "searching"]
  <2>1. AfterHit(call, isNew) = after
    BY <1>4, <1>6
  <2>2. empty \in Seq(Record) /\ call.next \in Nat
    BY <1>2, <1>6
  <2> HIDE DEF empty
  <2>3. /\ after \in CallState /\ after.state = "searching" /\ after.run = call.run
        /\ after.limit = call.limit /\ after.retrieved = call.retrieved + 1
        /\ after.created = call.created + more /\ after.existing = call.existing + others
    BY <1>3, <2>2 DEF CallState, Active
  <2> HIDE DEF after
  <2> QED BY <1>6, <2>1, <2>3 DEF more, others
<1>7. CASE pageDone /\ ~goesOn
  <2>1. AfterHit(call, isNew) = leaving
    BY <1>4, <1>7
  <2>2. "completing" \in Active
    BY DEF Active
  <2>3. /\ leaving \in CallState /\ leaving.state = "completing" /\ leaving.run = call.run
        /\ leaving.limit = call.limit /\ leaving.retrieved = call.retrieved + 1
        /\ leaving.created = call.created + more /\ leaving.existing = call.existing + others
    BY <1>3, <2>2, CallTypes
  <2> HIDE DEF leaving
  <2> QED BY <2>1, <2>3 DEF more, others
<1> QED BY <1>5, <1>6, <1>7

\* What is ingested next is a record of the provider's page.
LEMMA PageRecord ==
    ASSUME ServiceInv, NEW c \in Call, In(c, "ingesting")
    PROVE  Head(calls[c].page) \in Record
<1>1. calls[c].state = "ingesting" /\ calls[c].state \in Active
  BY DEF In, Active
<1>2. calls[c].page \in Seq(Record) /\ calls[c].page # <<>>
  BY <1>1, ActiveCall DEF CallState, ActiveAgrees
<1>3. \A page \in Seq(Record) : page # <<>> => Head(page) \in Record
  OBVIOUS
<1> QED BY <1>2, <1>3

\* The hit has the next rank, and is counted as new exactly if it created evidence.
LEMMA IngestSafe ==
    ASSUME ServiceInv, NEW c \in Call, Ingest(c)
    PROVE  ServiceInv'
<1> DEFINE call == calls[c]
           r == call.run
           rec == Head(call.page)
           rank == call.retrieved + 1
           isNew == MatchOf(rec) = "none"
           after == AfterHit(call, isNew)
           hit == [run |-> r, rank |-> rank, evidence |-> EvidenceFor(rec), rec |-> rec,
                   by |-> MatchOf(rec)]
<1>1. calls[c].state = "ingesting" /\ calls[c].state \in Active
  BY DEF Ingest, In, Active
<1>2. /\ ActiveAgrees(calls[c]) /\ calls[c] \in CallState /\ RunAgrees(calls[c].run)
      /\ calls[c].run \in DOMAIN runs /\ calls[c].run \in RunId /\ calls[c].run # NoRun
  BY <1>1, ActiveCall
<1>3. call.retrieved \in Nat /\ call.page \in Seq(Record) /\ call.page # <<>>
  BY <1>1, <1>2 DEF CallState, ActiveAgrees
<1>4. rec \in Record
  BY PageRecord DEF Ingest
<1>5. IngestSearchHit(r, rank, rec) /\ calls' = [calls EXCEPT ![c] = after] /\ audits' = audits
  BY DEF Ingest
<1>6. StoreInv'
  <2>1. rank \in Nat /\ StoreInv
    BY <1>3 DEF ServiceInv
  <2> HIDE DEF rank, rec, r
  <2>2. r \in RunId
    BY <1>2 DEF r
  <2> QED BY <1>4, <1>5, <2>1, <2>2, IngestPreserves
<1>7. hits' = hits \union {hit} /\ runs' = runs
  BY <1>5 DEF IngestSearchHit
<1>8. hit.run = calls[c].run /\ hit.rank = rank /\ (hit.by = "none" <=> isNew)
  OBVIOUS
<1>9. PICK new \in CallState :
      /\ new = after /\ new.state \in {"ingesting", "searching", "completing"}
      /\ new.run = calls[c].run /\ new.limit = call.limit /\ new.retrieved = call.retrieved + 1
      /\ new.created = call.created + (IF isNew THEN 1 ELSE 0)
      /\ new.existing = call.existing + (IF isNew THEN 0 ELSE 1)
      /\ new.state \in {"ingesting", "searching"} => new.retrieved < new.limit
      /\ new.state = "ingesting" => new.page # <<>>
  <2>1. isNew \in BOOLEAN
    OBVIOUS
  <2> HIDE DEF isNew, call
  <2> QED BY <1>1, <1>2, <1>3, <2>1, AfterHitType DEF call
<1> HIDE DEF after, hit, isNew, rec
<1>10. calls' = [calls EXCEPT ![c] = new] /\ calls'[c] = new
  BY <1>5, <1>9 DEF ServiceInv
<1> DEFINE old == HitsOf(calls[c].run)
           oldCreated == Created(calls[c].run)
<1>11. /\ IsFiniteSet(old) /\ Cardinality(old) = call.retrieved
       /\ {h.rank : h \in old} = 1..call.retrieved
       /\ Cardinality(oldCreated) = call.created
       /\ call.created + call.existing = call.retrieved
  BY <1>2 DEF ActiveAgrees, Counted
<1>12. IsFiniteSet(oldCreated) /\ oldCreated \subseteq old
  BY <1>11, FS_Subset DEF Created
<1>13. hit \notin old
  <2>1. rank \notin 1..call.retrieved
    BY <1>3
  <2> HIDE DEF rank, call, old
  <2> QED BY <1>8, <1>11, <2>1
<1>14. /\ {h \in hits' : h.run = calls[c].run} = old \union {hit}
       /\ {h \in old \union {hit} : h.by = "none"} =
              IF isNew THEN oldCreated \union {hit} ELSE oldCreated
  BY <1>7, <1>8 DEF HitsOf, Created
<1>15. HitsOf(new.run)' = old \union {hit}
  BY <1>9, <1>14 DEF HitsOf
<1>16. Created(new.run)' = IF isNew THEN oldCreated \union {hit} ELSE oldCreated
  BY <1>14, <1>15 DEF Created
<1>17. IsFiniteSet(old \union {hit}) /\ Cardinality(old \union {hit}) = call.retrieved + 1
  <2> HIDE DEF old, call
  <2> QED BY <1>11, <1>13, FS_AddElement
<1>18. Cardinality(IF isNew THEN oldCreated \union {hit} ELSE oldCreated) = new.created
  <2>1. Cardinality(oldCreated) \in Nat /\ hit \notin oldCreated
    BY <1>12, <1>13, FS_CardinalityType
  <2>2. Cardinality(oldCreated \union {hit}) = Cardinality(oldCreated) + 1
    <3> HIDE DEF oldCreated
    <3> QED BY <1>12, <2>1, FS_AddElement
  <2> HIDE DEF oldCreated, old, call
  <2>3. CASE isNew
    BY <1>9, <1>11, <2>1, <2>2, <2>3
  <2>4. CASE ~isNew
    BY <1>9, <1>11, <2>1, <2>4
  <2> QED BY <2>3, <2>4
<1>19. {h.rank : h \in old \union {hit}} = 1..(call.retrieved + 1)
  <2>1. {h.rank : h \in old \union {hit}} = {h.rank : h \in old} \union {rank}
    BY <1>8
  <2>2. (1..call.retrieved) \union {rank} = 1..(call.retrieved + 1)
    BY <1>3
  <2> QED BY <1>11, <2>1, <2>2
<1>20. new.created + new.existing = new.retrieved
  <2>1. call.created \in Nat /\ call.existing \in Nat
    BY <1>2 DEF CallState
  <2> QED BY <1>3, <1>9, <1>11, <2>1
<1> HIDE DEF old, oldCreated
<1>21. Counted(new.run, new)'
  BY <1>9, <1>15, <1>16, <1>17, <1>18, <1>19, <1>20 DEF Counted
<1>22. /\ runs[calls[c].run].status = "running" /\ runs[calls[c].run].mode = "save"
       /\ call.limit = runs[calls[c].run].limit /\ call.retrieved < call.limit
       /\ runs[calls[c].run].limit \in Nat
       /\ \A a \in audits : a.run # calls[c].run
  BY <1>1, <1>2 DEF ActiveAgrees, ServiceInv, StoreInv, StoreTypeOK, Run
<1>23. runs[calls[c].run].complete = FALSE
  BY <1>2, <1>22 DEF RunAgrees, ServiceInv, StoreInv, StoreTypeOK, Run
<1>24. RunAgrees(new.run)'
  <2>1. call.retrieved + 1 <= call.limit
    BY <1>3, <1>22
  <2> HIDE DEF call
  <2> QED BY <1>7, <1>9, <1>15, <1>17, <1>22, <1>23, <2>1 DEF RunAgrees, Terminal
<1>25. CallAgrees(calls[c])'
  <2>1. ActiveAgrees(new)'
    BY <1>2, <1>5, <1>7, <1>9, <1>21, <1>22 DEF ActiveAgrees
  <2>2. CallAgrees(new)'
    BY <1>2, <1>7, <1>9, <2>1 DEF CallAgrees
  <2> QED BY <1>10, <2>2 DEF CallAgrees, ActiveAgrees, Answered, Counted
<1>26. /\ new.run \in RunId \union {NoRun} /\ calls[c].run \in {new.run, NoRun}
       /\ new.run \in DOMAIN runs => calls[c].run = new.run
       /\ DOMAIN runs' = DOMAIN runs \union ({new.run} \ {NoRun})
       /\ \A q \in DOMAIN runs : q # new.run => runs'[q] = runs[q]
  BY <1>2, <1>7, <1>9
<1>27. /\ \A h \in hits \union hits' : h.run # new.run => (h \in hits <=> h \in hits')
       /\ \A h \in hits' : h.run = new.run => new.run # NoRun
  BY <1>2, <1>7, <1>8, <1>9
<1>28. /\ audits' \subseteq Audit
       /\ \A a \in audits \union audits' : a.run # new.run => (a \in audits <=> a \in audits')
       /\ \A a \in audits' : a.run = new.run => AuditAgrees(a)'
  BY <1>5, <1>9, <1>22 DEF ServiceInv
<1>29. \A q \in {new.run} \ {NoRun} : RunAgrees(q)'
  BY <1>24
<1> QED BY <1>6, <1>10, <1>25, <1>26, <1>27, <1>28, <1>29, OwnStep

-----------------------------------------------------------------------------
(* The invariant holds                                                     *)

LEMMA ServiceInitially == Init => ServiceInv
<1> SUFFICES ASSUME Init PROVE ServiceInv
  OBVIOUS
<1>1. StoreInv /\ DOMAIN runs = {} /\ hits = {}
  BY StoreInitially DEF Init, StoreInit
<1>2. audits = {} /\ calls = [c \in Call |-> IdleCall]
  BY DEF Init
<1>3. calls \in [Call -> CallState]
  BY <1>2, CallTypes
<1>4. IdleCall.state = "idle" /\ IdleCall.run = NoRun
  BY DEF IdleCall
<1>5. \A c \in Call : calls[c].state = "idle" /\ calls[c].run = NoRun
  BY <1>2, <1>4
<1>6. Owned
  BY <1>1, <1>5 DEF Owned
<1>7. \A c \in Call : CallAgrees(calls[c])
  BY <1>5 DEF CallAgrees, Active
<1> QED BY <1>1, <1>2, <1>3, <1>6, <1>7 DEF ServiceInv

LEMMA ServiceStep == ServiceInv /\ [Next]_serviceVars => ServiceInv'
<1> SUFFICES ASSUME ServiceInv, [Next]_serviceVars PROVE ServiceInv'
  OBVIOUS
<1>1. ASSUME NEW c \in Call, StartExplore(c) PROVE ServiceInv'
  <2>1. PICK limit \in 0..MaxLimit : Start(c, "explore", limit, "counting")
    BY <1>1 DEF StartExplore
  <2>2. limit \in Nat /\ "explore" \in Mode
    BY BoundAssumption DEF Mode
  <2> QED BY <2>1, <2>2, StartSafe
<1>2. ASSUME NEW c \in Call, StartSave(c) PROVE ServiceInv'
  <2>1. PICK limit \in 1..MaxLimit : Start(c, "save", limit, "searching")
    BY <1>2 DEF StartSave
  <2>2. limit \in Nat /\ limit > 0 /\ "save" \in Mode
    BY BoundAssumption DEF Mode
  <2> QED BY <2>1, <2>2, StartSafe
<1>3. ASSUME NEW c \in Call, Refuse(c) \/ Progress(c) \/ Cancel(c) PROVE ServiceInv'
  BY <1>3, RefuseSafe, CountSafe, FetchPageSafe, IngestSafe, CompleteSafe, AuditCompletedSafe,
     StepRaisesSafe, RecordFailureSafe, AuditFailureSafe, HandlerRaisesSafe, CancelSafe
     DEF Progress
<1>4. CASE UNCHANGED serviceVars
  <2>1. /\ runs' = runs /\ hits' = hits /\ audits' = audits /\ evidence' = evidence
        /\ identifiers' = identifiers /\ duplicates' = duplicates /\ calls' = calls
    BY <1>4 DEF serviceVars, storeVars
  <2>2. StoreInv'
    BY <2>1, RunsOnlyPreserves
       DEF ServiceInv, evidenceVars, StoreInv, StoreTypeOK, CodesAreBounded
  <2>3. \A r \in DOMAIN runs : RunAgrees(r)'
    BY <2>1 DEF ServiceInv, RunAgrees, Counted, Terminal, HitsOf, Created
  <2>4. \A a \in audits : AuditAgrees(a)'
    BY <2>1 DEF ServiceInv, AuditAgrees, Terminal
  <2>5. \A c \in Call : CallAgrees(calls[c])'
    <3> SUFFICES ASSUME NEW c \in Call PROVE CallAgrees(calls[c])'
      OBVIOUS
    <3>1. PICK call : call = calls[c]
      OBVIOUS
    <3>2. CallAgrees(call)
      BY <3>1 DEF ServiceInv
    <3>3. ActiveAgrees(call) => ActiveAgrees(call)'
      BY <2>1 DEF ActiveAgrees, Counted, HitsOf, Created
    <3>4. CallAgrees(call)'
      BY <2>1, <3>2, <3>3 DEF CallAgrees, Answered, Terminal
    <3>5. calls'[c] = call
      BY <2>1, <3>1
    <3> QED BY <3>4, <3>5 DEF CallAgrees, ActiveAgrees, Answered, Counted
  <2>6. Owned'
    BY <2>1 DEF ServiceInv, Owned
  <2> QED BY <2>1, <2>2, <2>3, <2>4, <2>5, <2>6 DEF ServiceInv
<1> QED BY <1>1, <1>2, <1>3, <1>4 DEF Next

LEMMA ServiceInvariant == Spec => []ServiceInv
BY ServiceInitially, ServiceStep, PTL DEF Spec

-----------------------------------------------------------------------------
(* The theorems                                                            *)

\* The tables, the variables of the calls and the audits keep their types, whatever the
\* providers return and wherever a call raises or is cancelled.
THEOREM ServiceTypesHold == Spec => []TypeOK
<1>1. ServiceInv => TypeOK
  BY DEF ServiceInv, TypeOK, StoreInv
<1> QED BY <1>1, ServiceInvariant, PTL

\* The invariants of the store hold under the calls that really drive it.
THEOREM StoreHoldsUnderCalls == Spec => []StoreInv
BY ServiceInvariant, PTL DEF ServiceInv

\* Overlapping calls, exceptions and cancellations rewrite or lose nothing that a search
\* discovered: only ingest_search_hit writes these tables, and it only adds.
THEOREM DiscoveriesHoldUnderCalls == Spec => DiscoveriesAreKept
<1> DEFINE Kept == /\ hits \subseteq hits'
                   /\ duplicates \subseteq duplicates'
                   /\ \A e \in DOMAIN evidence :
                         e \in DOMAIN evidence' /\ evidence'[e] = evidence[e]
                   /\ \A i \in DOMAIN identifiers :
                         i \in DOMAIN identifiers' /\ identifiers'[i] = identifiers[i]
<1>1. ServiceInv /\ [Next]_serviceVars => [Kept]_storeVars
  <2> SUFFICES ASSUME ServiceInv, [Next]_serviceVars PROVE Kept \/ UNCHANGED storeVars
    OBVIOUS
  <2>1. CASE UNCHANGED evidenceVars
    BY <2>1 DEF evidenceVars
  <2>2. CASE UNCHANGED serviceVars
    BY <2>2 DEF serviceVars
  <2>3. ASSUME NEW c \in Call, Ingest(c) PROVE Kept
    <3>1. PICK rec : rec = Head(calls[c].page)
      OBVIOUS
    <3>2. rec \in Record
      BY <2>3, <3>1, PageRecord DEF Ingest
    <3>3. IngestSearchHit(calls[c].run, calls[c].retrieved + 1, rec)
      BY <2>3, <3>1 DEF Ingest
    <3> QED BY <3>2, <3>3, IngestKeeps DEF ServiceInv
  <2>4. ASSUME NEW c \in Call, StartExplore(c) \/ StartSave(c) PROVE UNCHANGED evidenceVars
    BY <2>4 DEF StartExplore, StartSave, Start, CreateSearchRun
  <2>5. ASSUME NEW c \in Call, Complete(c) \/ RecordFailure(c) PROVE UNCHANGED evidenceVars
    BY <2>5 DEF Complete, CompleteSearchRun, RecordFailure, FailSearchRun
  <2>6. ASSUME NEW c \in Call,
               \/ Refuse(c) \/ Count(c) \/ FetchPage(c) \/ AuditCompleted(c) \/ StepRaises(c)
               \/ AuditFailure(c) \/ HandlerRaises(c) \/ Cancel(c)
        PROVE  UNCHANGED storeVars
    BY <2>6, Zenon DEF Refuse, Count, FetchPage, AuditCompleted, StepRaises, AuditFailure,
                       HandlerRaises, Cancel
  <2> QED BY <2>1, <2>2, <2>3, <2>4, <2>5, <2>6 DEF Next, Progress
<1>2. Spec => []ServiceInv
  BY ServiceInvariant
<1> QED BY <1>1, <1>2, PTL DEF Spec, DiscoveriesAreKept

\* A run that ended reports exactly the hits it saved.
THEOREM ClosedRunsHold == Spec => []ClosedRunCountsItsHits
<1>1. ServiceInv => ClosedRunCountsItsHits
  <2> SUFFICES ASSUME ServiceInv, NEW r \in DOMAIN runs, Terminal(r)
               PROVE  /\ {h.rank : h \in HitsOf(r)} = 1..runs[r].retrieved
                      /\ Cardinality(Created(r)) = runs[r].created
                      /\ runs[r].created + runs[r].existing = Cardinality(HitsOf(r))
                      /\ runs[r].status = "failed" => HitsOf(r) = {}
                      /\ runs[r].status = "partial" => HitsOf(r) # {}
    BY DEF ClosedRunCountsItsHits
  <2>1. RunAgrees(r) /\ Counted(r, runs[r])
    BY DEF ServiceInv, RunAgrees
  <2>2. runs[r].status = "failed" => HitsOf(r) = {}
    BY <2>1, FS_EmptySet DEF RunAgrees, Counted
  <2>3. runs[r].status = "partial" => HitsOf(r) # {}
    <3>1. runs[r].retrieved \in Nat
      BY DEF ServiceInv, StoreInv, StoreTypeOK, Run
    <3> QED BY <2>1, <3>1, FS_EmptySet DEF RunAgrees, Counted
  <2> QED BY <2>1, <2>2, <2>3 DEF Counted
<1> QED BY <1>1, ServiceInvariant, PTL

\* is_complete is only ever true of a run that completed with all there was.
THEOREM CompleteHolds == Spec => []CompleteIsTruthful
<1>1. ServiceInv => CompleteIsTruthful
  <2> SUFFICES ASSUME ServiceInv, NEW r \in DOMAIN runs, runs[r].complete
               PROVE  /\ runs[r].status = "completed"
                      /\ IF runs[r].mode = "explore" THEN HitsOf(r) = {}
                         ELSE Cardinality(HitsOf(r)) >= runs[r].total
    BY DEF CompleteIsTruthful
  <2>1. RunAgrees(r)
    BY DEF ServiceInv
  <2>2. runs[r].status = "completed" /\ Counted(r, runs[r])
    BY <2>1 DEF RunAgrees, Terminal
  <2>3. runs[r].mode = "explore" => HitsOf(r) = {}
    <3>1. Cardinality(HitsOf(r)) \in Nat /\ IsFiniteSet(HitsOf(r))
      BY <2>1, FS_CardinalityType DEF RunAgrees
    <3> QED BY <2>1, <3>1, FS_EmptySet DEF RunAgrees
  <2> QED BY <2>1, <2>2, <2>3 DEF RunAgrees, Counted
<1> QED BY <1>1, ServiceInvariant, PTL

\* No page of a provider makes a run save more than it was asked for.
THEOREM LimitHolds == Spec => []NeverMoreThanRequested
<1>1. ServiceInv => NeverMoreThanRequested
  BY DEF ServiceInv, RunAgrees, NeverMoreThanRequested
<1> QED BY <1>1, ServiceInvariant, PTL

\* The audit of a search and its row never disagree.
THEOREM AuditHolds == Spec => []AuditAgreesWithRun
<1>1. ServiceInv => AuditAgreesWithRun
  BY DEF ServiceInv, AuditAgrees, AuditAgreesWithRun
<1> QED BY <1>1, ServiceInvariant, PTL

\* What a client was answered is what the tables say.
THEOREM AnswerHolds == Spec => []AnswerMatchesRun
<1>1. ServiceInv => AnswerMatchesRun
  BY DEF ServiceInv, CallAgrees, Answered, AnswerMatchesRun
<1> QED BY <1>1, ServiceInvariant, PTL

\* A run left "running" has a call that is under way or was interrupted.
THEOREM StrandedHolds == Spec => []StrandedOnlyByInterruption
<1>1. ServiceInv => StrandedOnlyByInterruption
  <2> SUFFICES ASSUME ServiceInv, NEW r \in DOMAIN runs, runs[r].status = "running"
               PROVE  \E c \in Call : /\ calls[c].run = r
                                     /\ calls[c].state \in Active \union {"unrecorded", "cancelled"}
    BY DEF StrandedOnlyByInterruption
  <2>1. PICK c \in Call : calls[c].run = r
    BY DEF ServiceInv, Owned
  <2>2. CallAgrees(calls[c]) /\ calls[c] \in CallState
    BY DEF ServiceInv
  <2>3. r # NoRun
    BY CallAssumption DEF ServiceInv, StoreInv, StoreTypeOK
  <2>4. calls[c].state \notin {"idle", "returned", "raised"}
    BY <2>1, <2>2, <2>3 DEF CallAgrees, Answered, Terminal
  <2>5. calls[c].state \in {"idle"} \union Active \union Ended
    BY <2>2 DEF CallState
  <2> QED BY <2>1, <2>4, <2>5 DEF Ended
<1> QED BY <1>1, ServiceInvariant, PTL

-----------------------------------------------------------------------------
(* The tables implement the ledger                                         *)

Entries == [r \in RunId |-> LedgerEntry(r)]

\* A step that leaves a run, its row and its hits alone leaves its entry alone.
LEMMA EntryFrame ==
    ASSUME NEW q \in RunId, (q \in DOMAIN runs') <=> (q \in DOMAIN runs),
           q \in DOMAIN runs => runs'[q] = runs[q],
           {h \in hits' : h.run = q} = {h \in hits : h.run = q}
    PROVE  LedgerEntry(q)' = LedgerEntry(q)
BY DEF LedgerEntry, HitsOf

\* A step of a call changes at most the entry of its run.
LEMMA OneEntry ==
    ASSUME NEW r \in RunId,
           DOMAIN runs' \ {r} = DOMAIN runs \ {r},
           \A q \in DOMAIN runs : q # r => runs'[q] = runs[q],
           \A h \in hits \union hits' : h.run # r => (h \in hits <=> h \in hits')
    PROVE  \A entry : LedgerEntry(r)' = entry => Entries' = [Entries EXCEPT ![r] = entry]
<1>1. \A q \in RunId : q # r => LedgerEntry(q)' = LedgerEntry(q)
  <2> SUFFICES ASSUME NEW q \in RunId, q # r PROVE LedgerEntry(q)' = LedgerEntry(q)
    OBVIOUS
  <2>1. (q \in DOMAIN runs') <=> (q \in DOMAIN runs)
    OBVIOUS
  <2>2. {h \in hits' : h.run = q} = {h \in hits : h.run = q}
    OBVIOUS
  <2> QED BY <2>1, <2>2, EntryFrame
<1> QED BY <1>1 DEF Entries

\* The entry of a run that a call is writing.
LEMMA ActiveEntry ==
    ASSUME ServiceInv, NEW c \in Call, calls[c].state \in Active
    PROVE  LET entry == Entries[calls[c].run]
           IN  /\ entry.status = runs[calls[c].run].status
               /\ entry.hits = calls[c].retrieved /\ calls[c].retrieved \in Nat
               /\ entry.reported = runs[calls[c].run].retrieved
               /\ entry.status = "completed" => entry.reported = calls[c].retrieved
               /\ entry = [status |-> entry.status, hits |-> entry.hits,
                           reported |-> entry.reported]
<1> DEFINE r == calls[c].run
<1>1. /\ r \in RunId /\ r \in DOMAIN runs /\ Counted(r, calls[c]) /\ RunAgrees(r)
      /\ calls[c].retrieved \in Nat
  BY ActiveCall DEF ActiveAgrees, CallState
<1>2. Entries[r] = [status |-> runs[r].status, hits |-> Cardinality(HitsOf(r)),
                    reported |-> runs[r].retrieved]
  BY <1>1 DEF Entries, LedgerEntry
<1>3. Cardinality(HitsOf(r)) = calls[c].retrieved
  BY <1>1 DEF Counted
<1>4. runs[r].status = "completed" => runs[r].retrieved = calls[c].retrieved
  BY <1>1, <1>3 DEF RunAgrees, Counted, Terminal
<1> HIDE DEF r
<1> QED BY <1>1, <1>2, <1>3, <1>4 DEF r

LEMMA StartOpens ==
    ASSUME ServiceInv, NEW c \in Call, NEW mode, NEW limit, NEW first,
           Start(c, mode, limit, first)
    PROVE  \E r \in RunId : Ledger!Open(r)
<1>1. PICK r \in RunId, s \in Study, p \in Provider : CreateSearchRun(r, s, p, mode, limit)
  BY DEF Start
<1>2. /\ r \notin DOMAIN runs /\ DOMAIN runs' = DOMAIN runs \union {r}
      /\ \A q \in DOMAIN runs : runs'[q] = runs[q]
      /\ runs'[r].status = "running" /\ runs'[r].retrieved = 0
      /\ hits' = hits
  BY <1>1 DEF CreateSearchRun, evidenceVars
<1>3. {h \in hits : h.run = r} = {}
  BY <1>2 DEF ServiceInv, Owned
<1>4. Entries[r] = [status |-> "absent", hits |-> 0, reported |-> 0]
  BY <1>2 DEF Entries, LedgerEntry
<1> DEFINE entry == [status |-> "running", hits |-> 0, reported |-> 0]
<1>5. LedgerEntry(r)' = entry
  BY <1>2, <1>3, FS_EmptySet DEF LedgerEntry, HitsOf
<1>6. entry = [Entries[r] EXCEPT !.status = "running"]
  BY <1>4
<1> HIDE DEF entry
<1>7. Entries' = [Entries EXCEPT ![r] = entry]
  <2>1. DOMAIN runs' \ {r} = DOMAIN runs \ {r}
    BY <1>2
  <2>2. \A h \in hits \union hits' : h.run # r => (h \in hits <=> h \in hits')
    BY <1>2
  <2> QED BY <1>2, <1>5, <2>1, <2>2, OneEntry
<1>8. Entries' = [Entries EXCEPT ![r].status = "running"]
  BY <1>6, <1>7
<1>9. Entries[r].status = "absent"
  BY <1>4
<1> QED BY <1>8, <1>9 DEF Ledger!Open, Entries

\* A call that writes its run's row keeps its hits.
LEMMA RowEntry ==
    ASSUME ServiceInv, NEW c \in Call, calls[c].state \in Active,
           NEW row, runs' = [runs EXCEPT ![calls[c].run] = row], hits' = hits
    PROVE  Entries' = [Entries EXCEPT ![calls[c].run] =
               [status |-> row.status, hits |-> calls[c].retrieved, reported |-> row.retrieved]]
<1> PICK r : r = calls[c].run
  OBVIOUS
<1>1. /\ r \in RunId /\ r \in DOMAIN runs /\ Counted(r, calls[c])
  BY ActiveCall DEF ActiveAgrees
<1>2. /\ DOMAIN runs' = DOMAIN runs /\ runs'[r] = row
      /\ \A q \in DOMAIN runs : q # r => runs'[q] = runs[q]
  BY <1>1
<1>3. Cardinality({h \in hits : h.run = r}) = calls[c].retrieved
  BY <1>1 DEF Counted, HitsOf
<1>4. LedgerEntry(r)' =
         [status |-> row.status, hits |-> calls[c].retrieved, reported |-> row.retrieved]
  BY <1>1, <1>2, <1>3 DEF LedgerEntry, HitsOf
<1>5. DOMAIN runs' \ {r} = DOMAIN runs \ {r}
  BY <1>2
<1>6. \A h \in hits \union hits' : h.run # r => (h \in hits <=> h \in hits')
  OBVIOUS
<1> QED BY <1>1, <1>2, <1>4, <1>5, <1>6, OneEntry

LEMMA CompleteCloses ==
    ASSUME ServiceInv, NEW c \in Call, Complete(c)
    PROVE  \E r \in RunId : Ledger!Close(r)
<1>1. calls[c].state = "completing" /\ calls[c].state \in Active
  BY DEF Complete, In, Active
<1> PICK r : r = calls[c].run
  OBVIOUS
<1> DEFINE complete == runs[r].mode = "explore" \/ calls[c].retrieved >= calls[c].total
           row == [runs[r] EXCEPT !.status = "completed", !.total = calls[c].total,
                                  !.retrieved = calls[c].retrieved, !.created = calls[c].created,
                                  !.existing = calls[c].existing, !.complete = complete]
<1>2. r \in RunId /\ runs[r] \in Run /\ runs[r].status = "running"
  BY <1>1, ActiveCall DEF ActiveAgrees, ServiceInv, StoreInv, StoreTypeOK
<1>3. runs' = [runs EXCEPT ![calls[c].run] = row] /\ hits' = hits
  BY DEF Complete, CompleteSearchRun, evidenceVars
<1> HIDE DEF complete
<1>4. row.status = "completed" /\ row.retrieved = calls[c].retrieved
  BY <1>2 DEF Run
<1> HIDE DEF row
<1>5. Entries' = [Entries EXCEPT ![r] = [status |-> "completed", hits |-> calls[c].retrieved,
                                         reported |-> calls[c].retrieved]]
  BY <1>1, <1>3, <1>4, RowEntry
<1>6. /\ Entries[r].status = "running" /\ Entries[r].hits = calls[c].retrieved
      /\ Entries[r] = [status |-> Entries[r].status, hits |-> Entries[r].hits,
                       reported |-> Entries[r].reported]
  BY <1>1, <1>2, ActiveEntry
<1>7. Entries' = [Entries EXCEPT ![r].status = "completed", ![r].reported = Entries[r].hits]
  <2> PICK entry : entry = Entries[r]
    OBVIOUS
  <2> PICK n, reported : n = calls[c].retrieved /\ reported = entry.reported
    OBVIOUS
  <2>1. [[entry EXCEPT !.status = "completed"] EXCEPT !.reported = n] =
            [status |-> "completed", hits |-> n, reported |-> n]
    <3>1. entry = [status |-> "running", hits |-> n, reported |-> reported]
      BY <1>6
    <3>2. [[status |-> "running", hits |-> n, reported |-> reported] EXCEPT !.status = "completed"] =
              [status |-> "completed", hits |-> n, reported |-> reported]
      OBVIOUS
    <3>3. [[status |-> "completed", hits |-> n, reported |-> reported] EXCEPT !.reported = n] =
              [status |-> "completed", hits |-> n, reported |-> n]
      OBVIOUS
    <3> QED BY <3>1, <3>2, <3>3, Zenon
  <2>2. [Entries EXCEPT ![r].status = "completed", ![r].reported = n] =
            [Entries EXCEPT ![r] = [[entry EXCEPT !.status = "completed"] EXCEPT !.reported = n]]
    BY <1>2 DEF Entries
  <2> QED BY <1>5, <1>6, <2>1, <2>2
<1> QED BY <1>2, <1>6, <1>7 DEF Ledger!Close, Entries

LEMMA FailureCloses ==
    ASSUME ServiceInv, NEW c \in Call, RecordFailure(c)
    PROVE  \E r \in RunId : Ledger!Close(r) \/ Ledger!Restate(r)
<1>1. calls[c].state = "failing" /\ calls[c].state \in Active
  BY DEF RecordFailure, In, Active
<1> PICK r : r = calls[c].run
  OBVIOUS
<1> DEFINE status == IF calls[c].retrieved > 0 THEN "partial" ELSE "failed"
           row == [runs[r] EXCEPT !.status = status,
                                  !.retrieved = calls[c].retrieved, !.created = calls[c].created,
                                  !.existing = calls[c].existing, !.complete = FALSE]
<1>2. r \in RunId /\ runs[r] \in Run /\ runs[r].status \in {"running", "completed"}
  BY <1>1, ActiveCall DEF ActiveAgrees, ServiceInv, StoreInv, StoreTypeOK
<1>3. runs' = [runs EXCEPT ![calls[c].run] = row] /\ hits' = hits
  BY DEF RecordFailure, FailSearchRun, evidenceVars
<1>4. row.status = status /\ row.retrieved = calls[c].retrieved
  <2> HIDE DEF status
  <2> QED BY <1>2 DEF Run
<1> HIDE DEF row
<1>5. Entries' = [Entries EXCEPT ![r] = [status |-> status, hits |-> calls[c].retrieved,
                                         reported |-> calls[c].retrieved]]
  <2> HIDE DEF status
  <2> QED BY <1>1, <1>3, <1>4, RowEntry
<1>6. /\ Entries[r].status = runs[r].status /\ Entries[r].hits = calls[c].retrieved
      /\ calls[c].retrieved \in Nat
      /\ Entries[r].status = "completed" => Entries[r].reported = calls[c].retrieved
      /\ Entries[r] = [status |-> Entries[r].status, hits |-> Entries[r].hits,
                       reported |-> Entries[r].reported]
  BY <1>1, ActiveEntry
<1>7. Ledger!Failure(Entries[r].hits) = status
  BY <1>6 DEF Ledger!Failure
<1> HIDE DEF status
<1> PICK entry : entry = Entries[r]
  OBVIOUS
<1> PICK n, reported, old : n = calls[c].retrieved /\ reported = entry.reported /\ old = entry.status
  OBVIOUS
<1>8. entry = [status |-> old, hits |-> n, reported |-> reported]
  BY <1>6
<1>9. [[status |-> old, hits |-> n, reported |-> reported] EXCEPT !.status = status] =
           [status |-> status, hits |-> n, reported |-> reported]
  OBVIOUS
<1>10. [entry EXCEPT !.status = status] = [status |-> status, hits |-> n, reported |-> reported]
  BY <1>8, <1>9, Zenon
<1>11. CASE runs[r].status = "running"
  <2>1. [[entry EXCEPT !.status = status] EXCEPT !.reported = n] =
            [status |-> status, hits |-> n, reported |-> n]
    <3>1. [[status |-> status, hits |-> n, reported |-> reported] EXCEPT !.reported = n] =
              [status |-> status, hits |-> n, reported |-> n]
      OBVIOUS
    <3> QED BY <1>10, <3>1, Zenon
  <2>2. [Entries EXCEPT ![r].status = status, ![r].reported = n] =
            [Entries EXCEPT ![r] = [[entry EXCEPT !.status = status] EXCEPT !.reported = n]]
    BY <1>2 DEF Entries
  <2>3. Entries' = [Entries EXCEPT ![r].status = status, ![r].reported = Entries[r].hits]
    BY <1>5, <1>6, <2>1, <2>2
  <2> QED BY <1>2, <1>6, <1>7, <1>11, <2>3 DEF Ledger!Close, Entries
<1>12. CASE runs[r].status = "completed"
  <2>1. [entry EXCEPT !.status = status] = [status |-> status, hits |-> n, reported |-> n]
    BY <1>6, <1>12, <1>10
  <2>2. Entries' = [Entries EXCEPT ![r].status = status]
    BY <1>5, <1>6, <2>1
  <2> QED BY <1>2, <1>6, <1>7, <1>12, <2>2 DEF Ledger!Restate, Entries
<1> QED BY <1>2, <1>11, <1>12

LEMMA IngestAdds ==
    ASSUME ServiceInv, ServiceInv', NEW c \in Call, Ingest(c)
    PROVE  \E r \in RunId : Ledger!AddHit(r)
<1>1. calls[c].state = "ingesting" /\ calls[c].state \in Active
  BY DEF Ingest, In, Active
<1> PICK r : r = calls[c].run
  OBVIOUS
<1> PICK n : n = calls[c].retrieved
  OBVIOUS
<1>2. /\ r \in RunId /\ r \in DOMAIN runs /\ runs[r].status = "running"
      /\ Cardinality(HitsOf(r)) = n /\ IsFiniteSet(HitsOf(r)) /\ n \in Nat
      /\ {h.rank : h \in HitsOf(r)} = 1..n
  BY <1>1, ActiveCall DEF ActiveAgrees, Counted, CallState
<1>3. PICK hit : /\ hits' = hits \union {hit} /\ hit.run = r /\ hit.rank = n + 1
                 /\ runs' = runs
  <2> DEFINE rec == Head(calls[c].page)
             hit == [run |-> r, rank |-> n + 1, evidence |-> EvidenceFor(rec), rec |-> rec,
                     by |-> MatchOf(rec)]
  <2>1. hits' = hits \union {hit} /\ runs' = runs
    BY DEF Ingest, IngestSearchHit
  <2>2. hit.run = r /\ hit.rank = n + 1
    OBVIOUS
  <2> HIDE DEF hit
  <2> QED BY <2>1, <2>2
<1>4. hit \notin HitsOf(r)
  <2>1. n + 1 \notin 1..n
    BY <1>2
  <2>2. hit.rank \notin {h.rank : h \in HitsOf(r)}
    BY <1>2, <1>3, <2>1
  <2> QED BY <2>2
<1>5. {h \in hits' : h.run = r} = HitsOf(r) \union {hit}
  BY <1>3 DEF HitsOf
<1>6. Cardinality(HitsOf(r) \union {hit}) = n + 1
  BY <1>2, <1>4, FS_AddElement
<1>7. LedgerEntry(r)' = [status |-> "running", hits |-> n + 1, reported |-> runs[r].retrieved]
  BY <1>2, <1>3, <1>5, <1>6 DEF LedgerEntry, HitsOf
<1>8. Entries[r] = [status |-> "running", hits |-> n, reported |-> runs[r].retrieved]
  BY <1>2 DEF Entries, LedgerEntry
<1>9. Entries' = [Entries EXCEPT ![r] = [status |-> "running", hits |-> n + 1,
                                         reported |-> runs[r].retrieved]]
  <2>1. DOMAIN runs' \ {r} = DOMAIN runs \ {r}
    BY <1>3
  <2>2. \A h \in hits \union hits' : h.run # r => (h \in hits <=> h \in hits')
    BY <1>3
  <2> QED BY <1>2, <1>3, <1>7, <2>1, <2>2, OneEntry
<1>10. Entries' = [Entries EXCEPT ![r].hits = Entries[r].hits + 1]
  <2> PICK entry, reported, more :
          entry = Entries[r] /\ reported = runs[r].retrieved /\ more = n + 1
    OBVIOUS
  <2>1. entry.hits = n /\ entry = [status |-> "running", hits |-> n, reported |-> reported]
    BY <1>8
  <2>2. [[status |-> "running", hits |-> n, reported |-> reported] EXCEPT !.hits = more] =
            [status |-> "running", hits |-> more, reported |-> reported]
    OBVIOUS
  <2>3. [entry EXCEPT !.hits = more] =
            [status |-> "running", hits |-> more, reported |-> reported]
    BY <2>1, <2>2, Zenon
  <2> QED BY <1>9, <2>1, <2>3, ZenonT(60)
<1>11. Entries[r].status = "running"
  BY <1>8
<1> QED BY <1>2, <1>10, <1>11 DEF Ledger!AddHit, Entries

LEMMA LedgerStep ==
    ServiceInv /\ ServiceInv' /\ [Next]_serviceVars =>
        (\E r \in RunId : Ledger!Open(r) \/ Ledger!AddHit(r) \/ Ledger!Close(r)
                          \/ Ledger!Restate(r))
        \/ Entries' = Entries
<1> SUFFICES ASSUME ServiceInv, ServiceInv', [Next]_serviceVars
             PROVE  (\E r \in RunId : Ledger!Open(r) \/ Ledger!AddHit(r) \/ Ledger!Close(r)
                                      \/ Ledger!Restate(r))
                    \/ Entries' = Entries
  OBVIOUS
<1>1. ASSUME UNCHANGED storeVars PROVE Entries' = Entries
  BY <1>1 DEF storeVars, Entries, LedgerEntry, HitsOf
<1>2. ASSUME NEW c \in Call, StartExplore(c) \/ StartSave(c)
      PROVE  \E r \in RunId : Ledger!Open(r)
  BY <1>2, StartOpens DEF StartExplore, StartSave
<1>3. ASSUME NEW c \in Call, Ingest(c) PROVE \E r \in RunId : Ledger!AddHit(r)
  BY <1>3, IngestAdds
<1>4. ASSUME NEW c \in Call, Complete(c) PROVE \E r \in RunId : Ledger!Close(r)
  BY <1>4, CompleteCloses
<1>5. ASSUME NEW c \in Call, RecordFailure(c)
      PROVE  \E r \in RunId : Ledger!Close(r) \/ Ledger!Restate(r)
  BY <1>5, FailureCloses
<1>6. ASSUME NEW c \in Call,
             Refuse(c) \/ Count(c) \/ FetchPage(c) \/ AuditCompleted(c) \/ StepRaises(c)
             \/ AuditFailure(c) \/ HandlerRaises(c) \/ Cancel(c)
      PROVE  Entries' = Entries
  <2>1. UNCHANGED storeVars
    BY <1>6 DEF Refuse, Count, FetchPage, AuditCompleted, StepRaises, AuditFailure, HandlerRaises,
                Cancel
  <2> QED BY <2>1, <1>1
<1>7. CASE UNCHANGED serviceVars
  <2>1. UNCHANGED storeVars
    BY <1>7 DEF serviceVars
  <2> QED BY <2>1, <1>1
<1> HIDE DEF Entries
<1> QED BY <1>2, <1>3, <1>4, <1>5, <1>6, <1>7 DEF Next, Progress

\* The rows and hits of the searches, written by calls that interleave, raise and are cancelled
\* anywhere, are the entries of a SearchLedger: opened once, closed with a report of all their
\* hits, and never gaining one again.
THEOREM LedgerHolds == Spec => ImplementsLedger
<1>1. Init => Ledger!LedgerInit
  BY DEF Init, StoreInit, Ledger!LedgerInit, LedgerEntry
<1>2. ServiceInv /\ ServiceInv' /\ [Next]_serviceVars =>
         [Ledger!LedgerNext]_([r \in RunId |-> LedgerEntry(r)])
  BY LedgerStep DEF Ledger!LedgerNext, Entries
<1> QED BY <1>1, <1>2, ServiceInvariant, PTL DEF Spec, ImplementsLedger, Ledger!LedgerSpec
=============================================================================
