----------------------------- MODULE OAuthProofs -----------------------------
(***************************************************************************)
(* Proofs about OAuthProvider, for any number of processes that share the  *)
(* store and any crashes between its transactions: its types, that a code  *)
(* founds one family, that an approval is decided once, that a family has  *)
(* one accepted token of a kind and loses it only to its end; and, for one *)
(* process, that the end of a family is final.                             *)
(***************************************************************************)
EXTENDS OAuthProvider, FiniteSetTheorems, TLAPS

-----------------------------------------------------------------------------
(* What each transaction of the store does to a row                        *)

\* Rows are added, used and revoked; a row is never deleted, an expiry never moved,
\* and neither a use nor a revocation is ever taken back.
RowKept(k) ==
    /\ k \in DOMAIN records'
    /\ records'[k].family = records[k].family
    /\ records[k].used => records'[k].used
    /\ records[k].revoked => records'[k].revoked

\* put_record adds one row.
LEMMA PutAddsRow ==
    ASSUME NEW k, NEW row, PutRecord(k, row)
    PROVE  /\ k \notin DOMAIN records
           /\ DOMAIN records' = DOMAIN records \union {k}
           /\ records'[k] = row
           /\ \A x \in DOMAIN records : records'[x] = records[x]
BY DEF PutRecord, With, Exists

\* put_record of a typed row keeps the table typed.
LEMMA PutTyped ==
    ASSUME StoreTypeOK, NEW k \in Key, NEW row \in Row, PutRecord(k, row), clock' = clock
    PROVE  StoreTypeOK'
<1>1. /\ DOMAIN records' = DOMAIN records \union {k}
      /\ records' = [x \in DOMAIN records \union {k} |-> IF x = k THEN row ELSE records[x]]
  BY DEF PutRecord, With
<1>2. \A x \in DOMAIN records : records[x] \in Row
  BY DEF StoreTypeOK
<1>3. records' \in [DOMAIN records' -> Row]
  BY <1>1, <1>2
<1> QED BY <1>1, <1>3 DEF StoreTypeOK

\* consume_record succeeds for one active row, and sets its used_at.
LEMMA ConsumeUsesRow ==
    ASSUME StoreTypeOK, NEW k, ConsumeRecord(k)
    PROVE  /\ IsActive(k) /\ k \in DOMAIN records /\ ~records[k].used /\ ~records[k].revoked
           /\ DOMAIN records' = DOMAIN records
           /\ records'[k] = [records[k] EXCEPT !.used = TRUE]
           /\ records'[k].used /\ ~records'[k].revoked
           /\ records'[k].family = records[k].family
           /\ \A x \in DOMAIN records : x # k => records'[x] = records[x]
<1>1. /\ IsActive(k) /\ k \in DOMAIN records /\ ~records[k].used /\ ~records[k].revoked
      /\ records' = [records EXCEPT ![k].used = TRUE]
  BY DEF ConsumeRecord, IsActive, Exists
<1>2. records[k] \in Row /\ DOMAIN records' = DOMAIN records
  BY <1>1 DEF StoreTypeOK
<1>3. records'[k] = [records[k] EXCEPT !.used = TRUE]
  BY <1>1, <1>2 DEF StoreTypeOK
<1>4. records'[k].used /\ ~records'[k].revoked /\ records'[k].family = records[k].family
  BY <1>1, <1>2, <1>3 DEF Row
<1>5. \A x \in DOMAIN records : x # k => records'[x] = records[x]
  BY <1>1
<1> QED BY <1>1, <1>2, <1>3, <1>4, <1>5

\* consume_record keeps the table typed.
LEMMA ConsumeTyped ==
    ASSUME StoreTypeOK, NEW k, ConsumeRecord(k), clock' = clock
    PROVE  StoreTypeOK'
<1>1. records[k] \in Row /\ records'[k] = [records[k] EXCEPT !.used = TRUE]
  BY ConsumeUsesRow DEF StoreTypeOK
<1>2. records'[k] \in Row
  BY <1>1 DEF Row
<1>3. \A x \in DOMAIN records : records'[x] \in Row
  BY <1>2, ConsumeUsesRow DEF StoreTypeOK
<1>4. DOMAIN records' = DOMAIN records /\ records' = [x \in DOMAIN records |-> records'[x]]
  BY ConsumeUsesRow DEF ConsumeRecord, StoreTypeOK
<1>5. records' \in [DOMAIN records' -> Row]
  BY <1>3, <1>4
<1> QED BY <1>4, <1>5 DEF StoreTypeOK

\* revoke_family sets revoked_at in the rows of the family, and nothing else.
LEMMA RevokeMarksFamily ==
    ASSUME StoreTypeOK, NEW f, RevokeFamily(f)
    PROVE  /\ DOMAIN records' = DOMAIN records
           /\ \A k \in DOMAIN records :
                 /\ records'[k] \in Row
                 /\ records'[k].used = records[k].used
                 /\ records'[k].family = records[k].family
                 /\ records'[k].revoked <=> records[k].revoked \/ records[k].family = f
<1>1. DOMAIN records' = DOMAIN records
  BY DEF RevokeFamily
<1>2. ASSUME NEW k \in DOMAIN records
      PROVE  /\ records'[k] \in Row
             /\ records'[k].used = records[k].used
             /\ records'[k].family = records[k].family
             /\ records'[k].revoked <=> records[k].revoked \/ records[k].family = f
  <2>1. records[k] \in Row
    BY DEF StoreTypeOK
  <2>2. records'[k] = IF records[k].family = f THEN [records[k] EXCEPT !.revoked = TRUE]
                      ELSE records[k]
    BY DEF RevokeFamily
  <2>3. CASE records[k].family = f
    BY <2>1, <2>2, <2>3 DEF Row
  <2>4. CASE records[k].family # f
    BY <2>1, <2>2, <2>4 DEF Row
  <2> QED BY <2>3, <2>4
<1> QED BY <1>1, <1>2

\* revoke_family keeps the table typed.
LEMMA RevokeTyped ==
    ASSUME StoreTypeOK, NEW f, RevokeFamily(f), clock' = clock
    PROVE  StoreTypeOK'
<1>1. DOMAIN records' = DOMAIN records /\ \A k \in DOMAIN records : records'[k] \in Row
  BY RevokeMarksFamily
<1>2. records' = [k \in DOMAIN records |-> records'[k]]
  BY DEF RevokeFamily
<1>3. records' \in [DOMAIN records' -> Row]
  BY <1>1, <1>2
<1> QED BY <1>1, <1>3 DEF StoreTypeOK

\* complete_approval uses an active approval and adds its code and its completion.
LEMMA CompletionAddsRows ==
    ASSUME StoreTypeOK, NEW q \in Request, NEW codeLife \in Nat, NEW completionLife \in Nat,
           CompleteApproval(q, codeLife, completionLife), clock' = clock
    PROVE  /\ StoreTypeOK'
           /\ <<"approval", q>> \in DOMAIN records
           /\ ~records[<<"approval", q>>].used
           /\ <<"code", q>> \notin DOMAIN records
           /\ <<"approval_complete", q>> \notin DOMAIN records
           /\ DOMAIN records' = DOMAIN records
                                 \union {<<"code", q>>, <<"approval_complete", q>>}
           /\ records'[<<"approval", q>>].used
           /\ \A k \in DOMAIN records : RowKept(k)
           /\ \A k \in DOMAIN records : k # <<"approval", q>> => records'[k] = records[k]
<1> DEFINE approval == <<"approval", q>>
           code == <<"code", q>>
           completion == <<"approval_complete", q>>
           used == [records EXCEPT ![approval].used = TRUE]
           one == NewRow(records[approval].client, codeLife, NoFamily)
           two == NewRow(records[approval].client, completionLife, NoFamily)
<1>1. /\ approval \in DOMAIN records /\ ~records[approval].used
      /\ code \notin DOMAIN records /\ completion \notin DOMAIN records
      /\ records' = With(With(used, code, one), completion, two)
  BY DEF CompleteApproval, IsActive, Exists
<1>2. code # completion /\ code # approval /\ completion # approval
  OBVIOUS
<1>3. DOMAIN used = DOMAIN records
  OBVIOUS
<1>4. DOMAIN records' = DOMAIN records \union {code, completion}
  BY <1>1, <1>3 DEF With
<1>5. records'[code] = one /\ records'[completion] = two
  BY <1>1, <1>2, <1>3 DEF With
<1>6. \A k \in DOMAIN records : records'[k] = used[k]
  BY <1>1, <1>3 DEF With
<1>7. records[approval] \in Row
  BY <1>1 DEF StoreTypeOK
<1>8. one \in Row /\ two \in Row
  BY <1>7 DEF NewRow, Row, StoreTypeOK
<1>9. used[approval] = [records[approval] EXCEPT !.used = TRUE]
  BY <1>1
<1>10. /\ used[approval] \in Row /\ used[approval].used
       /\ used[approval].family = records[approval].family
       /\ used[approval].revoked = records[approval].revoked
  BY <1>7, <1>9 DEF Row
<1>11. \A k \in DOMAIN records : k # approval => used[k] = records[k]
  OBVIOUS
<1>12. \A k \in DOMAIN records' : records'[k] \in Row
  BY <1>4, <1>5, <1>6, <1>8, <1>10, <1>11 DEF StoreTypeOK
<1>13. records' = [k \in DOMAIN records' |-> records'[k]]
  BY <1>1 DEF With
<1>14. code \in Key /\ completion \in Key
  BY DEF Key
<1>15. StoreTypeOK'
  <2>1. records' \in [DOMAIN records' -> Row]
    BY <1>12, <1>13
  <2>2. DOMAIN records' \subseteq Key
    BY <1>4, <1>14 DEF StoreTypeOK
  <2> QED BY <2>1, <2>2 DEF StoreTypeOK
<1>16. \A k \in DOMAIN records : RowKept(k)
  BY <1>4, <1>6, <1>10, <1>11 DEF RowKept
<1> QED BY <1>1, <1>4, <1>6, <1>10, <1>11, <1>15, <1>16

-----------------------------------------------------------------------------
(* Types                                                                   *)

TokenKinds == {"access", "refresh"}
IssueOps == {"revokeFamily", "putAccess", "putRefresh"}

\* Process p is issuing tokens of family f.
Issues(p, f) == handler[p].op \in IssueOps /\ handler[p].family = f

\* Every family a token or a handler names was founded by a code.
FamiliesAreFounded ==
    /\ \A k \in DOMAIN records : k[1] \in TokenKinds => records[k].family \in DOMAIN origin
    /\ \A p \in Process : handler[p].op \in IssueOps => handler[p].family \in DOMAIN origin

TypeInv == TypeOK /\ FamiliesAreFounded

\* A handler's op tells its other fields.
LEMMA HandlerFields ==
    ASSUME TypeOK, NEW p \in Process
    PROVE  /\ At(p, "decide") => /\ handler[p].request \in Request
                                 /\ handler[p].decision \in {"allow", "deny"}
           /\ At(p, "rotate") => handler[p].client \in Client /\ handler[p].token \in Token
           /\ handler[p].op \in IssueOps => /\ handler[p] \in Issuing
                                            /\ handler[p].client \in Client
                                            /\ handler[p].family \in Family
<1>1. handler[p] \in {Idle} \union Deciding \union Rotating \union Issuing
  BY DEF TypeOK
<1>2. CASE handler[p] = Idle
  BY <1>2 DEF Idle, At, IssueOps
<1>3. CASE handler[p] \in Deciding
  BY <1>3 DEF Deciding, At, IssueOps
<1>4. CASE handler[p] \in Rotating
  BY <1>4 DEF Rotating, At, IssueOps
<1>5. CASE handler[p] \in Issuing
  BY <1>5 DEF Issuing, At, IssueOps
<1> QED BY <1>1, <1>2, <1>3, <1>4, <1>5

\* A handler's next state is typed when what it goes to is.
LEMMA GotoTyped ==
    ASSUME TypeOK, NEW p \in Process,
           NEW h \in {Idle} \union Deciding \union Rotating \union Issuing, Goto(p, h)
    PROVE  /\ handler' \in [Process -> {Idle} \union Deciding \union Rotating \union Issuing]
           /\ handler'[p] = h
           /\ \A o \in Process : o # p => handler'[o] = handler[o]
BY DEF TypeOK, Goto

\* An answer is typed when its outcome is one of the three.
LEMMA RespondTyped ==
    ASSUME TypeOK, NEW q \in Request, NEW decision \in {"allow", "deny"},
           NEW outcome \in {"code", "denied", "error"}, Respond(q, decision, outcome)
    PROVE  answers' \subseteq Answer
BY DEF TypeOK, Respond, Answer

\* The types of the observations, and of the handlers, when none of them changes.
LEMMA TypeOKFrom ==
    ASSUME TypeOK, StoreTypeOK',
           handler' \in [Process -> {Idle} \union Deciding \union Rotating \union Issuing],
           answers' \subseteq Answer, origin' = origin, dead' \subseteq Family
    PROVE  TypeOK'
BY DEF TypeOK

\* No row of a token changes its family, and no new one has a family without a founder.
LEMMA FoundedFrom ==
    ASSUME FamiliesAreFounded, DOMAIN origin \subseteq DOMAIN origin',
           \A k \in DOMAIN records' : k[1] \in TokenKinds =>
              \/ k \in DOMAIN records /\ records'[k].family = records[k].family
              \/ records'[k].family \in DOMAIN origin',
           \A p \in Process : handler'[p].op \in IssueOps =>
              \/ handler'[p] = handler[p]
              \/ handler'[p].family \in DOMAIN origin'
    PROVE  FamiliesAreFounded'
<1>1. \A k \in DOMAIN records' : k[1] \in TokenKinds => records'[k].family \in DOMAIN origin'
  BY DEF FamiliesAreFounded
<1>2. \A p \in Process : handler'[p].op \in IssueOps => handler'[p].family \in DOMAIN origin'
  BY DEF FamiliesAreFounded
<1> QED BY <1>1, <1>2 DEF FamiliesAreFounded

\* NewRow makes a row.
LEMMA NewRowTyped ==
    ASSUME StoreTypeOK, NEW client \in Client, NEW life \in Nat,
           NEW family \in Family \union {NoFamily}
    PROVE  /\ NewRow(client, life, family) \in Row
           /\ NewRow(client, life, family).family = family
           /\ ~NewRow(client, life, family).used /\ ~NewRow(client, life, family).revoked
BY DEF NewRow, Row, StoreTypeOK

\* A row's columns.
LEMMA RowFields ==
    ASSUME StoreTypeOK, NEW k \in DOMAIN records
    PROVE  /\ records[k].client \in Client /\ records[k].used \in BOOLEAN
           /\ records[k].revoked \in BOOLEAN /\ records[k].expires \in Nat
           /\ records[k].family \in Family \union {NoFamily}
BY DEF StoreTypeOK, Row

\* Tick, Crash, LoadRefresh, ApproveRead and UNCHANGED vars touch no row; an action
\* that revokes or consumes keeps every row; see RowKept.
RowsKept == \A k \in DOMAIN records : RowKept(k)

LEMMA NothingWritten ==
    ASSUME UNCHANGED records PROVE RowsKept
BY DEF RowsKept, RowKept

LEMMA PutKeeps ==
    ASSUME NEW k, NEW row, PutRecord(k, row) PROVE RowsKept
BY PutAddsRow DEF RowsKept, RowKept

LEMMA ConsumeKeeps ==
    ASSUME StoreTypeOK, NEW k, ConsumeRecord(k) PROVE RowsKept
BY ConsumeUsesRow DEF RowsKept, RowKept

LEMMA RevokeKeeps ==
    ASSUME StoreTypeOK, NEW f, RevokeFamily(f) PROVE RowsKept
BY RevokeMarksFamily DEF RowsKept, RowKept

\* authorize stores an approval.
LEMMA AuthorizeTypes ==
    ASSUME TypeInv, NEW p \in Process, Authorize(p)
    PROVE  TypeInv' /\ RowsKept
<1>1. PICK q \in Request, c \in Client :
          PutRecord(<<"approval", q>>, NewRow(c, RequestLife, NoFamily))
  BY DEF Authorize
<1>2. UNCHANGED <<clock, handler, answers, origin, dead>>
  BY DEF Authorize, observed
<1>3. StoreTypeOK /\ TypeOK /\ FamiliesAreFounded
  BY DEF TypeInv, TypeOK
<1>4. NewRow(c, RequestLife, NoFamily) \in Row
  BY <1>3, LifeAssumption, NewRowTyped
<1>5. <<"approval", q>> \in Key
  BY DEF Key
<1>6. StoreTypeOK'
  BY <1>1, <1>2, <1>3, <1>4, <1>5, PutTyped
<1>7. TypeOK'
  BY <1>2, <1>3, <1>6 DEF TypeOK
<1>8. FamiliesAreFounded'
  <2>1. \A k \in DOMAIN records' : k[1] \in TokenKinds =>
            k \in DOMAIN records /\ records'[k].family = records[k].family
    <3>1. /\ DOMAIN records' = DOMAIN records \union {<<"approval", q>>}
          /\ \A x \in DOMAIN records : records'[x] = records[x]
      BY <1>1, PutAddsRow
    <3>2. <<"approval", q>>[1] \notin TokenKinds
      BY DEF TokenKinds
    <3> QED BY <3>1, <3>2
  <2> QED BY <1>2, <1>3, <2>1, FoundedFrom
<1> QED BY <1>1, <1>7, <1>8, PutKeeps DEF TypeInv

\* approve, its first reads.
LEMMA ApproveReadTypes ==
    ASSUME TypeInv, NEW p \in Process, ApproveRead(p)
    PROVE  TypeInv' /\ RowsKept
<1>1. PICK q \in Request, decision \in {"allow", "deny"} :
          IF IsActive(<<"approval", q>>)
          THEN /\ Goto(p, [op |-> "decide", request |-> q, decision |-> decision])
               /\ UNCHANGED answers
          ELSE /\ Respond(q, decision, IF IsActive(<<"approval_complete", q>>)
                                       THEN "code" ELSE "error")
               /\ UNCHANGED handler
  BY DEF ApproveRead
<1>2. UNCHANGED <<clock, records, origin, dead>>
  BY DEF ApproveRead, storeVars
<1>3. StoreTypeOK /\ TypeOK /\ FamiliesAreFounded
  BY DEF TypeInv, TypeOK
<1>4. StoreTypeOK'
  BY <1>2, <1>3 DEF StoreTypeOK
<1>5. CASE IsActive(<<"approval", q>>)
  <2> DEFINE h == [op |-> "decide", request |-> q, decision |-> decision]
  <2>1. h \in Deciding /\ h.op \notin IssueOps
    BY DEF Deciding, IssueOps
  <2>2. Goto(p, h) /\ answers' = answers
    BY <1>1, <1>5
  <2> HIDE DEF h
  <2>3. /\ handler' \in [Process -> {Idle} \union Deciding \union Rotating \union Issuing]
        /\ handler'[p] = h /\ \A o \in Process : o # p => handler'[o] = handler[o]
    BY <1>3, <2>1, <2>2, GotoTyped
  <2>4. TypeOK'
    BY <1>2, <1>3, <1>4, <2>2, <2>3 DEF TypeOK
  <2>5. FamiliesAreFounded'
    BY <1>2, <1>3, <2>1, <2>3, FoundedFrom
  <2> QED BY <1>2, <2>4, <2>5, NothingWritten DEF TypeInv
<1>6. CASE ~IsActive(<<"approval", q>>)
  <2> DEFINE outcome == IF IsActive(<<"approval_complete", q>>) THEN "code" ELSE "error"
  <2>1. Respond(q, decision, outcome) /\ handler' = handler
    BY <1>1, <1>6
  <2>2. answers' \subseteq Answer
    BY <1>3, <2>1, RespondTyped
  <2>3. TypeOK'
    BY <1>2, <1>3, <1>4, <2>1, <2>2 DEF TypeOK
  <2>4. FamiliesAreFounded'
    BY <1>2, <1>3, <2>1, FoundedFrom
  <2> QED BY <1>2, <2>3, <2>4, NothingWritten DEF TypeInv
<1> QED BY <1>5, <1>6

\* What is left to show of an action of process p whose handler goes to h, when
\* it does not add a row and founds no family.
LEMMA NoNewRowTyped ==
    ASSUME TypeInv, NEW p \in Process,
           NEW h \in {Idle} \union Deciding \union Rotating \union Issuing, Goto(p, h),
           h.op \in IssueOps => h.family \in DOMAIN origin,
           StoreTypeOK', DOMAIN records' = DOMAIN records, RowsKept,
           answers' \subseteq Answer, origin' = origin, dead' \subseteq Family
    PROVE  TypeInv'
<1>1. TypeOK /\ FamiliesAreFounded
  BY DEF TypeInv
<1>2. /\ handler' \in [Process -> {Idle} \union Deciding \union Rotating \union Issuing]
      /\ handler'[p] = h /\ \A o \in Process : o # p => handler'[o] = handler[o]
  BY <1>1, GotoTyped
<1>3. TypeOK'
  BY <1>1, <1>2, TypeOKFrom
<1>4. FamiliesAreFounded'
  BY <1>1, <1>2, FoundedFrom DEF RowsKept, RowKept
<1> QED BY <1>3, <1>4 DEF TypeInv

\* The process ends, or a handler gives up: nothing is written.
LEMMA IdleTyped == {Idle} \subseteq {Idle} \union Deciding \union Rotating \union Issuing
                   /\ Idle.op \notin IssueOps
BY DEF Idle, IssueOps

LEMMA CrashTypes ==
    ASSUME TypeInv, NEW p \in Process, Crash(p)
    PROVE  TypeInv' /\ RowsKept
<1>1. Goto(p, Idle) /\ UNCHANGED <<clock, records, answers, origin, dead>>
  BY DEF Crash, storeVars, observed
<1>2. StoreTypeOK'
  BY <1>1 DEF TypeInv, TypeOK, StoreTypeOK
<1>3. RowsKept
  BY <1>1, NothingWritten
<1>4. answers' \subseteq Answer /\ dead' \subseteq Family
  BY <1>1 DEF TypeInv, TypeOK
<1>5. TypeInv'
  BY <1>1, <1>2, <1>3, <1>4, IdleTyped, NoNewRowTyped
<1> QED BY <1>3, <1>5

\* approve, a decision to deny.
LEMMA DenyTypes ==
    ASSUME TypeInv, NEW p \in Process, Deny(p)
    PROVE  TypeInv' /\ RowsKept
<1> DEFINE q == handler[p].request
<1>1. TypeOK /\ StoreTypeOK /\ q \in Request
  BY HandlerFields DEF TypeInv, TypeOK, Deny
<1>2. Goto(p, Idle) /\ UNCHANGED <<clock, origin, dead>> /\ dead' \subseteq Family
  BY <1>1 DEF Deny, TypeOK
<1>3. CASE IsActive(<<"approval", q>>)
  <2>1. ConsumeRecord(<<"approval", q>>) /\ Respond(q, "deny", "denied")
    BY <1>3 DEF Deny
  <2>2. StoreTypeOK' /\ RowsKept /\ DOMAIN records' = DOMAIN records
    BY <1>1, <1>2, <2>1, ConsumeTyped, ConsumeKeeps, ConsumeUsesRow
  <2>3. answers' \subseteq Answer
    BY <1>1, <2>1, RespondTyped
  <2> QED BY <1>2, <2>2, <2>3, IdleTyped, NoNewRowTyped
<1>4. CASE ~IsActive(<<"approval", q>>)
  <2>1. records' = records /\ Respond(q, "deny", "error")
    BY <1>4 DEF Deny
  <2>2. StoreTypeOK' /\ RowsKept
    BY <1>1, <1>2, <2>1, NothingWritten DEF StoreTypeOK
  <2>3. answers' \subseteq Answer
    BY <1>1, <2>1, RespondTyped
  <2> QED BY <1>2, <2>1, <2>2, <2>3, IdleTyped, NoNewRowTyped
<1> QED BY <1>3, <1>4

\* approve, a decision to allow.
LEMMA AllowTypes ==
    ASSUME TypeInv, NEW p \in Process, Allow(p)
    PROVE  TypeInv' /\ RowsKept
<1> DEFINE q == handler[p].request
<1>1. TypeOK /\ StoreTypeOK /\ FamiliesAreFounded /\ q \in Request
  BY HandlerFields DEF TypeInv, TypeOK, Allow
<1>2. Goto(p, Idle) /\ UNCHANGED <<clock, origin, dead>> /\ dead' \subseteq Family
  BY <1>1 DEF Allow, TypeOK
<1>3. CASE IsActive(<<"approval", q>>)
  <2>1. CompleteApproval(q, CodeLife, CompletionLife) /\ Respond(q, "allow", "code")
    BY <1>3 DEF Allow
  <2>2. /\ StoreTypeOK' /\ RowsKept
        /\ DOMAIN records' = DOMAIN records \union {<<"code", q>>, <<"approval_complete", q>>}
    BY <1>1, <1>2, <2>1, LifeAssumption, CompletionAddsRows DEF RowsKept
  <2>3. answers' \subseteq Answer
    BY <1>1, <2>1, RespondTyped
  <2>4. /\ handler' \in [Process -> {Idle} \union Deciding \union Rotating \union Issuing]
        /\ handler'[p] = Idle /\ \A o \in Process : o # p => handler'[o] = handler[o]
    BY <1>1, <1>2, GotoTyped
  <2>5. TypeOK'
    BY <1>1, <1>2, <2>2, <2>3, <2>4, TypeOKFrom
  <2>6. <<"code", q>>[1] \notin TokenKinds /\ <<"approval_complete", q>>[1] \notin TokenKinds
    BY DEF TokenKinds
  <2>7. \A k \in DOMAIN records' : k[1] \in TokenKinds =>
            k \in DOMAIN records /\ records'[k].family = records[k].family
    BY <2>2, <2>6 DEF RowsKept, RowKept
  <2>8. FamiliesAreFounded'
    BY <1>1, <1>2, <2>4, <2>7, IdleTyped, FoundedFrom
  <2> QED BY <2>2, <2>5, <2>8 DEF TypeInv
<1>4. CASE ~IsActive(<<"approval", q>>)
  <2> DEFINE outcome == IF IsActive(<<"approval_complete", q>>) THEN "code" ELSE "error"
  <2>1. records' = records /\ Respond(q, "allow", outcome)
    BY <1>4 DEF Allow
  <2>2. StoreTypeOK' /\ RowsKept
    BY <1>1, <1>2, <2>1, NothingWritten DEF StoreTypeOK
  <2>3. answers' \subseteq Answer
    BY <1>1, <2>1, RespondTyped
  <2> QED BY <1>2, <2>1, <2>2, <2>3, IdleTyped, NoNewRowTyped
<1> QED BY <1>3, <1>4

\* exchange_authorization_code founds a family.
LEMMA ExchangeCodeTypes ==
    ASSUME TypeInv, NEW p \in Process, ExchangeCode(p)
    PROVE  TypeInv' /\ RowsKept
<1>1. PICK q \in Request, f \in Family \ DOMAIN origin :
         /\ ConsumeRecord(<<"code", q>>)
         /\ origin' = [g \in DOMAIN origin \union {f} |-> IF g = f THEN q ELSE origin[g]]
         /\ Goto(p, [op |-> "putAccess", client |-> records[<<"code", q>>].client, family |-> f])
  BY DEF ExchangeCode
<1> DEFINE h == [op |-> "putAccess", client |-> records[<<"code", q>>].client, family |-> f]
<1>2. UNCHANGED <<clock, answers, dead>>
  BY DEF ExchangeCode
<1>3. TypeOK /\ StoreTypeOK /\ FamiliesAreFounded
  BY DEF TypeInv, TypeOK
<1>4. StoreTypeOK' /\ RowsKept /\ DOMAIN records' = DOMAIN records
  BY <1>1, <1>2, <1>3, ConsumeTyped, ConsumeKeeps, ConsumeUsesRow
<1>5. records[<<"code", q>>].client \in Client
  BY <1>1, <1>3, ConsumeUsesRow, RowFields
<1>6. h \in Issuing /\ h.family = f
  BY <1>5 DEF Issuing
<1>7. Goto(p, h)
  BY <1>1
<1>8. /\ DOMAIN origin' = DOMAIN origin \union {f} /\ DOMAIN origin' \subseteq Family
      /\ origin' \in [DOMAIN origin' -> Request]
  BY <1>1, <1>3 DEF TypeOK
<1> HIDE DEF h
<1>9. /\ handler' \in [Process -> {Idle} \union Deciding \union Rotating \union Issuing]
      /\ handler'[p] = h /\ \A o \in Process : o # p => handler'[o] = handler[o]
  BY <1>3, <1>6, <1>7, GotoTyped
<1>10. TypeOK'
  BY <1>2, <1>3, <1>4, <1>8, <1>9 DEF TypeOK
<1>11. FamiliesAreFounded'
  <2>1. \A k \in DOMAIN records' : k \in DOMAIN records /\ records'[k].family = records[k].family
    BY <1>4 DEF RowsKept, RowKept
  <2>2. \A o \in Process : handler'[o] = handler[o] \/ handler'[o].family \in DOMAIN origin'
    BY <1>6, <1>8, <1>9
  <2> QED BY <1>3, <1>8, <2>1, <2>2, FoundedFrom
<1> QED BY <1>4, <1>10, <1>11 DEF TypeInv

\* load_refresh_token of an active token.
LEMMA LoadRefreshTypes ==
    ASSUME TypeInv, NEW p \in Process, LoadRefresh(p)
    PROVE  TypeInv' /\ RowsKept
<1>1. PICK t \in Token :
         /\ IsActive(<<"refresh", t>>)
         /\ Goto(p, [op |-> "rotate", client |-> records[<<"refresh", t>>].client, token |-> t])
  BY DEF LoadRefresh
<1> DEFINE h == [op |-> "rotate", client |-> records[<<"refresh", t>>].client, token |-> t]
<1>2. UNCHANGED <<clock, records, answers, origin, dead>>
  BY DEF LoadRefresh, storeVars, observed
<1>3. TypeOK /\ StoreTypeOK
  BY DEF TypeInv, TypeOK
<1>4. StoreTypeOK' /\ RowsKept /\ answers' \subseteq Answer /\ dead' \subseteq Family
  BY <1>2, <1>3, NothingWritten DEF StoreTypeOK, TypeOK
<1>5. h \in Rotating /\ h.op \notin IssueOps
  BY <1>1, <1>3, RowFields DEF Rotating, IssueOps, IsActive, Exists
<1>6. Goto(p, h)
  BY <1>1
<1> HIDE DEF h
<1> QED BY <1>2, <1>4, <1>5, <1>6, NoNewRowTyped

\* A token's family, dead or not, was founded.
LEMMA TokenFamily ==
    ASSUME TypeInv, NEW kind \in TokenKinds, NEW t, <<kind, t>> \in DOMAIN records
    PROVE  records[<<kind, t>>].family \in DOMAIN origin /\ records[<<kind, t>>].family \in Family
<1>1. <<kind, t>>[1] \in TokenKinds
  OBVIOUS
<1> QED BY <1>1 DEF TypeInv, FamiliesAreFounded, TypeOK

\* load_refresh_token of a used token, and revoke_token: a family dies.
LEMMA FamilyDiesTypes ==
    ASSUME TypeInv, NEW f \in Family, RevokeFamily(f), dead' = dead \union {f},
           UNCHANGED <<clock, handler, answers, origin>>
    PROVE  TypeInv' /\ RowsKept
<1>1. TypeOK /\ StoreTypeOK /\ FamiliesAreFounded
  BY DEF TypeInv, TypeOK
<1>2. StoreTypeOK' /\ RowsKept /\ DOMAIN records' = DOMAIN records
  BY <1>1, RevokeTyped, RevokeKeeps, RevokeMarksFamily
<1>3. TypeOK'
  BY <1>1, <1>2 DEF TypeOK
<1>4. FamiliesAreFounded'
  BY <1>1, <1>2, FoundedFrom DEF RowsKept, RowKept
<1> QED BY <1>2, <1>3, <1>4 DEF TypeInv

\* Whose family dies: that of a token.
LEMMA ReplayKillsFamily ==
    ASSUME TypeInv, NEW p \in Process, ReplayRefresh(p)
    PROVE  \E f \in Family : RevokeFamily(f) /\ dead' = dead \union {f}
<1>1. PICK t \in Token :
         /\ Exists(<<"refresh", t>>)
         /\ RevokeFamily(records[<<"refresh", t>>].family)
         /\ dead' = dead \union {records[<<"refresh", t>>].family}
  BY DEF ReplayRefresh
<1>2. records[<<"refresh", t>>].family \in Family
  BY <1>1, TokenFamily DEF Exists, TokenKinds
<1> QED BY <1>1, <1>2

LEMMA RevokeTokenKillsFamily ==
    ASSUME TypeInv, NEW p \in Process, RevokeToken(p)
    PROVE  \E f \in Family : RevokeFamily(f) /\ dead' = dead \union {f}
<1>1. PICK k \in {"access", "refresh"} \X Token :
         /\ Exists(k)
         /\ RevokeFamily(records[k].family)
         /\ dead' = dead \union {records[k].family}
  BY DEF RevokeToken
<1>2. PICK kind \in TokenKinds, t \in Token : k = <<kind, t>>
  BY DEF TokenKinds
<1>3. records[k].family \in Family
  BY <1>1, <1>2, TokenFamily DEF Exists
<1> QED BY <1>1, <1>3

LEMMA ReplayRefreshTypes ==
    ASSUME TypeInv, NEW p \in Process, ReplayRefresh(p) \/ RevokeToken(p)
    PROVE  TypeInv' /\ RowsKept
<1>1. UNCHANGED <<clock, handler, answers, origin>>
  BY DEF ReplayRefresh, RevokeToken
<1> QED BY <1>1, ReplayKillsFamily, RevokeTokenKillsFamily, FamilyDiesTypes

\* exchange_refresh_token, its consume_record.
LEMMA ConsumeRefreshTypes ==
    ASSUME TypeInv, NEW p \in Process, ConsumeRefresh(p)
    PROVE  TypeInv' /\ RowsKept
<1> DEFINE k == <<"refresh", handler[p].token>>
           h == [op |-> "revokeFamily", client |-> handler[p].client, family |-> records[k].family]
<1>1. /\ TypeOK /\ StoreTypeOK
      /\ handler[p].client \in Client
      /\ UNCHANGED <<clock, answers, origin, dead>>
  BY HandlerFields DEF TypeInv, TypeOK, ConsumeRefresh, observed
<1>2. answers' \subseteq Answer /\ dead' \subseteq Family
  BY <1>1 DEF TypeOK
<1>3. CASE IsActive(k)
  <2>1. ConsumeRecord(k) /\ Goto(p, h)
    BY <1>3 DEF ConsumeRefresh
  <2>2. StoreTypeOK' /\ RowsKept /\ DOMAIN records' = DOMAIN records
    BY <1>1, <2>1, ConsumeTyped, ConsumeKeeps, ConsumeUsesRow
  <2>3. records[k].family \in DOMAIN origin /\ records[k].family \in Family
    BY <1>3, TokenFamily DEF IsActive, Exists, TokenKinds
  <2>4. h \in Issuing /\ h.family \in DOMAIN origin
    BY <1>1, <2>3 DEF Issuing
  <2> HIDE DEF h
  <2> QED BY <1>1, <1>2, <2>1, <2>2, <2>4, NoNewRowTyped
<1>4. CASE ~IsActive(k)
  <2>1. records' = records /\ Goto(p, Idle)
    BY <1>4 DEF ConsumeRefresh
  <2>2. StoreTypeOK' /\ RowsKept
    BY <1>1, <2>1, NothingWritten DEF StoreTypeOK
  <2> QED BY <1>1, <1>2, <2>1, <2>2, IdleTyped, NoNewRowTyped
<1> QED BY <1>3, <1>4

\* exchange_refresh_token, its revoke_family.
LEMMA RevokeRotatedTypes ==
    ASSUME TypeInv, NEW p \in Process, RevokeRotated(p)
    PROVE  TypeInv' /\ RowsKept
<1> DEFINE h == [handler[p] EXCEPT !.op = "putAccess"]
<1>1. /\ TypeOK /\ StoreTypeOK /\ handler[p].op \in IssueOps
      /\ RevokeFamily(handler[p].family) /\ Goto(p, h)
      /\ UNCHANGED <<clock, answers, origin, dead>>
  BY DEF TypeInv, TypeOK, RevokeRotated, At, IssueOps, observed
<1>2. handler[p] \in Issuing /\ handler[p].family \in DOMAIN origin
  BY <1>1, HandlerFields DEF TypeInv, FamiliesAreFounded
<1>3. h \in Issuing /\ h.family \in DOMAIN origin
  BY <1>2 DEF Issuing
<1>4. StoreTypeOK' /\ RowsKept /\ DOMAIN records' = DOMAIN records
  BY <1>1, RevokeTyped, RevokeKeeps, RevokeMarksFamily
<1>5. answers' \subseteq Answer /\ dead' \subseteq Family
  BY <1>1 DEF TypeOK
<1> HIDE DEF h
<1> QED BY <1>1, <1>3, <1>4, <1>5, NoNewRowTyped

\* _issue_tokens: one more token of the handler's family.
LEMMA PutTokenTypes ==
    ASSUME TypeInv, NEW p \in Process, handler[p].op \in IssueOps,
           NEW kind \in TokenKinds, NEW t \in Token, NEW life \in Nat,
           PutRecord(<<kind, t>>, NewRow(handler[p].client, life, handler[p].family)),
           NEW h \in {Idle} \union Deciding \union Rotating \union Issuing, Goto(p, h),
           h.op \in IssueOps => h.family = handler[p].family,
           UNCHANGED <<clock, answers, origin, dead>>
    PROVE  TypeInv' /\ RowsKept
<1>1. TypeOK /\ StoreTypeOK /\ FamiliesAreFounded
  BY DEF TypeInv, TypeOK
<1>2. /\ handler[p].client \in Client /\ handler[p].family \in Family
      /\ handler[p].family \in DOMAIN origin
  BY <1>1, HandlerFields DEF FamiliesAreFounded
<1> DEFINE row == NewRow(handler[p].client, life, handler[p].family)
<1>3. row \in Row /\ row.family = handler[p].family
  BY <1>1, <1>2, NewRowTyped
<1>4. <<kind, t>> \in Key
  BY DEF Key, TokenKinds
<1>5. PutRecord(<<kind, t>>, row)
  OBVIOUS
<1> HIDE DEF row
<1>6. StoreTypeOK' /\ RowsKept
  BY <1>1, <1>3, <1>4, <1>5, PutTyped, PutKeeps
<1>7. /\ handler' \in [Process -> {Idle} \union Deciding \union Rotating \union Issuing]
      /\ handler'[p] = h /\ \A o \in Process : o # p => handler'[o] = handler[o]
  BY <1>1, GotoTyped
<1>8. TypeOK'
  BY <1>1, <1>6, <1>7 DEF TypeOK
<1>9. FamiliesAreFounded'
  <2>1. /\ DOMAIN records' = DOMAIN records \union {<<kind, t>>}
        /\ records'[<<kind, t>>] = row
        /\ \A x \in DOMAIN records : records'[x] = records[x]
    BY <1>5, PutAddsRow
  <2>2. \A k \in DOMAIN records' :
            \/ k \in DOMAIN records /\ records'[k].family = records[k].family
            \/ records'[k].family \in DOMAIN origin'
    BY <1>2, <1>3, <2>1
  <2> QED BY <1>1, <1>2, <1>7, <2>2, FoundedFrom
<1> QED BY <1>6, <1>8, <1>9 DEF TypeInv

LEMMA PutAccessTypes ==
    ASSUME TypeInv, NEW p \in Process, PutAccess(p)
    PROVE  TypeInv' /\ RowsKept
<1> DEFINE h == [handler[p] EXCEPT !.op = "putRefresh"]
<1>1. PICK t \in Token : PutRecord(<<"access", t>>,
                            NewRow(handler[p].client, AccessLife, handler[p].family))
  BY DEF PutAccess
<1>2. handler[p].op \in IssueOps /\ Goto(p, h) /\ UNCHANGED <<clock, answers, origin, dead>>
  BY DEF PutAccess, At, IssueOps, observed
<1>3. h \in Issuing /\ h.family = handler[p].family
  BY <1>2, HandlerFields DEF TypeInv, Issuing
<1> HIDE DEF h
<1> QED BY <1>1, <1>2, <1>3, LifeAssumption, PutTokenTypes DEF TokenKinds

LEMMA PutRefreshTypes ==
    ASSUME TypeInv, NEW p \in Process, PutRefresh(p)
    PROVE  TypeInv' /\ RowsKept
<1>1. PICK t \in Token : PutRecord(<<"refresh", t>>,
                            NewRow(handler[p].client, RefreshLife, handler[p].family))
  BY DEF PutRefresh
<1>2. /\ handler[p].op \in IssueOps /\ Goto(p, Idle)
      /\ UNCHANGED <<clock, answers, origin, dead>>
  BY DEF PutRefresh, At, IssueOps, observed
<1> QED BY <1>1, <1>2, LifeAssumption, IdleTyped, PutTokenTypes DEF TokenKinds

LEMMA TickTypes ==
    ASSUME TypeInv, Tick
    PROVE  TypeInv' /\ RowsKept
<1>1. TypeOK /\ clock' = clock + 1 /\ UNCHANGED <<records, handler, answers, origin, dead>>
  BY DEF TypeInv, Tick, observed
<1> QED BY <1>1, NothingWritten DEF TypeInv, TypeOK, StoreTypeOK, FamiliesAreFounded

LEMMA TypesInitially == Init => TypeInv
<1> SUFFICES ASSUME Init PROVE TypeInv
  OBVIOUS
<1>1. /\ clock = 0 /\ DOMAIN records = {} /\ DOMAIN origin = {} /\ answers = {} /\ dead = {}
      /\ records \in [DOMAIN records -> Row] /\ origin \in [DOMAIN origin -> Request]
      /\ handler = [p \in Process |-> Idle]
  BY DEF Init, StoreInit
<1>2. TypeOK
  BY <1>1 DEF TypeOK, StoreTypeOK
<1>3. FamiliesAreFounded
  BY <1>1, IdleTyped DEF FamiliesAreFounded
<1> QED BY <1>2, <1>3 DEF TypeInv

LEMMA TypesStep == TypeInv /\ [Next]_vars => TypeInv' /\ RowsKept
<1> SUFFICES ASSUME TypeInv, [Next]_vars PROVE TypeInv' /\ RowsKept
  OBVIOUS
<1>1. CASE Tick
  BY <1>1, TickTypes
<1>2. CASE UNCHANGED vars
  BY <1>2, NothingWritten DEF vars, TypeInv, TypeOK, StoreTypeOK, FamiliesAreFounded
<1>3. ASSUME NEW p \in Process,
             \/ Crash(p) \/ Authorize(p) \/ ApproveRead(p) \/ Deny(p) \/ Allow(p)
             \/ ExchangeCode(p) \/ LoadRefresh(p) \/ ReplayRefresh(p) \/ ConsumeRefresh(p)
             \/ RevokeRotated(p) \/ PutAccess(p) \/ PutRefresh(p) \/ RevokeToken(p)
      PROVE  TypeInv' /\ RowsKept
  BY <1>3, CrashTypes, AuthorizeTypes, ApproveReadTypes, DenyTypes, AllowTypes,
     ExchangeCodeTypes, LoadRefreshTypes, ReplayRefreshTypes, ConsumeRefreshTypes,
     RevokeRotatedTypes, PutAccessTypes, PutRefreshTypes
<1> QED BY <1>1, <1>2, <1>3 DEF Next

\* The rows, the handlers between two transactions and the answers keep their types,
\* whatever overlaps and wherever a process ends.
THEOREM TypesHold == Spec => []TypeOK
<1>1. Spec => []TypeInv
  BY TypesInitially, TypesStep, PTL DEF Spec
<1> QED BY <1>1, PTL DEF TypeInv

-----------------------------------------------------------------------------
(* A code founds one family                                                *)

\* The code that founded a family is used, and stays used.
FoundersAreUsed ==
    \A f \in DOMAIN origin :
        <<"code", origin[f]>> \in DOMAIN records /\ records[<<"code", origin[f]>>].used

CodesInv == TypeInv /\ FoundersAreUsed /\ CodeRedeemedOnce

LEMMA OnlyCodesFound ==
    [Next]_vars => origin' = origin \/ \E p \in Process : ExchangeCode(p)
BY DEF Next, vars, Tick, Crash, Authorize, ApproveRead, Deny, Allow, LoadRefresh, ReplayRefresh,
       ConsumeRefresh, RevokeRotated, PutAccess, PutRefresh, RevokeToken, observed

LEMMA CodesStep == CodesInv /\ [Next]_vars => CodesInv'
<1> SUFFICES ASSUME CodesInv, [Next]_vars PROVE FoundersAreUsed' /\ CodeRedeemedOnce'
  BY TypesStep DEF CodesInv
<1>1. StoreTypeOK /\ RowsKept
  BY TypesStep DEF CodesInv, TypeInv, TypeOK
<1>2. CASE origin' = origin
  BY <1>1, <1>2 DEF CodesInv, FoundersAreUsed, CodeRedeemedOnce, RowsKept, RowKept
<1>3. ASSUME NEW p \in Process, ExchangeCode(p)
      PROVE  FoundersAreUsed' /\ CodeRedeemedOnce'
  <2>1. PICK q \in Request, f \in Family \ DOMAIN origin :
           /\ ConsumeRecord(<<"code", q>>)
           /\ origin' = [g \in DOMAIN origin \union {f} |-> IF g = f THEN q ELSE origin[g]]
    BY <1>3 DEF ExchangeCode
  <2>2. /\ <<"code", q>> \in DOMAIN records /\ ~records[<<"code", q>>].used
        /\ <<"code", q>> \in DOMAIN records' /\ records'[<<"code", q>>].used
    BY <1>1, <2>1, ConsumeUsesRow
  <2>3. \A g \in DOMAIN origin : origin[g] # q
    BY <2>2 DEF CodesInv, FoundersAreUsed
  <2>4. /\ DOMAIN origin' = DOMAIN origin \union {f} /\ origin'[f] = q
        /\ \A g \in DOMAIN origin : origin'[g] = origin[g]
    BY <2>1
  <2>5. FoundersAreUsed'
    BY <1>1, <2>2, <2>4 DEF CodesInv, FoundersAreUsed, RowsKept, RowKept
  <2>6. CodeRedeemedOnce'
    BY <2>3, <2>4 DEF CodesInv, CodeRedeemedOnce
  <2> QED BY <2>5, <2>6
<1> QED BY <1>2, <1>3, OnlyCodesFound

\* An authorization code is redeemed once, however many processes exchange it at the
\* same time, and whether or not the first of them lives to issue its tokens.
THEOREM CodesHold == Spec => []CodeRedeemedOnce
<1>1. Init => CodesInv
  BY TypesInitially DEF Init, CodesInv, FoundersAreUsed, CodeRedeemedOnce
<1>2. Spec => []CodesInv
  BY <1>1, CodesStep, PTL DEF Spec
<1> QED BY <1>2, PTL DEF CodesInv

-----------------------------------------------------------------------------
(* An approval is decided once                                             *)

\* A code or a completion is there only once the approval is used and the code is.
CodesWereAllowed ==
    \A q \in Request :
        Exists(<<"code", q>>) \/ Exists(<<"approval_complete", q>>) =>
            /\ Exists(<<"approval", q>>) /\ records[<<"approval", q>>].used
            /\ Exists(<<"code", q>>)

\* A denied approval is used, so that it can no longer be allowed.
DenialsAreUsed ==
    \A a \in answers : a.outcome = "denied" =>
        Exists(<<"approval", a.request>>) /\ records[<<"approval", a.request>>].used

DecisionsInv == TypeInv /\ CodesWereAllowed /\ DenialsAreUsed /\ OneDecisionPerRequest

\* What a step adds to the requests' rows.
AddsNoCode ==
    \A q : /\ Exists(<<"code", q>>)' => Exists(<<"code", q>>)
           /\ Exists(<<"approval_complete", q>>)' => Exists(<<"approval_complete", q>>)

\* Every step adds no code, except an approval that is allowed.
LEMMA OnlyAllowAddsCodes ==
    ASSUME TypeInv, [Next]_vars
    PROVE  AddsNoCode \/ \E p \in Process : Allow(p)
<1>1. TypeOK /\ StoreTypeOK
  BY DEF TypeInv, TypeOK
<1>2. ASSUME DOMAIN records' = DOMAIN records PROVE AddsNoCode
  BY <1>2 DEF AddsNoCode, Exists
<1>3. ASSUME NEW kind \in {"approval"} \union TokenKinds, NEW x, NEW row,
             PutRecord(<<kind, x>>, row)
      PROVE  AddsNoCode
  <2>1. DOMAIN records' = DOMAIN records \union {<<kind, x>>}
    BY <1>3, PutAddsRow
  <2>2. \A q : <<"code", q>> # <<kind, x>> /\ <<"approval_complete", q>> # <<kind, x>>
    BY DEF TokenKinds
  <2> QED BY <2>1, <2>2 DEF AddsNoCode, Exists
<1>4. CASE Tick \/ UNCHANGED vars
  BY <1>2, <1>4 DEF Tick, vars
<1>5. ASSUME NEW p \in Process,
             Crash(p) \/ ApproveRead(p) \/ LoadRefresh(p)
      PROVE  AddsNoCode
  BY <1>2, <1>5 DEF Crash, ApproveRead, LoadRefresh, storeVars
<1>6. ASSUME NEW p \in Process, Authorize(p) PROVE AddsNoCode
  BY <1>3, <1>6 DEF Authorize
<1>7. ASSUME NEW p \in Process, PutAccess(p) \/ PutRefresh(p) PROVE AddsNoCode
  BY <1>3, <1>7 DEF PutAccess, PutRefresh, TokenKinds
<1>8. ASSUME NEW p \in Process, Deny(p) \/ ExchangeCode(p) \/ ConsumeRefresh(p)
      PROVE  AddsNoCode
  <2>1. records' = records \/ \E k : ConsumeRecord(k)
    BY <1>8 DEF Deny, ExchangeCode, ConsumeRefresh
  <2> QED BY <1>1, <1>2, <2>1, ConsumeUsesRow
<1>9. ASSUME NEW p \in Process, ReplayRefresh(p) \/ RevokeToken(p) \/ RevokeRotated(p)
      PROVE  AddsNoCode
  <2>1. \E f : RevokeFamily(f)
    BY <1>9 DEF ReplayRefresh, RevokeToken, RevokeRotated
  <2> QED BY <1>1, <1>2, <2>1, RevokeMarksFamily
<1> QED BY <1>4, <1>5, <1>6, <1>7, <1>8, <1>9 DEF Next

\* Only approve answers.
LEMMA OnlyApproveAnswers ==
    [Next]_vars => answers' = answers \/ \E p \in Process : ApproveRead(p) \/ Deny(p) \/ Allow(p)
BY DEF Next, vars, Tick, Crash, Authorize, ExchangeCode, LoadRefresh, ReplayRefresh,
       ConsumeRefresh, RevokeRotated, PutAccess, PutRefresh, RevokeToken, observed

\* One more answer keeps the decisions when it is itself right.
LEMMA AnswerDecides ==
    ASSUME DecisionsInv, RowsKept, AddsNoCode, NEW q, NEW decision, NEW outcome,
           Respond(q, decision, outcome),
           outcome = "denied" => /\ ~Exists(<<"code", q>>)
                                 /\ <<"approval", q>> \in DOMAIN records'
                                 /\ records'[<<"approval", q>>].used,
           outcome = "code" => Exists(<<"code", q>>)
    PROVE  CodesWereAllowed' /\ DenialsAreUsed' /\ OneDecisionPerRequest'
<1> DEFINE answer == [request |-> q, decision |-> decision, outcome |-> outcome]
<1>1. /\ answers' = answers \union {answer}
      /\ answer.request = q /\ answer.outcome = outcome
  BY DEF Respond
<1> HIDE DEF answer
<1>2. CodesWereAllowed'
  BY DEF DecisionsInv, CodesWereAllowed, AddsNoCode, RowsKept, RowKept, Exists
<1>3. DenialsAreUsed'
  BY <1>1 DEF DecisionsInv, DenialsAreUsed, RowsKept, RowKept, Exists
<1>4. \A x : (Exists(<<"code", x>>) => Exists(<<"code", x>>)')
             /\ (Exists(<<"code", x>>)' => Exists(<<"code", x>>))
  BY DEF AddsNoCode, RowsKept, RowKept, Exists
<1>5. OneDecisionPerRequest'
  BY <1>1, <1>4 DEF DecisionsInv, OneDecisionPerRequest
<1> QED BY <1>2, <1>3, <1>5

\* A completion that is active is answered with a code that exists.
LEMMA CompletionHasCode ==
    ASSUME DecisionsInv, NEW q \in Request, IsActive(<<"approval_complete", q>>)
    PROVE  Exists(<<"code", q>>)
BY DEF DecisionsInv, CodesWereAllowed, IsActive

\* An active approval has neither a code nor a completion, and was not denied.
LEMMA ActiveIsUndecided ==
    ASSUME DecisionsInv, NEW q \in Request, IsActive(<<"approval", q>>)
    PROVE  /\ ~Exists(<<"code", q>>) /\ ~Exists(<<"approval_complete", q>>)
           /\ \A a \in answers : a.request = q => a.outcome # "denied"
BY DEF DecisionsInv, CodesWereAllowed, DenialsAreUsed, IsActive

LEMMA AllowDecides ==
    ASSUME DecisionsInv, RowsKept, NEW p \in Process, Allow(p)
    PROVE  CodesWereAllowed' /\ DenialsAreUsed' /\ OneDecisionPerRequest'
<1>q. PICK q : q = handler[p].request
  OBVIOUS
<1>1. TypeOK /\ StoreTypeOK /\ q \in Request /\ clock' = clock
  BY <1>q, HandlerFields DEF DecisionsInv, TypeInv, TypeOK, Allow
<1>2. CASE IsActive(<<"approval", q>>)
  <2>1. CompleteApproval(q, CodeLife, CompletionLife) /\ Respond(q, "allow", "code")
    BY <1>q, <1>2 DEF Allow
  <2>2. /\ DOMAIN records' = DOMAIN records \union {<<"code", q>>, <<"approval_complete", q>>}
        /\ <<"approval", q>> \in DOMAIN records /\ records'[<<"approval", q>>].used
    BY <1>1, <2>1, LifeAssumption, CompletionAddsRows
  <2>3. /\ ~Exists(<<"code", q>>) /\ ~Exists(<<"approval_complete", q>>)
        /\ \A a \in answers : a.request = q => a.outcome # "denied"
    BY <1>1, <1>2, ActiveIsUndecided
  <2>4. \A x : x # q => /\ Exists(<<"code", x>>)' = Exists(<<"code", x>>)
                        /\ Exists(<<"approval_complete", x>>)' = Exists(<<"approval_complete", x>>)
    BY <2>2 DEF Exists
  <2>5. <<"approval", q>> \in DOMAIN records' /\ <<"code", q>> \in DOMAIN records'
    BY <2>2
  <2>6. CodesWereAllowed'
    <3> SUFFICES ASSUME NEW x \in Request,
                        Exists(<<"code", x>>)' \/ Exists(<<"approval_complete", x>>)'
                 PROVE  /\ <<"approval", x>> \in DOMAIN records'
                        /\ records'[<<"approval", x>>].used
                        /\ <<"code", x>> \in DOMAIN records'
      BY DEF CodesWereAllowed, Exists
    <3>1. CASE x = q
      BY <2>2, <2>5, <3>1
    <3>2. CASE x # q
      BY <2>4, <3>2 DEF DecisionsInv, CodesWereAllowed, RowsKept, RowKept, Exists
    <3> QED BY <3>1, <3>2
  <2> DEFINE answer == [request |-> q, decision |-> "allow", outcome |-> "code"]
  <2>7. /\ answers' = answers \union {answer}
        /\ answer.request = q /\ answer.outcome = "code"
    BY <2>1 DEF Respond
  <2> HIDE DEF answer
  <2>8. DenialsAreUsed'
    BY <2>7 DEF DecisionsInv, DenialsAreUsed, RowsKept, RowKept, Exists
  <2>9. OneDecisionPerRequest'
    <3>1. \A a \in answers : a.outcome = "denied" => ~Exists(<<"code", a.request>>)'
      BY <2>3, <2>4 DEF DecisionsInv, OneDecisionPerRequest
    <3>2. \A a \in answers : a.outcome = "code" => Exists(<<"code", a.request>>)'
      BY DEF DecisionsInv, OneDecisionPerRequest, RowsKept, RowKept, Exists
    <3>3. Exists(<<"code", q>>)'
      BY <2>5 DEF Exists
    <3> QED BY <2>7, <3>1, <3>2, <3>3 DEF OneDecisionPerRequest
  <2> QED BY <2>6, <2>8, <2>9
<1>3. CASE ~IsActive(<<"approval", q>>)
  <2> DEFINE outcome == IF IsActive(<<"approval_complete", q>>) THEN "code" ELSE "error"
  <2>1. records' = records /\ Respond(q, "allow", outcome)
    BY <1>q, <1>3 DEF Allow
  <2>2. AddsNoCode
    BY <2>1 DEF AddsNoCode, Exists
  <2>3. outcome # "denied" /\ (outcome = "code" => Exists(<<"code", q>>))
    BY <1>1, CompletionHasCode
  <2> HIDE DEF outcome
  <2> QED BY <2>1, <2>2, <2>3, AnswerDecides
<1> QED BY <1>2, <1>3

LEMMA DecisionsStep == DecisionsInv /\ [Next]_vars => DecisionsInv'
<1> SUFFICES ASSUME DecisionsInv, [Next]_vars
             PROVE  CodesWereAllowed' /\ DenialsAreUsed' /\ OneDecisionPerRequest'
  BY TypesStep DEF DecisionsInv
<1>1. TypeInv /\ TypeOK /\ StoreTypeOK /\ RowsKept
  BY TypesStep DEF DecisionsInv, TypeInv, TypeOK
<1>2. CASE \E p \in Process : Allow(p)
  BY <1>1, <1>2, AllowDecides
<1>3. CASE ~\E p \in Process : Allow(p)
  <2>1. AddsNoCode
    BY <1>1, <1>3, OnlyAllowAddsCodes
  <2>2. CASE answers' = answers
    <3>1. CodesWereAllowed'
      BY <1>1, <2>1 DEF DecisionsInv, CodesWereAllowed, AddsNoCode, RowsKept, RowKept, Exists
    <3>2. DenialsAreUsed'
      BY <1>1, <2>2 DEF DecisionsInv, DenialsAreUsed, RowsKept, RowKept, Exists
    <3>3. OneDecisionPerRequest'
      BY <1>1, <2>1, <2>2
         DEF DecisionsInv, OneDecisionPerRequest, AddsNoCode, RowsKept, RowKept, Exists
    <3> QED BY <3>1, <3>2, <3>3
  <2>3. ASSUME NEW p \in Process, ApproveRead(p), answers' # answers
        PROVE  CodesWereAllowed' /\ DenialsAreUsed' /\ OneDecisionPerRequest'
    <3>1. PICK q \in Request, decision \in {"allow", "deny"} :
              Respond(q, decision, IF IsActive(<<"approval_complete", q>>)
                                   THEN "code" ELSE "error")
      BY <2>3 DEF ApproveRead
    <3> DEFINE outcome == IF IsActive(<<"approval_complete", q>>) THEN "code" ELSE "error"
    <3>2. outcome # "denied" /\ (outcome = "code" => Exists(<<"code", q>>))
      BY CompletionHasCode
    <3>3. Respond(q, decision, outcome)
      BY <3>1
    <3> HIDE DEF outcome
    <3> QED BY <1>1, <2>1, <3>2, <3>3, AnswerDecides
  <2>4. ASSUME NEW p \in Process, Deny(p)
        PROVE  CodesWereAllowed' /\ DenialsAreUsed' /\ OneDecisionPerRequest'
    <3> DEFINE q == handler[p].request
    <3>1. q \in Request
      BY <1>1, <2>4, HandlerFields DEF Deny
    <3>2. CASE IsActive(<<"approval", q>>)
      <4>1. ConsumeRecord(<<"approval", q>>) /\ Respond(q, "deny", "denied")
        BY <2>4, <3>2 DEF Deny
      <4>2. /\ <<"approval", q>> \in DOMAIN records' /\ records'[<<"approval", q>>].used
            /\ ~Exists(<<"code", q>>)
        BY <1>1, <3>1, <3>2, <4>1, ConsumeUsesRow, ActiveIsUndecided
      <4> HIDE DEF q
      <4> QED BY <1>1, <2>1, <4>1, <4>2, AnswerDecides
    <3>3. CASE ~IsActive(<<"approval", q>>)
      <4>1. Respond(q, "deny", "error")
        BY <2>4, <3>3 DEF Deny
      <4> HIDE DEF q
      <4> QED BY <1>1, <2>1, <4>1, AnswerDecides
    <3> QED BY <3>2, <3>3
  <2> QED BY <1>3, <2>2, <2>3, <2>4, OnlyApproveAnswers
<1> QED BY <1>2, <1>3

\* Forms that are repeated, contradict each other, or fall on both sides of a crash
\* decide a request once: a denied one never has a code, an allowed one always.
THEOREM DecisionsHold == Spec => []OneDecisionPerRequest
<1>1. Init => DecisionsInv
  BY TypesInitially
     DEF Init, StoreInit, DecisionsInv, CodesWereAllowed, DenialsAreUsed, OneDecisionPerRequest,
         Exists
<1>2. Spec => []DecisionsInv
  BY <1>1, DecisionsStep, PTL DEF Spec
<1> QED BY <1>2, PTL DEF DecisionsInv

-----------------------------------------------------------------------------
(* One holder per family: a refresh token that can still be rotated, or a  *)
(* handler that is issuing the next pair, and never two of either          *)

\* A refresh token of f that was neither used nor revoked.
Spare(t, f) == /\ Exists(<<"refresh", t>>) /\ records[<<"refresh", t>>].family = f
               /\ ~records[<<"refresh", t>>].used /\ ~records[<<"refresh", t>>].revoked

\* An access token of f that was not revoked.
Usable(t, f) == /\ Exists(<<"access", t>>) /\ records[<<"access", t>>].family = f
                /\ ~records[<<"access", t>>].revoked

\* The handler that adds the next access token of f has revoked all there were.
AddsAccess(p, f) == At(p, "putAccess") /\ handler[p].family = f

OneHolder ==
    \A f \in Family :
        /\ \A p, o \in Process : Issues(p, f) /\ Issues(o, f) => p = o
        /\ \A t, u \in Token : Spare(t, f) /\ Spare(u, f) => t = u
        /\ \A p \in Process, t \in Token : Issues(p, f) => ~Spare(t, f)
        /\ \A t, u \in Token : Usable(t, f) /\ Usable(u, f) => t = u
        /\ \A p \in Process, t \in Token : AddsAccess(p, f) => ~Usable(t, f)

HoldersInv == TypeInv /\ OneHolder

\* A step that gives a family neither a token nor a handler.
HandlersGainNothing ==
    \A f \in Family, p \in Process :
        /\ Issues(p, f)' => Issues(p, f)
        /\ AddsAccess(p, f)' => AddsAccess(p, f)
TokensGainNothing ==
    \A f \in Family, t \in Token :
        /\ Spare(t, f)' => Spare(t, f)
        /\ Usable(t, f)' => Usable(t, f)
NothingGained == HandlersGainNothing /\ TokensGainNothing

LEMMA NothingGainedHolds ==
    ASSUME OneHolder, NothingGained PROVE OneHolder'
<1> SUFFICES ASSUME NEW f \in Family
             PROVE  /\ \A p, o \in Process : Issues(p, f)' /\ Issues(o, f)' => p = o
                    /\ \A t, u \in Token : Spare(t, f)' /\ Spare(u, f)' => t = u
                    /\ \A p \in Process, t \in Token : Issues(p, f)' => ~Spare(t, f)'
                    /\ \A t, u \in Token : Usable(t, f)' /\ Usable(u, f)' => t = u
                    /\ \A p \in Process, t \in Token : AddsAccess(p, f)' => ~Usable(t, f)'
  BY DEF OneHolder
<1>1. /\ \A p \in Process : /\ Issues(p, f)' => Issues(p, f)
                            /\ AddsAccess(p, f)' => AddsAccess(p, f)
      /\ \A t \in Token : /\ Spare(t, f)' => Spare(t, f)
                          /\ Usable(t, f)' => Usable(t, f)
  BY DEF NothingGained, HandlersGainNothing, TokensGainNothing
<1>2. /\ \A p, o \in Process : Issues(p, f) /\ Issues(o, f) => p = o
      /\ \A t, u \in Token : Spare(t, f) /\ Spare(u, f) => t = u
      /\ \A p \in Process, t \in Token : Issues(p, f) => ~Spare(t, f)
      /\ \A t, u \in Token : Usable(t, f) /\ Usable(u, f) => t = u
      /\ \A p \in Process, t \in Token : AddsAccess(p, f) => ~Usable(t, f)
  BY DEF OneHolder
<1> QED BY <1>1, <1>2

\* Tokens of a step that adds no row of a token.
LEMMA NoTokenGained ==
    ASSUME TypeInv, RowsKept,
           \A k \in DOMAIN records' : k[1] \in TokenKinds => k \in DOMAIN records
    PROVE  TokensGainNothing
<1>2. \A t : <<"refresh", t>>[1] \in TokenKinds /\ <<"access", t>>[1] \in TokenKinds
  BY DEF TokenKinds
<1>3. \A t : /\ <<"refresh", t>> \in DOMAIN records' => <<"refresh", t>> \in DOMAIN records
             /\ <<"access", t>> \in DOMAIN records' => <<"access", t>> \in DOMAIN records
  BY <1>2
<1> QED BY <1>3 DEF TokensGainNothing, RowsKept, RowKept, Spare, Usable, Exists

\* A handler that goes where it issues nothing more.
LEMMA NoHandlerGained ==
    ASSUME TypeInv, NEW p \in Process,
           NEW h \in {Idle} \union Deciding \union Rotating, Goto(p, h)
    PROVE  HandlersGainNothing
<1>1. handler'[p] = h /\ \A o \in Process : o # p => handler'[o] = handler[o]
  BY GotoTyped DEF TypeInv
<1>2. h.op \notin IssueOps /\ h.op # "putAccess"
  BY DEF Idle, Deciding, Rotating, IssueOps
<1> QED BY <1>1, <1>2 DEF HandlersGainNothing, Issues, AddsAccess, At

LEMMA SameHandlerGains ==
    ASSUME handler' = handler
    PROVE  HandlersGainNothing
BY DEF HandlersGainNothing, Issues, AddsAccess, At

\* Nearly every action gains a family nothing.
LEMMA OrdinaryGains ==
    ASSUME TypeInv, RowsKept,
           Tick \/ UNCHANGED vars
           \/ \E p \in Process : \/ Crash(p) \/ Authorize(p) \/ ApproveRead(p) \/ Deny(p)
                                \/ Allow(p) \/ LoadRefresh(p) \/ ReplayRefresh(p)
                                \/ RevokeToken(p)
    PROVE  NothingGained
<1>1. TypeOK /\ StoreTypeOK
  BY DEF TypeInv, TypeOK
<1>2. ASSUME DOMAIN records' = DOMAIN records
      PROVE  TokensGainNothing
  BY <1>2, NoTokenGained
<1>3. CASE Tick \/ UNCHANGED vars
  BY <1>2, <1>3, SameHandlerGains DEF Tick, vars, NothingGained
<1>4. ASSUME NEW p \in Process, Crash(p) PROVE NothingGained
  BY <1>2, <1>4, NoHandlerGained DEF Crash, storeVars, NothingGained
<1>5. ASSUME NEW p \in Process, Authorize(p) PROVE NothingGained
  <2>1. PICK q, row : PutRecord(<<"approval", q>>, row)
    BY <1>5 DEF Authorize
  <2>2. <<"approval", q>>[1] \notin TokenKinds
    BY DEF TokenKinds
  <2>3. \A k \in DOMAIN records' : k[1] \in TokenKinds => k \in DOMAIN records
    <3>1. DOMAIN records' = DOMAIN records \union {<<"approval", q>>}
      BY <2>1, PutAddsRow
    <3> QED BY <2>2, <3>1
  <2> QED BY <1>5, <2>3, NoTokenGained, SameHandlerGains DEF Authorize, NothingGained
<1>6. ASSUME NEW p \in Process, ApproveRead(p) PROVE NothingGained
  <2>1. handler' = handler \/ \E h \in Deciding : Goto(p, h)
    <3>1. PICK q \in Request, decision \in {"allow", "deny"} :
              handler' = handler
              \/ Goto(p, [op |-> "decide", request |-> q, decision |-> decision])
      BY <1>6 DEF ApproveRead
    <3>2. [op |-> "decide", request |-> q, decision |-> decision] \in Deciding
      BY DEF Deciding
    <3> QED BY <3>1, <3>2
  <2>2. records' = records
    BY <1>6 DEF ApproveRead, storeVars
  <2> QED BY <1>2, <2>1, <2>2, NoHandlerGained, SameHandlerGains DEF NothingGained
<1>7. ASSUME NEW p \in Process, Deny(p) PROVE NothingGained
  <2>1. records' = records \/ \E k : ConsumeRecord(k)
    BY <1>7 DEF Deny
  <2> QED BY <1>1, <1>2, <1>7, <2>1, ConsumeUsesRow, NoHandlerGained DEF Deny, NothingGained
<1>8. ASSUME NEW p \in Process, Allow(p) PROVE NothingGained
  <2>1. PICK q \in Request : records' = records \/ CompleteApproval(q, CodeLife, CompletionLife)
    BY <1>1, <1>8, HandlerFields DEF Allow
  <2>2. DOMAIN records' \subseteq DOMAIN records \union {<<"code", q>>, <<"approval_complete", q>>}
    BY <1>1, <1>8, <2>1, LifeAssumption, CompletionAddsRows DEF Allow
  <2>3. <<"code", q>>[1] \notin TokenKinds /\ <<"approval_complete", q>>[1] \notin TokenKinds
    BY DEF TokenKinds
  <2>4. \A k \in DOMAIN records' : k[1] \in TokenKinds => k \in DOMAIN records
    BY <2>2, <2>3
  <2> QED BY <1>8, <2>4, NoTokenGained, NoHandlerGained DEF Allow, NothingGained
<1>9. ASSUME NEW p \in Process, LoadRefresh(p) PROVE NothingGained
  <2>1. PICK t \in Token :
           /\ IsActive(<<"refresh", t>>)
           /\ Goto(p, [op |-> "rotate", client |-> records[<<"refresh", t>>].client, token |-> t])
    BY <1>9 DEF LoadRefresh
  <2>2. records[<<"refresh", t>>].client \in Client
    BY <1>1, <2>1, RowFields DEF IsActive, Exists
  <2>3. [op |-> "rotate", client |-> records[<<"refresh", t>>].client, token |-> t] \in Rotating
    BY <2>2 DEF Rotating
  <2>4. records' = records
    BY <1>9 DEF LoadRefresh, storeVars
  <2> QED BY <1>2, <2>1, <2>3, <2>4, NoHandlerGained DEF NothingGained
<1>10. ASSUME NEW p \in Process, ReplayRefresh(p) \/ RevokeToken(p) PROVE NothingGained
  <2>1. (\E f : RevokeFamily(f)) /\ handler' = handler
    BY <1>10 DEF ReplayRefresh, RevokeToken
  <2> QED BY <1>1, <1>2, <2>1, RevokeMarksFamily, SameHandlerGains DEF NothingGained
<1> QED BY <1>3, <1>4, <1>5, <1>6, <1>7, <1>8, <1>9, <1>10

\* exchange_authorization_code: the new family has its founder and no token yet.
LEMMA ExchangeCodeHolds ==
    ASSUME HoldersInv, RowsKept, NEW p \in Process, ExchangeCode(p)
    PROVE  OneHolder'
<1>1. PICK q \in Request, g \in Family \ DOMAIN origin :
         /\ ConsumeRecord(<<"code", q>>)
         /\ Goto(p, [op |-> "putAccess", client |-> records[<<"code", q>>].client, family |-> g])
  BY DEF ExchangeCode
<1>2. TypeInv /\ TypeOK /\ StoreTypeOK /\ OneHolder
  BY DEF HoldersInv, TypeInv, TypeOK
<1>3. DOMAIN records' = DOMAIN records
  BY <1>1, <1>2, ConsumeUsesRow
<1>4. TokensGainNothing
  BY <1>2, <1>3, NoTokenGained
<1>5. /\ handler'[p].op = "putAccess" /\ handler'[p].family = g
      /\ \A o \in Process : o # p => handler'[o] = handler[o]
  <2> DEFINE h == [op |-> "putAccess", client |-> records[<<"code", q>>].client, family |-> g]
  <2>1. h.op = "putAccess" /\ h.family = g /\ Goto(p, h)
    BY <1>1
  <2> HIDE DEF h
  <2> QED BY <1>2, <2>1 DEF Goto, TypeOK
<1>6. \A t \in Token : ~Spare(t, g) /\ ~Usable(t, g)
  BY <1>2, TokenFamily DEF Spare, Usable, Exists, TokenKinds
<1>7. \A o \in Process : ~Issues(o, g)
  BY <1>2 DEF TypeInv, FamiliesAreFounded, Issues
<1>8. \A t \in Token : ~Spare(t, g)' /\ ~Usable(t, g)'
  BY <1>4, <1>6 DEF TokensGainNothing
<1>9. \A o \in Process : Issues(o, g)' => o = p
  BY <1>5, <1>7 DEF Issues
<1>10. \A f \in Family, o \in Process : f # g =>
          (Issues(o, f)' => Issues(o, f)) /\ (AddsAccess(o, f)' => AddsAccess(o, f))
  BY <1>5 DEF Issues, AddsAccess, At
<1> SUFFICES ASSUME NEW f \in Family
             PROVE  /\ \A o, v \in Process : Issues(o, f)' /\ Issues(v, f)' => o = v
                    /\ \A t, u \in Token : Spare(t, f)' /\ Spare(u, f)' => t = u
                    /\ \A o \in Process, t \in Token : Issues(o, f)' => ~Spare(t, f)'
                    /\ \A t, u \in Token : Usable(t, f)' /\ Usable(u, f)' => t = u
                    /\ \A o \in Process, t \in Token : AddsAccess(o, f)' => ~Usable(t, f)'
  BY DEF OneHolder
<1>11. CASE f = g
  BY <1>8, <1>9, <1>11
<1>12. CASE f # g
  BY <1>2, <1>4, <1>10, <1>12 DEF OneHolder, TokensGainNothing
<1> QED BY <1>11, <1>12

\* exchange_refresh_token, consume_record: the handler takes the token's place.
LEMMA ConsumeRefreshHolds ==
    ASSUME HoldersInv, RowsKept, NEW p \in Process, ConsumeRefresh(p)
    PROVE  OneHolder'
<1>1. TypeInv /\ TypeOK /\ StoreTypeOK /\ OneHolder /\ At(p, "rotate")
  BY DEF HoldersInv, TypeInv, TypeOK, ConsumeRefresh
<1>2. PICK t0 \in Token : t0 = handler[p].token
  BY <1>1, HandlerFields
<1>3. CASE ~IsActive(<<"refresh", t0>>)
  <2>1. records' = records /\ Goto(p, Idle)
    BY <1>2, <1>3 DEF ConsumeRefresh
  <2> QED BY <1>1, <2>1, NoTokenGained, NoHandlerGained, NothingGainedHolds DEF NothingGained
<1>4. CASE IsActive(<<"refresh", t0>>)
  <2>1. PICK g : g = records[<<"refresh", t0>>].family
    OBVIOUS
  <2>2. /\ ConsumeRecord(<<"refresh", t0>>)
        /\ Goto(p, [op |-> "revokeFamily", client |-> handler[p].client, family |-> g])
    BY <1>2, <1>4, <2>1 DEF ConsumeRefresh
  <2>3. /\ DOMAIN records' = DOMAIN records /\ records'[<<"refresh", t0>>].used
        /\ Spare(t0, g)
    BY <1>1, <2>1, <2>2, ConsumeUsesRow DEF Spare, Exists
  <2>4. TokensGainNothing
    BY <1>1, <2>3, NoTokenGained
  <2>5. ~Spare(t0, g)'
    BY <2>3 DEF Spare
  <2>6. /\ handler'[p].op = "revokeFamily" /\ handler'[p].family = g
        /\ \A o \in Process : o # p => handler'[o] = handler[o]
    <3> DEFINE h == [op |-> "revokeFamily", client |-> handler[p].client, family |-> g]
    <3>1. h.op = "revokeFamily" /\ h.family = g /\ Goto(p, h)
      BY <2>2
    <3> HIDE DEF h
    <3> QED BY <1>1, <3>1 DEF Goto, TypeOK
  <2>7. g \in Family
    BY <1>1, <2>1, <2>3, TokenFamily DEF Spare, Exists, TokenKinds
  <2>8. \A o \in Process : ~Issues(o, g)
    BY <1>1, <2>3, <2>7 DEF OneHolder
  <2>9. \A o \in Process : Issues(o, g)' => o = p
    BY <2>6, <2>8 DEF Issues
  <2>10. \A t \in Token : ~Spare(t, g)'
    BY <1>1, <2>3, <2>4, <2>5, <2>7 DEF OneHolder, TokensGainNothing
  <2>11. \A f \in Family, o \in Process : f # g => (Issues(o, f)' => Issues(o, f))
    BY <2>6 DEF Issues
  <2>12. \A f \in Family, o \in Process : AddsAccess(o, f)' => AddsAccess(o, f)
    BY <2>6 DEF AddsAccess, At
  <2> SUFFICES ASSUME NEW f \in Family
               PROVE  /\ \A o, v \in Process : Issues(o, f)' /\ Issues(v, f)' => o = v
                      /\ \A t, u \in Token : Spare(t, f)' /\ Spare(u, f)' => t = u
                      /\ \A o \in Process, t \in Token : Issues(o, f)' => ~Spare(t, f)'
                      /\ \A t, u \in Token : Usable(t, f)' /\ Usable(u, f)' => t = u
                      /\ \A o \in Process, t \in Token : AddsAccess(o, f)' => ~Usable(t, f)'
    BY DEF OneHolder
  <2>13. CASE f = g
    BY <1>1, <2>4, <2>9, <2>10, <2>12, <2>13 DEF OneHolder, TokensGainNothing
  <2>14. CASE f # g
    BY <1>1, <2>4, <2>11, <2>12, <2>14 DEF OneHolder, TokensGainNothing
  <2> QED BY <2>13, <2>14
<1> QED BY <1>3, <1>4

\* exchange_refresh_token, revoke_family: the family has no access token left.
LEMMA RevokeRotatedHolds ==
    ASSUME HoldersInv, RowsKept, NEW p \in Process, RevokeRotated(p)
    PROVE  OneHolder'
<1>1. TypeInv /\ TypeOK /\ StoreTypeOK /\ OneHolder
  BY DEF HoldersInv, TypeInv, TypeOK
<1>2. PICK g \in Family : g = handler[p].family
  BY <1>1, HandlerFields DEF RevokeRotated, At, IssueOps
<1>3. /\ RevokeFamily(g) /\ Issues(p, g)
      /\ Goto(p, [handler[p] EXCEPT !.op = "putAccess"])
  BY <1>2 DEF RevokeRotated, Issues, At, IssueOps
<1>4. DOMAIN records' = DOMAIN records
  BY <1>1, <1>3, RevokeMarksFamily
<1>5. TokensGainNothing
  BY <1>1, <1>4, NoTokenGained
<1>6. \A t \in Token : ~Usable(t, g)'
  BY <1>1, <1>3, RevokeMarksFamily DEF Usable, Exists
<1>7. /\ handler'[p].op = "putAccess" /\ handler'[p].family = g
      /\ \A o \in Process : o # p => handler'[o] = handler[o]
  <2> DEFINE h == [handler[p] EXCEPT !.op = "putAccess"]
  <2>1. handler[p] \in Issuing
    BY <1>1, <1>3, HandlerFields DEF Issues
  <2>2. h.op = "putAccess" /\ h.family = g /\ Goto(p, h)
    BY <1>2, <1>3, <2>1 DEF Issuing
  <2> HIDE DEF h
  <2> QED BY <1>1, <2>2 DEF Goto, TypeOK
<1>8. \A f \in Family, o \in Process : Issues(o, f)' => Issues(o, f)
  BY <1>3, <1>7 DEF Issues
<1>9. \A f \in Family, o \in Process : f # g => (AddsAccess(o, f)' => AddsAccess(o, f))
  BY <1>7 DEF AddsAccess, At
<1> SUFFICES ASSUME NEW f \in Family
             PROVE  /\ \A o, v \in Process : Issues(o, f)' /\ Issues(v, f)' => o = v
                    /\ \A t, u \in Token : Spare(t, f)' /\ Spare(u, f)' => t = u
                    /\ \A o \in Process, t \in Token : Issues(o, f)' => ~Spare(t, f)'
                    /\ \A t, u \in Token : Usable(t, f)' /\ Usable(u, f)' => t = u
                    /\ \A o \in Process, t \in Token : AddsAccess(o, f)' => ~Usable(t, f)'
  BY DEF OneHolder
<1>10. CASE f = g
  BY <1>1, <1>5, <1>6, <1>8, <1>10 DEF OneHolder, TokensGainNothing
<1>11. CASE f # g
  BY <1>1, <1>5, <1>8, <1>9, <1>11 DEF OneHolder, TokensGainNothing
<1> QED BY <1>10, <1>11

\* _issue_tokens: the access token takes the place of those that were revoked.
LEMMA PutAccessHolds ==
    ASSUME HoldersInv, RowsKept, NEW p \in Process, PutAccess(p)
    PROVE  OneHolder'
<1>1. TypeInv /\ TypeOK /\ StoreTypeOK /\ OneHolder
  BY DEF HoldersInv, TypeInv, TypeOK
<1>2. PICK g \in Family : g = handler[p].family
  BY <1>1, HandlerFields DEF PutAccess, At, IssueOps
<1>3. /\ Issues(p, g) /\ AddsAccess(p, g)
      /\ Goto(p, [handler[p] EXCEPT !.op = "putRefresh"])
  BY <1>2 DEF PutAccess, Issues, AddsAccess, At, IssueOps
<1>4. PICK t0, row : t0 \in Token /\ PutRecord(<<"access", t0>>, row) /\ row.family = g
  <2>1. PICK t0 \in Token : PutRecord(<<"access", t0>>, NewRow(handler[p].client, AccessLife, g))
    BY <1>2 DEF PutAccess
  <2>2. NewRow(handler[p].client, AccessLife, g).family = g
    BY DEF NewRow
  <2> QED BY <2>1, <2>2
<1>5. /\ DOMAIN records' = DOMAIN records \union {<<"access", t0>>}
      /\ records'[<<"access", t0>>].family = g
      /\ \A x \in DOMAIN records : records'[x] = records[x]
  BY <1>4, PutAddsRow
<1>6. \A f, t : Spare(t, f)' => Spare(t, f)
  <2>1. \A t : <<"refresh", t>> # <<"access", t0>>
    OBVIOUS
  <2> QED BY <1>5, <2>1 DEF Spare, Exists
<1>7. \A f, t : Usable(t, f)' => Usable(t, f) \/ (t = t0 /\ f = g)
  <2>1. \A t : <<"access", t>> = <<"access", t0>> => t = t0
    OBVIOUS
  <2> QED BY <1>5, <2>1 DEF Usable, Exists
<1>8. \A t \in Token : ~Usable(t, g)
  BY <1>1, <1>3 DEF OneHolder
<1>9. /\ handler'[p].op = "putRefresh" /\ handler'[p].family = g
      /\ \A o \in Process : o # p => handler'[o] = handler[o]
  <2> DEFINE h == [handler[p] EXCEPT !.op = "putRefresh"]
  <2>1. handler[p] \in Issuing
    BY <1>1, <1>3, HandlerFields DEF Issues
  <2>2. h.op = "putRefresh" /\ h.family = g /\ Goto(p, h)
    BY <1>2, <1>3, <2>1 DEF Issuing
  <2> HIDE DEF h
  <2> QED BY <1>1, <2>2 DEF Goto, TypeOK
<1>10. \A f \in Family, o \in Process : Issues(o, f)' => Issues(o, f)
  BY <1>3, <1>9 DEF Issues
<1>11. \A f \in Family, o \in Process : AddsAccess(o, f)' => AddsAccess(o, f) /\ o # p
  BY <1>9 DEF AddsAccess, At
<1>12. \A o \in Process : ~AddsAccess(o, g)'
  <2>1. \A o \in Process : AddsAccess(o, g) => Issues(o, g)
    BY DEF AddsAccess, Issues, At, IssueOps
  <2> QED BY <1>1, <1>3, <1>11, <2>1 DEF OneHolder
<1> SUFFICES ASSUME NEW f \in Family
             PROVE  /\ \A o, v \in Process : Issues(o, f)' /\ Issues(v, f)' => o = v
                    /\ \A t, u \in Token : Spare(t, f)' /\ Spare(u, f)' => t = u
                    /\ \A o \in Process, t \in Token : Issues(o, f)' => ~Spare(t, f)'
                    /\ \A t, u \in Token : Usable(t, f)' /\ Usable(u, f)' => t = u
                    /\ \A o \in Process, t \in Token : AddsAccess(o, f)' => ~Usable(t, f)'
  BY DEF OneHolder
<1>13. CASE f = g
  BY <1>1, <1>6, <1>7, <1>8, <1>10, <1>12, <1>13 DEF OneHolder
<1>14. CASE f # g
  BY <1>1, <1>6, <1>7, <1>10, <1>11, <1>14 DEF OneHolder
<1> QED BY <1>13, <1>14

\* _issue_tokens: the refresh token takes the handler's place.
LEMMA PutRefreshHolds ==
    ASSUME HoldersInv, RowsKept, NEW p \in Process, PutRefresh(p)
    PROVE  OneHolder'
<1>1. TypeInv /\ TypeOK /\ StoreTypeOK /\ OneHolder
  BY DEF HoldersInv, TypeInv, TypeOK
<1>2. PICK g \in Family : g = handler[p].family
  BY <1>1, HandlerFields DEF PutRefresh, At, IssueOps
<1>3. Issues(p, g) /\ Goto(p, Idle)
  BY <1>2 DEF PutRefresh, Issues, At, IssueOps
<1>4. PICK t0, row : t0 \in Token /\ PutRecord(<<"refresh", t0>>, row) /\ row.family = g
  <2>1. PICK t0 \in Token : PutRecord(<<"refresh", t0>>, NewRow(handler[p].client, RefreshLife, g))
    BY <1>2 DEF PutRefresh
  <2>2. NewRow(handler[p].client, RefreshLife, g).family = g
    BY DEF NewRow
  <2> QED BY <2>1, <2>2
<1>5. /\ DOMAIN records' = DOMAIN records \union {<<"refresh", t0>>}
      /\ records'[<<"refresh", t0>>].family = g
      /\ \A x \in DOMAIN records : records'[x] = records[x]
  BY <1>4, PutAddsRow
<1>6. \A f, t : Usable(t, f)' => Usable(t, f)
  <2>1. \A t : <<"access", t>> # <<"refresh", t0>>
    OBVIOUS
  <2> QED BY <1>5, <2>1 DEF Usable, Exists
<1>7. \A f, t : Spare(t, f)' => Spare(t, f) \/ (t = t0 /\ f = g)
  <2>1. \A t : <<"refresh", t>> = <<"refresh", t0>> => t = t0
    OBVIOUS
  <2> QED BY <1>5, <2>1 DEF Spare, Exists
<1>8. \A t \in Token : ~Spare(t, g)
  BY <1>1, <1>3 DEF OneHolder
<1>9. HandlersGainNothing
  BY <1>1, <1>3, NoHandlerGained
<1>10. handler'[p] = Idle /\ \A o \in Process : o # p => handler'[o] = handler[o]
  BY <1>1, <1>3, IdleTyped, GotoTyped
<1>11. \A o \in Process : ~Issues(o, g)'
  <2>1. ~Issues(p, g)'
    BY <1>10, IdleTyped DEF Issues
  <2>2. \A o \in Process : Issues(o, g) => o = p
    BY <1>1, <1>3 DEF OneHolder
  <2> QED BY <1>9, <2>1, <2>2 DEF HandlersGainNothing
<1> SUFFICES ASSUME NEW f \in Family
             PROVE  /\ \A o, v \in Process : Issues(o, f)' /\ Issues(v, f)' => o = v
                    /\ \A t, u \in Token : Spare(t, f)' /\ Spare(u, f)' => t = u
                    /\ \A o \in Process, t \in Token : Issues(o, f)' => ~Spare(t, f)'
                    /\ \A t, u \in Token : Usable(t, f)' /\ Usable(u, f)' => t = u
                    /\ \A o \in Process, t \in Token : AddsAccess(o, f)' => ~Usable(t, f)'
  BY DEF OneHolder
<1>12. CASE f = g
  BY <1>1, <1>6, <1>7, <1>8, <1>9, <1>11, <1>12 DEF OneHolder, HandlersGainNothing
<1>13. CASE f # g
  BY <1>1, <1>6, <1>7, <1>9, <1>13 DEF OneHolder, HandlersGainNothing
<1> QED BY <1>12, <1>13

LEMMA HoldersStep == HoldersInv /\ [Next]_vars => HoldersInv'
<1> SUFFICES ASSUME HoldersInv, [Next]_vars PROVE OneHolder'
  BY TypesStep DEF HoldersInv
<1>1. TypeInv /\ OneHolder /\ RowsKept
  BY TypesStep DEF HoldersInv
<1>2. CASE NothingGained
  BY <1>1, <1>2, NothingGainedHolds
<1>3. ASSUME NEW p \in Process,
             \/ ExchangeCode(p) \/ ConsumeRefresh(p) \/ RevokeRotated(p)
             \/ PutAccess(p) \/ PutRefresh(p)
      PROVE  OneHolder'
  BY <1>1, <1>3, ExchangeCodeHolds, ConsumeRefreshHolds, RevokeRotatedHolds, PutAccessHolds,
     PutRefreshHolds
<1> QED BY <1>1, <1>2, <1>3, OrdinaryGains DEF Next

\* Of two tokens that are accepted, each is usable or spare.
LEMMA LiveTokensAreHeld ==
    ASSUME OneHolder, NEW f \in Family, NEW kind \in {"access", "refresh"}
    PROVE  \A t, u \in LiveTokens(kind, f) : t = u
<1>1. CASE kind = "access"
  <2>1. \A t \in LiveTokens(kind, f) : t \in Token /\ Usable(t, f)
    BY <1>1 DEF LiveTokens, Usable, IsActive
  <2> QED BY <2>1 DEF OneHolder
<1>2. CASE kind = "refresh"
  <2>1. \A t \in LiveTokens(kind, f) : t \in Token /\ Spare(t, f)
    BY <1>2 DEF LiveTokens, Spare, IsActive
  <2> QED BY <2>1 DEF OneHolder
<1> QED BY <1>1, <1>2

LEMMA HoldersInitially == Init => HoldersInv
BY TypesInitially, IdleTyped
   DEF Init, StoreInit, HoldersInv, OneHolder, Issues, AddsAccess, At, Spare, Usable, Exists, Idle,
       IssueOps

LEMMA HoldersInvariant == Spec => []HoldersInv
BY HoldersInitially, HoldersStep, PTL DEF Spec

\* Rotation in separate transactions, by processes that overlap and crash anywhere,
\* never leaves a family two tokens of a kind that are both accepted.
THEOREM OneLiveTokenHolds == Spec => []OneLiveTokenOfAKind
<1>1. HoldersInv => OneLiveTokenOfAKind
  <2> SUFFICES ASSUME HoldersInv, NEW f \in Family, NEW kind \in {"access", "refresh"}
               PROVE  Cardinality(LiveTokens(kind, f)) <= 1
    BY DEF OneLiveTokenOfAKind
  <2>1. \A t, u \in LiveTokens(kind, f) : t = u
    BY LiveTokensAreHeld DEF HoldersInv
  <2>2. LiveTokens(kind, f) = {} \/ \E t : LiveTokens(kind, f) = {t}
    BY <2>1
  <2>3. CASE LiveTokens(kind, f) = {}
    <3>1. Cardinality(LiveTokens(kind, f)) = 0
      BY <2>3, FS_EmptySet
    <3> QED BY <3>1
  <2>4. ASSUME NEW t, LiveTokens(kind, f) = {t} PROVE Cardinality(LiveTokens(kind, f)) <= 1
    <3>1. Cardinality({t}) = 1
      BY FS_Singleton
    <3> QED BY <2>4, <3>1
  <2> QED BY <2>2, <2>3, <2>4
<1> QED BY <1>1, HoldersInvariant, PTL
-----------------------------------------------------------------------------
(* A session is ended only with its family                                 *)

OwnersInv == HoldersInv /\ UnusedTokenIsRevokedOnlyWithItsFamily

\* Refresh token t is revoked, and was never rotated.
RevokedUnused(t) == /\ Exists(<<"refresh", t>>)
                    /\ records[<<"refresh", t>>].revoked /\ ~records[<<"refresh", t>>].used

\* What a step has to show: the tokens it revokes are of a family it ends.
LEMMA OwnersFrom ==
    ASSUME UnusedTokenIsRevokedOnlyWithItsFamily, RowsKept, dead \subseteq dead',
           \A t \in Token : RevokedUnused(t)' =>
              RevokedUnused(t) \/ records'[<<"refresh", t>>].family \in dead'
    PROVE  UnusedTokenIsRevokedOnlyWithItsFamily'
<1>1. \A t \in Token : RevokedUnused(t) =>
          /\ records[<<"refresh", t>>].family \in dead
          /\ records'[<<"refresh", t>>].family = records[<<"refresh", t>>].family
  BY DEF UnusedTokenIsRevokedOnlyWithItsFamily, RevokedUnused, Exists, RowsKept, RowKept
<1>2. \A t \in Token : RevokedUnused(t)' => records'[<<"refresh", t>>].family \in dead'
  BY <1>1
<1> QED BY <1>2 DEF UnusedTokenIsRevokedOnlyWithItsFamily, RevokedUnused, Exists

\* put_record and consume_record revoke nothing.
LEMMA PutRevokesNothing ==
    ASSUME NEW k, NEW row, PutRecord(k, row), ~row.revoked
    PROVE  \A t : RevokedUnused(t)' => RevokedUnused(t)
BY PutAddsRow DEF RevokedUnused, Exists

LEMMA ConsumeRevokesNothing ==
    ASSUME StoreTypeOK, NEW k, ConsumeRecord(k)
    PROVE  \A t : RevokedUnused(t)' => RevokedUnused(t)
BY ConsumeUsesRow DEF RevokedUnused, Exists

LEMMA CompletionRevokesNothing ==
    ASSUME StoreTypeOK, clock' = clock, NEW q \in Request,
           CompleteApproval(q, CodeLife, CompletionLife)
    PROVE  \A t : RevokedUnused(t)' => RevokedUnused(t)
<1>1. /\ DOMAIN records' = DOMAIN records \union {<<"code", q>>, <<"approval_complete", q>>}
      /\ \A k \in DOMAIN records : k # <<"approval", q>> => records'[k] = records[k]
  BY LifeAssumption, CompletionAddsRows
<1>2. \A t : /\ <<"refresh", t>> # <<"approval", q>> /\ <<"refresh", t>> # <<"code", q>>
             /\ <<"refresh", t>> # <<"approval_complete", q>>
  OBVIOUS
<1> QED BY <1>1, <1>2 DEF RevokedUnused, Exists

\* revoke_family of a rotation finds no unused token: the one there was is used.
LEMMA RotationRevokesUsed ==
    ASSUME HoldersInv, NEW p \in Process, RevokeRotated(p)
    PROVE  \A t \in Token : RevokedUnused(t)' => RevokedUnused(t)
<1>1. TypeOK /\ StoreTypeOK /\ OneHolder
  BY DEF HoldersInv, TypeInv, TypeOK
<1>2. PICK g \in Family : g = handler[p].family
  BY <1>1, HandlerFields DEF RevokeRotated, At, IssueOps
<1>3. RevokeFamily(g) /\ Issues(p, g)
  BY <1>2 DEF RevokeRotated, Issues, At, IssueOps
<1>4. \A t \in Token : ~Spare(t, g)
  BY <1>1, <1>3 DEF OneHolder
<1> QED BY <1>1, <1>3, <1>4, RevokeMarksFamily DEF RevokedUnused, Spare, Exists

LEMMA OwnersStep == OwnersInv /\ [Next]_vars => OwnersInv'
<1> SUFFICES ASSUME OwnersInv, [Next]_vars PROVE UnusedTokenIsRevokedOnlyWithItsFamily'
  BY HoldersStep DEF OwnersInv
<1>1. /\ HoldersInv /\ TypeInv /\ TypeOK /\ StoreTypeOK /\ RowsKept
      /\ UnusedTokenIsRevokedOnlyWithItsFamily
  BY TypesStep DEF OwnersInv, HoldersInv, TypeInv, TypeOK
<1>2. ASSUME dead' = dead, \A t \in Token : RevokedUnused(t)' => RevokedUnused(t)
      PROVE  UnusedTokenIsRevokedOnlyWithItsFamily'
  BY <1>1, <1>2, OwnersFrom
<1>3. ASSUME records' = records, dead' = dead
      PROVE  UnusedTokenIsRevokedOnlyWithItsFamily'
  BY <1>1, <1>3 DEF UnusedTokenIsRevokedOnlyWithItsFamily, Exists
<1>4. CASE Tick \/ UNCHANGED vars
  BY <1>3, <1>4 DEF Tick, vars, observed
<1>5. ASSUME NEW p \in Process, Crash(p) \/ ApproveRead(p) \/ LoadRefresh(p)
      PROVE  UnusedTokenIsRevokedOnlyWithItsFamily'
  BY <1>3, <1>5 DEF Crash, ApproveRead, LoadRefresh, storeVars, observed
<1>6. ASSUME NEW p \in Process, Authorize(p) PROVE UnusedTokenIsRevokedOnlyWithItsFamily'
  <2>1. PICK q \in Request, c \in Client :
           PutRecord(<<"approval", q>>, NewRow(c, RequestLife, NoFamily))
    BY <1>6 DEF Authorize
  <2>2. ~NewRow(c, RequestLife, NoFamily).revoked
    BY DEF NewRow
  <2> QED BY <1>2, <1>6, <2>1, <2>2, PutRevokesNothing DEF Authorize, observed
<1>7. ASSUME NEW p \in Process, Deny(p) \/ ConsumeRefresh(p) \/ ExchangeCode(p)
      PROVE  UnusedTokenIsRevokedOnlyWithItsFamily'
  <2>1. (records' = records \/ \E k : ConsumeRecord(k)) /\ dead' = dead
    BY <1>7 DEF Deny, ConsumeRefresh, ExchangeCode, observed
  <2> QED BY <1>1, <1>2, <1>3, <2>1, ConsumeRevokesNothing
<1>8. ASSUME NEW p \in Process, Allow(p) PROVE UnusedTokenIsRevokedOnlyWithItsFamily'
  <2>1. PICK q \in Request : records' = records \/ CompleteApproval(q, CodeLife, CompletionLife)
    BY <1>1, <1>8, HandlerFields DEF Allow
  <2>2. clock' = clock /\ dead' = dead
    BY <1>8 DEF Allow
  <2> QED BY <1>1, <1>2, <1>3, <2>1, <2>2, CompletionRevokesNothing
<1>9. ASSUME NEW p \in Process, RevokeRotated(p) PROVE UnusedTokenIsRevokedOnlyWithItsFamily'
  BY <1>1, <1>2, <1>9, RotationRevokesUsed DEF RevokeRotated, observed
<1>10. ASSUME NEW p \in Process, PutAccess(p) \/ PutRefresh(p)
       PROVE  UnusedTokenIsRevokedOnlyWithItsFamily'
  <2>1. PICK k, life :
           PutRecord(k, NewRow(handler[p].client, life, handler[p].family)) /\ dead' = dead
    BY <1>10 DEF PutAccess, PutRefresh, observed
  <2>2. ~NewRow(handler[p].client, life, handler[p].family).revoked
    BY DEF NewRow
  <2> QED BY <1>2, <2>1, <2>2, PutRevokesNothing
<1>11. ASSUME NEW p \in Process, ReplayRefresh(p) \/ RevokeToken(p)
       PROVE  UnusedTokenIsRevokedOnlyWithItsFamily'
  <2>1. PICK f \in Family : RevokeFamily(f) /\ dead' = dead \union {f}
    BY <1>1, <1>11, ReplayKillsFamily, RevokeTokenKillsFamily
  <2>2. \A t \in Token : RevokedUnused(t)' =>
            RevokedUnused(t) \/ records'[<<"refresh", t>>].family = f
    BY <1>1, <2>1, RevokeMarksFamily DEF RevokedUnused, Exists
  <2> QED BY <1>1, <2>1, <2>2, OwnersFrom
<1> QED BY <1>4, <1>5, <1>6, <1>7, <1>8, <1>9, <1>10, <1>11 DEF Next

\* An unused refresh token is revoked only by a replay or a revocation in its family,
\* never by another rotation, however handlers of several processes overlap.
THEOREM OwnersHold == Spec => []UnusedTokenIsRevokedOnlyWithItsFamily
<1>1. Init => OwnersInv
  BY HoldersInitially
     DEF Init, StoreInit, OwnersInv, UnusedTokenIsRevokedOnlyWithItsFamily, Exists
<1>2. Spec => []OwnersInv
  BY <1>1, OwnersStep, PTL DEF Spec
<1> QED BY <1>2, PTL DEF OwnersInv
-----------------------------------------------------------------------------
(* A dead family stays dead, while one process serves the store            *)

\* Nothing is left of f, and nobody is about to add to it.
Ended(f) == /\ \A t \in Token : ~Spare(t, f) /\ ~Usable(t, f)
            /\ \A p \in Process : ~Issues(p, f)

DeadInv == /\ HoldersInv
           /\ \A f \in dead : f \in DOMAIN origin /\ Ended(f)

\* A step that gives f nothing.
GainsNothing(f) == /\ \A t \in Token : /\ Spare(t, f)' => Spare(t, f)
                                       /\ Usable(t, f)' => Usable(t, f)
                   /\ \A p \in Process : Issues(p, f)' => Issues(p, f)

LEMMA DeadFrom ==
    ASSUME DeadInv, TypeInv, dead \subseteq Family, dead' = dead,
           DOMAIN origin \subseteq DOMAIN origin',
           \A f \in dead : GainsNothing(f)
    PROVE  \A f \in dead' : f \in DOMAIN origin' /\ Ended(f)'
<1> SUFFICES ASSUME NEW f \in dead PROVE f \in DOMAIN origin' /\ Ended(f)'
  OBVIOUS
<1>1. f \in DOMAIN origin /\ Ended(f) /\ GainsNothing(f)
  BY DEF DeadInv
<1>2. /\ \A t \in Token : ~Spare(t, f)' /\ ~Usable(t, f)'
      /\ \A p \in Process : ~Issues(p, f)'
  BY <1>1 DEF Ended, GainsNothing
<1> QED BY <1>1, <1>2 DEF Ended

LEMMA NothingGainedLeaves ==
    ASSUME NothingGained, dead \subseteq Family
    PROVE  \A f \in dead : GainsNothing(f)
BY DEF NothingGained, HandlersGainNothing, TokensGainNothing, GainsNothing

\* exchange_authorization_code gives something to a family that is not founded yet.
LEMMA ExchangeLeavesDead ==
    ASSUME DeadInv, TypeInv, NEW p \in Process, ExchangeCode(p)
    PROVE  /\ DOMAIN origin \subseteq DOMAIN origin'
           /\ \A f \in dead : GainsNothing(f)
<1>1. PICK q \in Request, g \in Family \ DOMAIN origin :
         /\ ConsumeRecord(<<"code", q>>)
         /\ origin' = [f \in DOMAIN origin \union {g} |-> IF f = g THEN q ELSE origin[f]]
         /\ Goto(p, [op |-> "putAccess", client |-> records[<<"code", q>>].client, family |-> g])
  BY DEF ExchangeCode
<1>2. TypeOK /\ StoreTypeOK /\ dead \subseteq Family /\ g \notin dead
  BY <1>1 DEF TypeInv, TypeOK, DeadInv
<1>3. DOMAIN records' = DOMAIN records /\ RowsKept
  BY <1>1, <1>2, ConsumeUsesRow, ConsumeKeeps
<1>4. TokensGainNothing
  BY <1>3, NoTokenGained
<1>5. /\ handler'[p].family = g
      /\ \A o \in Process : o # p => handler'[o] = handler[o]
  <2> DEFINE h == [op |-> "putAccess", client |-> records[<<"code", q>>].client, family |-> g]
  <2>1. h.family = g /\ Goto(p, h)
    BY <1>1
  <2> HIDE DEF h
  <2> QED BY <1>2, <2>1 DEF Goto, TypeOK
<1>6. \A f \in dead, o \in Process : Issues(o, f)' => Issues(o, f)
  BY <1>2, <1>5 DEF Issues
<1>7. DOMAIN origin \subseteq DOMAIN origin'
  BY <1>1
<1> QED BY <1>2, <1>4, <1>6, <1>7 DEF GainsNothing, TokensGainNothing

\* A token that can be rotated is of a family that is not dead.
LEMMA ConsumeLeavesDead ==
    ASSUME DeadInv, TypeInv, RowsKept, NEW p \in Process, ConsumeRefresh(p)
    PROVE  \A f \in dead : GainsNothing(f)
<1>1. TypeOK /\ StoreTypeOK /\ dead \subseteq Family /\ At(p, "rotate")
  BY DEF TypeInv, TypeOK, ConsumeRefresh
<1>2. PICK t0 \in Token : t0 = handler[p].token
  BY <1>1, HandlerFields
<1>3. CASE ~IsActive(<<"refresh", t0>>)
  <2>1. records' = records /\ Goto(p, Idle)
    BY <1>2, <1>3 DEF ConsumeRefresh
  <2> QED BY <1>1, <2>1, NoTokenGained, NoHandlerGained, NothingGainedLeaves DEF NothingGained
<1>4. CASE IsActive(<<"refresh", t0>>)
  <2>1. PICK g : g = records[<<"refresh", t0>>].family
    OBVIOUS
  <2>2. /\ ConsumeRecord(<<"refresh", t0>>)
        /\ Goto(p, [op |-> "revokeFamily", client |-> handler[p].client, family |-> g])
    BY <1>2, <1>4, <2>1 DEF ConsumeRefresh
  <2>3. DOMAIN records' = DOMAIN records /\ Spare(t0, g)
    BY <1>1, <2>1, <2>2, ConsumeUsesRow DEF Spare, Exists
  <2>4. TokensGainNothing
    BY <2>3, NoTokenGained
  <2>5. g \notin dead
    BY <2>3 DEF DeadInv, Ended
  <2>6. /\ handler'[p].family = g
        /\ \A o \in Process : o # p => handler'[o] = handler[o]
    <3> DEFINE h == [op |-> "revokeFamily", client |-> handler[p].client, family |-> g]
    <3>1. h.family = g /\ Goto(p, h)
      BY <2>2
    <3> HIDE DEF h
    <3> QED BY <1>1, <3>1 DEF Goto, TypeOK
  <2>7. \A f \in dead, o \in Process : Issues(o, f)' => Issues(o, f)
    BY <2>5, <2>6 DEF Issues
  <2> QED BY <1>1, <2>4, <2>7 DEF GainsNothing, TokensGainNothing
<1> QED BY <1>3, <1>4

\* What a handler that issues tokens does next, it does for its own family.
LEMMA IssuingLeavesDead ==
    ASSUME DeadInv, TypeInv, RowsKept, NEW p \in Process,
           RevokeRotated(p) \/ PutAccess(p) \/ PutRefresh(p)
    PROVE  \A f \in dead : GainsNothing(f)
<1>1. TypeOK /\ StoreTypeOK /\ dead \subseteq Family /\ handler[p].op \in IssueOps
  BY DEF TypeInv, TypeOK, RevokeRotated, PutAccess, PutRefresh, At, IssueOps
<1>2. PICK g \in Family : g = handler[p].family
  BY <1>1, HandlerFields
<1>3. Issues(p, g) /\ g \notin dead
  BY <1>1, <1>2 DEF Issues, DeadInv, Ended
<1>4. \A f \in dead, o \in Process : Issues(o, f)' => Issues(o, f)
  <2>1. PICK h : Goto(p, h) /\ (h.op \in IssueOps => h.family = g)
    <3>1. ASSUME NEW op \in IssueOps
          PROVE  [handler[p] EXCEPT !.op = op].family = g
      BY <1>1, <1>2, HandlerFields DEF Issuing
    <3>2. Idle.op \notin IssueOps
      BY DEF Idle, IssueOps
    <3>3. CASE RevokeRotated(p)
      BY <3>1, <3>3 DEF RevokeRotated, IssueOps
    <3>4. CASE PutAccess(p)
      BY <3>1, <3>4 DEF PutAccess, IssueOps
    <3>5. CASE PutRefresh(p)
      BY <3>2, <3>5 DEF PutRefresh
    <3> QED BY <3>3, <3>4, <3>5
  <2>2. handler'[p] = h /\ \A o \in Process : o # p => handler'[o] = handler[o]
    BY <1>1, <2>1 DEF Goto, TypeOK
  <2> QED BY <1>3, <2>1, <2>2 DEF Issues
<1>5. \A f \in dead, t \in Token : /\ Spare(t, f)' => Spare(t, f)
                                   /\ Usable(t, f)' => Usable(t, f)
  <2>1. CASE RevokeRotated(p)
    <3>1. DOMAIN records' = DOMAIN records
      BY <1>1, <2>1, RevokeMarksFamily DEF RevokeRotated
    <3> QED BY <1>1, <3>1, NoTokenGained DEF TokensGainNothing
  <2>2. CASE PutAccess(p) \/ PutRefresh(p)
    <3>1. PICK k, life : PutRecord(k, NewRow(handler[p].client, life, g))
      BY <1>2, <2>2 DEF PutAccess, PutRefresh
    <3>2. NewRow(handler[p].client, life, g).family = g
      BY DEF NewRow
    <3>3. /\ DOMAIN records' = DOMAIN records \union {k} /\ records'[k].family = g
          /\ \A x \in DOMAIN records : records'[x] = records[x]
      BY <3>1, <3>2, PutAddsRow
    <3> QED BY <1>3, <3>3 DEF Spare, Usable, Exists
  <2> QED BY <2>1, <2>2
<1> QED BY <1>4, <1>5 DEF GainsNothing

\* A replay and a revocation end a family that no handler of the one process issues for.
LEMMA KillEnds ==
    ASSUME DeadInv, TypeInv, \A o, v \in Process : o = v,
           NEW p \in Process, ReplayRefresh(p) \/ RevokeToken(p)
    PROVE  \A f \in dead' : f \in DOMAIN origin' /\ Ended(f)'
<1>1. TypeOK /\ StoreTypeOK /\ dead \subseteq Family
  BY DEF TypeInv, TypeOK
<1>2. PICK kind \in TokenKinds, t \in Token :
         /\ <<kind, t>> \in DOMAIN records
         /\ RevokeFamily(records[<<kind, t>>].family)
         /\ dead' = dead \union {records[<<kind, t>>].family}
  BY DEF ReplayRefresh, RevokeToken, TokenKinds, Exists
<1>3. PICK g : g = records[<<kind, t>>].family
  OBVIOUS
<1>4. g \in DOMAIN origin /\ RevokeFamily(g) /\ dead' = dead \union {g}
  BY <1>2, <1>3, TokenFamily
<1>5. UNCHANGED <<handler, origin>> /\ At(p, "idle")
  BY DEF ReplayRefresh, RevokeToken
<1>6. \A f : \A o \in Process : ~Issues(o, f)'
  BY <1>5 DEF Issues, At, IssueOps
<1>7. \A u \in Token : ~Spare(u, g)' /\ ~Usable(u, g)'
  BY <1>1, <1>4, RevokeMarksFamily DEF Spare, Usable, Exists
<1>8. \A f \in dead, u \in Token : ~Spare(u, f)' /\ ~Usable(u, f)'
  <2>1. \A f \in dead, u \in Token : ~Spare(u, f) /\ ~Usable(u, f)
    BY DEF DeadInv, Ended
  <2> QED BY <1>1, <1>4, <2>1, RevokeMarksFamily DEF Spare, Usable, Exists
<1> QED BY <1>4, <1>5, <1>6, <1>7, <1>8 DEF DeadInv, Ended

LEMMA DeadStep ==
    ASSUME \A o, v \in Process : o = v
    PROVE  DeadInv /\ [Next]_vars => DeadInv'
<1> SUFFICES ASSUME DeadInv, [Next]_vars
             PROVE  \A f \in dead' : f \in DOMAIN origin' /\ Ended(f)'
  BY HoldersStep DEF DeadInv
<1>1. TypeInv /\ RowsKept /\ dead \subseteq Family
  BY TypesStep DEF DeadInv, HoldersInv, TypeInv, TypeOK
<1>2. CASE Tick \/ UNCHANGED vars
           \/ \E p \in Process : \/ Crash(p) \/ Authorize(p) \/ ApproveRead(p) \/ Deny(p)
                                \/ Allow(p) \/ LoadRefresh(p)
  <2>1. NothingGained
    BY <1>1, <1>2, OrdinaryGains
  <2>2. UNCHANGED <<origin, dead>>
    BY <1>2 DEF Tick, vars, Crash, Authorize, ApproveRead, Deny, Allow, LoadRefresh, observed
  <2> QED BY <1>1, <2>1, <2>2, NothingGainedLeaves, DeadFrom
<1>3. ASSUME NEW p \in Process, ExchangeCode(p)
      PROVE  \A f \in dead' : f \in DOMAIN origin' /\ Ended(f)'
  <2>1. dead' = dead
    BY <1>3 DEF ExchangeCode
  <2> QED BY <1>1, <1>3, <2>1, ExchangeLeavesDead, DeadFrom
<1>4. ASSUME NEW p \in Process,
             ConsumeRefresh(p) \/ RevokeRotated(p) \/ PutAccess(p) \/ PutRefresh(p)
      PROVE  \A f \in dead' : f \in DOMAIN origin' /\ Ended(f)'
  <2>1. UNCHANGED <<origin, dead>>
    BY <1>4 DEF ConsumeRefresh, RevokeRotated, PutAccess, PutRefresh, observed
  <2>2. \A f \in dead : GainsNothing(f)
    BY <1>1, <1>4, ConsumeLeavesDead, IssuingLeavesDead
  <2> QED BY <1>1, <2>1, <2>2, DeadFrom
<1>5. ASSUME NEW p \in Process, ReplayRefresh(p) \/ RevokeToken(p)
      PROVE  \A f \in dead' : f \in DOMAIN origin' /\ Ended(f)'
  BY <1>1, <1>5, KillEnds
<1> QED BY <1>2, <1>3, <1>4, <1>5 DEF Next

\* While one process serves the store, as the deployment has it, a family that a replay
\* or a revocation ended is never accepted again: no handler was between the
\* transactions of a rotation when it ended.
THEOREM DeadFamilyHolds ==
    ASSUME \A o, v \in Process : o = v
    PROVE  Spec => []DeadFamilyStaysDead
<1>1. Init => DeadInv
  BY HoldersInitially DEF Init, DeadInv
<1>2. DeadInv /\ [Next]_vars => DeadInv'
  BY DeadStep
<1>3. DeadInv => DeadFamilyStaysDead
  <2> SUFFICES ASSUME DeadInv, NEW f \in dead, NEW kind \in {"access", "refresh"},
                      NEW t \in LiveTokens(kind, f)
               PROVE  FALSE
    BY DEF DeadFamilyStaysDead
  <2>1. t \in Token /\ IsActive(<<kind, t>>) /\ records[<<kind, t>>].family = f
    BY DEF LiveTokens
  <2>2. kind = "access" => Usable(t, f)
    BY <2>1 DEF Usable, IsActive
  <2>3. kind = "refresh" => Spare(t, f)
    BY <2>1 DEF Spare, IsActive
  <2> QED BY <2>1, <2>2, <2>3 DEF DeadInv, Ended
<1> QED BY <1>1, <1>2, <1>3, PTL DEF Spec
=============================================================================
