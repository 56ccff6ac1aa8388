------------------------------ MODULE OAuthStore ------------------------------
(***************************************************************************)
(* oauth/store.py: the table oauth_records, whose rows outlive the process *)
(* and are never deleted.  Each operator is one SQLite transaction.  A raw *)
(* secret and its keyed digest are one identity here; the digest of an     *)
(* authorization code is computed from its request, so a request names its *)
(* approval, its completion and its code.                                  *)
(***************************************************************************)
EXTENDS Integers, FiniteSets

CONSTANTS
    Request,     \* authorization requests
    Token,       \* raw access and refresh tokens
    Family,      \* token families
    NoFamily,    \* family_id IS NULL
    Client,      \* registered clients
    MaxClock     \* bound: readings of time.time()

ASSUME StoreAssumption == NoFamily \notin Family /\ MaxClock \in Nat

VARIABLES
    clock,       \* time.time()
    records      \* a function from the used <<kind, digest>> to rows

Key == ({"approval", "code", "approval_complete"} \X Request)
       \union ({"access", "refresh"} \X Token)
Row == [client: Client, expires: Nat, used: BOOLEAN, revoked: BOOLEAN,
        family: Family \union {NoFamily}]

StoreTypeOK ==
    /\ clock \in Nat
    /\ DOMAIN records \subseteq Key
    /\ records \in [DOMAIN records -> Row]

StoreInit ==
    /\ clock = 0
    /\ records = [k \in {} |-> 0]

Exists(k) == k \in DOMAIN records

\* The WHERE of get_record, consume_record and complete_approval.
IsActive(k) == /\ Exists(k)
               /\ ~records[k].used /\ ~records[k].revoked
               /\ records[k].expires >= clock

\* Mutant: the life is subtracted.
NewRowExpired(client, life, family) ==
    [client |-> client, expires |-> clock - life - 1, used |-> FALSE, revoked |-> FALSE,
     family |-> family]

NewRow(client, life, family) ==
    [client |-> client, expires |-> clock + life, used |-> FALSE, revoked |-> FALSE,
     family |-> family]

With(table, k, row) == [x \in DOMAIN table \union {k} |-> IF x = k THEN row ELSE table[x]]

PutRecord(k, row) == ~Exists(k) /\ records' = With(records, k, row)

\* Mutant: the UPDATE does not repeat the conditions of the SELECT.
ConsumeUnchecked(k) == Exists(k) /\ records' = [records EXCEPT ![k].used = TRUE]

ConsumeRecord(k) == IsActive(k) /\ records' = [records EXCEPT ![k].used = TRUE]

\* complete_approval, outcome "created": one transaction uses the approval and adds
\* the code and the completion.
CompleteApproval(q, codeLife, completionLife) ==
    LET approval == <<"approval", q>>
        client == records[approval].client
        used == [records EXCEPT ![approval].used = TRUE]
    IN  /\ IsActive(approval)
        /\ ~Exists(<<"code", q>>) /\ ~Exists(<<"approval_complete", q>>)
        /\ records' = With(With(used, <<"code", q>>, NewRow(client, codeLife, NoFamily)),
                           <<"approval_complete", q>>, NewRow(client, completionLife, NoFamily))

RevokeFamily(f) ==
    records' = [k \in DOMAIN records |->
                  IF records[k].family = f THEN [records[k] EXCEPT !.revoked = TRUE]
                  ELSE records[k]]
=============================================================================
