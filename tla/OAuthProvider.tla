----------------------------- MODULE OAuthProvider -----------------------------
(***************************************************************************)
(* oauth/provider.py with the approval route and the SDK's token endpoint: *)
(* approvals, codes, and rotating refresh tokens.                          *)
(*                                                                         *)
(* A handler awaits nothing between its store transactions, so a process   *)
(* runs one handler at a time; but it may end between two of them, and     *)
(* where Process has several members, processes that share the store       *)
(* directory interleave.  A load that is followed by a conditional update  *)
(* of the same record is one step with it: no handler acts on what only    *)
(* the load has seen, and the update checks everything again.              *)
(***************************************************************************)
EXTENDS OAuthStore

CONSTANTS
    Process,
    RequestLife, CodeLife, CompletionLife, AccessLife, RefreshLife  \* settings, in ticks

ASSUME LifeAssumption ==
    {RequestLife, CodeLife, CompletionLife, AccessLife, RefreshLife} \subseteq Nat

VARIABLES
    handler,     \* what each process is in the middle of
    answers,     \* observed: what approval POSTs were answered
    origin,      \* observed: the request whose code founded a family
    dead         \* observed: families a replay or a revocation ended

storeVars == <<clock, records>>
observed == <<answers, origin, dead>>
vars == <<clock, records, handler, answers, origin, dead>>

Idle == [op |-> "idle"]
Deciding == [op: {"decide"}, request: Request, decision: {"allow", "deny"}]
Rotating == [op: {"rotate"}, client: Client, token: Token]
\* _issue_tokens: what is left to do for a family.
Issuing == [op: {"revokeFamily", "putAccess", "putRefresh"}, client: Client, family: Family]

Answer == [request: Request, decision: {"allow", "deny"}, outcome: {"code", "denied", "error"}]

TypeOK ==
    /\ StoreTypeOK
    /\ handler \in [Process -> {Idle} \union Deciding \union Rotating \union Issuing]
    /\ answers \subseteq Answer
    /\ DOMAIN origin \subseteq Family
    /\ origin \in [DOMAIN origin -> Request]
    /\ dead \subseteq Family

Init ==
    /\ StoreInit
    /\ handler = [p \in Process |-> Idle]
    /\ answers = {}
    /\ origin = [f \in {} |-> 0]
    /\ dead = {}

Goto(p, h) == handler' = [handler EXCEPT ![p] = h]
At(p, op) == handler[p].op = op

Tick ==
    /\ clock < MaxClock
    /\ clock' = clock + 1
    /\ UNCHANGED <<records, handler, observed>>

\* The process ends, wherever its handler is, and is started again.
Crash(p) ==
    /\ handler[p] # Idle
    /\ Goto(p, Idle)
    /\ UNCHANGED <<storeVars, observed>>

-----------------------------------------------------------------------------
(* authorize and approve                                                   *)

Authorize(p) ==
    /\ At(p, "idle")
    /\ \E q \in Request, c \in Client :
         PutRecord(<<"approval", q>>, NewRow(c, RequestLife, NoFamily))
    /\ UNCHANGED <<clock, handler, observed>>

Respond(q, decision, outcome) ==
    answers' = answers \union {[request |-> q, decision |-> decision, outcome |-> outcome]}

\* The first reads of approve: a request no longer active is answered from its
\* completion while that is, whatever the decision in this form.
ApproveRead(p) ==
    /\ At(p, "idle")
    /\ \E q \in Request, decision \in {"allow", "deny"} :
         IF IsActive(<<"approval", q>>)
         THEN /\ Goto(p, [op |-> "decide", request |-> q, decision |-> decision])
              /\ UNCHANGED answers
         ELSE /\ Respond(q, decision, IF IsActive(<<"approval_complete", q>>)
                                      THEN "code" ELSE "error")
              /\ UNCHANGED handler
    /\ UNCHANGED <<storeVars, origin, dead>>

\* Mutant: a denial leaves the approval open.
DenyWithoutConsuming(p) ==
    /\ At(p, "decide") /\ handler[p].decision = "deny"
    /\ Respond(handler[p].request, "deny", "denied")
    /\ Goto(p, Idle)
    /\ UNCHANGED <<storeVars, origin, dead>>

Deny(p) ==
    /\ At(p, "decide") /\ handler[p].decision = "deny"
    /\ LET q == handler[p].request
       IN  IF IsActive(<<"approval", q>>)
           THEN ConsumeRecord(<<"approval", q>>) /\ Respond(q, "deny", "denied")
           ELSE UNCHANGED records /\ Respond(q, "deny", "error")
    /\ Goto(p, Idle)
    /\ UNCHANGED <<clock, origin, dead>>

Allow(p) ==
    /\ At(p, "decide") /\ handler[p].decision = "allow"
    /\ LET q == handler[p].request
       IN  IF IsActive(<<"approval", q>>)
           THEN CompleteApproval(q, CodeLife, CompletionLife) /\ Respond(q, "allow", "code")
           ELSE /\ Respond(q, "allow", IF IsActive(<<"approval_complete", q>>)
                                       THEN "code" ELSE "error")
                /\ UNCHANGED records
    /\ Goto(p, Idle)
    /\ UNCHANGED <<clock, origin, dead>>

-----------------------------------------------------------------------------
(* The token endpoint                                                      *)

\* load_authorization_code and the consume_record of exchange_authorization_code; a
\* code that is not active, or another client's, is refused without a change.
ExchangeCode(p) ==
    /\ At(p, "idle")
    /\ \E q \in Request, f \in Family \ DOMAIN origin :
         /\ ConsumeRecord(<<"code", q>>)
         /\ origin' = [g \in DOMAIN origin \union {f} |-> IF g = f THEN q ELSE origin[g]]
         /\ Goto(p, [op |-> "putAccess", client |-> records[<<"code", q>>].client, family |-> f])
    /\ UNCHANGED <<clock, answers, dead>>

\* load_refresh_token of an active token of the client.
LoadRefresh(p) ==
    /\ At(p, "idle")
    /\ \E t \in Token :
         /\ IsActive(<<"refresh", t>>)
         /\ Goto(p, [op |-> "rotate", client |-> records[<<"refresh", t>>].client, token |-> t])
    /\ UNCHANGED <<storeVars, observed>>

\* Mutant: a replay revokes the token that was replayed.
ReplayRevokesOne(p) ==
    /\ At(p, "idle")
    /\ \E t \in Token :
         /\ Exists(<<"refresh", t>>) /\ records[<<"refresh", t>>].used
         /\ records' = [records EXCEPT ![<<"refresh", t>>].revoked = TRUE]
         /\ dead' = dead \union {records[<<"refresh", t>>].family}
    /\ UNCHANGED <<clock, handler, answers, origin>>

\* load_refresh_token of a token that was used: the whole family is revoked.
ReplayRefresh(p) ==
    /\ At(p, "idle")
    /\ \E t \in Token :
         /\ Exists(<<"refresh", t>>) /\ records[<<"refresh", t>>].used
         /\ RevokeFamily(records[<<"refresh", t>>].family)
         /\ dead' = dead \union {records[<<"refresh", t>>].family}
    /\ UNCHANGED <<clock, handler, answers, origin>>

\* Mutant: the refresh token is not consumed.
ConsumeNothing(p) ==
    /\ At(p, "rotate")
    /\ LET k == <<"refresh", handler[p].token>>
       IN  IF IsActive(k)
           THEN Goto(p, [op |-> "revokeFamily", client |-> handler[p].client,
                         family |-> records[k].family])
           ELSE Goto(p, Idle)
    /\ UNCHANGED <<storeVars, observed>>

\* exchange_refresh_token: consume_record, which answers invalid_grant when the
\* token is no longer active.
ConsumeRefresh(p) ==
    /\ At(p, "rotate")
    /\ LET k == <<"refresh", handler[p].token>>
       IN  IF IsActive(k)
           THEN /\ ConsumeRecord(k)
                /\ Goto(p, [op |-> "revokeFamily", client |-> handler[p].client,
                            family |-> records[k].family])
           ELSE UNCHANGED records /\ Goto(p, Idle)
    /\ UNCHANGED <<clock, observed>>

\* Mutant: what the family still has is not revoked.
RevokeNothing(p) ==
    /\ At(p, "revokeFamily")
    /\ Goto(p, [handler[p] EXCEPT !.op = "putAccess"])
    /\ UNCHANGED <<storeVars, observed>>

RevokeRotated(p) ==
    /\ At(p, "revokeFamily")
    /\ RevokeFamily(handler[p].family)
    /\ Goto(p, [handler[p] EXCEPT !.op = "putAccess"])
    /\ UNCHANGED <<clock, observed>>

PutAccess(p) ==
    /\ At(p, "putAccess")
    /\ \E t \in Token :
         PutRecord(<<"access", t>>, NewRow(handler[p].client, AccessLife, handler[p].family))
    /\ Goto(p, [handler[p] EXCEPT !.op = "putRefresh"])
    /\ UNCHANGED <<clock, observed>>

PutRefresh(p) ==
    /\ At(p, "putRefresh")
    /\ \E t \in Token :
         PutRecord(<<"refresh", t>>, NewRow(handler[p].client, RefreshLife, handler[p].family))
    /\ Goto(p, Idle)
    /\ UNCHANGED <<clock, observed>>

\* revoke_token, for either kind of token, active or not.
RevokeToken(p) ==
    /\ At(p, "idle")
    /\ \E k \in {"access", "refresh"} \X Token :
         /\ Exists(k)
         /\ RevokeFamily(records[k].family)
         /\ dead' = dead \union {records[k].family}
    /\ UNCHANGED <<clock, handler, answers, origin>>

Next ==
    \/ Tick
    \/ \E p \in Process :
         \/ Crash(p) \/ Authorize(p) \/ ApproveRead(p) \/ Deny(p) \/ Allow(p)
         \/ ExchangeCode(p) \/ LoadRefresh(p) \/ ReplayRefresh(p) \/ ConsumeRefresh(p)
         \/ RevokeRotated(p) \/ PutAccess(p) \/ PutRefresh(p) \/ RevokeToken(p)

Spec == Init /\ [][Next]_vars

-----------------------------------------------------------------------------
(* Properties                                                              *)

\* README.md:170, "the authorization code itself remains redeemable only once": no
\* request founds two token families, whatever is repeated, crashes or overlaps.
CodeRedeemedOnce ==
    \A f, g \in DOMAIN origin : origin[f] = origin[g] => f = g

LiveTokens(kind, f) == {t \in Token : IsActive(<<kind, t>>) /\ records[<<kind, t>>].family = f}

\* Rotation leaves one usable token of each kind per family, never two.
OneLiveTokenOfAKind ==
    \A f \in Family, kind \in {"access", "refresh"} : Cardinality(LiveTokens(kind, f)) <= 1

\* Once a used refresh token was replayed, or a token revoked, no token of its family
\* is accepted again and no later rotation revives the family.
DeadFamilyStaysDead ==
    \A f \in dead, kind \in {"access", "refresh"} : LiveTokens(kind, f) = {}

\* Nobody but its owner ends a session: an unused refresh token is revoked only with
\* its family, by a replay or a revocation.
UnusedTokenIsRevokedOnlyWithItsFamily ==
    \A t \in Token :
        LET k == <<"refresh", t>>
        IN  Exists(k) /\ records[k].revoked /\ ~records[k].used => records[k].family \in dead

\* Concurrent forms: a request that was answered with a denial has no code, and one
\* that was answered with a code was completed and never denied.
OneDecisionPerRequest ==
    \A a \in answers :
        /\ a.outcome = "denied" => ~Exists(<<"code", a.request>>)
        /\ a.outcome = "code" => Exists(<<"code", a.request>>)

\* docs/safety.md:13, "an immediate duplicate approval returns the same redirect": only
\* an approval does, so a form whose decision is deny is never answered with a code.
DenyIsNeverAnsweredWithCode ==
    \A a \in answers : a.decision = "deny" => a.outcome # "code"
=============================================================================
