----------------------------- MODULE SearchLedger -----------------------------
(***************************************************************************)
(* What the search history promises, whatever the clients, the providers   *)
(* and the database do: a run is an entry that is opened once, gains hits  *)
(* one at a time while it runs, and is closed with a report of exactly     *)
(* the hits it has.  A closed entry is never reopened and gains nothing;   *)
(* a completed one may still be restated, as partial if it has hits and as *)
(* failed if it has none, with the same report.                            *)
(***************************************************************************)
EXTENDS Integers

CONSTANT RunId

VARIABLE ledger    \* the entry of each run

Statuses == {"absent", "running", "completed", "partial", "failed"}
Entry == [status: Statuses, hits: Nat, reported: Nat]

LedgerInit == ledger = [r \in RunId |-> [status |-> "absent", hits |-> 0, reported |-> 0]]

Open(r) ==
    /\ ledger[r].status = "absent"
    /\ ledger' = [ledger EXCEPT ![r].status = "running"]

AddHit(r) ==
    /\ ledger[r].status = "running"
    /\ ledger' = [ledger EXCEPT ![r].hits = @ + 1]

Failure(hits) == IF hits = 0 THEN "failed" ELSE "partial"

Close(r) ==
    /\ ledger[r].status = "running"
    /\ \E status \in {"completed", Failure(ledger[r].hits)} :
         ledger' = [ledger EXCEPT ![r].status = status, ![r].reported = ledger[r].hits]

Restate(r) ==
    /\ ledger[r].status = "completed"
    /\ ledger' = [ledger EXCEPT ![r].status = Failure(ledger[r].hits)]

LedgerNext == \E r \in RunId : Open(r) \/ AddHit(r) \/ Close(r) \/ Restate(r)

LedgerSpec == LedgerInit /\ [][LedgerNext]_ledger
=============================================================================
