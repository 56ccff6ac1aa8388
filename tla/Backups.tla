------------------------------- MODULE Backups -------------------------------
(***************************************************************************)
(* ExcelBackupService.create (operations/backups.py) with the export it       *)
(* makes (services/exports.py): evidence, relations and runs are read in      *)
(* separate transactions while searches are saved; the workbook is written,   *)
(* copied over latest.xlsx in place, and old snapshots are pruned.  serve      *)
(* runs one at every start, backup-excel another whenever it is called.       *)
(*                                                                         *)
(* A search is saved with the one evidence it discovers, a new one or one     *)
(* that an earlier search discovered; evidence has the number of its first   *)
(* search.  The clock, of the stamps and of st_mtime, never goes back, and no *)
(* two writes of snapshots share an st_mtime.                                *)
(***************************************************************************)
EXTENDS Integers, FiniteSets

CONSTANTS
    Backup,        \* backups that may run at once
    RetentionCount,
    MaxBackups,    \* bound: backups started
    MaxSaves       \* bound: searches saved

ASSUME BackupsAssumption ==
    RetentionCount \in Nat \ {0} /\ MaxBackups \in Nat /\ MaxSaves \in Nat

VARIABLES
    saved,       \* searches in the store
    found,       \* the evidence each of them discovered
    snapshots,   \* research-gateway-<second>.xlsx
    mtime,       \* st_mtime of each, as the number of the write that was its last
    writes,
    latest,      \* latest.xlsx
    backups,     \* the backups that run
    second,      \* the clock
    completed,   \* observation: the workbook of the backup that completed last
    disturbed,   \* observation: the backups begun last overlapped, or one was interrupted
    backups_made

storeVars == <<saved, found>>
folderVars == <<snapshots, mtime, writes>>
backupsVars == <<storeVars, folderVars, latest, backups, second, completed, disturbed,
                 backups_made>>

\* What a workbook holds of the store, and whether it is all there.
File == [whole: BOOLEAN, evidence: SUBSET (1..saved), discoveries: SUBSET (1..saved),
         runs: SUBSET (1..saved)]
BackingUp == [step: {"relations", "runs", "open", "write", "open_latest", "write_latest", "prune"},
              stamp: 0..second, file: File]
NoBackup == [step |-> "idle"]
Partial == [whole |-> FALSE, evidence |-> {}, discoveries |-> {}, runs |-> {}]

BackupsTypeOK ==
    /\ saved \in 0..MaxSaves /\ found \in [1..saved -> 1..saved]
    /\ second \in 0..MaxBackups /\ disturbed \in BOOLEAN
    /\ DOMAIN snapshots \subseteq 0..second /\ \A t \in DOMAIN snapshots : snapshots[t] \in File
    /\ mtime \in [DOMAIN snapshots -> 1..writes]
    /\ disturbed \/ Cardinality(DOMAIN snapshots) <= RetentionCount
         \/ \E b \in Backup : backups[b] # NoBackup
    /\ latest \in File /\ completed \in File
    /\ backups \in [Backup -> {NoBackup} \union BackingUp]

BackupsInit ==
    /\ saved = 0 /\ found = [run \in {} |-> 0]
    /\ snapshots = [t \in {} |-> Partial] /\ mtime = [t \in {} |-> 0] /\ writes = 0
    /\ latest = Partial
    /\ backups = [b \in Backup |-> NoBackup]
    /\ second = 0 /\ completed = Partial /\ disturbed = FALSE /\ backups_made = 0

-----------------------------------------------------------------------------
BackupGoes(b, step, file) ==
    backups' = [backups EXCEPT ![b] = [@ EXCEPT !.step = step, !.file = file]]
Written(t, file) ==
    /\ snapshots' = [u \in DOMAIN snapshots \union {t} |-> IF u = t THEN file ELSE snapshots[u]]
    /\ mtime' = [u \in DOMAIN snapshots \union {t} |-> IF u = t THEN writes + 1 ELSE mtime[u]]
    /\ writes' = writes + 1
AtBackupStep(b, step) == backups[b].step = step

Evidence == {found[run] : run \in 1..saved}

\* The stamp is the second of the clock; list_evidence is the first read.
StartBackup(b) ==
    /\ backups[b] = NoBackup
    /\ backups_made < MaxBackups /\ backups_made' = backups_made + 1
    /\ backups' = [backups EXCEPT ![b] =
          [step |-> "relations", stamp |-> second,
           file |-> [Partial EXCEPT !.whole = TRUE, !.evidence = Evidence]]]
    /\ disturbed' = (\E c \in Backup : backups[c] # NoBackup)
    /\ UNCHANGED <<storeVars, folderVars, latest, second, completed>>

\* export_relations: the discoveries of the evidence that was read, later ones included.
ReadRelations(b) ==
    /\ AtBackupStep(b, "relations")
    /\ BackupGoes(b, "runs", [backups[b].file EXCEPT
          !.discoveries = {run \in 1..saved : found[run] \in backups[b].file.evidence}])
    /\ UNCHANGED <<storeVars, folderVars, latest, second, completed, disturbed, backups_made>>

\* list_search_runs reads last.
ReadRuns(b) ==
    /\ AtBackupStep(b, "runs")
    /\ BackupGoes(b, "open", [backups[b].file EXCEPT !.runs = 1..saved])
    /\ UNCHANGED <<storeVars, folderVars, latest, second, completed, disturbed, backups_made>>

\* workbook.save opens the file of its second, truncating it, and then writes it.
OpenSnapshot(b) ==
    /\ AtBackupStep(b, "open")
    /\ Written(backups[b].stamp, Partial)
    /\ BackupGoes(b, "write", backups[b].file)
    /\ UNCHANGED <<storeVars, latest, second, completed, disturbed, backups_made>>

WriteSnapshot(b) ==
    /\ AtBackupStep(b, "write")
    /\ Written(backups[b].stamp, backups[b].file)
    /\ BackupGoes(b, "open_latest", backups[b].file)
    /\ UNCHANGED <<storeVars, latest, second, completed, disturbed, backups_made>>

\* copy2 opens latest.xlsx for writing and copies what the snapshot holds by then.
OpenLatest(b) ==
    /\ AtBackupStep(b, "open_latest")
    /\ latest' = Partial
    /\ BackupGoes(b, "write_latest", backups[b].file)
    /\ UNCHANGED <<storeVars, folderVars, second, completed, disturbed, backups_made>>

WriteLatest(b) ==
    /\ AtBackupStep(b, "write_latest")
    /\ latest' = IF backups[b].stamp \in DOMAIN snapshots THEN snapshots[backups[b].stamp]
                                                          ELSE Partial
    /\ BackupGoes(b, "prune", backups[b].file)
    /\ UNCHANGED <<storeVars, folderVars, second, completed, disturbed, backups_made>>

Newer(t) == {u \in DOMAIN snapshots : mtime[u] > mtime[t]}

\* Mutant: oldest first, and the newest are the stale ones.
StaleNewest == {t \in DOMAIN snapshots :
                   Cardinality(DOMAIN snapshots \ (Newer(t) \union {t})) >= RetentionCount}

\* Mutant: one snapshot beyond retention_count is kept.
StaleOneLater == {t \in DOMAIN snapshots : Cardinality(Newer(t)) > RetentionCount}

\* _prune: newest first, all beyond retention_count.
Stale == {t \in DOMAIN snapshots : Cardinality(Newer(t)) >= RetentionCount}

Prune(b) ==
    /\ AtBackupStep(b, "prune")
    /\ snapshots' = [t \in DOMAIN snapshots \ Stale |-> snapshots[t]]
    /\ mtime' = [t \in DOMAIN snapshots \ Stale |-> mtime[t]]
    /\ backups' = [backups EXCEPT ![b] = NoBackup]
    /\ completed' = backups[b].file
    /\ UNCHANGED <<storeVars, writes, latest, second, disturbed, backups_made>>

\* A backup that is killed or raises leaves its files as they are.
InterruptBackup(b) ==
    /\ backups[b] # NoBackup
    /\ backups' = [backups EXCEPT ![b] = NoBackup] /\ disturbed' = TRUE
    /\ UNCHANGED <<storeVars, folderVars, latest, second, completed, backups_made>>

SaveDiscovery ==
    /\ saved < MaxSaves /\ saved' = saved + 1
    /\ \E evidence \in Evidence \union {saved + 1} :
          found' = [run \in 1..saved + 1 |-> IF run <= saved THEN found[run] ELSE evidence]
    /\ UNCHANGED <<folderVars, latest, backups, second, completed, disturbed, backups_made>>

NextSecond ==
    /\ second < MaxBackups /\ second' = second + 1
    /\ UNCHANGED <<storeVars, folderVars, latest, backups, completed, disturbed, backups_made>>

BackupsNext ==
    \/ \E b \in Backup : StartBackup(b) \/ ReadRelations(b) \/ ReadRuns(b) \/ OpenSnapshot(b)
                         \/ WriteSnapshot(b) \/ OpenLatest(b) \/ WriteLatest(b) \/ Prune(b)
                         \/ InterruptBackup(b)
    \/ SaveDiscovery \/ NextSecond

BackupsSpec == BackupsInit /\ [][BackupsNext]_backupsVars

-----------------------------------------------------------------------------
(* Properties                                                              *)

NoBackupRuns == \A b \in Backup : backups[b] = NoBackup

\* "latest.xlsx always points to the newest completed snapshot" (README.md): between backups it
\* is that workbook, whole, and the snapshot itself outlived the pruning; every discovery in it
\* names a run that is in it too, and its evidence is the evidence of its discoveries, also when
\* searches were saved between the reads.  Backups that overlap, within one second or not, and
\* one that is interrupted may leave latest.xlsx older or partial, until the next one that runs
\* alone to its end: that one repairs it, and the number of snapshots, whatever came before.
LatestIsNewestSnapshot ==
    ~disturbed /\ completed.whole /\ NoBackupRuns =>
        /\ latest = completed
        /\ \E t \in DOMAIN snapshots : snapshots[t] = completed
        /\ latest.discoveries \subseteq latest.runs
        /\ latest.evidence = {found[run] : run \in latest.discoveries}
=============================================================================
