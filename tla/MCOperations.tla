----------------------------- MODULE MCOperations -----------------------------
(***************************************************************************)
(* The components around the Evidence Store that share no state with each    *)
(* other: the initial state picks one, and only that one moves.               *)
(***************************************************************************)
EXTENDS ServiceLifecycle, GithubPublish, StorageRelocation, Backups

VARIABLE component

OperationsInit ==
    /\ component \in {"lifecycle", "github", "storage", "backups"}
    /\ LifecycleInit /\ GithubInit /\ StorageInit /\ BackupsInit
    /\ component # "lifecycle" => unit.owner = "none"

OperationsNext ==
    /\ UNCHANGED component
    /\ \/ /\ component = "lifecycle" /\ LifecycleNext
          /\ UNCHANGED <<githubVars, storageVars, backupsVars>>
       \/ /\ component = "github" /\ GithubNext
          /\ UNCHANGED <<lifecycleVars, storageVars, backupsVars>>
       \/ /\ component = "storage" /\ StorageNext
          /\ UNCHANGED <<lifecycleVars, githubVars, backupsVars>>
       \/ /\ component = "backups" /\ BackupsNext
          /\ UNCHANGED <<lifecycleVars, githubVars, storageVars>>

OperationsSpec ==
    /\ OperationsInit
    /\ [][OperationsNext]_<<component, lifecycleVars, githubVars, storageVars, backupsVars>>
    /\ LifecycleFairness

\* Every component keeps its types.
OperationsTypeOK ==
    LifecycleTypeOK /\ GithubTypeOK /\ StorageTypeOK /\ BackupsTypeOK
=============================================================================
