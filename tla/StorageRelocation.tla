-------------------------- MODULE StorageRelocation --------------------------
(***************************************************************************)
(* relocate_storage (operations/storage.py) and initialize_oauth              *)
(* (oauth/setup.py) rewrite the one configuration file that every gateway      *)
(* process reads when it starts; meanwhile a gateway that started earlier      *)
(* goes on saving into the store it was started with.                        *)
(*                                                                         *)
(* A store is the set of searches saved in it; a path names the database      *)
(* under a root, and the other directories that move with it.                *)
(***************************************************************************)
EXTENDS Integers, Sequences, FiniteSets

CONSTANTS
    Root,          \* the places a database can be
    FirstRoot,     \* the one the configuration names at first
    Rewriter,      \* commands that may run at once
    MaxRewrites,   \* bound: relocate-storage and oauth-init commands
    MaxSearches    \* bound: searches saved

ASSUME StorageAssumption ==
    FirstRoot \in Root /\ MaxRewrites \in Nat /\ MaxSearches \in Nat

VARIABLES
    config,       \* config.toml: the root of the database, and whether OAuth is set up
    stores,       \* the databases that exist
    gateway,      \* the root a running gateway has loaded, if one runs
    rewrites,     \* the running commands
    searches,     \* searches saved
    apart,        \* observation: a search was saved in a store the configuration does not
                  \* name, or while the configuration was being rewritten
    adopted,      \* observation: a relocation took a database that was there already
    rewrites_made

storageVars == <<config, stores, gateway, rewrites, searches, apart, adopted, rewrites_made>>

Config == [root: Root, oauth: BOOLEAN]
NotRunning == [step |-> "idle"]
Rewriting == [name: {"relocate", "oauth_init"}, step: {"look", "copy", "read", "replace"},
              source: Root, target: Root, text: Config]
NoGateway == <<>>

StorageTypeOK ==
    /\ config \in Config
    /\ DOMAIN stores \subseteq Root /\ \A r \in DOMAIN stores : stores[r] \subseteq 1..searches
    /\ gateway \in {NoGateway} \union {<<r>> : r \in Root}
    /\ searches \in 0..MaxSearches /\ rewrites_made \in 0..MaxRewrites
    /\ rewrites \in [Rewriter -> {NotRunning} \union Rewriting]
    /\ apart \in BOOLEAN /\ adopted \in BOOLEAN

StorageInit ==
    /\ config = [root |-> FirstRoot, oauth |-> FALSE]
    /\ stores = [r \in {} |-> {}]
    /\ gateway = NoGateway
    /\ rewrites = [w \in Rewriter |-> NotRunning]
    /\ searches = 0 /\ apart = FALSE /\ adopted = FALSE /\ rewrites_made = 0

-----------------------------------------------------------------------------
RewriteGoes(w, step) ==
    rewrites' = [rewrites EXCEPT ![w] = IF step = "idle" THEN NotRunning
                                                         ELSE [@ EXCEPT !.step = step]]
StoreAt(r, searches_of) ==
    stores' = [q \in DOMAIN stores \union {r} |-> IF q = r THEN searches_of ELSE stores[q]]

SearchesAt(r) == IF r \in DOMAIN stores THEN stores[r] ELSE {}

\* Mutant: the configuration is rewritten first, and the copy made when it names the target.
CopiedLast(step) == CASE step = "look" -> "read" [] step = "read" -> "replace"
                      [] step = "replace" -> "copy" [] OTHER -> "idle"

\* The order of the steps of relocate_storage.
Following(step) == CASE step = "look" -> "copy" [] step = "copy" -> "read"
                     [] step = "read" -> "replace" [] OTHER -> "idle"

\* A command reads the configuration: relocate-storage names a target, oauth-init keeps it.
StartRewrite(w) ==
    /\ rewrites[w] = NotRunning
    /\ rewrites_made < MaxRewrites /\ rewrites_made' = rewrites_made + 1
    /\ \/ \E target \in Root : rewrites' = [rewrites EXCEPT ![w] =
             [name |-> "relocate", step |-> "look", source |-> config.root, target |-> target,
              text |-> config]]
       \/ rewrites' = [rewrites EXCEPT ![w] =
             [name |-> "oauth_init", step |-> "read", source |-> config.root,
              target |-> config.root, text |-> config]]
    /\ UNCHANGED <<config, stores, gateway, searches, apart, adopted>>

\* A target that is not there is created, empty, by connecting to it; one that is there is kept.
LookAtTarget(w) ==
    /\ rewrites[w].step = "look"
    /\ LET target == rewrites[w].target
           source == rewrites[w].source
           there == target \in DOMAIN stores
       IN  /\ IF there THEN UNCHANGED stores ELSE StoreAt(target, {})
           /\ adopted' = (adopted \/ (there /\ target # source))
           /\ RewriteGoes(w, IF source # target /\ source \in DOMAIN stores /\ ~there
                                THEN Following("look") ELSE "read")
    /\ UNCHANGED <<config, gateway, searches, apart, rewrites_made>>

\* sqlite3 backup: one snapshot of the source, in one transaction of the target.
CopyStore(w) ==
    /\ rewrites[w].step = "copy"
    /\ StoreAt(rewrites[w].target, SearchesAt(rewrites[w].source))
    /\ RewriteGoes(w, Following("copy"))
    /\ UNCHANGED <<config, gateway, searches, apart, adopted, rewrites_made>>

\* The text that will be rewritten is read (relocate-storage has backed the file up before).
ReadText(w) ==
    /\ rewrites[w].step = "read"
    /\ rewrites' = [rewrites EXCEPT ![w].step = Following("read"), ![w].text = config]
    /\ UNCHANGED <<config, stores, gateway, searches, apart, adopted, rewrites_made>>

\* os.replace puts the rewritten text in place, whatever the file says by now.
ReplaceConfig(w) ==
    /\ rewrites[w].step = "replace"
    /\ config' = IF rewrites[w].name = "relocate"
                   THEN [rewrites[w].text EXCEPT !.root = rewrites[w].target]
                   ELSE [rewrites[w].text EXCEPT !.oauth = TRUE]
    /\ RewriteGoes(w, IF rewrites[w].name = "relocate" THEN Following("replace") ELSE "idle")
    /\ UNCHANGED <<stores, gateway, searches, apart, adopted, rewrites_made>>

\* A command that is killed, or whose write fails, leaves what it has done.
RewriteStops(w) ==
    /\ rewrites[w] # NotRunning
    /\ rewrites' = [rewrites EXCEPT ![w] = NotRunning]
    /\ UNCHANGED <<config, stores, gateway, searches, apart, adopted, rewrites_made>>

-----------------------------------------------------------------------------
(* The gateway                                                             *)

\* load_settings, then migrate creates the database when it is not there.
StartGateway ==
    /\ gateway = NoGateway
    /\ gateway' = <<config.root>>
    /\ IF config.root \in DOMAIN stores THEN UNCHANGED stores ELSE StoreAt(config.root, {})
    /\ UNCHANGED <<config, rewrites, searches, apart, adopted, rewrites_made>>

StopGateway ==
    /\ gateway # NoGateway
    /\ gateway' = NoGateway
    /\ UNCHANGED <<config, stores, rewrites, searches, apart, adopted, rewrites_made>>

SaveSearch ==
    /\ gateway # NoGateway /\ searches < MaxSearches
    /\ searches' = searches + 1
    /\ StoreAt(gateway[1], stores[gateway[1]] \union {searches'})
    /\ apart' = (apart \/ gateway[1] # config.root
                       \/ \E w \in Rewriter : rewrites[w] # NotRunning)
    /\ UNCHANGED <<config, gateway, rewrites, adopted, rewrites_made>>

StorageNext ==
    \/ \E w \in Rewriter : StartRewrite(w) \/ LookAtTarget(w) \/ CopyStore(w) \/ ReadText(w)
                           \/ ReplaceConfig(w) \/ RewriteStops(w)
    \/ StartGateway \/ StopGateway \/ SaveSearch

StorageSpec == StorageInit /\ [][StorageNext]_storageVars

-----------------------------------------------------------------------------
(* Properties                                                              *)

\* The database that the configuration names holds every search ever saved, through any number
\* of relocations, killed and overlapping commands and restarts ("the source DB is preserved"),
\* unless a gateway saved while the file was rewritten or into a store it no longer names, or a
\* relocation met a database at its target: that one is kept, be it an older copy from an
\* earlier move or the empty file of a copy that was interrupted.
ConfiguredStoreHoldsAll ==
    ~apart /\ ~adopted =>
        SearchesAt(config.root) = 1..searches
=============================================================================
