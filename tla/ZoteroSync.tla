----------------------------- MODULE ZoteroSync -----------------------------
(***************************************************************************)
(* ZoteroAdapter of integrations/zotero.py with the tables zotero_links     *)
(* and citation_references: calls that read a remote library, decide, and  *)
(* write it back under the version they read, while other clients of the    *)
(* library edit it and other calls run between any two awaits.             *)
(*                                                                         *)
(* The Zotero library is external.  It refuses a PATCH or DELETE whose     *)
(* If-Unmodified-Since-Version is not the object's version.                  *)
(*                                                                         *)
(* A search is taken to find every item that matches.  In the code it asks    *)
(* for 25 items and for the first 100 folders, so that in a larger library    *)
(* an item may be missed and posted again; and matching (by DOI, arXiv id, or *)
(* title, year and author) is one relation here, the same work, where the code *)
(* compares what the two records happen to have.                             *)
(***************************************************************************)
EXTENDS Integers, Sequences, FiniteSets

CONSTANTS
    Call,           \* calls that may run at once
    Evidence, NoEvidence,
    FinalCorpus,    \* list_evidence(final=True), in its order
    Included,       \* evidence whose screening_status is "included", final or not
    Work,           \* what DOI, arXiv id and title-year-author identify
    WorkOf,         \* the work of each evidence record
    ItemKey, FolderKey, NoKey,
    Tag,
    CollectionKey,  \* settings.collection_key, or NoKey when only a name is set
    FirstItems, FirstFolders,  \* the libraries a behaviour may start from
    AskedFolder,    \* bound: the folders callers name
    Synchroniser,   \* bound: the calls that synchronise, again and again
    MaxCalls,       \* bound: calls that do not synchronise
    MaxEdits,       \* bound: changes made by other clients
    MaxFaults,      \* bound: failed requests, lost answers, cancellations
    MaxTogether     \* bound: other calls, changes and faults in one behaviour

Final == {FinalCorpus[n] : n \in DOMAIN FinalCorpus}
FolderName == {"corpus", "other"}

Item == [work: Work, tags: SUBSET Tag, folders: SUBSET FolderKey,
         children: BOOLEAN, version: Nat]
Folder == [name: FolderName, parent: FolderKey \union {NoKey}, version: Nat]

\* A library keeps records under some of the keys.
Keyed(f, K, R) == DOMAIN f \subseteq K /\ f \in [DOMAIN f -> R]

ASSUME ZoteroAssumption ==
    /\ FinalCorpus \in Seq(Evidence) /\ Included \subseteq Evidence
    /\ NoEvidence \notin Evidence /\ NoKey \notin ItemKey \union FolderKey
    /\ NoKey \notin [key: ItemKey, item: Item]
    /\ WorkOf \in [Evidence -> Work]
    /\ CollectionKey \in FolderKey \union {NoKey}
    /\ Synchroniser \subseteq Call /\ AskedFolder \subseteq FolderKey
    /\ \A held \in FirstItems : Keyed(held, ItemKey, Item)
    /\ \A held \in FirstFolders : Keyed(held, FolderKey, Folder)
    /\ MaxCalls \in Nat /\ MaxEdits \in Nat /\ MaxFaults \in Nat /\ MaxTogether \in Nat

VARIABLES
    items, folders,   \* the remote library
    links,            \* zotero_links: evidence -> item_key
    citation_references,
    audit_events,     \* the kinds of event recorded so far
    calls,            \* the locals of each call, and what it awaits
    raced,            \* observation: works held twice at first, or posted or added while a
                      \* call was about to post them
    unlinked,         \* observation: evidence whose link delete_item removed
    started, edits, faults

library == <<items, folders>>
tables == <<links, citation_references, audit_events>>
vars == <<items, folders, links, citation_references, audit_events, calls,
          raced, unlinked, started, edits, faults>>

Operation == {"sync", "create", "add_to_collection", "remove_from_collection",
              "add_tags", "remove_tags", "set_tags", "delete_item",
              "create_collection", "delete_collection", "cite"}

\* What a call does next: "completed" and "failed" have only their audit event left.
StepName == {"idle", "find_folder", "new_folder", "link", "search", "report", "patch", "save",
             "post", "save_created", "folder", "evidence", "item", "read", "children",
             "delete", "unlink", "candidates", "contents", "list", "completed", "failed"}

\* An item as a call read it; a folder as it was listed, and one being walked.
Snapshot(i) == [key |-> i, item |-> items[i]]
Snapshots == [key: ItemKey, item: Item]
Listed(f) == [key |-> f, version |-> folders[f].version]
ListedFolder == [key: FolderKey, version: Nat]
Opened(listed) == [key |-> listed.key, version |-> listed.version, todo |-> {}]
Frame == [key: FolderKey, version: Nat, todo: SUBSET ListedFolder]
Match == [evidence: Evidence, snap: Snapshots]
Creation == [at: Nat, evidence: Evidence, key: ItemKey]

CallState ==
    [op: Operation \union {"none"}, step: StepName, dry: BOOLEAN,
     folder: FolderKey \union {NoKey}, key: ItemKey \union {NoKey},
     snap: Snapshots \union {NoKey}, evidence: Evidence \union {NoEvidence},
     work: Work \union {NoKey}, tags: SUBSET Tag, name: FolderName, recursive: BOOLEAN,
     at: Nat \ {0}, matched: Seq(Match), create: Seq(Evidence), created: SUBSET Creation,
     missing: BOOLEAN, stack: Seq(Frame)]

Idle == [op |-> "none", step |-> "idle", dry |-> TRUE, folder |-> NoKey, key |-> NoKey,
         snap |-> NoKey, evidence |-> NoEvidence, work |-> NoKey, tags |-> {},
         name |-> "other", recursive |-> FALSE, at |-> 1, matched |-> <<>>,
         create |-> <<>>, created |-> {}, missing |-> FALSE, stack |-> <<>>]

ZoteroTypeOK ==
    /\ Keyed(items, ItemKey, Item) /\ Keyed(folders, FolderKey, Folder)
    /\ Keyed(links, Evidence, ItemKey)
    /\ citation_references \subseteq [item: ItemKey, evidence: Evidence \union {NoEvidence}]
    /\ audit_events \subseteq [operation: Operation, status: {"completed", "failed"}]
    /\ calls \in [Call -> CallState]
    /\ raced \subseteq Work /\ unlinked \subseteq Evidence
    /\ started \in 0..MaxCalls /\ edits \in 0..MaxEdits /\ faults \in 0..MaxFaults

Init ==
    /\ items \in FirstItems /\ folders \in FirstFolders
    /\ links = <<>> /\ citation_references = {} /\ audit_events = {}
    /\ calls = [c \in Call |-> Idle]
    /\ raced = {w \in Work : \E i, j \in DOMAIN items :
                    i # j /\ items[i].work = w /\ items[j].work = w}
    /\ unlinked = {}
    /\ started = 0 /\ edits = 0 /\ faults = 0

-----------------------------------------------------------------------------
(* Local steps of a call.                                                  *)

Goto(c, call) == calls' = [calls EXCEPT ![c] = call]
Await(c, step) == Goto(c, [calls[c] EXCEPT !.step = step])
Ended(c, status) ==
    [Idle EXCEPT !.op = calls[c].op, !.dry = calls[c].dry, !.step = status]
Raise(c) == Goto(c, Ended(c, "failed"))
Return(c) == Goto(c, Ended(c, "completed"))

MayStart == started < MaxCalls /\ started + edits + faults < MaxTogether
MayEdit == edits < MaxEdits /\ started + edits + faults < MaxTogether
MayFail == faults < MaxFaults /\ started + edits + faults < MaxTogether

\* A write reached the library; its answer reaches the call, or is lost and raises.
Answered(c, call) ==
    \/ Goto(c, call) /\ UNCHANGED faults
    \/ /\ MayFail /\ faults' = faults + 1
       /\ Raise(c)

\* What a call read of items, and the keys it holds.
Snaps(call) ==
    ({call.snap} \ {NoKey}) \union {call.matched[n].snap : n \in DOMAIN call.matched}
ItemKeysOf(call) ==
    {call.key} \union {snap.key : snap \in Snaps(call)} \union {r.key : r \in call.created}
FolderKeysOf(call) ==
    {call.folder} \union UNION {{call.stack[n].key} \union {l.key : l \in call.stack[n].todo} :
                                    n \in DOMAIN call.stack}

\* Keys that nothing names stand for the keys the library has not given yet.
FreshItems == ItemKey \ (DOMAIN items \union {links[e] : e \in DOMAIN links}
    \union {r.item : r \in citation_references}
    \union UNION {ItemKeysOf(calls[c]) : c \in Call})
FreshFolders == FolderKey \ (DOMAIN folders
    \union (UNION {items[i].folders : i \in DOMAIN items})
    \union (UNION {FolderKeysOf(calls[c]) : c \in Call}))

\* Which unused key the library gives makes no difference.
FreshItem == CHOOSE i \in FreshItems : TRUE
FreshFolder == CHOOSE f \in FreshFolders : TRUE
Namings(ns) == {key \in [ns -> FreshItems] : \A m, n \in ns : m # n => key[m] # key[n]}

Put(f, key, value) ==
    [k \in DOMAIN f \union {key} |-> IF k = key THEN value ELSE f[k]]
Drop(f, keys) == [k \in DOMAIN f \ keys |-> f[k]]

\* Works a call has looked for in vain and is about to post.
Pending(call) ==
    IF call.op = "sync" THEN {WorkOf[call.create[n]] : n \in DOMAIN call.create}
    ELSE IF call.op = "create" /\ call.step = "post" THEN {call.work} ELSE {}
PendingElsewhere(c) == UNION {Pending(calls[d]) : d \in Call \ {c}}

\* _merged_item_changes: the folders and tags wanted, and whether they differ.
Merged(item, fs, ts) == [folders |-> item.folders \union fs, tags |-> item.tags \union ts]
Differs(item, wanted) == wanted.folders # item.folders \/ wanted.tags # item.tags

\* Every change gives an item a new version.
Changed(item, fs, ts) == [item EXCEPT !.folders = fs, !.tags = ts, !.version = @ + 1]

\* Mutant: the version header is not sent.
IsCurrentAlways(snap) == snap.key \in DOMAIN items

\* Mutant: the version is looked for where an item has none, and 0 is sent.
IsCurrentAtZero(snap) == snap.key \in DOMAIN items /\ items[snap.key].version = 0

\* The If-Unmodified-Since-Version header of _patch_item and delete_item.
IsCurrent(snap) == snap.key \in DOMAIN items /\ items[snap.key].version = snap.item.version

\* Only what differs from the item that was read is sent.
Patched(snap, wanted) ==
    LET Sent(want, read, held) == IF want = read THEN held ELSE want
        held == items[snap.key]
    IN  Put(items, snap.key,
            Changed(held, Sent(wanted.folders, snap.item.folders, held.folders),
                          Sent(wanted.tags, snap.item.tags, held.tags)))

NewItem(w, fs, ts) ==
    [work |-> w, tags |-> ts, folders |-> fs, children |-> FALSE, version |-> 0]

\* Mutant: only unfiled items are searched.
UnfiledMatchesOf(w) == {i \in DOMAIN items : items[i].work = w /\ items[i].folders = {}}

\* _find_existing_item with _match_reason.
MatchesOf(w) == {i \in DOMAIN items : items[i].work = w}

-----------------------------------------------------------------------------
(* sync_final_corpus                                                       *)

SyncFolders(call) == {call.folder} \ {NoKey}

\* Where the synchronisation goes when the step it is in has ended.
SyncStep(call) ==
    IF call.at <= Len(FinalCorpus) THEN "link"
    ELSE IF call.dry THEN "report"
    ELSE IF call.matched # <<>> THEN
        LET item == Head(call.matched).snap.item
        IN  IF Differs(item, Merged(item, SyncFolders(call), {})) THEN "patch" ELSE "save"
    ELSE IF call.create # <<>> THEN "post" ELSE "completed"
Continue(call) == [call EXCEPT !.step = SyncStep(call)]

SyncCall(dry) ==
    LET call == [Idle EXCEPT !.op = "sync", !.dry = dry, !.folder = CollectionKey]
    IN  IF CollectionKey = NoKey THEN [call EXCEPT !.step = "find_folder"] ELSE Continue(call)

StartSync(c) ==
    /\ calls[c] = Idle /\ c \in Synchroniser
    /\ Goto(c, SyncCall(FALSE))
    /\ UNCHANGED <<items, folders, links, citation_references, audit_events,
                   raced, unlinked, started, edits, faults>>

PlanSync(c) ==
    /\ calls[c] = Idle /\ MayStart /\ started' = started + 1
    /\ Goto(c, SyncCall(TRUE))
    /\ UNCHANGED <<items, folders, links, citation_references, audit_events,
                   raced, unlinked, edits, faults>>

\* _find_collection: the first listed folder of the configured name.
FindCollection(c) ==
    /\ calls[c].op = "sync" /\ calls[c].step = "find_folder"
    /\ LET found == {f \in DOMAIN folders : folders[f].name = "corpus"} IN
       \/ \E f \in found : Goto(c, Continue([calls[c] EXCEPT !.folder = f]))
       \/ /\ found = {}
          /\ IF calls[c].dry THEN Goto(c, Continue(calls[c])) ELSE Await(c, "new_folder")
    /\ UNCHANGED <<items, folders, links, citation_references, audit_events,
                   raced, unlinked, started, edits, faults>>

CreateCorpusFolder(c) ==
    /\ calls[c].op = "sync" /\ calls[c].step = "new_folder"
    /\ FreshFolders # {}
    /\ LET f == FreshFolder IN
          /\ folders' = Put(folders, f, [name |-> "corpus", parent |-> NoKey, version |-> 0])
          /\ Answered(c, Continue([calls[c] EXCEPT !.folder = f]))
    /\ UNCHANGED <<items, links, citation_references, audit_events,
                   raced, unlinked, started, edits>>

\* Evidence that has a link is skipped, whatever became of its item.
SyncLookUpLink(c) ==
    /\ calls[c].op = "sync" /\ calls[c].step = "link"
    /\ IF FinalCorpus[calls[c].at] \in DOMAIN links
         THEN Goto(c, Continue([calls[c] EXCEPT !.at = @ + 1]))
         ELSE Await(c, "search")
    /\ UNCHANGED <<items, folders, links, citation_references, audit_events,
                   raced, unlinked, started, edits, faults>>

\* A dry run only counts what it finds.
SyncSearch(c) ==
    /\ calls[c].op = "sync" /\ calls[c].step = "search"
    /\ LET e == FinalCorpus[calls[c].at]
           next == [calls[c] EXCEPT !.at = @ + 1]
       IN  \/ /\ calls[c].dry
              /\ Goto(c, Continue(next))
           \/ ~calls[c].dry /\ \E i \in MatchesOf(WorkOf[e]) :
                 Goto(c, Continue([next EXCEPT
                     !.matched = Append(@, [evidence |-> e, snap |-> Snapshot(i)])]))
           \/ /\ ~calls[c].dry /\ MatchesOf(WorkOf[e]) = {}
              /\ Goto(c, Continue([next EXCEPT !.create = Append(@, e)]))
    /\ UNCHANGED <<items, folders, links, citation_references, audit_events,
                   raced, unlinked, started, edits, faults>>

\* The plan of a dry run is returned and nothing is recorded.
SyncReport(c) ==
    /\ calls[c].op = "sync" /\ calls[c].step = "report"
    /\ Goto(c, Idle)
    /\ UNCHANGED <<items, folders, links, citation_references, audit_events,
                   raced, unlinked, started, edits, faults>>

SyncPatch(c) ==
    /\ calls[c].op = "sync" /\ calls[c].step = "patch"
    /\ LET snap == Head(calls[c].matched).snap IN
       IF IsCurrent(snap)
         THEN /\ items' = Patched(snap, Merged(snap.item, SyncFolders(calls[c]), {}))
              /\ Answered(c, [calls[c] EXCEPT !.step = "save"])
         ELSE Raise(c) /\ UNCHANGED <<items, faults>>
    /\ UNCHANGED <<folders, links, citation_references, audit_events,
                   raced, unlinked, started, edits>>

SaveLink(e, i) ==
    /\ links' = Put(links, e, i)
    /\ unlinked' = unlinked \ {e}

SyncSaveMatched(c) ==
    /\ calls[c].op = "sync" /\ calls[c].step = "save"
    /\ LET m == Head(calls[c].matched) IN
          /\ SaveLink(m.evidence, m.snap.key)
          /\ Goto(c, Continue([calls[c] EXCEPT !.matched = Tail(@)]))
    /\ UNCHANGED <<items, folders, citation_references, audit_events,
                   raced, started, edits, faults>>

\* Mutant: items the library refused are not reported.
SavedStepSilent(call) == IF call.created # {} THEN "save_created" ELSE "completed"

\* The items that were created are linked before the missing ones are reported.
SavedStep(call) ==
    IF call.created # {} THEN "save_created"
    ELSE IF call.missing THEN "failed" ELSE "completed"
Saved(call) == [call EXCEPT !.step = SavedStep(call)]

\* One bulk request posts everything; the library takes any part of it.
SyncPost(c) ==
    /\ calls[c].op = "sync" /\ calls[c].step = "post"
    /\ LET create == calls[c].create
           works(ns) == {WorkOf[create[n]] : n \in ns}
       IN \E taken \in SUBSET DOMAIN create :
          /\ Namings(taken) # {}
          /\ taken # DOMAIN create => MayFail
          /\ LET key == CHOOSE naming \in Namings(taken) : TRUE
                 posted == {key[n] : n \in taken}
                 work == [i \in posted |-> WorkOf[create[CHOOSE n \in taken : key[n] = i]]]
                 call == [Idle EXCEPT
                    !.op = "sync", !.dry = FALSE, !.missing = taken # DOMAIN create,
                    !.created = {[at |-> n, evidence |-> create[n], key |-> key[n]] :
                                     n \in taken}]
             IN  /\ items' = [i \in DOMAIN items \union posted |->
                                 IF i \in posted THEN NewItem(work[i], SyncFolders(calls[c]), {})
                                 ELSE items[i]]
                 /\ IF taken = DOMAIN create THEN Answered(c, Saved(call))
                    ELSE Goto(c, Saved(call)) /\ faults' = faults + 1
          /\ raced' = raced \union (works(taken) \intersect PendingElsewhere(c))
                            \union {w \in works(taken) : \E m, n \in taken :
                                       m # n /\ WorkOf[create[m]] = w /\ WorkOf[create[n]] = w}
    /\ UNCHANGED <<folders, links, citation_references, audit_events,
                   unlinked, started, edits>>

SyncSaveCreated(c) ==
    /\ calls[c].op = "sync" /\ calls[c].step = "save_created"
    /\ \E r \in calls[c].created :
          /\ \A other \in calls[c].created : r.at <= other.at
          /\ SaveLink(r.evidence, r.key)
          /\ Goto(c, Saved([calls[c] EXCEPT !.created = @ \ {r}]))
    /\ UNCHANGED <<items, folders, citation_references, audit_events,
                   raced, started, edits, faults>>

-----------------------------------------------------------------------------
(* create_item: evidence, or a record given by its fields (NoEvidence)      *)

StartCreate(c) ==
    /\ calls[c] = Idle /\ MayStart /\ started' = started + 1
    /\ \E e \in Evidence \union {NoEvidence}, dry \in BOOLEAN, ts \in SUBSET Tag,
          f \in AskedFolder \union {NoKey} :
       \E w \in IF e = NoEvidence THEN Work ELSE {WorkOf[e]} :
          Goto(c, [Idle EXCEPT !.op = "create", !.dry = dry, !.evidence = e, !.work = w,
                               !.tags = ts, !.folder = f,
                               !.step = IF f = NoKey THEN "evidence" ELSE "folder"])
    /\ UNCHANGED <<items, folders, links, citation_references, audit_events,
                   raced, unlinked, edits, faults>>

CreateCheckFolder(c) ==
    /\ calls[c].op = "create" /\ calls[c].step = "folder"
    /\ IF calls[c].folder \in DOMAIN folders THEN Await(c, "evidence") ELSE Raise(c)
    /\ UNCHANGED <<items, folders, links, citation_references, audit_events,
                   raced, unlinked, started, edits, faults>>

\* get_evidence refuses what is not included or final; then the link is read.
CreateLookUpLink(c) ==
    /\ calls[c].op = "create" /\ calls[c].step = "evidence"
    /\ LET e == calls[c].evidence IN
       IF e \in Evidence \ (Final \union Included) THEN Raise(c)
       ELSE IF e \in DOMAIN links
            THEN Goto(c, [calls[c] EXCEPT !.key = links[e], !.step = "item"])
            ELSE Await(c, "search")
    /\ UNCHANGED <<items, folders, links, citation_references, audit_events,
                   raced, unlinked, started, edits, faults>>

CreateWants(call, snap) == Merged(snap.item, {call.folder} \ {NoKey}, call.tags)
\* Only an item that stands for evidence is linked.
CreatedStep(call) == IF call.evidence # NoEvidence THEN "save" ELSE "completed"

\* Mutant: the key of an item that was found is not kept.
WithRemoteUnnamed(call, snap) ==
    [call EXCEPT !.snap = snap,
                 !.step = IF call.dry THEN "completed"
                          ELSE IF Differs(snap.item, CreateWants(call, snap)) THEN "patch"
                          ELSE CreatedStep(call)]

\* The plan for an item that was found.
WithRemote(call, snap) ==
    [call EXCEPT !.snap = snap, !.key = snap.key,
                 !.step = IF call.dry THEN "completed"
                          ELSE IF Differs(snap.item, CreateWants(call, snap)) THEN "patch"
                          ELSE CreatedStep(call)]

\* The linked item is read by its key; one that is gone raises.
CreateGetItem(c) ==
    /\ calls[c].op = "create" /\ calls[c].step = "item"
    /\ IF calls[c].key \in DOMAIN items
         THEN Goto(c, WithRemote(calls[c], Snapshot(calls[c].key)))
         ELSE Raise(c)
    /\ UNCHANGED <<items, folders, links, citation_references, audit_events,
                   raced, unlinked, started, edits, faults>>

CreateSearch(c) ==
    /\ calls[c].op = "create" /\ calls[c].step = "search"
    /\ \/ \E i \in MatchesOf(calls[c].work) : Goto(c, WithRemote(calls[c], Snapshot(i)))
       \/ /\ MatchesOf(calls[c].work) = {}
          /\ Await(c, IF calls[c].dry THEN "completed" ELSE "post")
    /\ UNCHANGED <<items, folders, links, citation_references, audit_events,
                   raced, unlinked, started, edits, faults>>

CreatePatch(c) ==
    /\ calls[c].op = "create" /\ calls[c].step = "patch"
    /\ LET snap == calls[c].snap IN
       IF IsCurrent(snap)
         THEN /\ items' = Patched(snap, CreateWants(calls[c], snap))
              /\ Answered(c, [calls[c] EXCEPT !.step = CreatedStep(calls[c])])
         ELSE Raise(c) /\ UNCHANGED <<items, faults>>
    /\ UNCHANGED <<folders, links, citation_references, audit_events,
                   raced, unlinked, started, edits>>

CreatePost(c) ==
    /\ calls[c].op = "create" /\ calls[c].step = "post"
    /\ FreshItems # {}
    /\ LET i == FreshItem IN
          /\ items' = Put(items, i,
                          NewItem(calls[c].work, {calls[c].folder} \ {NoKey}, calls[c].tags))
          /\ Answered(c, [calls[c] EXCEPT !.key = i, !.step = CreatedStep(calls[c])])
    /\ raced' = raced \union ({calls[c].work} \intersect PendingElsewhere(c))
    /\ UNCHANGED <<folders, links, citation_references, audit_events,
                   unlinked, started, edits>>

CreateSaveLink(c) ==
    /\ calls[c].op = "create" /\ calls[c].step = "save"
    /\ SaveLink(calls[c].evidence, calls[c].key)
    /\ Return(c)
    /\ UNCHANGED <<items, folders, citation_references, audit_events,
                   raced, started, edits, faults>>

-----------------------------------------------------------------------------
(* Tags and folder membership: read the item, patch what differs           *)

Edit == {"add_to_collection", "remove_from_collection", "add_tags", "remove_tags", "set_tags"}

\* set_tags with preserve_existing is add_tags, and "set_tags" here is without it.
Edited(call) ==
    LET item == call.snap.item IN
    [folders |-> CASE call.op = "add_to_collection" -> item.folders \union {call.folder}
                   [] call.op = "remove_from_collection" -> item.folders \ {call.folder}
                   [] OTHER -> item.folders,
     tags |-> CASE call.op = "add_tags" -> item.tags \union call.tags
                [] call.op = "remove_tags" -> item.tags \ call.tags
                [] call.op = "set_tags" -> call.tags
                [] OTHER -> item.tags]

StartEdit(c) ==
    /\ calls[c] = Idle /\ MayStart /\ started' = started + 1
    /\ \E op \in Edit, i \in DOMAIN items, f \in AskedFolder, ts \in SUBSET Tag :
          Goto(c, [Idle EXCEPT !.op = op, !.dry = FALSE, !.key = i, !.folder = f, !.tags = ts,
                               !.step = IF op = "add_to_collection" THEN "folder" ELSE "read"])
    /\ UNCHANGED <<items, folders, links, citation_references, audit_events,
                   raced, unlinked, edits, faults>>

EditCheckFolder(c) ==
    /\ calls[c].op \in Edit /\ calls[c].step = "folder"
    /\ IF calls[c].folder \in DOMAIN folders THEN Await(c, "read") ELSE Raise(c)
    /\ UNCHANGED <<items, folders, links, citation_references, audit_events,
                   raced, unlinked, started, edits, faults>>

EditRead(c) ==
    /\ calls[c].op \in Edit /\ calls[c].step = "read"
    /\ IF calls[c].key \in DOMAIN items
         THEN LET call == [calls[c] EXCEPT !.snap = Snapshot(calls[c].key)]
              IN  Goto(c, [call EXCEPT !.step =
                  IF Differs(call.snap.item, Edited(call)) THEN "patch" ELSE "completed"])
         ELSE Raise(c)
    /\ UNCHANGED <<items, folders, links, citation_references, audit_events,
                   raced, unlinked, started, edits, faults>>

EditPatch(c) ==
    /\ calls[c].op \in Edit /\ calls[c].step = "patch"
    /\ IF IsCurrent(calls[c].snap)
         THEN /\ items' = Patched(calls[c].snap, Edited(calls[c]))
              /\ Answered(c, Ended(c, "completed"))
         ELSE Raise(c) /\ UNCHANGED <<items, faults>>
    /\ UNCHANGED <<folders, links, citation_references, audit_events,
                   raced, unlinked, started, edits>>

-----------------------------------------------------------------------------
(* delete_item                                                             *)

StartDeleteItem(c) ==
    /\ calls[c] = Idle /\ MayStart /\ started' = started + 1
    /\ \E i \in DOMAIN items, dry \in BOOLEAN :
          Goto(c, [Idle EXCEPT !.op = "delete_item", !.dry = dry, !.key = i, !.step = "read"])
    /\ UNCHANGED <<items, folders, links, citation_references, audit_events,
                   raced, unlinked, edits, faults>>

DeleteItemRead(c) ==
    /\ calls[c].op = "delete_item" /\ calls[c].step = "read"
    /\ IF calls[c].key \in DOMAIN items
         THEN Goto(c, [calls[c] EXCEPT !.snap = Snapshot(calls[c].key), !.step = "children"])
         ELSE Raise(c)
    /\ UNCHANGED <<items, folders, links, citation_references, audit_events,
                   raced, unlinked, started, edits, faults>>

\* Child notes and attachments are listed; a plan ends here, and children refuse it.
DeleteItemChildren(c) ==
    /\ calls[c].op = "delete_item" /\ calls[c].step = "children"
    /\ IF calls[c].key \notin DOMAIN items THEN Raise(c)
       ELSE IF calls[c].dry THEN Return(c)
       ELSE IF items[calls[c].key].children THEN Raise(c) ELSE Await(c, "delete")
    /\ UNCHANGED <<items, folders, links, citation_references, audit_events,
                   raced, unlinked, started, edits, faults>>

DeleteItem(c) ==
    /\ calls[c].op = "delete_item" /\ calls[c].step = "delete"
    /\ IF IsCurrent(calls[c].snap)
         THEN /\ items' = Drop(items, {calls[c].key})
              /\ Answered(c, [calls[c] EXCEPT !.step = "unlink"])
         ELSE Raise(c) /\ UNCHANGED <<items, faults>>
    /\ UNCHANGED <<folders, links, citation_references, audit_events,
                   raced, unlinked, started, edits>>

\* delete_zotero_links_by_item_key
DeleteItemLinks(c) ==
    /\ calls[c].op = "delete_item" /\ calls[c].step = "unlink"
    /\ LET named == {e \in DOMAIN links : links[e] = calls[c].key} IN
          /\ links' = Drop(links, named)
          /\ unlinked' = unlinked \union named
    /\ Return(c)
    /\ UNCHANGED <<items, folders, citation_references, audit_events,
                   raced, started, edits, faults>>

-----------------------------------------------------------------------------
(* create_collection                                                       *)

StartCreateCollection(c) ==
    /\ calls[c] = Idle /\ MayStart /\ started' = started + 1
    /\ \E name \in FolderName, f \in AskedFolder \union {NoKey} :
          Goto(c, [Idle EXCEPT !.op = "create_collection", !.dry = FALSE, !.name = name,
                               !.folder = f,
                               !.step = IF f = NoKey THEN "candidates" ELSE "folder"])
    /\ UNCHANGED <<items, folders, links, citation_references, audit_events,
                   raced, unlinked, edits, faults>>

CollectionParent(c) ==
    /\ calls[c].op = "create_collection" /\ calls[c].step = "folder"
    /\ IF calls[c].folder \in DOMAIN folders THEN Await(c, "candidates") ELSE Raise(c)
    /\ UNCHANGED <<items, folders, links, citation_references, audit_events,
                   raced, unlinked, started, edits, faults>>

\* A sibling of the same name is reused.
CollectionCandidates(c) ==
    /\ calls[c].op = "create_collection" /\ calls[c].step = "candidates"
    /\ LET p == calls[c].folder IN
       IF p # NoKey /\ p \notin DOMAIN folders THEN Raise(c)
       ELSE IF \E f \in DOMAIN folders : folders[f].parent = p /\ folders[f].name = calls[c].name
            THEN Return(c)
            ELSE Await(c, "post")
    /\ UNCHANGED <<items, folders, links, citation_references, audit_events,
                   raced, unlinked, started, edits, faults>>

PostCollection(c) ==
    /\ calls[c].op = "create_collection" /\ calls[c].step = "post"
    /\ LET p == calls[c].folder IN
       IF p # NoKey /\ p \notin DOMAIN folders THEN Raise(c) /\ UNCHANGED <<folders, faults>>
       ELSE /\ FreshFolders # {}
            /\ LET f == FreshFolder IN
               /\ folders' = Put(folders, f, [name |-> calls[c].name, parent |-> p, version |-> 0])
               /\ Answered(c, Ended(c, "completed"))
    /\ UNCHANGED <<items, links, citation_references, audit_events,
                   raced, unlinked, started, edits>>

-----------------------------------------------------------------------------
(* delete_collection: the tree is walked, children before their parent     *)

Children(f) == {g \in DOMAIN folders : folders[g].parent = f}
Members(f) == {i \in DOMAIN items : f \in items[i].folders}

\* The folders that go with f when the library deletes it.
Under(f) ==
    LET within[n \in 0..Cardinality(FolderKey)] ==
            IF n = 0 THEN {f} ELSE within[n - 1] \union UNION {Children(g) : g \in within[n - 1]}
    IN  within[Cardinality(FolderKey)]

\* Folders go, items stay and lose their membership.
WithoutFolders(gone) ==
    /\ folders' = Drop(folders, gone)
    /\ items' = [i \in DOMAIN items |->
                    IF items[i].folders \intersect gone = {} THEN items[i]
                    ELSE Changed(items[i], items[i].folders \ gone, items[i].tags)]

StartDeleteCollection(c) ==
    /\ calls[c] = Idle /\ MayStart /\ started' = started + 1
    /\ \E f \in AskedFolder, dry \in BOOLEAN, recursive \in BOOLEAN :
          Goto(c, [Idle EXCEPT !.op = "delete_collection", !.dry = dry,
                               !.recursive = recursive, !.folder = f, !.step = "read"])
    /\ UNCHANGED <<items, folders, links, citation_references, audit_events,
                   raced, unlinked, edits, faults>>

CollectionRead(c) ==
    /\ calls[c].op = "delete_collection" /\ calls[c].step = "read"
    /\ IF calls[c].folder \in DOMAIN folders
         THEN Goto(c, [calls[c] EXCEPT !.stack = <<Opened(Listed(calls[c].folder))>>,
                                       !.step = "contents"])
         ELSE Raise(c)
    /\ UNCHANGED <<items, folders, links, citation_references, audit_events,
                   raced, unlinked, started, edits, faults>>

\* What a dry run shows; a folder that is not empty needs recursive=true.
CollectionContents(c) ==
    /\ calls[c].op = "delete_collection" /\ calls[c].step = "contents"
    /\ LET f == calls[c].folder IN
       IF f \notin DOMAIN folders THEN Raise(c)
       ELSE IF calls[c].dry THEN Return(c)
       ELSE IF ~calls[c].recursive /\ Children(f) \union Members(f) # {}
            THEN Raise(c) ELSE Await(c, "list")
    /\ UNCHANGED <<items, folders, links, citation_references, audit_events,
                   raced, unlinked, started, edits, faults>>

\* The walk goes down into a child that was listed, or deletes the top folder.
Walk(c, stack) ==
    LET last == Len(stack) IN
    IF stack = <<>> THEN Return(c)
    ELSE IF stack[last].todo = {}
      THEN Goto(c, [calls[c] EXCEPT !.stack = stack, !.step = "delete"])
      ELSE \E listed \in stack[last].todo :
             Goto(c, [calls[c] EXCEPT !.step = "list", !.stack =
                 Append([stack EXCEPT ![last].todo = @ \ {listed}], Opened(listed))])

TreeList(c) ==
    /\ calls[c].op = "delete_collection" /\ calls[c].step = "list"
    /\ LET stack == calls[c].stack
           f == stack[Len(stack)].key
       IN  IF \/ f \notin DOMAIN folders
              \/ ~calls[c].recursive /\ Len(stack) = 1 /\ Children(f) # {}
             THEN Raise(c)
             ELSE Walk(c, [stack EXCEPT ![Len(stack)].todo = {Listed(g) : g \in Children(f)}])
    /\ UNCHANGED <<items, folders, links, citation_references, audit_events,
                   raced, unlinked, started, edits, faults>>

\* Mutant: folders are deleted whatever their version.
FolderIsThere(frame) == frame.key \in DOMAIN folders

\* The If-Unmodified-Since-Version header of _delete_collection_tree.
FolderIsCurrent(frame) ==
    frame.key \in DOMAIN folders /\ folders[frame.key].version = frame.version

TreeDelete(c) ==
    /\ calls[c].op = "delete_collection" /\ calls[c].step = "delete"
    /\ LET stack == calls[c].stack
           frame == stack[Len(stack)]
       IN  IF FolderIsCurrent(frame)
             THEN /\ WithoutFolders(Under(frame.key))
                  /\ \/ Walk(c, SubSeq(stack, 1, Len(stack) - 1)) /\ UNCHANGED faults
                     \/ MayFail /\ faults' = faults + 1 /\ Raise(c)
             ELSE Raise(c) /\ UNCHANGED <<items, folders, faults>>
    /\ UNCHANGED <<links, citation_references, audit_events,
                   raced, unlinked, started, edits>>

-----------------------------------------------------------------------------
(* record_citation_reference                                               *)

StartCite(c) ==
    /\ calls[c] = Idle /\ MayStart /\ started' = started + 1
    /\ \E i \in DOMAIN items :
          Goto(c, [Idle EXCEPT !.op = "cite", !.dry = FALSE, !.key = i, !.step = "read"])
    /\ UNCHANGED <<items, folders, links, citation_references, audit_events,
                   raced, unlinked, edits, faults>>

CiteRead(c) ==
    /\ calls[c].op = "cite" /\ calls[c].step = "read"
    /\ IF calls[c].key \in DOMAIN items THEN Await(c, "link") ELSE Raise(c)
    /\ UNCHANGED <<items, folders, links, citation_references, audit_events,
                   raced, unlinked, started, edits, faults>>

\* get_zotero_link_by_item_key: the latest of the evidence linked to the item, if any.
CiteLookUpLink(c) ==
    /\ calls[c].op = "cite" /\ calls[c].step = "link"
    /\ LET named == {e \in DOMAIN links : links[e] = calls[c].key} IN
       \E e \in IF named = {} THEN {NoEvidence} ELSE named :
          Goto(c, [calls[c] EXCEPT !.evidence = e, !.step = "save"])
    /\ UNCHANGED <<items, folders, links, citation_references, audit_events,
                   raced, unlinked, started, edits, faults>>

SaveCitation(c) ==
    /\ calls[c].op = "cite" /\ calls[c].step = "save"
    /\ citation_references' = citation_references
           \union {[item |-> calls[c].key, evidence |-> calls[c].evidence]}
    /\ Return(c)
    /\ UNCHANGED <<items, folders, links, audit_events,
                   raced, unlinked, started, edits, faults>>

-----------------------------------------------------------------------------
(* _audited and sync_final_corpus end in one audit event, but for plans of  *)
(* a synchronisation.                                                      *)

Audit(c) ==
    /\ calls[c].step \in {"completed", "failed"}
    /\ audit_events' = IF calls[c].op = "sync" /\ calls[c].dry THEN audit_events
                       ELSE audit_events \union
                            {[operation |-> calls[c].op, status |-> calls[c].step]}
    /\ Goto(c, Idle)
    /\ UNCHANGED <<items, folders, links, citation_references,
                   raced, unlinked, started, edits, faults>>

\* A request is refused or never answered, or a statement raises: nothing was written.
StepFails(c) ==
    /\ calls[c].step \notin {"idle", "completed", "failed", "report"}
    /\ MayFail /\ faults' = faults + 1
    /\ Raise(c)
    /\ UNCHANGED <<items, folders, links, citation_references, audit_events,
                   raced, unlinked, started, edits>>

\* The client cancels one call, or the process ends with all of them: no handler runs.
Interrupt(ended) ==
    /\ \E c \in ended : calls[c] # Idle
    /\ MayFail /\ faults' = faults + 1
    /\ calls' = [c \in Call |-> IF c \in ended THEN Idle ELSE calls[c]]
    /\ UNCHANGED <<items, folders, links, citation_references, audit_events,
                   raced, unlinked, started, edits>>

-----------------------------------------------------------------------------
(* Other clients of the library (external): every change gives a new        *)
(* version.                                                                *)

OthersTag ==
    /\ \E i \in DOMAIN items, ts \in SUBSET Tag :
          /\ ts # items[i].tags
          /\ items' = Put(items, i, Changed(items[i], items[i].folders, ts))
    /\ UNCHANGED <<folders, raced>>

OthersDeleteItem ==
    /\ \E i \in DOMAIN items : items' = Drop(items, {i})
    /\ UNCHANGED <<folders, raced>>

OthersAddItem ==
    /\ FreshItems # {}
    /\ \E w \in Work :
          /\ items' = Put(items, FreshItem, NewItem(w, {}, {}))
          /\ raced' = raced \union {w}
    /\ UNCHANGED folders

OthersMoveFolder ==
    /\ \E f \in DOMAIN folders, p \in DOMAIN folders \union {NoKey} :
          /\ p \notin Under(f) /\ p # folders[f].parent
          /\ folders' = Put(folders, f,
                 [folders[f] EXCEPT !.parent = p, !.version = @ + 1])
    /\ UNCHANGED <<items, raced>>

OthersEdit ==
    /\ MayEdit /\ edits' = edits + 1
    /\ OthersTag \/ OthersDeleteItem \/ OthersAddItem \/ OthersMoveFolder
    /\ UNCHANGED <<links, citation_references, audit_events, calls, unlinked, started, faults>>

-----------------------------------------------------------------------------
Start(c) ==
    \/ PlanSync(c) \/ StartCreate(c) \/ StartEdit(c) \/ StartDeleteItem(c)
    \/ StartCreateCollection(c) \/ StartDeleteCollection(c) \/ StartCite(c)

\* The next step of a call that is in progress, with whatever answer it gets.
Step(c) ==
    \/ FindCollection(c) \/ CreateCorpusFolder(c) \/ SyncLookUpLink(c) \/ SyncSearch(c)
    \/ SyncReport(c) \/ SyncPatch(c) \/ SyncSaveMatched(c) \/ SyncPost(c) \/ SyncSaveCreated(c)
    \/ CreateCheckFolder(c) \/ CreateLookUpLink(c) \/ CreateGetItem(c) \/ CreateSearch(c)
    \/ CreatePatch(c) \/ CreatePost(c) \/ CreateSaveLink(c)
    \/ EditCheckFolder(c) \/ EditRead(c) \/ EditPatch(c)
    \/ DeleteItemRead(c) \/ DeleteItemChildren(c) \/ DeleteItem(c) \/ DeleteItemLinks(c)
    \/ CollectionParent(c) \/ CollectionCandidates(c) \/ PostCollection(c)
    \/ CollectionRead(c) \/ CollectionContents(c) \/ TreeList(c) \/ TreeDelete(c)
    \/ CiteRead(c) \/ CiteLookUpLink(c) \/ SaveCitation(c)
    \/ Audit(c)

Next ==
    \/ \E c \in Call : StartSync(c) \/ Start(c) \/ Step(c) \/ StepFails(c)
    \/ \E c \in Call : Interrupt({c})
    \/ Interrupt(Call)
    \/ OthersEdit

Spec == Init /\ [][Next]_vars

\* Calls make progress, and the user goes on asking for the synchronisation.
Fairness ==
    /\ \A c \in Call : WF_vars(Step(c))
    /\ \A c \in Synchroniser : WF_vars(StartSync(c))

FairSpec == Spec /\ Fairness

-----------------------------------------------------------------------------
(* Properties                                                              *)

\* What the call has read of the item it is about to write or delete.
Saw(c) ==
    CASE calls[c].op = "sync" /\ calls[c].step = "patch" -> Head(calls[c].matched).snap
      [] OTHER -> calls[c].snap

\* What a step takes from an item, a call had seen on it when it was about to write it.
LossSeen(i) ==
    LET now == IF i \in DOMAIN items' THEN items'[i]
               ELSE [items[i] EXCEPT !.tags = {}, !.folders = {}]
        tags == items[i].tags \ now.tags
        left == (items[i].folders \ now.folders) \intersect DOMAIN folders'
    IN  tags \union left # {} =>
          \E c \in Call : /\ calls[c].step \in {"patch", "delete"} /\ Saw(c).key = i
                          /\ tags \subseteq Saw(c).item.tags
                          /\ left \subseteq Saw(c).item.folders

\* No tag and no membership in a folder that remains disappears from an item unless
\* another client took it away or the call that did had seen it on that item: two clients
\* of one library never overwrite each other's edits (docs/zotero.md, Safety behavior).
LosesOnlyWhatItSaw == [][edits' = edits => \A i \in DOMAIN items : LossSeen(i)]_vars

\* Two items stand for one work only when the library held two at first or someone added
\* one between another call's search and its POST: retries, crashes between POST and link,
\* lost answers and repeated synchronisations never duplicate an item by themselves.
DuplicatesNeedARace ==
    \A i, j \in DOMAIN items : i # j /\ items[i].work = items[j].work => items[i].work \in raced

\* A folder that a recursive deletion removes is still under the folder in which the
\* recursion found it, whatever other clients moved since.
DeletesWhereItWasListed ==
    [][\A c \in Call :
          calls[c].op = "delete_collection" /\ calls[c].step = "delete" /\ folders' # folders
              /\ edits' = edits /\ calls'[c] # calls[c] =>
            LET stack == calls[c].stack
                n == Len(stack)
            IN  n > 1 => folders[stack[n].key].parent = stack[n - 1].key]_vars

\* A synchronisation is recorded as completed only when every final evidence has a link,
\* but for links that delete_item removed meanwhile: part of a bulk POST never passes for all.
CompletedSyncLinkedAll ==
    \A c \in Call : calls[c].op = "sync" /\ calls[c].step = "completed" =>
        Final \subseteq DOMAIN links \union unlinked

\* A user who goes on synchronising ends with every final evidence linked, whatever
\* failed, was refused as stale or was half done before.
EveryFinalIsLinked == <>[](Final \subseteq DOMAIN links)
=============================================================================
