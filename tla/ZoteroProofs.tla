---------------------------- MODULE ZoteroProofs ----------------------------
(* The invariant of ZoteroSync and what follows from it.                   *)
EXTENDS ZoteroSync, TLAPS

-----------------------------------------------------------------------------
(* What holds of every call between any two steps.                         *)

\* The locals a step goes on with were set by the steps before it.
StepFits(call) ==
    /\ call.op = "none" => call.step = "idle"
    /\ call.step \notin {"completed", "failed"} =>
      /\ call.op = "create" =>
           /\ call.work \in Work
           /\ call.step = "patch" => call.snap # NoKey /\ call.snap.key = call.key
           /\ call.step = "save" => call.evidence \in Evidence /\ call.key \in ItemKey
      /\ call.op \in Edit =>
           /\ call.key \in ItemKey /\ call.folder \in FolderKey
           /\ call.step = "patch" => call.snap # NoKey /\ call.snap.key = call.key
      /\ call.op = "delete_item" =>
           /\ call.key \in ItemKey
           /\ call.step \in {"children", "delete"} =>
                call.snap # NoKey /\ call.snap.key = call.key
      /\ call.op = "delete_collection" =>
           /\ call.folder \in FolderKey
           /\ call.step \in {"contents", "list", "delete"} => call.stack # <<>>
      /\ call.op = "cite" => call.key \in ItemKey

\* The evidence a synchronisation has yet to link.
ToLink(call) ==
    {call.matched[n].evidence : n \in DOMAIN call.matched}
        \union {call.create[n] : n \in DOMAIN call.create}
        \union {r.evidence : r \in call.created}

\* A synchronisation has linked what it went through, or has it yet to link.
AccountsFor(call, linked) ==
    call.op = "sync" =>
      /\ call.step \in {"patch", "save", "post", "save_created", "completed"} => ~call.dry
      /\ call.step \in {"link", "search"} => call.at \in DOMAIN FinalCorpus
      /\ call.step \in {"patch", "save", "post"} => call.at > Len(FinalCorpus)
      /\ call.step \in {"patch", "save"} => call.matched # <<>>
      /\ call.step = "post" => call.matched = <<>>
      /\ call.step = "save_created" => call.matched = <<>> /\ call.create = <<>>
      /\ call.created # {} => call.step = "save_created"
      /\ call.step \notin {"save_created", "completed", "failed"} /\ ~call.dry =>
           \A n \in DOMAIN FinalCorpus :
              n < call.at => FinalCorpus[n] \in linked \union ToLink(call)
      /\ call.step = "save_created" /\ ~call.missing => Final \subseteq linked \union ToLink(call)
      /\ call.step = "completed" => Final \subseteq linked

\* An item whose version is the one a call read is the item it read.
AsRead(snap, held) ==
    /\ snap.item.version <= held.version
    /\ held.version = snap.item.version => held = snap.item
ReadsAgree(call, its) ==
    \A snap \in Snaps(call) : snap.key \in DOMAIN its => AsRead(snap, its[snap.key])

\* A work that a call is about to post is not in the library, but for races.
SearchesHold(call, its, races) ==
    \A w \in Pending(call) : (\E i \in DOMAIN its : its[i].work = w) => w \in races

\* A folder whose version is the one that was listed is where it was listed.
AsListed(listed, parent, fds) ==
    listed.key \in DOMAIN fds =>
      /\ listed.version <= fds[listed.key].version
      /\ fds[listed.key].version = listed.version => fds[listed.key].parent = parent
ListingsAgree(stack, fds) ==
    \A n \in DOMAIN stack :
      /\ \A listed \in stack[n].todo : AsListed(listed, stack[n].key, fds)
      /\ n > 1 => AsListed(stack[n], stack[n - 1].key, fds)

Sound(call, its, fds, races, linked) ==
    /\ StepFits(call) /\ AccountsFor(call, linked)
    /\ ReadsAgree(call, its) /\ SearchesHold(call, its, races) /\ ListingsAgree(call.stack, fds)

\* The evidence that has a link, or had one until its item was deleted.
Linked == DOMAIN links \union unlinked

ZoteroInv ==
    /\ ZoteroTypeOK /\ DuplicatesNeedARace
    /\ \A c \in Call : Sound(calls[c], items, folders, raced, Linked)

-----------------------------------------------------------------------------
(* The locals of a call.                                                   *)

\* Every local of a call has its type.
LEMMA FieldsTyped ==
    ASSUME NEW call \in CallState
    PROVE  /\ call.op \in Operation \union {"none"} /\ call.step \in StepName
           /\ call.dry \in BOOLEAN /\ call.folder \in FolderKey \union {NoKey}
           /\ call.key \in ItemKey \union {NoKey} /\ call.snap \in Snapshots \union {NoKey}
           /\ call.evidence \in Evidence \union {NoEvidence}
           /\ call.work \in Work \union {NoKey} /\ call.tags \subseteq Tag
           /\ call.name \in FolderName /\ call.recursive \in BOOLEAN
           /\ call.at \in Nat \ {0} /\ call.matched \in Seq(Match) /\ call.create \in Seq(Evidence)
           /\ call.created \subseteq Creation /\ call.missing \in BOOLEAN
           /\ call.stack \in Seq(Frame)
BY SMT DEF CallState

\* A call that has not begun has locals of their types.
LEMMA IdleTyped == Idle \in CallState
<1>1. <<>> \in Seq(Match) /\ <<>> \in Seq(Evidence) /\ <<>> \in Seq(Frame)
  OBVIOUS
<1>2. 1 \in Nat \ {0}
  OBVIOUS
<1>3. "none" \in Operation \union {"none"} /\ "other" \in FolderName /\ "idle" \in StepName
  BY Zenon DEF FolderName, StepName
<1>4. FALSE \in BOOLEAN /\ TRUE \in BOOLEAN
  BY Zenon
<1> QED BY <1>1, <1>2, <1>3, <1>4, Zenon DEF Idle, CallState

\* A call that only goes to another step.
LEMMA StepTyped ==
    ASSUME NEW call \in CallState, NEW s \in StepName
    PROVE  [call EXCEPT !.step = s] \in CallState
BY Zenon DEF CallState

\* A call that has only its audit event left has locals of their types.
LEMMA EndedTyped ==
    ASSUME ZoteroTypeOK, NEW c \in Call, NEW status \in {"completed", "failed"}
    PROVE  Ended(c, status) \in CallState
<1>1. calls[c] \in CallState
  BY DEF ZoteroTypeOK
<1>2. calls[c].op \in Operation \union {"none"} /\ calls[c].dry \in BOOLEAN
  BY <1>1, FieldsTyped
<1>3. status \in StepName
  BY Zenon DEF StepName
<1> QED BY <1>2, <1>3, IdleTyped, Zenon DEF Ended, CallState

\* What is left of the locals of a call that completed or failed.
LEMMA EndedFields ==
    ASSUME NEW c \in Call, NEW status
    PROVE  LET call == Ended(c, status) IN
           /\ call.op = calls[c].op /\ call.dry = calls[c].dry /\ call.step = status
           /\ call.snap = NoKey /\ call.matched = <<>> /\ call.create = <<>>
           /\ call.created = {} /\ call.stack = <<>> /\ call.key = NoKey
BY Zenon DEF Ended, Idle

\* A step replaces the locals of the call that takes it.
LEMMA Going ==
    ASSUME ZoteroTypeOK, NEW c \in Call, NEW call \in CallState, Goto(c, call)
    PROVE  /\ calls' \in [Call -> CallState] /\ calls'[c] = call
           /\ \A d \in Call : d # c => calls'[d] = calls[d]
BY DEF ZoteroTypeOK, Goto

-----------------------------------------------------------------------------
(* A call that does nothing itself while the library and the links change. *)

\* What is held under the keys in use keeps its record or has a later version of one.
MovesOn(keys, held, later) ==
    \A k \in DOMAIN later \intersect keys :
       k \in DOMAIN held /\ (later[k] = held[k] \/ later[k].version > held[k].version)

\* Items of a work that were not there before are known to race with a call.
RacesKnown(call, its, later, races, races2) ==
    /\ races \subseteq races2
    /\ \A i \in DOMAIN later : later[i].work \in Pending(call) =>
          later[i].work \in races2 \/ \E j \in DOMAIN its : its[j].work = later[i].work

\* What a call read of items are items under their keys.
LEMMA SnapsTyped ==
    ASSUME NEW call \in CallState, NEW snap \in Snaps(call)
    PROVE  snap \in Snapshots
<1>1. call.snap \in Snapshots \union {NoKey} /\ call.matched \in Seq(Match)
  BY FieldsTyped
<1>2. CASE snap \in {call.snap} \ {NoKey}
  BY <1>1, <1>2
<1>3. CASE \E n \in DOMAIN call.matched : snap = call.matched[n].snap
  <2>1. PICK n \in DOMAIN call.matched : snap = call.matched[n].snap
    BY <1>3
  <2>2. call.matched[n] \in Match
    BY <1>1
  <2> QED BY <2>1, <2>2 DEF Match
<1>4. \/ snap \in {call.snap} \ {NoKey}
      \/ \E n \in DOMAIN call.matched : snap = call.matched[n].snap
  BY DEF Snaps
<1> QED BY <1>2, <1>3, <1>4

\* What a call read agrees with the library as long as every change gives a new version.
LEMMA ReadsStay ==
    ASSUME NEW call \in CallState, NEW its, NEW later,
           Keyed(its, ItemKey, Item), Keyed(later, ItemKey, Item),
           ReadsAgree(call, its), MovesOn(ItemKeysOf(call), its, later)
    PROVE  ReadsAgree(call, later)
<1> SUFFICES ASSUME NEW snap \in Snaps(call), snap.key \in DOMAIN later
             PROVE  AsRead(snap, later[snap.key])
  BY DEF ReadsAgree
<1> DEFINE k == snap.key
<1>1. k \in ItemKeysOf(call)
  BY DEF ItemKeysOf
<1>2. k \in DOMAIN its /\ (later[k] = its[k] \/ later[k].version > its[k].version)
  BY <1>1 DEF MovesOn
<1>3. AsRead(snap, its[k])
  BY <1>2 DEF ReadsAgree
<1>4. snap \in Snapshots
  BY SnapsTyped
<1>5. snap.item.version \in Nat
  BY <1>4 DEF Snapshots, Item
<1>6. its[k].version \in Nat /\ later[k].version \in Nat
  BY <1>2 DEF Keyed, Item
<1> QED BY <1>2, <1>3, <1>5, <1>6 DEF AsRead

\* The same for the folders that a walk listed.
LEMMA ListingsStay ==
    ASSUME NEW call \in CallState, NEW fds, NEW later,
           Keyed(fds, FolderKey, Folder), Keyed(later, FolderKey, Folder),
           ListingsAgree(call.stack, fds), MovesOn(FolderKeysOf(call), fds, later)
    PROVE  ListingsAgree(call.stack, later)
<1>1. call.stack \in Seq(Frame)
  BY FieldsTyped
<1>2. ASSUME NEW listed, NEW parent, listed.key \in FolderKeysOf(call), listed.version \in Nat,
             AsListed(listed, parent, fds)
      PROVE  AsListed(listed, parent, later)
  <2> SUFFICES ASSUME listed.key \in DOMAIN later
               PROVE  /\ listed.version <= later[listed.key].version
                      /\ later[listed.key].version = listed.version =>
                            later[listed.key].parent = parent
    BY DEF AsListed
  <2>1. /\ listed.key \in DOMAIN fds
        /\ \/ later[listed.key] = fds[listed.key]
           \/ later[listed.key].version > fds[listed.key].version
    BY <1>2 DEF MovesOn
  <2>2. fds[listed.key].version \in Nat /\ later[listed.key].version \in Nat
    BY <2>1 DEF Keyed, Folder
  <2> QED BY <1>2, <2>1, <2>2 DEF AsListed
<1> SUFFICES ASSUME NEW n \in DOMAIN call.stack
             PROVE  /\ \A listed \in call.stack[n].todo :
                          AsListed(listed, call.stack[n].key, later)
                    /\ n > 1 => AsListed(call.stack[n], call.stack[n - 1].key, later)
  BY DEF ListingsAgree
<1>3. call.stack[n] \in Frame
  BY <1>1
<1>4. ASSUME NEW listed \in call.stack[n].todo PROVE AsListed(listed, call.stack[n].key, later)
  <2>1. listed.version \in Nat
    BY <1>3 DEF Frame, ListedFolder
  <2>2. listed.key \in FolderKeysOf(call)
    BY DEF FolderKeysOf
  <2>3. AsListed(listed, call.stack[n].key, fds)
    BY DEF ListingsAgree
  <2> QED BY <1>2, <2>1, <2>2, <2>3
<1>5. ASSUME n > 1 PROVE AsListed(call.stack[n], call.stack[n - 1].key, later)
  <2>1. call.stack[n].version \in Nat
    BY <1>3 DEF Frame
  <2>2. call.stack[n].key \in FolderKeysOf(call)
    BY DEF FolderKeysOf
  <2>3. AsListed(call.stack[n], call.stack[n - 1].key, fds)
    BY <1>5 DEF ListingsAgree
  <2> QED BY <1>2, <2>1, <2>2, <2>3
<1> QED BY <1>4, <1>5

\* A search that found nothing stays true, but for races that are known.
LEMMA SearchesStay ==
    ASSUME NEW call, NEW its, NEW later, NEW races, NEW races2,
           SearchesHold(call, its, races), RacesKnown(call, its, later, races, races2)
    PROVE  SearchesHold(call, later, races2)
BY DEF SearchesHold, RacesKnown

\* More links take nothing from what a synchronisation has linked.
LEMMA AccountsStay ==
    ASSUME NEW call, NEW linked, NEW linked2, linked \subseteq linked2,
           AccountsFor(call, linked)
    PROVE  AccountsFor(call, linked2)
BY DEF AccountsFor

-----------------------------------------------------------------------------
(* Steps of one call: what they leave of the others.                       *)

LibraryTyped ==
    /\ Keyed(items, ItemKey, Item) /\ Keyed(folders, FolderKey, Folder)
    /\ Keyed(links, Evidence, ItemKey)
    /\ raced \subseteq Work /\ unlinked \subseteq Evidence
RecordsTyped ==
    /\ citation_references \subseteq [item: ItemKey, evidence: Evidence \union {NoEvidence}]
    /\ audit_events \subseteq [operation: Operation, status: {"completed", "failed"}]
    /\ started \in 0..MaxCalls /\ edits \in 0..MaxEdits /\ faults \in 0..MaxFaults

\* The bounds are kept by the guards.
LEMMA RecordsStay ==
    ASSUME ZoteroTypeOK, UNCHANGED <<citation_references, audit_events>>,
           started' = started \/ (MayStart /\ started' = started + 1),
           edits' = edits \/ (MayEdit /\ edits' = edits + 1),
           faults' = faults \/ (MayFail /\ faults' = faults + 1)
    PROVE  RecordsTyped'
<1>1. started' \in 0..MaxCalls
  BY ZoteroAssumption DEF ZoteroTypeOK, MayStart
<1>2. edits' \in 0..MaxEdits
  BY ZoteroAssumption DEF ZoteroTypeOK, MayEdit
<1>3. faults' \in 0..MaxFaults
  BY ZoteroAssumption DEF ZoteroTypeOK, MayFail
<1> QED BY <1>1, <1>2, <1>3 DEF ZoteroTypeOK, RecordsTyped

\* A call that does not move stays sound while the library and the links move on.
LEMMA StaysSound ==
    ASSUME ZoteroTypeOK, LibraryTyped', NEW d \in Call,
           Sound(calls[d], items, folders, raced, Linked),
           MovesOn(ItemKeysOf(calls[d]), items, items'),
           MovesOn(FolderKeysOf(calls[d]), folders, folders'),
           RacesKnown(calls[d], items, items', raced, raced'),
           Linked \subseteq Linked'
    PROVE  Sound(calls[d], items', folders', raced', Linked')
<1>1. calls[d] \in CallState
  BY DEF ZoteroTypeOK
<1>2. /\ Keyed(items, ItemKey, Item) /\ Keyed(folders, FolderKey, Folder)
      /\ Keyed(items', ItemKey, Item) /\ Keyed(folders', FolderKey, Folder)
  BY DEF ZoteroTypeOK, LibraryTyped
<1>3. StepFits(calls[d])
  BY DEF Sound
<1>4. AccountsFor(calls[d], Linked')
  BY AccountsStay DEF Sound
<1>5. ReadsAgree(calls[d], items')
  BY <1>1, <1>2, ReadsStay DEF Sound
<1>6. SearchesHold(calls[d], items', raced')
  BY SearchesStay DEF Sound
<1>7. ListingsAgree(calls[d].stack, folders')
  BY <1>1, <1>2, ListingsStay DEF Sound
<1> QED BY <1>3, <1>4, <1>5, <1>6, <1>7 DEF Sound

\* A step of one call keeps the invariant when that call is sound after it and what the
\* other calls hold still agrees with the library.
LEMMA CallSteps ==
    ASSUME ZoteroInv, NEW c \in Call, NEW call \in CallState, Goto(c, call),
           LibraryTyped', RecordsTyped', DuplicatesNeedARace', Linked \subseteq Linked',
           \A d \in Call : d # c =>
              /\ MovesOn(ItemKeysOf(calls[d]), items, items')
              /\ MovesOn(FolderKeysOf(calls[d]), folders, folders')
              /\ RacesKnown(calls[d], items, items', raced, raced'),
           Sound(call, items', folders', raced', Linked')
    PROVE  ZoteroInv'
<1>1. ZoteroTypeOK
  BY DEF ZoteroInv
<1>2. /\ calls' \in [Call -> CallState] /\ calls'[c] = call
      /\ \A d \in Call : d # c => calls'[d] = calls[d]
  BY <1>1, Going
<1>3. ZoteroTypeOK'
  BY <1>2 DEF ZoteroTypeOK, LibraryTyped, RecordsTyped
<1>4. ASSUME NEW d \in Call PROVE Sound(calls'[d], items', folders', raced', Linked')
  <2>1. CASE d = c
    BY <1>2, <2>1
  <2>2. CASE d # c
    <3>1. Sound(calls[d], items, folders, raced, Linked)
      BY DEF ZoteroInv
    <3>2. Sound(calls[d], items', folders', raced', Linked')
      BY <1>1, <2>2, <3>1, StaysSound
    <3> QED BY <1>2, <2>2, <3>2
  <2> QED BY <2>1, <2>2
<1> QED BY <1>3, <1>4 DEF ZoteroInv

\* Records that nobody touched moved on.
LEMMA Unmoved ==
    ASSUME NEW keys, NEW held PROVE MovesOn(keys, held, held)
BY DEF MovesOn

\* Where no item was added there is no race.
LEMMA NoRaces ==
    ASSUME NEW call, NEW its, NEW races PROVE RacesKnown(call, its, its, races, races)
BY DEF RacesKnown

\* A step that only changes the locals of its call.
LEMMA QuietSteps ==
    ASSUME ZoteroInv, NEW c \in Call, NEW call \in CallState, Goto(c, call),
           UNCHANGED <<items, folders, links, raced, unlinked>>, RecordsTyped',
           Sound(call, items, folders, raced, Linked)
    PROVE  ZoteroInv'
<1>1. LibraryTyped'
  BY DEF ZoteroInv, ZoteroTypeOK, LibraryTyped
<1>2. DuplicatesNeedARace'
  BY DEF ZoteroInv, DuplicatesNeedARace
<1>3. Linked' = Linked
  BY DEF Linked
<1>4. ASSUME NEW d \in Call
      PROVE  /\ MovesOn(ItemKeysOf(calls[d]), items, items')
             /\ MovesOn(FolderKeysOf(calls[d]), folders, folders')
             /\ RacesKnown(calls[d], items, items', raced, raced')
  BY Unmoved, NoRaces
<1>5. Sound(call, items', folders', raced', Linked')
  BY <1>3
<1> QED BY <1>1, <1>2, <1>3, <1>4, <1>5, CallSteps

-----------------------------------------------------------------------------
(* Calls that hold nothing of the library, and calls that hold what they    *)
(* held.                                                                   *)

\* A call that holds nothing it read needs only its own bookkeeping.
LEMMA BlankSound ==
    ASSUME NEW call, call.snap = NoKey, call.matched = <<>>, call.create = <<>>,
           call.stack = <<>>, ~(call.op = "create" /\ call.step = "post"),
           NEW its, NEW fds, NEW races, NEW linked,
           StepFits(call), AccountsFor(call, linked)
    PROVE  Sound(call, its, fds, races, linked)
<1>1. Snaps(call) = {}
  BY DEF Snaps
<1>2. Pending(call) = {}
  BY DEF Pending
<1> QED BY <1>1, <1>2 DEF Sound, ReadsAgree, SearchesHold, ListingsAgree

\* A call that has not begun is sound.
LEMMA IdleSound ==
    ASSUME NEW its, NEW fds, NEW races, NEW linked
    PROVE  Sound(Idle, its, fds, races, linked)
<1>1. /\ Idle.op = "none" /\ Idle.step = "idle" /\ Idle.snap = NoKey /\ Idle.matched = <<>>
      /\ Idle.create = <<>> /\ Idle.stack = <<>> /\ Idle.created = {}
  BY Zenon DEF Idle
<1>2. StepFits(Idle)
  BY <1>1 DEF StepFits, Edit
<1>3. AccountsFor(Idle, linked)
  BY <1>1 DEF AccountsFor
<1> QED BY <1>1, <1>2, <1>3, BlankSound

\* A call that failed is sound, and one that completed, but for synchronisations.
LEMMA EndedSound ==
    ASSUME NEW c \in Call, NEW status \in {"completed", "failed"},
           calls[c].op # "none", calls[c].op # "sync" \/ status = "failed",
           NEW its, NEW fds, NEW races, NEW linked
    PROVE  Sound(Ended(c, status), its, fds, races, linked)
<1> DEFINE call == Ended(c, status)
<1>1. /\ call.op = calls[c].op /\ call.step = status /\ call.snap = NoKey
      /\ call.matched = <<>> /\ call.create = <<>> /\ call.stack = <<>> /\ call.created = {}
  BY EndedFields
<1>2. StepFits(call)
  BY <1>1 DEF StepFits
<1>3. AccountsFor(call, linked)
  BY <1>1 DEF AccountsFor
<1> HIDE DEF call
<1>4. Sound(call, its, fds, races, linked)
  BY <1>1, <1>2, <1>3, BlankSound
<1> QED BY <1>4 DEF call

\* A call that read nothing more and is about to post nothing more.
LEMMA KeepsSound ==
    ASSUME NEW call, NEW later, NEW its, NEW fds, NEW races, NEW linked,
           Sound(call, its, fds, races, linked),
           later.snap = call.snap, later.matched = call.matched, later.stack = call.stack,
           Pending(later) \subseteq Pending(call),
           StepFits(later), AccountsFor(later, linked)
    PROVE  Sound(later, its, fds, races, linked)
<1>1. Snaps(later) = Snaps(call)
  BY Zenon DEF Snaps
<1> QED BY <1>1 DEF Sound, ReadsAgree, SearchesHold, ListingsAgree

\* Going to another step changes no other local.
LEMMA StepFields ==
    ASSUME NEW call \in CallState, NEW s \in StepName, NEW later,
           later = [call EXCEPT !.step = s]
    PROVE  /\ later.step = s /\ later.op = call.op /\ later.dry = call.dry
           /\ later.folder = call.folder /\ later.key = call.key /\ later.snap = call.snap
           /\ later.evidence = call.evidence /\ later.work = call.work
           /\ later.at = call.at /\ later.matched = call.matched /\ later.create = call.create
           /\ later.created = call.created /\ later.missing = call.missing
           /\ later.stack = call.stack /\ later \in CallState
BY Zenon DEF CallState

\* A call other than a synchronisation that only goes to another step.
LEMMA StepSound ==
    ASSUME NEW call \in CallState, call.op # "sync", NEW s \in StepName,
           ~(call.op = "create" /\ s = "post"),
           NEW its, NEW fds, NEW races, NEW linked,
           Sound(call, its, fds, races, linked),
           StepFits([call EXCEPT !.step = s])
    PROVE  /\ [call EXCEPT !.step = s] \in CallState
           /\ Sound([call EXCEPT !.step = s], its, fds, races, linked)
<1>1. PICK later : later = [call EXCEPT !.step = s]
  OBVIOUS
<1>2. /\ later.step = s /\ later.op = call.op /\ later.snap = call.snap
      /\ later.matched = call.matched /\ later.stack = call.stack /\ later \in CallState
  BY <1>1, StepFields
<1>3. Pending(later) \subseteq Pending(call)
  BY <1>2 DEF Pending
<1>4. AccountsFor(later, linked)
  BY <1>2 DEF AccountsFor
<1>5. Sound(later, its, fds, races, linked)
  BY <1>1, <1>2, <1>3, <1>4, KeepsSound
<1> QED BY <1>1, <1>2, <1>5

-----------------------------------------------------------------------------
(* Steps that leave the library and the links alone.                       *)

Untouched == UNCHANGED <<items, folders, links, raced, unlinked>>

\* A call that raises keeps the invariant.
LEMMA Raises ==
    ASSUME ZoteroInv, NEW c \in Call, calls[c].op # "none", Raise(c), Untouched, RecordsTyped'
    PROVE  ZoteroInv'
<1>1. Ended(c, "failed") \in CallState
  BY EndedTyped DEF ZoteroInv
<1>2. Sound(Ended(c, "failed"), items, folders, raced, Linked)
  BY EndedSound
<1> QED BY <1>1, <1>2, QuietSteps DEF Raise, Untouched

\* A call other than a synchronisation that returns keeps the invariant.
LEMMA Returns ==
    ASSUME ZoteroInv, NEW c \in Call, calls[c].op \notin {"none", "sync"}, Return(c),
           Untouched, RecordsTyped'
    PROVE  ZoteroInv'
<1>1. Ended(c, "completed") \in CallState
  BY EndedTyped DEF ZoteroInv
<1>2. Sound(Ended(c, "completed"), items, folders, raced, Linked)
  BY EndedSound
<1> QED BY <1>1, <1>2, QuietSteps DEF Return, Untouched

\* A call other than a synchronisation goes to a step that its locals fit.
LEMMA Awaits ==
    ASSUME ZoteroInv, NEW c \in Call, NEW s \in StepName, Await(c, s), Untouched, RecordsTyped',
           calls[c].op # "sync", ~(calls[c].op = "create" /\ s = "post"),
           StepFits([calls[c] EXCEPT !.step = s])
    PROVE  ZoteroInv'
<1>1. calls[c] \in CallState /\ Sound(calls[c], items, folders, raced, Linked)
  BY DEF ZoteroInv, ZoteroTypeOK
<1>2. /\ [calls[c] EXCEPT !.step = s] \in CallState
      /\ Sound([calls[c] EXCEPT !.step = s], items, folders, raced, Linked)
  BY <1>1, StepSound
<1> QED BY <1>2, QuietSteps DEF Await, Untouched

\* A call that has just begun.
LEMMA Begins ==
    ASSUME ZoteroInv, NEW c \in Call, NEW call \in CallState, Goto(c, call), Untouched,
           RecordsTyped', call.snap = NoKey, call.matched = <<>>, call.create = <<>>,
           call.stack = <<>>, call.op # "sync", call.step # "post", StepFits(call)
    PROVE  ZoteroInv'
<1>1. AccountsFor(call, Linked)
  BY DEF AccountsFor
<1>2. Sound(call, items, folders, raced, Linked)
  BY <1>1, BlankSound
<1> QED BY <1>2, QuietSteps DEF Untouched
\* Steps that need nothing beyond what the call has carried all along.
LEMMA FitsOn ==
    ASSUME NEW call \in CallState, StepFits(call), call.step \notin {"idle", "completed", "failed"},
           NEW s \in StepName \ {"patch", "save", "children", "delete", "contents", "list"}
    PROVE  StepFits([call EXCEPT !.step = s])
<1>1. PICK later : later = [call EXCEPT !.step = s]
  OBVIOUS
<1>2. /\ later.step = s /\ later.op = call.op /\ later.folder = call.folder
      /\ later.key = call.key /\ later.work = call.work
  BY <1>1, StepFields
<1>3. StepFits(later)
  BY <1>2 DEF StepFits
<1> QED BY <1>1, <1>3

\* What the invariant says of one call.
LEMMA CallSound ==
    ASSUME ZoteroInv, NEW c \in Call
    PROVE  /\ calls[c] \in CallState /\ StepFits(calls[c])
           /\ Sound(calls[c], items, folders, raced, Linked)
BY DEF ZoteroInv, ZoteroTypeOK, Sound

-----------------------------------------------------------------------------
(* create_item                                                             *)

\* create_item begins.
LEMMA StartCreateKeeps ==
    ASSUME ZoteroInv, NEW c \in Call, StartCreate(c) PROVE ZoteroInv'
<1>1. PICK e \in Evidence \union {NoEvidence}, dry \in BOOLEAN, ts \in SUBSET Tag,
           f \in AskedFolder \union {NoKey} :
        \E w \in IF e = NoEvidence THEN Work ELSE {WorkOf[e]} :
          Goto(c, [Idle EXCEPT !.op = "create", !.dry = dry, !.evidence = e, !.work = w,
                               !.tags = ts, !.folder = f,
                               !.step = IF f = NoKey THEN "evidence" ELSE "folder"])
  BY Zenon DEF StartCreate
<1>2. PICK w \in IF e = NoEvidence THEN Work ELSE {WorkOf[e]} :
          Goto(c, [Idle EXCEPT !.op = "create", !.dry = dry, !.evidence = e, !.work = w,
                               !.tags = ts, !.folder = f,
                               !.step = IF f = NoKey THEN "evidence" ELSE "folder"])
  BY <1>1
<1>3. w \in Work
  BY ZoteroAssumption
<1>4. f \in FolderKey \union {NoKey}
  BY ZoteroAssumption
<1>5. PICK s : s = IF f = NoKey THEN "evidence" ELSE "folder"
  OBVIOUS
<1>6. s \in StepName /\ s \in {"evidence", "folder"}
  BY <1>5, Zenon DEF StepName
<1>7. PICK call : call = [Idle EXCEPT !.op = "create", !.dry = dry, !.evidence = e, !.work = w,
                                      !.tags = ts, !.folder = f, !.step = s]
  OBVIOUS
<1>8. /\ call.op = "create" /\ call.work = w /\ call.step = s /\ call.snap = NoKey
      /\ call.matched = <<>> /\ call.create = <<>> /\ call.stack = <<>>
  BY <1>7, Zenon DEF Idle
<1>9. "create" \in Operation \union {"none"}
  BY Zenon DEF Operation
<1>10. call \in CallState
  BY <1>3, <1>4, <1>6, <1>7, <1>9, IdleTyped, ZenonT(60) DEF CallState
<1>11. Goto(c, call)
  BY <1>2, <1>5, <1>7
<1>12. StepFits(call)
  BY <1>3, <1>6, <1>8 DEF StepFits, Edit
<1>13. Untouched /\ RecordsTyped'
  BY RecordsStay DEF ZoteroInv, StartCreate, Untouched
<1>14. call.op # "sync" /\ call.step # "post"
  BY <1>6, <1>8
<1> QED BY <1>8, <1>10, <1>11, <1>12, <1>13, <1>14, Begins

\* create_item: the collection it was given is read.
LEMMA CreateCheckFolderKeeps ==
    ASSUME ZoteroInv, NEW c \in Call, CreateCheckFolder(c) PROVE ZoteroInv'
<1>1. Untouched /\ RecordsTyped'
  BY RecordsStay DEF ZoteroInv, CreateCheckFolder, Untouched
<1>2. CASE Raise(c)
  BY <1>1, <1>2, Raises DEF CreateCheckFolder
<1>3. CASE Await(c, "evidence")
  <2>1. calls[c].op # "sync" /\ calls[c].step \notin {"idle", "completed", "failed"}
    BY DEF CreateCheckFolder
  <2>2. "evidence" \in StepName \ {"patch", "save", "children", "delete", "contents", "list"}
    BY DEF StepName
  <2>3. StepFits([calls[c] EXCEPT !.step = "evidence"])
    BY <2>1, <2>2, CallSound, FitsOn
  <2> QED BY <1>1, <1>3, <2>1, <2>2, <2>3, Awaits
<1> QED BY <1>2, <1>3 DEF CreateCheckFolder
\* A call other than a synchronisation keeps what it read.
LEMMA Carries ==
    ASSUME ZoteroInv, NEW c \in Call, NEW later \in CallState, Goto(c, later), Untouched,
           RecordsTyped', calls[c].op # "sync", later.op = calls[c].op,
           ~(later.op = "create" /\ later.step = "post"),
           later.snap = calls[c].snap, later.matched = calls[c].matched,
           later.stack = calls[c].stack, StepFits(later)
    PROVE  ZoteroInv'
<1>1. Pending(later) \subseteq Pending(calls[c])
  BY DEF Pending
<1>2. AccountsFor(later, Linked)
  BY DEF AccountsFor
<1>3. Sound(later, items, folders, raced, Linked)
  BY <1>1, <1>2, CallSound, KeepsSound
<1> QED BY <1>3, QuietSteps DEF Untouched

\* An item that was just read agrees with the library.
LEMMA SnapshotTyped ==
    ASSUME ZoteroTypeOK, NEW i \in DOMAIN items
    PROVE  /\ Snapshot(i) \in Snapshots /\ Snapshot(i) # NoKey
           /\ Snapshot(i).key = i /\ Snapshot(i).item = items[i]
           /\ AsRead(Snapshot(i), items[i])
<1>1. i \in ItemKey /\ items[i] \in Item
  BY DEF ZoteroTypeOK, Keyed
<1>2. Snapshot(i) \in Snapshots /\ Snapshot(i).key = i /\ Snapshot(i).item = items[i]
  BY <1>1, Zenon DEF Snapshot, Snapshots
<1>3. Snapshot(i) # NoKey
  BY <1>2, ZoteroAssumption DEF Snapshots
<1>4. items[i].version \in Nat
  BY <1>1 DEF Item
<1>5. AsRead(Snapshot(i), items[i])
  BY <1>2, <1>4 DEF AsRead
<1> QED BY <1>2, <1>3, <1>5

\* A call other than a synchronisation reads one item.
LEMMA ReadSteps ==
    ASSUME ZoteroInv, NEW c \in Call, NEW later \in CallState, Goto(c, later), Untouched,
           RecordsTyped', calls[c].op # "sync", later.op = calls[c].op,
           ~(later.op = "create" /\ later.step = "post"),
           NEW i \in DOMAIN items, later.snap = Snapshot(i),
           later.matched = calls[c].matched, later.stack = calls[c].stack, StepFits(later)
    PROVE  ZoteroInv'
<1>1. Pending(later) = {}
  BY DEF Pending
<1>2. AccountsFor(later, Linked)
  BY DEF AccountsFor
<1>3. ReadsAgree(later, items)
  <2> SUFFICES ASSUME NEW snap \in Snaps(later), snap.key \in DOMAIN items
               PROVE  AsRead(snap, items[snap.key])
    BY DEF ReadsAgree
  <2>1. snap = Snapshot(i) \/ snap \in Snaps(calls[c])
    BY DEF Snaps
  <2>2. CASE snap = Snapshot(i)
    BY <2>2, SnapshotTyped DEF ZoteroInv
  <2>3. CASE snap \in Snaps(calls[c])
    BY <2>3, CallSound DEF Sound, ReadsAgree
  <2> QED BY <2>1, <2>2, <2>3
<1>4. ListingsAgree(later.stack, folders)
  BY CallSound DEF Sound, ListingsAgree
<1>5. Sound(later, items, folders, raced, Linked)
  BY <1>1, <1>2, <1>3, <1>4 DEF Sound, SearchesHold
<1> QED BY <1>5, QuietSteps DEF Untouched

\* create_item: the link of the evidence is looked up.
LEMMA CreateLookUpLinkKeeps ==
    ASSUME ZoteroInv, NEW c \in Call, CreateLookUpLink(c) PROVE ZoteroInv'
<1>1. Untouched /\ RecordsTyped'
  BY RecordsStay DEF ZoteroInv, CreateLookUpLink, Untouched
<1>2. calls[c].op = "create" /\ calls[c].step = "evidence" /\ calls[c] \in CallState
  BY CallSound DEF CreateLookUpLink
<1> DEFINE e == calls[c].evidence
<1>3. CASE Raise(c)
  BY <1>1, <1>3, Raises DEF CreateLookUpLink
<1>4. CASE e \in DOMAIN links /\ Goto(c, [calls[c] EXCEPT !.key = links[e], !.step = "item"])
  <2>1. links[e] \in ItemKey
    BY <1>4 DEF ZoteroInv, ZoteroTypeOK, Keyed
  <2>2. PICK later : later = [calls[c] EXCEPT !.key = links[e], !.step = "item"]
    OBVIOUS
  <2>3. "item" \in StepName
    BY DEF StepName
  <2>4. later \in CallState
    BY <1>2, <2>1, <2>2, <2>3, Zenon DEF CallState
  <2>5. /\ later.op = "create" /\ later.step = "item" /\ later.snap = calls[c].snap
        /\ later.matched = calls[c].matched /\ later.stack = calls[c].stack
        /\ later.work = calls[c].work
    BY <1>2, <2>2, Zenon DEF CallState
  <2>6. StepFits(later)
    BY <1>2, <2>5, CallSound DEF StepFits, Edit
  <2> QED BY <1>1, <1>2, <1>4, <2>2, <2>4, <2>5, <2>6, Carries
<1>5. CASE Await(c, "search")
  <2>1. "search" \in StepName \ {"patch", "save", "children", "delete", "contents", "list"}
    BY DEF StepName
  <2>2. StepFits([calls[c] EXCEPT !.step = "search"])
    BY <1>2, <2>1, CallSound, FitsOn
  <2> QED BY <1>1, <1>2, <1>5, <2>1, <2>2, Awaits
<1> QED BY <1>3, <1>4, <1>5 DEF CreateLookUpLink

\* The plan for an item that was found goes on with what was read of it.
LEMMA WithRemoteKeeps ==
    ASSUME ZoteroInv, NEW c \in Call, Untouched, RecordsTyped', calls[c].op = "create",
           calls[c].step \in {"item", "search"},
           NEW i \in DOMAIN items, Goto(c, WithRemote(calls[c], Snapshot(i)))
    PROVE  ZoteroInv'
<1>1. calls[c] \in CallState /\ StepFits(calls[c])
  BY CallSound
<1>2. PICK snap : snap = Snapshot(i)
  OBVIOUS
<1>3. snap \in Snapshots /\ snap # NoKey /\ snap.key = i
  BY <1>2, SnapshotTyped DEF ZoteroInv
<1>4. i \in ItemKey
  BY DEF ZoteroInv, ZoteroTypeOK, Keyed
<1>5. PICK s : s = IF calls[c].dry THEN "completed"
                   ELSE IF Differs(snap.item, CreateWants(calls[c], snap)) THEN "patch"
                   ELSE CreatedStep(calls[c])
  OBVIOUS
<1>6. /\ s \in {"completed", "patch", "save"}
      /\ s = "save" => calls[c].evidence # NoEvidence
  BY <1>5 DEF CreatedStep
<1>7. s \in StepName
  BY <1>6 DEF StepName
<1>8. PICK later : later = [calls[c] EXCEPT !.snap = snap, !.key = snap.key, !.step = s]
  OBVIOUS
<1>9. later \in CallState
  BY <1>1, <1>3, <1>4, <1>7, <1>8, Zenon DEF CallState
<1>10. /\ later.op = "create" /\ later.step = s /\ later.snap = snap /\ later.key = i
       /\ later.matched = calls[c].matched /\ later.stack = calls[c].stack
       /\ later.work = calls[c].work /\ later.evidence = calls[c].evidence
  BY <1>1, <1>3, <1>8, Zenon DEF CallState
<1>11. Goto(c, later)
  BY <1>2, <1>5, <1>8 DEF WithRemote
<1>12. StepFits(later)
  <2>0. later.op # "none"
    BY <1>10
  <2>1. calls[c].evidence \in Evidence \union {NoEvidence}
    BY <1>1, FieldsTyped
  <2>2. calls[c].work \in Work
    BY <1>1 DEF StepFits
  <2> QED BY <1>3, <1>4, <1>6, <1>10, <2>1, <2>2 DEF StepFits, Edit
<1>13. ~(later.op = "create" /\ later.step = "post")
  BY <1>6, <1>10
<1>14. calls[c].op # "sync"
  OBVIOUS
<1> QED BY <1>2, <1>9, <1>10, <1>11, <1>12, <1>13, <1>14, ReadSteps

\* create_item: the linked item is read by its key.
LEMMA CreateGetItemKeeps ==
    ASSUME ZoteroInv, NEW c \in Call, CreateGetItem(c) PROVE ZoteroInv'
<1>1. Untouched /\ RecordsTyped'
  BY RecordsStay DEF ZoteroInv, CreateGetItem, Untouched
<1>2. CASE Raise(c)
  BY <1>1, <1>2, Raises DEF CreateGetItem
<1>3. CASE calls[c].key \in DOMAIN items /\ Goto(c, WithRemote(calls[c], Snapshot(calls[c].key)))
  BY <1>1, <1>3, WithRemoteKeeps DEF CreateGetItem
<1> QED BY <1>2, <1>3 DEF CreateGetItem

\* create_item: the library is searched for the work.
LEMMA CreateSearchKeeps ==
    ASSUME ZoteroInv, NEW c \in Call, CreateSearch(c) PROVE ZoteroInv'
<1>1. Untouched /\ RecordsTyped'
  BY RecordsStay DEF ZoteroInv, CreateSearch, Untouched
<1>2. /\ calls[c].op = "create" /\ calls[c].step = "search" /\ calls[c] \in CallState
      /\ StepFits(calls[c])
  BY CallSound DEF CreateSearch
<1>3. CASE \E i \in MatchesOf(calls[c].work) : Goto(c, WithRemote(calls[c], Snapshot(i)))
  <2>1. PICK i \in DOMAIN items : Goto(c, WithRemote(calls[c], Snapshot(i)))
    BY <1>3 DEF MatchesOf
  <2> QED BY <1>1, <1>2, <2>1, WithRemoteKeeps
<1>4. CASE MatchesOf(calls[c].work) = {} /\ Await(c, IF calls[c].dry THEN "completed" ELSE "post")
  <2>1. PICK s \in {"completed", "post"} : Await(c, s)
    BY <1>4
  <2>2. s \in StepName \ {"patch", "save", "children", "delete", "contents", "list"}
    BY DEF StepName
  <2>3. PICK later : later = [calls[c] EXCEPT !.step = s]
    OBVIOUS
  <2>4. /\ later.op = "create" /\ later.snap = calls[c].snap /\ later.step = s
        /\ later.matched = calls[c].matched /\ later.stack = calls[c].stack
        /\ later.work = calls[c].work /\ later \in CallState
    BY <1>2, <2>2, <2>3, StepFields
  <2>5. StepFits(later)
    BY <1>2, <2>2, <2>3, FitsOn
  <2>6. AccountsFor(later, Linked)
    BY <2>4 DEF AccountsFor
  <2>7. SearchesHold(later, items, raced)
    <3>1. Pending(later) \subseteq {calls[c].work}
      BY <2>4 DEF Pending
    <3> QED BY <1>4, <3>1 DEF SearchesHold, MatchesOf
  <2>8. Snaps(later) = Snaps(calls[c])
    BY <2>4, Zenon DEF Snaps
  <2>9. ReadsAgree(later, items) /\ ListingsAgree(later.stack, folders)
    BY <2>4, <2>8, CallSound DEF Sound, ReadsAgree, ListingsAgree
  <2>10. Sound(later, items, folders, raced, Linked)
    BY <2>5, <2>6, <2>7, <2>9 DEF Sound
  <2> QED BY <1>1, <2>1, <2>3, <2>4, <2>10, QuietSteps DEF Await, Untouched
<1> QED BY <1>3, <1>4 DEF CreateSearch

-----------------------------------------------------------------------------
(* Tags and folder membership, delete_item: what they read                 *)

\* The edits of tags and folders are operations of their own.
LEMMA EditOps ==
    ASSUME NEW op \in Edit
    PROVE  op \in Operation /\ op \notin {"sync", "create", "delete_item", "create_collection",
                                          "delete_collection", "cite", "none"}
BY Zenon DEF Edit, Operation

\* An edit of tags or folders begins.
LEMMA StartEditKeeps ==
    ASSUME ZoteroInv, NEW c \in Call, StartEdit(c) PROVE ZoteroInv'
<1>1. PICK op \in Edit, i \in DOMAIN items, f \in AskedFolder, ts \in SUBSET Tag :
          Goto(c, [Idle EXCEPT !.op = op, !.dry = FALSE, !.key = i, !.folder = f, !.tags = ts,
                               !.step = IF op = "add_to_collection" THEN "folder" ELSE "read"])
  BY Zenon DEF StartEdit
<1>2. i \in ItemKey
  BY DEF ZoteroInv, ZoteroTypeOK, Keyed
<1>3. f \in FolderKey
  BY ZoteroAssumption
<1>4. PICK s : s = IF op = "add_to_collection" THEN "folder" ELSE "read"
  OBVIOUS
<1>5. s \in StepName /\ s \in {"folder", "read"}
  BY <1>4, Zenon DEF StepName
<1>6. PICK call : call = [Idle EXCEPT !.op = op, !.dry = FALSE, !.key = i, !.folder = f,
                                      !.tags = ts, !.step = s]
  OBVIOUS
<1>7. /\ call.op = op /\ call.key = i /\ call.folder = f /\ call.step = s /\ call.snap = NoKey
      /\ call.matched = <<>> /\ call.create = <<>> /\ call.stack = <<>>
  BY <1>6, Zenon DEF Idle
<1>8. op \in Operation \union {"none"} /\ FALSE \in BOOLEAN
  BY EditOps
<1>9. call \in CallState
  BY <1>2, <1>3, <1>5, <1>6, <1>8, IdleTyped, ZenonT(60) DEF CallState
<1>10. Goto(c, call)
  BY <1>1, <1>4, <1>6
<1>11. StepFits(call)
  BY <1>2, <1>3, <1>5, <1>7, EditOps DEF StepFits
<1>12. Untouched /\ RecordsTyped'
  BY RecordsStay DEF ZoteroInv, StartEdit, Untouched
<1>13. call.op # "sync" /\ call.step # "post"
  BY <1>5, <1>7, EditOps
<1> QED BY <1>7, <1>9, <1>10, <1>11, <1>12, <1>13, Begins

\* add_to_collection: the collection is read.
LEMMA EditCheckFolderKeeps ==
    ASSUME ZoteroInv, NEW c \in Call, EditCheckFolder(c) PROVE ZoteroInv'
<1>1. Untouched /\ RecordsTyped'
  BY RecordsStay DEF ZoteroInv, EditCheckFolder, Untouched
<1>2. /\ calls[c].op \notin {"none", "sync", "create"}
      /\ calls[c].step \notin {"idle", "completed", "failed"}
  BY EditOps DEF EditCheckFolder
<1>3. CASE Raise(c)
  BY <1>1, <1>3, Raises, EditOps DEF EditCheckFolder
<1>4. CASE Await(c, "read")
  <2>1. "read" \in StepName \ {"patch", "save", "children", "delete", "contents", "list"}
    BY DEF StepName
  <2>2. StepFits([calls[c] EXCEPT !.step = "read"])
    BY <1>2, <2>1, CallSound, FitsOn
  <2> QED BY <1>1, <1>2, <1>4, <2>1, <2>2, Awaits
<1> QED BY <1>3, <1>4 DEF EditCheckFolder

\* An edit reads its item.
LEMMA EditReadKeeps ==
    ASSUME ZoteroInv, NEW c \in Call, EditRead(c) PROVE ZoteroInv'
<1>1. Untouched /\ RecordsTyped'
  BY RecordsStay DEF ZoteroInv, EditRead, Untouched
<1>2. calls[c].op \in Edit /\ calls[c].step = "read"
  BY DEF EditRead
<1>3. calls[c].op \notin {"sync", "create", "delete_item", "delete_collection", "cite"}
  BY <1>2, EditOps
<1>4. calls[c] \in CallState /\ StepFits(calls[c])
  BY CallSound
<1>5. CASE Raise(c)
  BY <1>1, <1>5, Raises, EditOps DEF EditRead
<1>6. CASE calls[c].key \in DOMAIN items /\ ~Raise(c)
  <2> DEFINE i == calls[c].key
             read == [calls[c] EXCEPT !.snap = Snapshot(i)]
  <2>1. PICK s : s = IF Differs(read.snap.item, Edited(read)) THEN "patch" ELSE "completed"
    OBVIOUS
  <2>2. s \in StepName /\ s \in {"patch", "completed"}
    BY <2>1, Zenon DEF StepName
  <2>3. PICK snap : snap = Snapshot(i)
    OBVIOUS
  <2>4. snap \in Snapshots /\ snap # NoKey /\ snap.key = i
    BY <1>6, <2>3, SnapshotTyped DEF ZoteroInv
  <2>5. PICK first : first = [calls[c] EXCEPT !.snap = snap]
    OBVIOUS
  <2>6. first \in CallState /\ first.op = calls[c].op /\ first.snap = snap
        /\ first.key = i /\ first.folder = calls[c].folder
        /\ first.matched = calls[c].matched /\ first.stack = calls[c].stack
    BY <1>4, <2>4, <2>5, Zenon DEF CallState
  <2>7. PICK later : later = [first EXCEPT !.step = s]
    OBVIOUS
  <2>8. /\ later \in CallState /\ later.op = calls[c].op /\ later.snap = snap
        /\ later.key = i /\ later.folder = calls[c].folder /\ later.step = s
        /\ later.matched = calls[c].matched /\ later.stack = calls[c].stack
    BY <2>2, <2>6, <2>7, StepFields
  <2>9. Goto(c, later)
    BY <1>6, <2>1, <2>3, <2>5, <2>7 DEF EditRead
  <2>10. StepFits(later)
    BY <1>2, <1>3, <1>4, <2>2, <2>4, <2>8 DEF StepFits
  <2>11. i \in DOMAIN items /\ later.snap = Snapshot(i)
    BY <1>6, <2>3, <2>8
  <2> HIDE DEF i, read
  <2>12. ~(later.op = "create" /\ later.step = "post")
    BY <1>3, <2>8
  <2> QED BY <1>1, <1>3, <2>8, <2>9, <2>10, <2>11, <2>12, ReadSteps
<1> QED BY <1>5, <1>6 DEF EditRead

\* delete_item begins.
LEMMA StartDeleteItemKeeps ==
    ASSUME ZoteroInv, NEW c \in Call, StartDeleteItem(c) PROVE ZoteroInv'
<1>1. PICK i \in DOMAIN items, dry \in BOOLEAN :
          Goto(c, [Idle EXCEPT !.op = "delete_item", !.dry = dry, !.key = i, !.step = "read"])
  BY Zenon DEF StartDeleteItem
<1>2. i \in ItemKey
  BY DEF ZoteroInv, ZoteroTypeOK, Keyed
<1>3. PICK call : call = [Idle EXCEPT !.op = "delete_item", !.dry = dry, !.key = i,
                                      !.step = "read"]
  OBVIOUS
<1>4. /\ call.op = "delete_item" /\ call.key = i /\ call.step = "read" /\ call.snap = NoKey
      /\ call.matched = <<>> /\ call.create = <<>> /\ call.stack = <<>>
  BY <1>3, Zenon DEF Idle
<1>5. "delete_item" \in Operation \union {"none"} /\ "read" \in StepName
  BY Zenon DEF Operation, StepName
<1>6. call \in CallState
  BY <1>2, <1>3, <1>5, IdleTyped, ZenonT(60) DEF CallState
<1>7. StepFits(call)
  BY <1>2, <1>4 DEF StepFits, Edit
<1>8. Untouched /\ RecordsTyped'
  BY RecordsStay DEF ZoteroInv, StartDeleteItem, Untouched
<1>9. Goto(c, call) /\ call.op # "sync" /\ call.step # "post"
  BY <1>1, <1>3, <1>4
<1> QED BY <1>4, <1>6, <1>7, <1>8, <1>9, Begins

\* delete_item: the item is read.
LEMMA DeleteItemReadKeeps ==
    ASSUME ZoteroInv, NEW c \in Call, DeleteItemRead(c) PROVE ZoteroInv'
<1>1. Untouched /\ RecordsTyped'
  BY RecordsStay DEF ZoteroInv, DeleteItemRead, Untouched
<1>2. /\ calls[c].op = "delete_item" /\ calls[c].step = "read"
      /\ calls[c] \in CallState /\ StepFits(calls[c])
  BY CallSound DEF DeleteItemRead
<1>3. CASE Raise(c)
  BY <1>1, <1>3, Raises DEF DeleteItemRead
<1>4. CASE /\ calls[c].key \in DOMAIN items
           /\ Goto(c, [calls[c] EXCEPT !.snap = Snapshot(calls[c].key), !.step = "children"])
  <2>1. PICK i \in DOMAIN items : i = calls[c].key
    BY <1>4
  <2>2. PICK snap : snap = Snapshot(i)
    OBVIOUS
  <2>3. snap \in Snapshots /\ snap # NoKey /\ snap.key = i
    BY <2>2, SnapshotTyped DEF ZoteroInv
  <2>4. PICK later : later = [calls[c] EXCEPT !.snap = snap, !.step = "children"]
    OBVIOUS
  <2>5. "children" \in StepName
    BY DEF StepName
  <2>6. /\ later \in CallState /\ later.op = "delete_item" /\ later.snap = snap
        /\ later.key = i /\ later.step = "children"
        /\ later.matched = calls[c].matched /\ later.stack = calls[c].stack
    BY <1>2, <2>1, <2>3, <2>4, <2>5, Zenon DEF CallState
  <2>7. Goto(c, later)
    BY <1>4, <2>1, <2>2, <2>4
  <2>8. StepFits(later)
    BY <1>2, <2>1, <2>3, <2>6 DEF StepFits, Edit
  <2>9. later.snap = Snapshot(i) /\ calls[c].op # "sync" /\ later.op = calls[c].op
        /\ ~(later.op = "create" /\ later.step = "post")
    BY <1>2, <2>2, <2>6
  <2> QED BY <1>1, <2>6, <2>7, <2>8, <2>9, ReadSteps
<1> QED BY <1>3, <1>4 DEF DeleteItemRead

\* delete_item: the children of the item are listed.
LEMMA DeleteItemChildrenKeeps ==
    ASSUME ZoteroInv, NEW c \in Call, DeleteItemChildren(c) PROVE ZoteroInv'
<1>1. Untouched /\ RecordsTyped'
  BY RecordsStay DEF ZoteroInv, DeleteItemChildren, Untouched
<1>2. /\ calls[c].op = "delete_item" /\ calls[c].step = "children"
      /\ calls[c] \in CallState /\ StepFits(calls[c])
  BY CallSound DEF DeleteItemChildren
<1>3. CASE Raise(c)
  BY <1>1, <1>3, Raises DEF DeleteItemChildren
<1>4. CASE Return(c)
  BY <1>1, <1>2, <1>4, Returns
<1>5. CASE Await(c, "delete")
  <2>1. "delete" \in StepName
    BY DEF StepName
  <2>2. PICK later : later = [calls[c] EXCEPT !.step = "delete"]
    OBVIOUS
  <2>3. /\ later.op = "delete_item" /\ later.step = "delete" /\ later.key = calls[c].key
        /\ later.snap = calls[c].snap
    BY <1>2, <2>1, <2>2, StepFields
  <2>4. StepFits(later)
    BY <1>2, <2>3 DEF StepFits, Edit
  <2> QED BY <1>1, <1>2, <1>5, <2>1, <2>2, <2>4, Awaits
<1> QED BY <1>3, <1>4, <1>5 DEF DeleteItemChildren

-----------------------------------------------------------------------------
(* Collections: what is listed, and the walk                               *)

\* create_collection begins.
LEMMA StartCreateCollectionKeeps ==
    ASSUME ZoteroInv, NEW c \in Call, StartCreateCollection(c) PROVE ZoteroInv'
<1>1. PICK name \in FolderName, f \in AskedFolder \union {NoKey} :
          Goto(c, [Idle EXCEPT !.op = "create_collection", !.dry = FALSE, !.name = name,
                               !.folder = f,
                               !.step = IF f = NoKey THEN "candidates" ELSE "folder"])
  BY Zenon DEF StartCreateCollection
<1>2. f \in FolderKey \union {NoKey}
  BY ZoteroAssumption
<1>3. PICK s : s = IF f = NoKey THEN "candidates" ELSE "folder"
  OBVIOUS
<1>4. s \in StepName /\ s \in {"candidates", "folder"}
  BY <1>3, Zenon DEF StepName
<1>5. PICK call : call = [Idle EXCEPT !.op = "create_collection", !.dry = FALSE, !.name = name,
                                      !.folder = f, !.step = s]
  OBVIOUS
<1>6. /\ call.op = "create_collection" /\ call.step = s /\ call.snap = NoKey
      /\ call.matched = <<>> /\ call.create = <<>> /\ call.stack = <<>>
  BY <1>5, Zenon DEF Idle
<1>7. "create_collection" \in Operation \union {"none"} /\ FALSE \in BOOLEAN
  BY Zenon DEF Operation
<1>8. call \in CallState
  BY <1>2, <1>4, <1>5, <1>7, IdleTyped, ZenonT(60) DEF CallState
<1>9. StepFits(call)
  BY <1>6 DEF StepFits, Edit
<1>10. Untouched /\ RecordsTyped'
  BY RecordsStay DEF ZoteroInv, StartCreateCollection, Untouched
<1>11. Goto(c, call) /\ call.op # "sync" /\ call.step # "post"
  BY <1>1, <1>3, <1>4, <1>5, <1>6
<1> QED BY <1>6, <1>8, <1>9, <1>10, <1>11, Begins

\* create_collection: the parent is read.
LEMMA CollectionParentKeeps ==
    ASSUME ZoteroInv, NEW c \in Call, CollectionParent(c) PROVE ZoteroInv'
<1>1. Untouched /\ RecordsTyped'
  BY RecordsStay DEF ZoteroInv, CollectionParent, Untouched
<1>2. CASE Raise(c)
  BY <1>1, <1>2, Raises DEF CollectionParent
<1>3. CASE Await(c, "candidates")
  <2>1. /\ calls[c].op \notin {"none", "sync", "create"}
        /\ calls[c].step \notin {"idle", "completed", "failed"}
    BY DEF CollectionParent
  <2>2. "candidates" \in StepName \ {"patch", "save", "children", "delete", "contents", "list"}
    BY DEF StepName
  <2>3. StepFits([calls[c] EXCEPT !.step = "candidates"])
    BY <2>1, <2>2, CallSound, FitsOn
  <2> QED BY <1>1, <1>3, <2>1, <2>2, <2>3, Awaits
<1> QED BY <1>2, <1>3 DEF CollectionParent

\* create_collection: the siblings are listed.
LEMMA CollectionCandidatesKeeps ==
    ASSUME ZoteroInv, NEW c \in Call, CollectionCandidates(c) PROVE ZoteroInv'
<1>1. Untouched /\ RecordsTyped'
  BY RecordsStay DEF ZoteroInv, CollectionCandidates, Untouched
<1>2. /\ calls[c].op \notin {"none", "sync", "create"}
      /\ calls[c].step \notin {"idle", "completed", "failed"}
  BY DEF CollectionCandidates
<1>3. CASE Raise(c)
  BY <1>1, <1>3, Raises DEF CollectionCandidates
<1>4. CASE Return(c)
  BY <1>1, <1>2, <1>4, Returns
<1>5. CASE Await(c, "post")
  <2>1. "post" \in StepName \ {"patch", "save", "children", "delete", "contents", "list"}
    BY DEF StepName
  <2>2. StepFits([calls[c] EXCEPT !.step = "post"])
    BY <1>2, <2>1, CallSound, FitsOn
  <2> QED BY <1>1, <1>2, <1>5, <2>1, <2>2, Awaits
<1> QED BY <1>3, <1>4, <1>5 DEF CollectionCandidates

\* delete_collection begins.
LEMMA StartDeleteCollectionKeeps ==
    ASSUME ZoteroInv, NEW c \in Call, StartDeleteCollection(c) PROVE ZoteroInv'
<1>1. PICK f \in AskedFolder, dry \in BOOLEAN, recursive \in BOOLEAN :
          Goto(c, [Idle EXCEPT !.op = "delete_collection", !.dry = dry,
                               !.recursive = recursive, !.folder = f, !.step = "read"])
  BY Zenon DEF StartDeleteCollection
<1>2. f \in FolderKey
  BY ZoteroAssumption
<1>3. PICK call : call = [Idle EXCEPT !.op = "delete_collection", !.dry = dry,
                               !.recursive = recursive, !.folder = f, !.step = "read"]
  OBVIOUS
<1>4. /\ call.op = "delete_collection" /\ call.folder = f /\ call.step = "read"
      /\ call.snap = NoKey /\ call.matched = <<>> /\ call.create = <<>> /\ call.stack = <<>>
  BY <1>3, Zenon DEF Idle
<1>5. "delete_collection" \in Operation \union {"none"} /\ "read" \in StepName
  BY Zenon DEF Operation, StepName
<1>6. call \in CallState
  BY <1>2, <1>3, <1>5, IdleTyped, ZenonT(60) DEF CallState
<1>7. StepFits(call)
  BY <1>2, <1>4 DEF StepFits, Edit
<1>8. Untouched /\ RecordsTyped'
  BY RecordsStay DEF ZoteroInv, StartDeleteCollection, Untouched
<1>9. Goto(c, call) /\ call.op # "sync" /\ call.step # "post"
  BY <1>1, <1>3, <1>4
<1> QED BY <1>4, <1>6, <1>7, <1>8, <1>9, Begins

\* A folder that was just listed agrees with the library.
LEMMA ListedTyped ==
    ASSUME ZoteroTypeOK, NEW f \in DOMAIN folders
    PROVE  /\ Listed(f) \in ListedFolder /\ Listed(f).key = f
           /\ AsListed(Listed(f), folders[f].parent, folders)
<1>1. f \in FolderKey /\ folders[f] \in Folder
  BY DEF ZoteroTypeOK, Keyed
<1>2. folders[f].version \in Nat
  BY <1>1 DEF Folder
<1> QED BY <1>1, <1>2 DEF Listed, ListedFolder, AsListed

\* A folder whose walk begins has no children listed yet.
LEMMA OpenedTyped ==
    ASSUME NEW listed \in ListedFolder
    PROVE  /\ Opened(listed) \in Frame /\ Opened(listed).key = listed.key
           /\ Opened(listed).version = listed.version /\ Opened(listed).todo = {}
BY DEF Opened, ListedFolder, Frame

\* delete_collection: the folder is read.
LEMMA CollectionReadKeeps ==
    ASSUME ZoteroInv, NEW c \in Call, CollectionRead(c) PROVE ZoteroInv'
<1>1. Untouched /\ RecordsTyped'
  BY RecordsStay DEF ZoteroInv, CollectionRead, Untouched
<1>2. /\ calls[c].op = "delete_collection" /\ calls[c].step = "read"
      /\ calls[c] \in CallState /\ StepFits(calls[c])
  BY CallSound DEF CollectionRead
<1>3. CASE Raise(c)
  BY <1>1, <1>3, Raises DEF CollectionRead
<1>4. CASE /\ calls[c].folder \in DOMAIN folders
           /\ Goto(c, [calls[c] EXCEPT !.stack = <<Opened(Listed(calls[c].folder))>>,
                                       !.step = "contents"])
  <2>1. PICK frame : frame = Opened(Listed(calls[c].folder))
    OBVIOUS
  <2>2. frame \in Frame /\ frame.todo = {}
    BY <1>4, <2>1, ListedTyped, OpenedTyped DEF ZoteroInv
  <2>3. PICK later : later = [calls[c] EXCEPT !.stack = <<frame>>, !.step = "contents"]
    OBVIOUS
  <2>4. <<frame>> \in Seq(Frame)
    BY <2>2
  <2>5. "contents" \in StepName
    BY DEF StepName
  <2>6. /\ later \in CallState /\ later.op = "delete_collection" /\ later.stack = <<frame>>
        /\ later.step = "contents" /\ later.folder = calls[c].folder
        /\ later.matched = calls[c].matched /\ later.snap = calls[c].snap
    BY <1>2, <2>3, <2>4, <2>5, Zenon DEF CallState
  <2>7. StepFits(later)
    BY <1>2, <2>6 DEF StepFits, Edit
  <2>8. AccountsFor(later, Linked)
    BY <2>6 DEF AccountsFor
  <2>9. Pending(later) = {}
    BY <2>6 DEF Pending
  <2>10. ListingsAgree(later.stack, folders)
    BY <2>2, <2>6 DEF ListingsAgree
  <2>11. Snaps(later) = Snaps(calls[c])
    BY <2>6, Zenon DEF Snaps
  <2>12. ReadsAgree(later, items)
    BY <2>11, CallSound DEF Sound, ReadsAgree
  <2>13. Sound(later, items, folders, raced, Linked)
    BY <2>7, <2>8, <2>9, <2>10, <2>12 DEF Sound, SearchesHold
  <2>14. Goto(c, later)
    BY <1>4, <2>1, <2>3
  <2> QED BY <1>1, <2>6, <2>13, <2>14, QuietSteps DEF Untouched
<1> QED BY <1>3, <1>4 DEF CollectionRead

\* delete_collection: what the folder holds is listed.
LEMMA CollectionContentsKeeps ==
    ASSUME ZoteroInv, NEW c \in Call, CollectionContents(c) PROVE ZoteroInv'
<1>1. Untouched /\ RecordsTyped'
  BY RecordsStay DEF ZoteroInv, CollectionContents, Untouched
<1>2. /\ calls[c].op = "delete_collection" /\ calls[c].step = "contents"
      /\ calls[c] \in CallState /\ StepFits(calls[c])
  BY CallSound DEF CollectionContents
<1>3. CASE Raise(c)
  BY <1>1, <1>3, Raises DEF CollectionContents
<1>4. CASE Return(c)
  BY <1>1, <1>2, <1>4, Returns
<1>5. CASE Await(c, "list")
  <2>1. "list" \in StepName
    BY DEF StepName
  <2>2. PICK later : later = [calls[c] EXCEPT !.step = "list"]
    OBVIOUS
  <2>3. /\ later.op = "delete_collection" /\ later.step = "list"
        /\ later.folder = calls[c].folder /\ later.stack = calls[c].stack
    BY <1>2, <2>1, <2>2, StepFields
  <2>4. StepFits(later)
    BY <1>2, <2>3 DEF StepFits, Edit
  <2> QED BY <1>1, <1>2, <1>5, <2>1, <2>2, <2>4, Awaits
<1> QED BY <1>3, <1>4, <1>5 DEF CollectionContents
\* The walk goes on with a stack whose listings are those of the library.
LEMMA WalkSound ==
    ASSUME ZoteroTypeOK, NEW c \in Call, calls[c].op = "delete_collection",
           calls[c].step \in {"list", "delete"}, StepFits(calls[c]),
           NEW stack \in Seq(Frame), Walk(c, stack),
           NEW its, NEW fds, NEW races, NEW linked,
           ReadsAgree(calls[c], its), ListingsAgree(stack, fds)
    PROVE  \E call \in CallState : Goto(c, call) /\ Sound(call, its, fds, races, linked)
<1> DEFINE last == Len(stack)
<1>1. calls[c] \in CallState
  BY DEF ZoteroTypeOK
<1>2. "delete" \in StepName /\ "list" \in StepName
  BY DEF StepName
<1>3. ASSUME NEW s \in {"list", "delete"}, NEW later, NEW stack2 \in Seq(Frame), stack2 # <<>>,
             later = [calls[c] EXCEPT !.stack = stack2, !.step = s], Goto(c, later),
             ListingsAgree(stack2, fds)
      PROVE  \E call \in CallState : Goto(c, call) /\ Sound(call, its, fds, races, linked)
  <2>1. s \in StepName
    BY <1>2
  <2>2. /\ later \in CallState /\ later.op = "delete_collection" /\ later.stack = stack2
        /\ later.step = s /\ later.folder = calls[c].folder
        /\ later.matched = calls[c].matched /\ later.snap = calls[c].snap
    BY <1>1, <1>3, <2>1, Zenon DEF CallState
  <2>3. StepFits(later)
    BY <1>3, <2>2 DEF StepFits, Edit
  <2>4. AccountsFor(later, linked)
    BY <2>2 DEF AccountsFor
  <2>5. Pending(later) = {}
    BY <2>2 DEF Pending
  <2>6. Snaps(later) = Snaps(calls[c])
    BY <2>2, Zenon DEF Snaps
  <2>7. ReadsAgree(later, its)
    BY <2>6 DEF ReadsAgree
  <2>8. Sound(later, its, fds, races, linked)
    BY <1>3, <2>2, <2>3, <2>4, <2>5, <2>7 DEF Sound, SearchesHold
  <2> QED BY <1>3, <2>2, <2>8
<1>4. CASE stack = <<>>
  <2>1. Goto(c, Ended(c, "completed"))
    BY <1>4 DEF Walk, Return
  <2>2. Ended(c, "completed") \in CallState
    BY EndedTyped
  <2>3. Sound(Ended(c, "completed"), its, fds, races, linked)
    BY EndedSound
  <2> QED BY <2>1, <2>2, <2>3
<1>5. CASE stack # <<>> /\ stack[last].todo = {}
  <2>1. PICK later : later = [calls[c] EXCEPT !.stack = stack, !.step = "delete"]
    OBVIOUS
  <2>2. Goto(c, later)
    BY <1>5, <2>1 DEF Walk
  <2> QED BY <1>3, <1>5, <2>1, <2>2
<1>6. CASE stack # <<>> /\ stack[last].todo # {}
  <2>1. PICK listed \in stack[last].todo :
           Goto(c, [calls[c] EXCEPT !.step = "list", !.stack =
                 Append([stack EXCEPT ![last].todo = @ \ {listed}], Opened(listed))])
    BY <1>6 DEF Walk
  <2>2. last \in 1..Len(stack) /\ last \in Nat /\ stack[last] \in Frame
    BY <1>6
  <2>3. listed \in ListedFolder
    BY <2>1, <2>2 DEF Frame
  <2>4. PICK frame : frame = Opened(listed)
    OBVIOUS
  <2>5. frame \in Frame /\ frame.key = listed.key /\ frame.version = listed.version
        /\ frame.todo = {}
    BY <2>3, <2>4, OpenedTyped
  <2>6. PICK rest : rest = [stack[last] EXCEPT !.todo = @ \ {listed}]
    OBVIOUS
  <2>7. /\ rest \in Frame /\ rest.key = stack[last].key /\ rest.version = stack[last].version
        /\ rest.todo \subseteq stack[last].todo
    BY <2>2, <2>6 DEF Frame
  <2>8. PICK shorter : shorter = [stack EXCEPT ![last] = rest]
    OBVIOUS
  <2>9. /\ shorter \in Seq(Frame) /\ Len(shorter) = last
        /\ \A n \in 1..last : shorter[n] = IF n = last THEN rest ELSE stack[n]
    BY <2>2, <2>7, <2>8
  <2>10. PICK stack2 : stack2 = Append(shorter, frame)
    OBVIOUS
  <2>11. /\ stack2 \in Seq(Frame) /\ Len(stack2) = last + 1 /\ stack2 # <<>>
         /\ stack2[last + 1] = frame
         /\ \A n \in 1..last : stack2[n] = shorter[n]
    BY <2>2, <2>5, <2>9, <2>10
  <2>12. \A n \in 1..last : stack2[n].key = stack[n].key /\ stack2[n].version = stack[n].version
                            /\ stack2[n].todo \subseteq stack[n].todo
    BY <2>7, <2>9, <2>11
  <2>13. ListingsAgree(stack2, fds)
    <3> SUFFICES ASSUME NEW n \in 1..(last + 1)
                 PROVE  /\ \A l \in stack2[n].todo : AsListed(l, stack2[n].key, fds)
                        /\ n > 1 => AsListed(stack2[n], stack2[n - 1].key, fds)
      BY <2>11 DEF ListingsAgree
    <3>1. CASE n = last + 1
      <4>1. stack2[n] = frame /\ n - 1 = last
        BY <2>2, <2>11, <3>1
      <4>2. AsListed(listed, stack[last].key, fds)
        BY <2>1, <2>2 DEF ListingsAgree
      <4>3. AsListed(frame, stack[last].key, fds)
        BY <2>5, <4>2 DEF AsListed
      <4>4. stack2[last].key = stack[last].key
        BY <2>2, <2>12
      <4> QED BY <2>5, <4>1, <4>3, <4>4
    <3>2. CASE n \in 1..last
      <4>1. /\ \A l \in stack[n].todo : AsListed(l, stack[n].key, fds)
            /\ n > 1 => AsListed(stack[n], stack[n - 1].key, fds)
        BY <2>2, <3>2 DEF ListingsAgree
      <4>2. \A l \in stack2[n].todo : AsListed(l, stack2[n].key, fds)
        BY <2>12, <3>2, <4>1
      <4>3. ASSUME n > 1 PROVE AsListed(stack2[n], stack2[n - 1].key, fds)
        <5>1. n - 1 \in 1..last
          BY <2>2, <3>2, <4>3
        <5>2. /\ stack2[n - 1].key = stack[n - 1].key /\ stack2[n].key = stack[n].key
              /\ stack2[n].version = stack[n].version
          BY <2>12, <3>2, <5>1
        <5> QED BY <4>1, <4>3, <5>2 DEF AsListed
      <4> QED BY <4>2, <4>3
    <3>3. n = last + 1 \/ n \in 1..last
      BY <2>2
    <3> QED BY <3>1, <3>2, <3>3
  <2>14. PICK later : later = [calls[c] EXCEPT !.stack = stack2, !.step = "list"]
    OBVIOUS
  <2>15. Goto(c, later)
    <3>1. [calls[c] EXCEPT !.step = "list", !.stack =
                 Append([stack EXCEPT ![last].todo = @ \ {listed}], Opened(listed))] = later
      BY <2>4, <2>6, <2>8, <2>10, <2>14
    <3> QED BY <2>1, <3>1
  <2> QED BY <1>3, <2>11, <2>13, <2>14, <2>15
<1> QED BY <1>4, <1>5, <1>6

\* delete_collection: the children of a folder are listed, and the walk goes on.
LEMMA TreeListKeeps ==
    ASSUME ZoteroInv, NEW c \in Call, TreeList(c) PROVE ZoteroInv'
<1>1. Untouched /\ RecordsTyped'
  BY RecordsStay DEF ZoteroInv, TreeList, Untouched
<1>2. /\ calls[c].op = "delete_collection" /\ calls[c].step = "list"
      /\ calls[c] \in CallState /\ StepFits(calls[c])
      /\ Sound(calls[c], items, folders, raced, Linked)
  BY CallSound DEF TreeList
<1> DEFINE stack == calls[c].stack
           last == Len(stack)
           f == stack[last].key
           listed == {Listed(g) : g \in Children(f)}
<1>3. CASE Raise(c)
  BY <1>1, <1>3, Raises DEF TreeList
<1>4. CASE Walk(c, [stack EXCEPT ![last].todo = listed])
  <2>1. stack \in Seq(Frame) /\ stack # <<>>
    BY <1>2, FieldsTyped DEF StepFits
  <2>2. last \in 1..Len(stack) /\ stack[last] \in Frame
    BY <2>1
  <2>3. listed \subseteq ListedFolder /\ \A l \in listed : AsListed(l, f, folders)
    <3> SUFFICES ASSUME NEW g \in Children(f)
                 PROVE  Listed(g) \in ListedFolder /\ AsListed(Listed(g), f, folders)
      OBVIOUS
    <3>1. g \in DOMAIN folders /\ folders[g].parent = f
      BY DEF Children
    <3> QED BY <3>1, ListedTyped DEF ZoteroInv
  <2>4. PICK frame : frame = [stack[last] EXCEPT !.todo = listed]
    OBVIOUS
  <2>5. /\ frame \in Frame /\ frame.key = f /\ frame.version = stack[last].version
        /\ frame.todo = listed
    BY <2>2, <2>3, <2>4 DEF Frame
  <2>6. PICK stack2 : stack2 = [stack EXCEPT ![last] = frame]
    OBVIOUS
  <2>7. /\ stack2 \in Seq(Frame) /\ Len(stack2) = last
        /\ \A n \in 1..last : stack2[n] = IF n = last THEN frame ELSE stack[n]
    BY <2>1, <2>2, <2>5, <2>6
  <2>8. ListingsAgree(stack2, folders)
    <3> SUFFICES ASSUME NEW n \in 1..last
                 PROVE  /\ \A l \in stack2[n].todo : AsListed(l, stack2[n].key, folders)
                        /\ n > 1 => AsListed(stack2[n], stack2[n - 1].key, folders)
      BY <2>7 DEF ListingsAgree
    <3>1. /\ \A l \in stack[n].todo : AsListed(l, stack[n].key, folders)
          /\ n > 1 => AsListed(stack[n], stack[n - 1].key, folders)
      BY <1>2, <2>1 DEF Sound, ListingsAgree
    <3>2. /\ stack2[n].key = stack[n].key /\ stack2[n].version = stack[n].version
          /\ n = last => stack2[n].todo = listed /\ stack2[n].key = f
          /\ n # last => stack2[n] = stack[n]
      BY <2>5, <2>7
    <3>3. \A l \in stack2[n].todo : AsListed(l, stack2[n].key, folders)
      BY <2>3, <3>1, <3>2
    <3>4. ASSUME n > 1 PROVE AsListed(stack2[n], stack2[n - 1].key, folders)
      <4>1. n - 1 \in 1..last /\ n - 1 # last
        BY <2>2, <3>4
      <4>2. stack2[n - 1] = stack[n - 1]
        BY <2>7, <4>1
      <4> QED BY <3>1, <3>2, <3>4, <4>2 DEF AsListed
    <3> QED BY <3>3, <3>4
  <2>9. Walk(c, stack2)
    <3>1. [stack EXCEPT ![last].todo = listed] = stack2
      BY <2>4, <2>6
    <3> QED BY <1>4, <3>1
  <2>10. ReadsAgree(calls[c], items)
    BY <1>2 DEF Sound
  <2>11. \E call \in CallState : Goto(c, call) /\ Sound(call, items, folders, raced, Linked)
    BY <1>2, <2>7, <2>8, <2>9, <2>10, WalkSound DEF ZoteroInv
  <2> QED BY <1>1, <2>11, QuietSteps DEF Untouched
<1> QED BY <1>3, <1>4 DEF TreeList

-----------------------------------------------------------------------------
(* record_citation_reference, the audit events, and what goes wrong        *)

\* record_citation_reference begins.
LEMMA StartCiteKeeps ==
    ASSUME ZoteroInv, NEW c \in Call, StartCite(c) PROVE ZoteroInv'
<1>1. PICK i \in DOMAIN items :
          Goto(c, [Idle EXCEPT !.op = "cite", !.dry = FALSE, !.key = i, !.step = "read"])
  BY Zenon DEF StartCite
<1>2. i \in ItemKey
  BY DEF ZoteroInv, ZoteroTypeOK, Keyed
<1>3. PICK call : call = [Idle EXCEPT !.op = "cite", !.dry = FALSE, !.key = i, !.step = "read"]
  OBVIOUS
<1>4. /\ call.op = "cite" /\ call.key = i /\ call.step = "read" /\ call.snap = NoKey
      /\ call.matched = <<>> /\ call.create = <<>> /\ call.stack = <<>>
  BY <1>3, Zenon DEF Idle
<1>5. "cite" \in Operation \union {"none"} /\ "read" \in StepName /\ FALSE \in BOOLEAN
  BY Zenon DEF Operation, StepName
<1>6. call \in CallState
  BY <1>2, <1>3, <1>5, IdleTyped, ZenonT(60) DEF CallState
<1>7. StepFits(call)
  BY <1>2, <1>4 DEF StepFits, Edit
<1>8. Untouched /\ RecordsTyped'
  BY RecordsStay DEF ZoteroInv, StartCite, Untouched
<1>9. Goto(c, call) /\ call.op # "sync" /\ call.step # "post"
  BY <1>1, <1>3, <1>4
<1> QED BY <1>4, <1>6, <1>7, <1>8, <1>9, Begins

\* record_citation_reference: the item is read.
LEMMA CiteReadKeeps ==
    ASSUME ZoteroInv, NEW c \in Call, CiteRead(c) PROVE ZoteroInv'
<1>1. Untouched /\ RecordsTyped'
  BY RecordsStay DEF ZoteroInv, CiteRead, Untouched
<1>2. CASE Raise(c)
  BY <1>1, <1>2, Raises DEF CiteRead
<1>3. CASE Await(c, "link")
  <2>1. /\ calls[c].op \notin {"none", "sync", "create"}
        /\ calls[c].step \notin {"idle", "completed", "failed"}
    BY DEF CiteRead
  <2>2. "link" \in StepName \ {"patch", "save", "children", "delete", "contents", "list"}
    BY DEF StepName
  <2>3. StepFits([calls[c] EXCEPT !.step = "link"])
    BY <2>1, <2>2, CallSound, FitsOn
  <2> QED BY <1>1, <1>3, <2>1, <2>2, <2>3, Awaits
<1> QED BY <1>2, <1>3 DEF CiteRead

\* record_citation_reference: the evidence of the item is looked up.
LEMMA CiteLookUpLinkKeeps ==
    ASSUME ZoteroInv, NEW c \in Call, CiteLookUpLink(c) PROVE ZoteroInv'
<1>1. Untouched /\ RecordsTyped'
  BY RecordsStay DEF ZoteroInv, CiteLookUpLink, Untouched
<1>2. /\ calls[c].op = "cite" /\ calls[c].step = "link"
      /\ calls[c] \in CallState /\ StepFits(calls[c])
  BY CallSound DEF CiteLookUpLink
<1>3. PICK e \in {NoEvidence} \union DOMAIN links :
         Goto(c, [calls[c] EXCEPT !.evidence = e, !.step = "save"])
  BY DEF CiteLookUpLink
<1>4. e \in Evidence \union {NoEvidence}
  BY DEF ZoteroInv, ZoteroTypeOK, Keyed
<1>5. PICK later : later = [calls[c] EXCEPT !.evidence = e, !.step = "save"]
  OBVIOUS
<1>6. "save" \in StepName
  BY DEF StepName
<1>7. /\ later \in CallState /\ later.op = "cite" /\ later.step = "save"
      /\ later.key = calls[c].key /\ later.snap = calls[c].snap
      /\ later.matched = calls[c].matched /\ later.stack = calls[c].stack
  BY <1>2, <1>4, <1>5, <1>6, Zenon DEF CallState
<1>8. StepFits(later)
  BY <1>2, <1>7 DEF StepFits, Edit
<1> QED BY <1>1, <1>2, <1>3, <1>5, <1>7, <1>8, Carries

\* record_citation_reference: the citation is saved.
LEMMA SaveCitationKeeps ==
    ASSUME ZoteroInv, NEW c \in Call, SaveCitation(c) PROVE ZoteroInv'
<1>1. /\ calls[c].op = "cite" /\ calls[c].step = "save"
      /\ calls[c] \in CallState /\ StepFits(calls[c])
  BY CallSound DEF SaveCitation
<1>2. calls[c].key \in ItemKey /\ calls[c].evidence \in Evidence \union {NoEvidence}
  BY <1>1, FieldsTyped DEF StepFits
<1>3. citation_references' \subseteq [item: ItemKey, evidence: Evidence \union {NoEvidence}]
  BY <1>2 DEF ZoteroInv, ZoteroTypeOK, SaveCitation
<1>4. RecordsTyped'
  BY <1>3 DEF ZoteroInv, ZoteroTypeOK, SaveCitation, RecordsTyped
<1>5. Untouched /\ Return(c)
  BY DEF SaveCitation, Untouched
<1> QED BY <1>1, <1>4, <1>5, Returns

\* The audit event of a call that ended.
LEMMA AuditKeeps ==
    ASSUME ZoteroInv, NEW c \in Call, Audit(c) PROVE ZoteroInv'
<1>1. /\ calls[c].step \in {"completed", "failed"}
      /\ calls[c] \in CallState /\ StepFits(calls[c])
  BY CallSound DEF Audit
<1>2. calls[c].op \in Operation
  BY <1>1, FieldsTyped DEF StepFits
<1>3. audit_events' \subseteq [operation: Operation, status: {"completed", "failed"}]
  BY <1>1, <1>2 DEF ZoteroInv, ZoteroTypeOK, Audit
<1>4. RecordsTyped'
  BY <1>3 DEF ZoteroInv, ZoteroTypeOK, Audit, RecordsTyped
<1>5. Goto(c, Idle) /\ UNCHANGED <<items, folders, links, raced, unlinked>>
  BY DEF Audit
<1>6. Sound(Idle, items, folders, raced, Linked)
  BY IdleSound
<1> QED BY <1>4, <1>5, <1>6, IdleTyped, QuietSteps

\* A request or a statement fails and the call raises.
LEMMA StepFailsKeeps ==
    ASSUME ZoteroInv, NEW c \in Call, StepFails(c) PROVE ZoteroInv'
<1>1. Untouched /\ RecordsTyped'
  BY RecordsStay DEF ZoteroInv, StepFails, Untouched
<1>2. calls[c].op # "none"
  BY CallSound DEF StepFails, StepFits
<1> QED BY <1>1, <1>2, Raises DEF StepFails

\* Calls are cancelled, or the process ends with all of them.
LEMMA InterruptKeeps ==
    ASSUME ZoteroInv, NEW ended \in SUBSET Call, Interrupt(ended) PROVE ZoteroInv'
<1>1. Untouched /\ RecordsTyped'
  BY RecordsStay DEF ZoteroInv, Interrupt, Untouched
<1>2. calls' = [c \in Call |-> IF c \in ended THEN Idle ELSE calls[c]]
  BY DEF Interrupt
<1>3. calls' \in [Call -> CallState]
  BY <1>2, IdleTyped DEF ZoteroInv, ZoteroTypeOK
<1>4. ZoteroTypeOK'
  BY <1>1, <1>3 DEF ZoteroInv, ZoteroTypeOK, Untouched, RecordsTyped
<1>5. DuplicatesNeedARace'
  BY <1>1 DEF ZoteroInv, DuplicatesNeedARace, Untouched
<1>6. Linked' = Linked
  BY <1>1 DEF Linked, Untouched
<1>7. ASSUME NEW d \in Call PROVE Sound(calls'[d], items', folders', raced', Linked')
  <2>1. calls'[d] = Idle \/ calls'[d] = calls[d]
    BY <1>2
  <2>2. Sound(calls'[d], items, folders, raced, Linked)
    BY <2>1, IdleSound, CallSound
  <2> QED BY <1>1, <1>6, <2>2 DEF Untouched
<1> QED BY <1>4, <1>5, <1>7 DEF ZoteroInv

-----------------------------------------------------------------------------
(* Steps that write the library                                            *)

\* Items keep their work, and a change gives them a later version.
ItemsEdited(held, later) ==
    /\ Keyed(later, ItemKey, Item) /\ DOMAIN later \subseteq DOMAIN held
    /\ \A i \in DOMAIN later :
          /\ later[i].work = held[i].work
          /\ later[i] = held[i] \/ later[i].version > held[i].version

\* Edited items have moved on, and no work has come.
LEMMA EditedMoves ==
    ASSUME NEW held, NEW later, ItemsEdited(held, later), NEW call, NEW keys, NEW races
    PROVE  MovesOn(keys, held, later) /\ RacesKnown(call, held, later, races, races)
<1>1. MovesOn(keys, held, later)
  BY DEF ItemsEdited, MovesOn
<1>2. RacesKnown(call, held, later, races, races)
  BY DEF ItemsEdited, RacesKnown
<1> QED BY <1>1, <1>2

\* Edits of items never make two of one work.
LEMMA EditedNoDuplicates ==
    ASSUME ZoteroInv, ItemsEdited(items, items'), raced' = raced
    PROVE  DuplicatesNeedARace'
BY DEF ZoteroInv, DuplicatesNeedARace, ItemsEdited

\* A call that edits items, with its locals after the step.
LEMMA EditSteps ==
    ASSUME ZoteroInv, NEW c \in Call, NEW call \in CallState, Goto(c, call),
           ItemsEdited(items, items'), UNCHANGED <<folders, links, raced, unlinked>>,
           RecordsTyped', Sound(call, items', folders, raced, Linked)
    PROVE  ZoteroInv'
<1>1. LibraryTyped'
  BY DEF ZoteroInv, ZoteroTypeOK, LibraryTyped, ItemsEdited
<1>2. Linked' = Linked
  BY DEF Linked
<1>3. DuplicatesNeedARace'
  BY EditedNoDuplicates
<1>4. ASSUME NEW d \in Call
      PROVE  /\ MovesOn(ItemKeysOf(calls[d]), items, items')
             /\ MovesOn(FolderKeysOf(calls[d]), folders, folders')
             /\ RacesKnown(calls[d], items, items', raced, raced')
  BY EditedMoves, Unmoved
<1>5. Sound(call, items', folders', raced', Linked')
  BY <1>2
<1> QED BY <1>1, <1>2, <1>3, <1>4, <1>5, CallSteps

\* What the locals held before still holds of the items after the step.
LEMMA EditSound ==
    ASSUME ZoteroInv, NEW c \in Call, ItemsEdited(items, items'),
           UNCHANGED <<folders, links, raced, unlinked>>
    PROVE  Sound(calls[c], items', folders, raced, Linked)
<1>1. LibraryTyped'
  BY DEF ZoteroInv, ZoteroTypeOK, LibraryTyped, ItemsEdited
<1>2. Linked' = Linked
  BY DEF Linked
<1>3. /\ MovesOn(ItemKeysOf(calls[c]), items, items')
      /\ MovesOn(FolderKeysOf(calls[c]), folders, folders')
      /\ RacesKnown(calls[c], items, items', raced, raced')
  BY EditedMoves, Unmoved
<1>4. Sound(calls[c], items', folders', raced', Linked')
  BY <1>1, <1>2, <1>3, StaysSound, CallSound DEF ZoteroInv
<1> QED BY <1>2, <1>4

\* The answer of an edit reaches the call, or is lost and raises.
LEMMA AnsweredEdits ==
    ASSUME ZoteroInv, NEW c \in Call, calls[c].op # "none", NEW call \in CallState,
           Answered(c, call), ItemsEdited(items, items'),
           UNCHANGED <<folders, links, raced, unlinked, citation_references, audit_events,
                       started, edits>>,
           Sound(call, items', folders, raced, Linked)
    PROVE  ZoteroInv'
<1>1. RecordsTyped'
  BY RecordsStay DEF ZoteroInv, Answered
<1>2. CASE Goto(c, call)
  BY <1>1, <1>2, EditSteps
<1>3. CASE Raise(c)
  <2>1. Ended(c, "failed") \in CallState
    BY EndedTyped DEF ZoteroInv
  <2>2. Sound(Ended(c, "failed"), items', folders, raced, Linked)
    BY EndedSound
  <2> QED BY <1>1, <1>3, <2>1, <2>2, EditSteps DEF Raise
<1> QED BY <1>2, <1>3 DEF Answered

\* A changed item has the work it had and a later version.
LEMMA ChangedTyped ==
    ASSUME NEW item \in Item, NEW fs \in SUBSET FolderKey, NEW ts \in SUBSET Tag
    PROVE  /\ Changed(item, fs, ts) \in Item /\ Changed(item, fs, ts).work = item.work
           /\ Changed(item, fs, ts).folders = fs /\ Changed(item, fs, ts).tags = ts
           /\ Changed(item, fs, ts).version = item.version + 1
           /\ Changed(item, fs, ts).version > item.version
<1>1. PICK v : v = item.version
  OBVIOUS
<1>2. v \in Nat /\ v + 1 \in Nat /\ v + 1 > v
  BY <1>1 DEF Item
<1>3. PICK later : later = [item EXCEPT !.folders = fs, !.tags = ts, !.version = v + 1]
  OBVIOUS
<1>4. Changed(item, fs, ts) = later
  BY <1>1, <1>3 DEF Changed
<1>5. /\ later \in Item /\ later.work = item.work /\ later.folders = fs /\ later.tags = ts
      /\ later.version = v + 1
  BY <1>2, <1>3, Zenon DEF Item
<1> QED BY <1>1, <1>2, <1>4, <1>5

\* Putting one record changes that record alone.
LEMMA PutTyped ==
    ASSUME NEW K, NEW R, NEW f, Keyed(f, K, R), NEW k \in K, NEW value \in R
    PROVE  /\ Keyed(Put(f, k, value), K, R) /\ DOMAIN Put(f, k, value) = DOMAIN f \union {k}
           /\ Put(f, k, value)[k] = value
           /\ \A j \in DOMAIN f : j # k => Put(f, k, value)[j] = f[j]
BY DEF Put, Keyed

\* Dropping keys leaves the other records.
LEMMA DropTyped ==
    ASSUME NEW K, NEW R, NEW f, Keyed(f, K, R), NEW keys
    PROVE  /\ Keyed(Drop(f, keys), K, R) /\ DOMAIN Drop(f, keys) = DOMAIN f \ keys
           /\ \A j \in DOMAIN f \ keys : Drop(f, keys)[j] = f[j]
BY DEF Drop, Keyed

\* A change of one item.
LEMMA ChangeEdits ==
    ASSUME ZoteroTypeOK, NEW i \in DOMAIN items, NEW fs \in SUBSET FolderKey,
           NEW ts \in SUBSET Tag, items' = Put(items, i, Changed(items[i], fs, ts))
    PROVE  ItemsEdited(items, items')
<1>1. i \in ItemKey /\ items[i] \in Item /\ Keyed(items, ItemKey, Item)
  BY DEF ZoteroTypeOK, Keyed
<1>2. PICK value : value = Changed(items[i], fs, ts)
  OBVIOUS
<1>3. value \in Item /\ value.work = items[i].work /\ value.version > items[i].version
  BY <1>1, <1>2, ChangedTyped
<1>4. /\ Keyed(items', ItemKey, Item) /\ DOMAIN items' = DOMAIN items \union {i}
      /\ items'[i] = value /\ \A j \in DOMAIN items : j # i => items'[j] = items[j]
  BY <1>1, <1>2, <1>3, PutTyped
<1> QED BY <1>3, <1>4 DEF ItemsEdited

\* A PATCH of an item edits it.
LEMMA PatchEdits ==
    ASSUME ZoteroTypeOK, NEW snap \in Snapshots, IsCurrent(snap), NEW wanted,
           wanted.folders \subseteq FolderKey, wanted.tags \subseteq Tag,
           items' = Patched(snap, wanted)
    PROVE  ItemsEdited(items, items')
<1> DEFINE held == items[snap.key]
           fs == IF wanted.folders = snap.item.folders THEN held.folders ELSE wanted.folders
           ts == IF wanted.tags = snap.item.tags THEN held.tags ELSE wanted.tags
<1>1. snap.key \in DOMAIN items
  BY DEF IsCurrent
<1>2. held \in Item
  BY <1>1 DEF ZoteroTypeOK, Keyed
<1>3. fs \in SUBSET FolderKey /\ ts \in SUBSET Tag
  BY <1>2 DEF Item
<1>4. items' = Put(items, snap.key, Changed(held, fs, ts))
  BY DEF Patched
<1> HIDE DEF fs, ts
<1> QED BY <1>1, <1>3, <1>4, ChangeEdits

\* Merging adds folders and tags and takes none away.
LEMMA MergedTyped ==
    ASSUME NEW item \in Item, NEW fs \in SUBSET FolderKey, NEW ts \in SUBSET Tag
    PROVE  /\ Merged(item, fs, ts).folders \subseteq FolderKey
           /\ Merged(item, fs, ts).tags \subseteq Tag
           /\ item.folders \subseteq Merged(item, fs, ts).folders
           /\ item.tags \subseteq Merged(item, fs, ts).tags
BY DEF Merged, Item

\* create_item: the item that was found is patched.
LEMMA CreatePatchKeeps ==
    ASSUME ZoteroInv, NEW c \in Call, CreatePatch(c) PROVE ZoteroInv'
<1> DEFINE snap == calls[c].snap
<1>1. /\ calls[c].op = "create" /\ calls[c].step = "patch"
      /\ calls[c] \in CallState /\ StepFits(calls[c])
  BY CallSound DEF CreatePatch
<1>2. snap \in Snapshots /\ snap.key = calls[c].key
  BY <1>1, FieldsTyped DEF StepFits
<1>3. UNCHANGED <<folders, links, raced, unlinked, citation_references, audit_events,
                  started, edits>>
  BY DEF CreatePatch
<1>4. CASE ~IsCurrent(snap)
  <2>1. Raise(c) /\ UNCHANGED <<items, faults>>
    BY <1>4 DEF CreatePatch
  <2>2. Untouched /\ RecordsTyped'
    BY <1>3, <2>1, RecordsStay DEF ZoteroInv, Untouched
  <2> QED BY <1>1, <2>1, <2>2, Raises
<1>5. CASE IsCurrent(snap)
  <2>1. /\ items' = Patched(snap, CreateWants(calls[c], snap))
        /\ Answered(c, [calls[c] EXCEPT !.step = CreatedStep(calls[c])])
    BY <1>5 DEF CreatePatch
  <2>2. snap.item \in Item /\ calls[c].tags \in SUBSET Tag
        /\ {calls[c].folder} \ {NoKey} \in SUBSET FolderKey
    BY <1>1, <1>2, FieldsTyped DEF Snapshots
  <2>3. /\ CreateWants(calls[c], snap).folders \subseteq FolderKey
        /\ CreateWants(calls[c], snap).tags \subseteq Tag
    BY <2>2, MergedTyped DEF CreateWants
  <2>4. ItemsEdited(items, items')
    BY <1>2, <1>5, <2>1, <2>3, PatchEdits DEF ZoteroInv
  <2>5. Sound(calls[c], items', folders, raced, Linked)
    BY <1>3, <2>4, EditSound
  <2>6. PICK s : s = CreatedStep(calls[c])
    OBVIOUS
  <2>7. s \in {"save", "completed"} /\ (s = "save" => calls[c].evidence # NoEvidence)
    BY <2>6 DEF CreatedStep
  <2>8. s \in StepName /\ s # "post"
    BY <2>7 DEF StepName
  <2>9. StepFits([calls[c] EXCEPT !.step = s])
    <3>1. PICK later : later = [calls[c] EXCEPT !.step = s]
      OBVIOUS
    <3>2. /\ later.op = "create" /\ later.step = s /\ later.work = calls[c].work
          /\ later.key = calls[c].key /\ later.evidence = calls[c].evidence
      BY <1>1, <2>8, <3>1, StepFields
    <3>3. calls[c].key \in ItemKey /\ calls[c].evidence \in Evidence \union {NoEvidence}
      BY <1>1, <1>2, FieldsTyped DEF Snapshots
    <3>4. StepFits(later)
      BY <1>1, <2>7, <3>2, <3>3 DEF StepFits, Edit
    <3> QED BY <3>1, <3>4
  <2>10. /\ [calls[c] EXCEPT !.step = s] \in CallState
         /\ Sound([calls[c] EXCEPT !.step = s], items', folders, raced, Linked)
    BY <1>1, <2>5, <2>8, <2>9, StepSound
  <2> QED BY <1>1, <1>3, <2>1, <2>4, <2>6, <2>10, AnsweredEdits
<1> QED BY <1>4, <1>5

\* What an edit wants are folders and tags.
LEMMA EditedTyped ==
    ASSUME NEW call \in CallState, call.op \in Edit, call.folder \in FolderKey,
           call.snap \in Snapshots
    PROVE  Edited(call).folders \subseteq FolderKey /\ Edited(call).tags \subseteq Tag
<1>1. /\ call.snap.item.folders \subseteq FolderKey /\ call.snap.item.tags \subseteq Tag
      /\ call.tags \subseteq Tag
  BY FieldsTyped DEF Snapshots, Item
<1>2. Edited(call).folders \subseteq FolderKey
  BY <1>1 DEF Edited
<1>3. Edited(call).tags \subseteq Tag
  BY <1>1 DEF Edited
<1> QED BY <1>2, <1>3

\* An edit patches its item.
LEMMA EditPatchKeeps ==
    ASSUME ZoteroInv, NEW c \in Call, EditPatch(c) PROVE ZoteroInv'
<1> DEFINE snap == calls[c].snap
<1>1. /\ calls[c].op \in Edit /\ calls[c].step = "patch"
      /\ calls[c] \in CallState /\ StepFits(calls[c])
  BY CallSound DEF EditPatch
<1>2. calls[c].op \notin {"none", "sync"}
  BY <1>1, EditOps
<1>3. snap \in Snapshots /\ snap.key = calls[c].key /\ calls[c].folder \in FolderKey
  BY <1>1, FieldsTyped DEF StepFits
<1>4. UNCHANGED <<folders, links, raced, unlinked, citation_references, audit_events,
                  started, edits>>
  BY DEF EditPatch
<1>5. CASE ~IsCurrent(snap)
  <2>1. Raise(c) /\ UNCHANGED <<items, faults>>
    BY <1>5 DEF EditPatch
  <2>2. Untouched /\ RecordsTyped'
    BY <1>4, <2>1, RecordsStay DEF ZoteroInv, Untouched
  <2> QED BY <1>2, <2>1, <2>2, Raises
<1>6. CASE IsCurrent(snap)
  <2>1. items' = Patched(snap, Edited(calls[c])) /\ Answered(c, Ended(c, "completed"))
    BY <1>6 DEF EditPatch
  <2>2. Edited(calls[c]).folders \subseteq FolderKey /\ Edited(calls[c]).tags \subseteq Tag
    BY <1>1, <1>3, EditedTyped
  <2>3. ItemsEdited(items, items')
    BY <1>3, <1>6, <2>1, <2>2, PatchEdits DEF ZoteroInv
  <2>4. Ended(c, "completed") \in CallState
    BY EndedTyped DEF ZoteroInv
  <2>5. Sound(Ended(c, "completed"), items', folders, raced, Linked)
    BY <1>2, EndedSound
  <2> QED BY <1>2, <1>4, <2>1, <2>3, <2>4, <2>5, AnsweredEdits
<1> QED BY <1>5, <1>6

\* Deleting items edits the library.
LEMMA DropEdits ==
    ASSUME ZoteroTypeOK, NEW keys, items' = Drop(items, keys)
    PROVE  ItemsEdited(items, items')
<1>1. Keyed(items, ItemKey, Item)
  BY DEF ZoteroTypeOK
<1>2. /\ Keyed(items', ItemKey, Item) /\ DOMAIN items' = DOMAIN items \ keys
      /\ \A j \in DOMAIN items \ keys : items'[j] = items[j]
  BY <1>1, DropTyped
<1> QED BY <1>2 DEF ItemsEdited

\* delete_item: the item is deleted.
LEMMA DeleteItemKeeps ==
    ASSUME ZoteroInv, NEW c \in Call, DeleteItem(c) PROVE ZoteroInv'
<1> DEFINE snap == calls[c].snap
<1>1. /\ calls[c].op = "delete_item" /\ calls[c].step = "delete"
      /\ calls[c] \in CallState /\ StepFits(calls[c])
  BY CallSound DEF DeleteItem
<1>2. UNCHANGED <<folders, links, raced, unlinked, citation_references, audit_events,
                  started, edits>>
  BY DEF DeleteItem
<1>3. CASE ~IsCurrent(snap)
  <2>1. Raise(c) /\ UNCHANGED <<items, faults>>
    BY <1>3 DEF DeleteItem
  <2>2. Untouched /\ RecordsTyped'
    BY <1>2, <2>1, RecordsStay DEF ZoteroInv, Untouched
  <2> QED BY <1>1, <2>1, <2>2, Raises
<1>4. CASE IsCurrent(snap)
  <2>1. /\ items' = Drop(items, {calls[c].key})
        /\ Answered(c, [calls[c] EXCEPT !.step = "unlink"])
    BY <1>4 DEF DeleteItem
  <2>2. ItemsEdited(items, items')
    BY <2>1, DropEdits DEF ZoteroInv
  <2>3. Sound(calls[c], items', folders, raced, Linked)
    BY <1>2, <2>2, EditSound
  <2>4. "unlink" \in StepName \ {"patch", "save", "children", "delete", "contents", "list"}
    BY DEF StepName
  <2>5. StepFits([calls[c] EXCEPT !.step = "unlink"])
    BY <1>1, <2>4, FitsOn
  <2>6. /\ [calls[c] EXCEPT !.step = "unlink"] \in CallState
        /\ Sound([calls[c] EXCEPT !.step = "unlink"], items', folders, raced, Linked)
    BY <1>1, <2>3, <2>4, <2>5, StepSound
  <2> QED BY <1>1, <1>2, <2>1, <2>2, <2>6, AnsweredEdits
<1> QED BY <1>3, <1>4

-----------------------------------------------------------------------------
(* Steps that write the links                                              *)

\* A step that only writes links keeps the invariant when it leaves its call sound.
LEMMA LinkSteps ==
    ASSUME ZoteroInv, NEW c \in Call, NEW call \in CallState, Goto(c, call),
           Keyed(links', Evidence, ItemKey), unlinked' \subseteq Evidence,
           Linked \subseteq Linked', UNCHANGED <<items, folders, raced>>, RecordsTyped',
           Sound(call, items, folders, raced, Linked')
    PROVE  ZoteroInv'
<1>1. LibraryTyped'
  BY DEF ZoteroInv, ZoteroTypeOK, LibraryTyped
<1>2. DuplicatesNeedARace'
  BY DEF ZoteroInv, DuplicatesNeedARace
<1>3. ASSUME NEW d \in Call
      PROVE  /\ MovesOn(ItemKeysOf(calls[d]), items, items')
             /\ MovesOn(FolderKeysOf(calls[d]), folders, folders')
             /\ RacesKnown(calls[d], items, items', raced, raced')
  BY Unmoved, NoRaces
<1>4. Sound(call, items', folders', raced', Linked')
  OBVIOUS
<1> QED BY <1>1, <1>2, <1>3, <1>4, CallSteps

\* Saving a link adds one evidence to those that are linked.
LEMMA SaveLinkLinks ==
    ASSUME ZoteroTypeOK, NEW e \in Evidence, NEW i \in ItemKey, SaveLink(e, i)
    PROVE  /\ Keyed(links', Evidence, ItemKey) /\ unlinked' \subseteq Evidence
           /\ Linked' = Linked \union {e}
<1>1. /\ Keyed(links, Evidence, ItemKey) /\ links' = Put(links, e, i)
      /\ e \in Evidence /\ i \in ItemKey
  BY DEF ZoteroTypeOK, SaveLink
<1>2. /\ Keyed(links', Evidence, ItemKey) /\ DOMAIN links' = DOMAIN links \union {e}
  <2>1. Keyed(Put(links, e, i), Evidence, ItemKey)
    BY <1>1, PutTyped
  <2>2. DOMAIN Put(links, e, i) = DOMAIN links \union {e}
    BY <1>1, PutTyped
  <2> QED BY <1>1, <2>1, <2>2
<1>3. unlinked' = unlinked \ {e}
  BY DEF SaveLink
<1> QED BY <1>2, <1>3 DEF ZoteroTypeOK, Linked

\* create_item: the link is saved.
LEMMA CreateSaveLinkKeeps ==
    ASSUME ZoteroInv, NEW c \in Call, CreateSaveLink(c) PROVE ZoteroInv'
<1>1. /\ calls[c].op = "create" /\ calls[c].step = "save"
      /\ calls[c] \in CallState /\ StepFits(calls[c])
  BY CallSound DEF CreateSaveLink
<1>2. calls[c].evidence \in Evidence /\ calls[c].key \in ItemKey
  BY <1>1 DEF StepFits
<1>3. /\ Keyed(links', Evidence, ItemKey) /\ unlinked' \subseteq Evidence
      /\ Linked \subseteq Linked'
  BY <1>2, SaveLinkLinks DEF ZoteroInv, CreateSaveLink
<1>4. Ended(c, "completed") \in CallState
  BY EndedTyped DEF ZoteroInv
<1>5. Sound(Ended(c, "completed"), items, folders, raced, Linked')
  BY <1>1, EndedSound
<1>6. RecordsTyped' /\ UNCHANGED <<items, folders, raced>>
  BY RecordsStay DEF ZoteroInv, CreateSaveLink
<1>7. Goto(c, Ended(c, "completed"))
  BY DEF CreateSaveLink, Return
<1> QED BY <1>3, <1>4, <1>5, <1>6, <1>7, LinkSteps

\* delete_item: the links of the deleted item go.
LEMMA DeleteItemLinksKeeps ==
    ASSUME ZoteroInv, NEW c \in Call, DeleteItemLinks(c) PROVE ZoteroInv'
<1> DEFINE named == {e \in DOMAIN links : links[e] = calls[c].key}
<1>1. links' = Drop(links, named) /\ unlinked' = unlinked \union named
  BY DEF DeleteItemLinks
<1>2. Keyed(links, Evidence, ItemKey) /\ unlinked \subseteq Evidence
  BY DEF ZoteroInv, ZoteroTypeOK
<1> HIDE DEF named
<1>3. Keyed(links', Evidence, ItemKey) /\ DOMAIN links' = DOMAIN links \ named
  BY <1>1, <1>2, DropTyped
<1> USE DEF named
<1>4. unlinked' \subseteq Evidence
  BY <1>1, <1>2 DEF Keyed
<1>5. Linked \subseteq Linked'
  BY <1>1, <1>3 DEF Linked
<1>6. Ended(c, "completed") \in CallState
  BY EndedTyped DEF ZoteroInv
<1>7. Sound(Ended(c, "completed"), items, folders, raced, Linked')
  BY EndedSound DEF DeleteItemLinks
<1>8. RecordsTyped' /\ UNCHANGED <<items, folders, raced>>
  BY RecordsStay DEF ZoteroInv, DeleteItemLinks
<1>9. Goto(c, Ended(c, "completed"))
  BY DEF DeleteItemLinks, Return
<1> QED BY <1>3, <1>4, <1>5, <1>6, <1>7, <1>8, <1>9, LinkSteps

-----------------------------------------------------------------------------
(* Steps that add items                                                    *)

ItemsPosted ==
    /\ Keyed(items', ItemKey, Item) /\ DOMAIN items \subseteq DOMAIN items'
    /\ DOMAIN items' \ DOMAIN items \subseteq FreshItems
    /\ \A i \in DOMAIN items : items'[i] = items[i]

\* No call holds the key of an item that was just added.
LEMMA PostedMoves ==
    ASSUME ItemsPosted, raced \subseteq raced', NEW d \in Call,
           \A i \in DOMAIN items' \ DOMAIN items :
              items'[i].work \in Pending(calls[d]) => items'[i].work \in raced'
    PROVE  /\ MovesOn(ItemKeysOf(calls[d]), items, items')
           /\ RacesKnown(calls[d], items, items', raced, raced')
<1>1. ItemKeysOf(calls[d]) \intersect FreshItems = {}
  BY DEF FreshItems
<1>2. MovesOn(ItemKeysOf(calls[d]), items, items')
  <2> SUFFICES ASSUME NEW k \in DOMAIN items' \intersect ItemKeysOf(calls[d])
               PROVE  k \in DOMAIN items /\ items'[k] = items[k]
    BY DEF MovesOn
  <2> QED BY <1>1 DEF ItemsPosted
<1>3. RacesKnown(calls[d], items, items', raced, raced')
  <2> SUFFICES ASSUME NEW i \in DOMAIN items', items'[i].work \in Pending(calls[d])
               PROVE  \/ items'[i].work \in raced'
                      \/ \E j \in DOMAIN items : items[j].work = items'[i].work
    BY DEF RacesKnown
  <2>1. CASE i \in DOMAIN items
    BY <2>1 DEF ItemsPosted
  <2>2. CASE i \notin DOMAIN items
    BY <2>2
  <2> QED BY <2>1, <2>2
<1> QED BY <1>2, <1>3

\* A call that added items has none left to post.
LEMMA PostSteps ==
    ASSUME ZoteroInv, NEW c \in Call, NEW call \in CallState, Goto(c, call), ItemsPosted,
           raced \subseteq raced', raced' \subseteq Work,
           \A i \in DOMAIN items' \ DOMAIN items :
              items'[i].work \in PendingElsewhere(c) => items'[i].work \in raced',
           UNCHANGED <<folders, links, unlinked>>, RecordsTyped', DuplicatesNeedARace',
           Pending(call) = {}, Snaps(call) \subseteq Snaps(calls[c]),
           ListingsAgree(call.stack, folders), StepFits(call), AccountsFor(call, Linked)
    PROVE  ZoteroInv'
<1>1. LibraryTyped'
  BY DEF ZoteroInv, ZoteroTypeOK, LibraryTyped, ItemsPosted
<1>2. Linked' = Linked
  BY DEF Linked
<1>3. ASSUME NEW d \in Call, d # c
      PROVE  /\ MovesOn(ItemKeysOf(calls[d]), items, items')
             /\ MovesOn(FolderKeysOf(calls[d]), folders, folders')
             /\ RacesKnown(calls[d], items, items', raced, raced')
  <2>1. \A i \in DOMAIN items' \ DOMAIN items :
           items'[i].work \in Pending(calls[d]) => items'[i].work \in raced'
    BY <1>3 DEF PendingElsewhere
  <2> QED BY <2>1, PostedMoves, Unmoved
<1>4. ReadsAgree(call, items')
  <2>1. ReadsAgree(calls[c], items) /\ calls[c] \in CallState
    BY CallSound DEF Sound
  <2>2. MovesOn(ItemKeysOf(calls[c]), items, items')
    <3>1. ItemKeysOf(calls[c]) \intersect FreshItems = {}
      BY DEF FreshItems
    <3> QED BY <3>1 DEF ItemsPosted, MovesOn
  <2>3. Keyed(items, ItemKey, Item) /\ Keyed(items', ItemKey, Item)
    BY DEF ZoteroInv, ZoteroTypeOK, ItemsPosted
  <2>4. ReadsAgree(calls[c], items')
    BY <2>1, <2>2, <2>3, ReadsStay
  <2> QED BY <2>4 DEF ReadsAgree
<1>5. SearchesHold(call, items', raced')
  BY DEF SearchesHold
<1>6. Sound(call, items', folders', raced', Linked')
  BY <1>2, <1>4, <1>5 DEF Sound
<1> QED BY <1>1, <1>2, <1>3, <1>6, CallSteps

\* A new item is an item of its work.
LEMMA NewItemTyped ==
    ASSUME NEW w \in Work, NEW fs \in SUBSET FolderKey, NEW ts \in SUBSET Tag
    PROVE  NewItem(w, fs, ts) \in Item /\ NewItem(w, fs, ts).work = w
<1>1. 0 \in Nat /\ FALSE \in BOOLEAN
  OBVIOUS
<1> QED BY <1>1, Zenon DEF NewItem, Item

\* One item under a key that nothing names.
LEMMA OnePosted ==
    ASSUME ZoteroTypeOK, FreshItems # {}, NEW item \in Item, items' = Put(items, FreshItem, item)
    PROVE  /\ ItemsPosted /\ FreshItem \notin DOMAIN items /\ items'[FreshItem] = item
           /\ DOMAIN items' = DOMAIN items \union {FreshItem} /\ FreshItem \in ItemKey
<1>1. FreshItem \in FreshItems
  BY DEF FreshItem
<1>2. FreshItem \in ItemKey /\ FreshItem \notin DOMAIN items
  BY <1>1 DEF FreshItems
<1>3. Keyed(items, ItemKey, Item)
  BY DEF ZoteroTypeOK
<1> DEFINE later == Put(items, FreshItem, item)
<1>4. Keyed(later, ItemKey, Item)
  BY <1>2, <1>3, PutTyped
<1>5. DOMAIN later = DOMAIN items \union {FreshItem}
  BY DEF Put
<1>6. later[FreshItem] = item
  BY DEF Put
<1>7. \A i \in DOMAIN items : later[i] = items[i]
  BY <1>2 DEF Put
<1> QED BY <1>1, <1>2, <1>4, <1>5, <1>6, <1>7 DEF ItemsPosted

\* create_item: the item is posted.
LEMMA CreatePostKeeps ==
    ASSUME ZoteroInv, NEW c \in Call, CreatePost(c) PROVE ZoteroInv'
<1> DEFINE w == calls[c].work
           fs == {calls[c].folder} \ {NoKey}
<1>1. /\ calls[c].op = "create" /\ calls[c].step = "post"
      /\ calls[c] \in CallState /\ StepFits(calls[c])
  BY CallSound DEF CreatePost
<1>2. w \in Work /\ fs \in SUBSET FolderKey /\ calls[c].tags \in SUBSET Tag
  BY <1>1, FieldsTyped DEF StepFits
<1>3. /\ FreshItems # {} /\ items' = Put(items, FreshItem, NewItem(w, fs, calls[c].tags))
      /\ Answered(c, [calls[c] EXCEPT !.key = FreshItem, !.step = CreatedStep(calls[c])])
      /\ raced' = raced \union ({w} \intersect PendingElsewhere(c))
      /\ UNCHANGED <<folders, links, citation_references, audit_events,
                     unlinked, started, edits>>
  BY DEF CreatePost
<1>4. PICK item \in Item : item = NewItem(w, fs, calls[c].tags) /\ item.work = w
  BY <1>2, NewItemTyped
<1>5. /\ ItemsPosted /\ FreshItem \notin DOMAIN items /\ items'[FreshItem] = item
      /\ DOMAIN items' = DOMAIN items \union {FreshItem} /\ FreshItem \in ItemKey
  BY <1>3, <1>4, OnePosted DEF ZoteroInv
<1>6. raced \subseteq raced' /\ raced' \subseteq Work
  BY <1>2, <1>3 DEF ZoteroInv, ZoteroTypeOK
<1>7. \A i \in DOMAIN items' \ DOMAIN items :
         items'[i].work \in PendingElsewhere(c) => items'[i].work \in raced'
  BY <1>3, <1>4, <1>5
<1>8. DuplicatesNeedARace'
  <2>1. \A j \in DOMAIN items : items[j].work = w => w \in raced
    <3>1. w \in Pending(calls[c])
      BY <1>1 DEF Pending
    <3> QED BY <3>1, CallSound DEF Sound, SearchesHold
  <2> SUFFICES ASSUME NEW i \in DOMAIN items', NEW j \in DOMAIN items', i # j,
                      items'[i].work = items'[j].work
               PROVE  items'[i].work \in raced'
    BY DEF DuplicatesNeedARace
  <2>2. \A k \in DOMAIN items : items'[k] = items[k]
    BY <1>5 DEF ItemsPosted
  <2>3. CASE i \in DOMAIN items /\ j \in DOMAIN items
    BY <1>6, <2>2, <2>3 DEF ZoteroInv, DuplicatesNeedARace
  <2>4. CASE i = FreshItem /\ j \in DOMAIN items
    BY <1>4, <1>5, <1>6, <2>1, <2>2, <2>4
  <2>5. CASE j = FreshItem /\ i \in DOMAIN items
    BY <1>4, <1>5, <1>6, <2>1, <2>2, <2>5
  <2> QED BY <1>5, <2>3, <2>4, <2>5
<1>9. RecordsTyped'
  BY <1>3, RecordsStay DEF ZoteroInv, Answered
<1>10. ASSUME NEW call \in CallState, Goto(c, call), Pending(call) = {},
              Snaps(call) \subseteq Snaps(calls[c]), ListingsAgree(call.stack, folders),
              StepFits(call), AccountsFor(call, Linked)
       PROVE  ZoteroInv'
  BY <1>3, <1>5, <1>6, <1>7, <1>8, <1>9, <1>10, PostSteps
<1>11. CASE Raise(c)
  <2> DEFINE call == Ended(c, "failed")
  <2>1. call \in CallState
    BY EndedTyped DEF ZoteroInv
  <2>2. Sound(call, items, folders, raced, Linked)
    BY <1>1, EndedSound
  <2>3. call.op = "create" /\ call.step = "failed" /\ call.snap = NoKey /\ call.matched = <<>>
    BY <1>1, EndedFields
  <2>4. Goto(c, call)
    BY <1>11 DEF Raise
  <2> HIDE DEF call
  <2>5. Pending(call) = {} /\ Snaps(call) = {}
    BY <2>3 DEF Pending, Snaps
  <2> QED BY <1>10, <2>1, <2>2, <2>4, <2>5 DEF Sound
<1>12. CASE Goto(c, [calls[c] EXCEPT !.key = FreshItem, !.step = CreatedStep(calls[c])])
  <2>1. PICK s : s = CreatedStep(calls[c])
    OBVIOUS
  <2>2. s \in {"save", "completed"} /\ (s = "save" => calls[c].evidence # NoEvidence)
    BY <2>1 DEF CreatedStep
  <2>3. s \in StepName
    BY <2>2 DEF StepName
  <2>4. PICK i : i = FreshItem
    OBVIOUS
  <2>5. i \in ItemKey
    BY <1>5, <2>4
  <2>6. PICK call : call = [calls[c] EXCEPT !.key = i, !.step = s]
    OBVIOUS
  <2>7. /\ call \in CallState /\ call.op = "create" /\ call.step = s /\ call.key = i
        /\ call.snap = calls[c].snap /\ call.matched = calls[c].matched
        /\ call.stack = calls[c].stack /\ call.work = w /\ call.evidence = calls[c].evidence
    BY <1>1, <2>3, <2>5, <2>6, Zenon DEF CallState
  <2>8. Pending(call) = {}
    BY <2>2, <2>7 DEF Pending
  <2>9. Snaps(call) = Snaps(calls[c])
    BY <2>7, Zenon DEF Snaps
  <2>10. ListingsAgree(call.stack, folders)
    BY <2>7, CallSound DEF Sound
  <2>11. calls[c].evidence \in Evidence \union {NoEvidence}
    BY <1>1, FieldsTyped
  <2>12. StepFits(call)
    BY <1>2, <2>2, <2>5, <2>7, <2>11 DEF StepFits, Edit
  <2>13. AccountsFor(call, Linked)
    BY <2>7 DEF AccountsFor
  <2>14. Goto(c, call)
    BY <1>12, <2>1, <2>4, <2>6
  <2> QED BY <1>10, <2>7, <2>8, <2>9, <2>10, <2>12, <2>13, <2>14
<1> QED BY <1>3, <1>11, <1>12 DEF Answered

-----------------------------------------------------------------------------
(* Steps that write folders                                                *)

\* No walk holds the key of a folder that was just added.
LEMMA FolderPosted ==
    ASSUME ZoteroTypeOK, FreshFolders # {}, NEW folder \in Folder,
           folders' = Put(folders, FreshFolder, folder)
    PROVE  /\ Keyed(folders', FolderKey, Folder) /\ FreshFolder \in FolderKey
           /\ \A d \in Call : MovesOn(FolderKeysOf(calls[d]), folders, folders')
<1>1. FreshFolder \in FreshFolders
  BY DEF FreshFolder
<1>2. FreshFolder \in FolderKey
  BY <1>1 DEF FreshFolders
<1>3. \A d \in Call : FreshFolder \notin FolderKeysOf(calls[d])
  <2>1. ASSUME NEW d \in Call PROVE FolderKeysOf(calls[d]) \intersect FreshFolders = {}
    BY DEF FreshFolders
  <2> QED BY <1>1, <2>1
<1>4. Keyed(folders, FolderKey, Folder)
  BY DEF ZoteroTypeOK
<1>5. Keyed(folders', FolderKey, Folder)
  BY <1>2, <1>4, PutTyped
<1>6. \A d \in Call : MovesOn(FolderKeysOf(calls[d]), folders, folders')
  BY <1>3 DEF MovesOn, Put
<1> QED BY <1>2, <1>5, <1>6

\* A call that added a folder, with the walk it had.
LEMMA FolderSteps ==
    ASSUME ZoteroInv, NEW c \in Call, NEW call \in CallState, Goto(c, call),
           FreshFolders # {}, NEW folder \in Folder,
           folders' = Put(folders, FreshFolder, folder),
           UNCHANGED <<items, links, raced, unlinked>>, RecordsTyped',
           Sound(call, items, folders, raced, Linked),
           call.stack = calls[c].stack \/ call.stack = <<>>
    PROVE  ZoteroInv'
<1>1. /\ Keyed(folders', FolderKey, Folder)
      /\ \A d \in Call : MovesOn(FolderKeysOf(calls[d]), folders, folders')
  BY FolderPosted DEF ZoteroInv
<1>2. LibraryTyped'
  BY <1>1 DEF ZoteroInv, ZoteroTypeOK, LibraryTyped
<1>3. Linked' = Linked
  BY DEF Linked
<1>4. DuplicatesNeedARace'
  BY DEF ZoteroInv, DuplicatesNeedARace
<1>5. ASSUME NEW d \in Call
      PROVE  /\ MovesOn(ItemKeysOf(calls[d]), items, items')
             /\ MovesOn(FolderKeysOf(calls[d]), folders, folders')
             /\ RacesKnown(calls[d], items, items', raced, raced')
  BY <1>1, Unmoved, NoRaces
<1>6. ListingsAgree(call.stack, folders')
  <2>1. ListingsAgree(calls[c].stack, folders) /\ calls[c] \in CallState
    BY CallSound DEF Sound
  <2>2. Keyed(folders, FolderKey, Folder)
    BY DEF ZoteroInv, ZoteroTypeOK
  <2>3. ListingsAgree(calls[c].stack, folders')
    BY <1>1, <2>1, <2>2, ListingsStay
  <2>4. ListingsAgree(<<>>, folders')
    BY DEF ListingsAgree
  <2> QED BY <2>3, <2>4
<1>7. Sound(call, items', folders', raced', Linked')
  BY <1>3, <1>6 DEF Sound
<1> QED BY <1>2, <1>3, <1>4, <1>5, <1>7, CallSteps

\* create_collection: the folder is posted.
LEMMA PostCollectionKeeps ==
    ASSUME ZoteroInv, NEW c \in Call, PostCollection(c) PROVE ZoteroInv'
<1> DEFINE p == calls[c].folder
<1>1. /\ calls[c].op = "create_collection" /\ calls[c].step = "post"
      /\ calls[c] \in CallState /\ StepFits(calls[c])
      /\ UNCHANGED <<items, links, citation_references, audit_events,
                     raced, unlinked, started, edits>>
  BY CallSound DEF PostCollection
<1>2. CASE p # NoKey /\ p \notin DOMAIN folders
  <2>1. Raise(c) /\ UNCHANGED <<folders, faults>>
    BY <1>2 DEF PostCollection
  <2>2. Untouched /\ RecordsTyped'
    BY <1>1, <2>1, RecordsStay DEF ZoteroInv, Untouched
  <2> QED BY <1>1, <2>1, <2>2, Raises
<1>3. CASE ~(p # NoKey /\ p \notin DOMAIN folders)
  <2>1. PICK folder : folder = [name |-> calls[c].name, parent |-> p, version |-> 0]
    OBVIOUS
  <2>2. /\ FreshFolders # {} /\ folders' = Put(folders, FreshFolder, folder)
        /\ Answered(c, Ended(c, "completed"))
    BY <1>3, <2>1 DEF PostCollection
  <2>3. folder \in Folder
    BY <1>1, <2>1, FieldsTyped DEF Folder
  <2>4. RecordsTyped'
    BY <1>1, <2>2, RecordsStay DEF ZoteroInv, Answered
  <2>5. ASSUME NEW status \in {"completed", "failed"}, Goto(c, Ended(c, status))
        PROVE  ZoteroInv'
    <3>1. Ended(c, status) \in CallState /\ Ended(c, status).stack = <<>>
      BY EndedTyped, EndedFields DEF ZoteroInv
    <3>2. Sound(Ended(c, status), items, folders, raced, Linked)
      BY <1>1, EndedSound
    <3> QED BY <1>1, <2>2, <2>3, <2>4, <2>5, <3>1, <3>2, FolderSteps
  <2> QED BY <2>2, <2>5 DEF Answered, Raise
<1> QED BY <1>2, <1>3

\* Deleting folders takes nothing from an item but its membership in them.
LEMMA WithoutFoldersEdits ==
    ASSUME ZoteroTypeOK, NEW gone, WithoutFolders(gone)
    PROVE  /\ ItemsEdited(items, items') /\ Keyed(folders', FolderKey, Folder)
           /\ \A keys : MovesOn(keys, folders, folders')
           /\ DOMAIN folders' = DOMAIN folders \ gone
           /\ DOMAIN items' = DOMAIN items
           /\ \A i \in DOMAIN items : /\ items'[i].tags = items[i].tags
                                      /\ items[i].folders \ gone \subseteq items'[i].folders
<1>1. Keyed(items, ItemKey, Item) /\ Keyed(folders, FolderKey, Folder)
  BY DEF ZoteroTypeOK
<1>2. /\ folders' = Drop(folders, gone) /\ DOMAIN items' = DOMAIN items
      /\ \A i \in DOMAIN items : items'[i] =
            IF items[i].folders \intersect gone = {} THEN items[i]
            ELSE Changed(items[i], items[i].folders \ gone, items[i].tags)
      /\ items' = [i \in DOMAIN items |-> items'[i]]
  BY DEF WithoutFolders
<1>3. /\ Keyed(folders', FolderKey, Folder) /\ DOMAIN folders' = DOMAIN folders \ gone
      /\ \A j \in DOMAIN folders \ gone : folders'[j] = folders[j]
  <2>1. Keyed(Drop(folders, gone), FolderKey, Folder)
    BY <1>1, DropTyped
  <2> QED BY <1>2, <2>1 DEF Drop
<1>4. \A keys : MovesOn(keys, folders, folders')
  BY <1>3 DEF MovesOn
<1>5. ASSUME NEW i \in DOMAIN items
      PROVE  /\ items'[i] \in Item /\ items'[i].work = items[i].work
             /\ items'[i] = items[i] \/ items'[i].version > items[i].version
             /\ items'[i].tags = items[i].tags
             /\ items[i].folders \ gone \subseteq items'[i].folders
  <2>1. items[i] \in Item
    BY <1>1 DEF Keyed
  <2>2. items[i].folders \ gone \in SUBSET FolderKey /\ items[i].tags \in SUBSET Tag
    BY <2>1 DEF Item
  <2>3. CASE items[i].folders \intersect gone = {}
    BY <1>2, <2>1, <2>3
  <2>4. CASE items[i].folders \intersect gone # {}
    <3>1. PICK fs \in SUBSET FolderKey : fs = items[i].folders \ gone
      BY <2>2
    <3>2. items'[i] = Changed(items[i], fs, items[i].tags)
      BY <1>2, <2>4, <3>1
    <3> QED BY <2>1, <2>2, <3>1, <3>2, ChangedTyped
  <2> QED BY <2>3, <2>4
<1>6. Keyed(items', ItemKey, Item)
  BY <1>1, <1>2, <1>5 DEF Keyed
<1> QED BY <1>2, <1>3, <1>4, <1>5, <1>6 DEF ItemsEdited

\* delete_collection: a folder is deleted, and the walk goes on.
LEMMA TreeDeleteKeeps ==
    ASSUME ZoteroInv, NEW c \in Call, TreeDelete(c) PROVE ZoteroInv'
<1> DEFINE stack == calls[c].stack
           frame == stack[Len(stack)]
           below == SubSeq(stack, 1, Len(stack) - 1)
<1>1. /\ calls[c].op = "delete_collection" /\ calls[c].step = "delete"
      /\ calls[c] \in CallState /\ StepFits(calls[c])
      /\ UNCHANGED <<links, citation_references, audit_events, raced, unlinked, started, edits>>
  BY CallSound DEF TreeDelete
<1>2. stack \in Seq(Frame) /\ stack # <<>>
  BY <1>1, FieldsTyped DEF StepFits
<1>3. CASE ~FolderIsCurrent(frame)
  <2>1. Raise(c) /\ UNCHANGED <<items, folders, faults>>
    BY <1>3 DEF TreeDelete
  <2>2. Untouched /\ RecordsTyped'
    BY <1>1, <2>1, RecordsStay DEF ZoteroInv, Untouched
  <2> QED BY <1>1, <2>1, <2>2, Raises
<1>4. CASE FolderIsCurrent(frame)
  <2>1. /\ WithoutFolders(Under(frame.key))
        /\ \/ Walk(c, below) /\ UNCHANGED faults
           \/ MayFail /\ faults' = faults + 1 /\ Raise(c)
    BY <1>4 DEF TreeDelete
  <2>2. /\ ItemsEdited(items, items') /\ Keyed(folders', FolderKey, Folder)
        /\ \A keys : MovesOn(keys, folders, folders')
    BY <2>1, WithoutFoldersEdits DEF ZoteroInv
  <2>3. LibraryTyped'
    BY <1>1, <2>2 DEF ZoteroInv, ZoteroTypeOK, LibraryTyped, ItemsEdited
  <2>4. Linked' = Linked
    BY <1>1 DEF Linked
  <2>5. DuplicatesNeedARace'
    BY <1>1, <2>2, EditedNoDuplicates
  <2>6. ASSUME NEW d \in Call
        PROVE  /\ MovesOn(ItemKeysOf(calls[d]), items, items')
               /\ MovesOn(FolderKeysOf(calls[d]), folders, folders')
               /\ RacesKnown(calls[d], items, items', raced, raced')
    BY <1>1, <2>2, EditedMoves
  <2>7. RecordsTyped'
    BY <1>1, <2>1, RecordsStay DEF ZoteroInv
  <2>8. Sound(calls[c], items', folders', raced', Linked')
    BY <2>3, <2>4, <2>6, CallSound, StaysSound DEF ZoteroInv
  <2>9. \E call \in CallState : Goto(c, call) /\ Sound(call, items', folders', raced', Linked')
    <3>1. CASE Raise(c)
      <4>1. Ended(c, "failed") \in CallState
        BY EndedTyped DEF ZoteroInv
      <4>2. Sound(Ended(c, "failed"), items', folders', raced', Linked')
        BY <1>1, EndedSound
      <4> QED BY <3>1, <4>1, <4>2 DEF Raise
    <3>2. CASE Walk(c, below)
      <4>1. Len(stack) \in Nat /\ Len(stack) > 0 /\ Len(stack) - 1 \in Nat
        BY <1>2
      <4>2. PICK m : m = Len(stack) - 1
        OBVIOUS
      <4>2a. m \in Nat /\ DOMAIN stack = 1..(m + 1) /\ Len(stack) = m + 1
        BY <1>2, <4>1, <4>2
      <4>3. PICK rest : rest = SubSeq(stack, 1, m)
        OBVIOUS
      <4>4. /\ rest \in Seq(Frame) /\ Len(rest) = m
            /\ \A n \in 1..m : rest[n] = stack[n]
        BY <1>2, <4>2a, <4>3
      <4>5. ListingsAgree(rest, folders')
        <5>1. ListingsAgree(stack, folders')
          BY <2>8 DEF Sound
        <5> SUFFICES ASSUME NEW n \in 1..m
                     PROVE  /\ \A l \in rest[n].todo : AsListed(l, rest[n].key, folders')
                            /\ n > 1 => AsListed(rest[n], rest[n - 1].key, folders')
          BY <4>4 DEF ListingsAgree
        <5>2. n \in DOMAIN stack
          BY <4>2a
        <5>3. rest[n] = stack[n]
          BY <4>4
        <5>4. n > 1 => rest[n - 1] = stack[n - 1]
          BY <4>4
        <5> QED BY <5>1, <5>2, <5>3, <5>4 DEF ListingsAgree
      <4>6. Walk(c, rest)
        BY <3>2, <4>2, <4>3
      <4>7. ReadsAgree(calls[c], items')
        BY <2>8 DEF Sound
      <4> QED BY <1>1, <4>4, <4>5, <4>6, <4>7, WalkSound DEF ZoteroInv
    <3> QED BY <2>1, <3>1, <3>2
  <2> QED BY <2>3, <2>4, <2>5, <2>6, <2>7, <2>9, CallSteps
<1> QED BY <1>3, <1>4

-----------------------------------------------------------------------------
(* Other clients of the library                                            *)

\* A change by another client keeps the invariant when it leaves the calls their ground.
LEMMA OthersSteps ==
    ASSUME ZoteroInv, calls' = calls, LibraryTyped', RecordsTyped', DuplicatesNeedARace',
           UNCHANGED <<links, unlinked>>,
           \A d \in Call :
              /\ MovesOn(ItemKeysOf(calls[d]), items, items')
              /\ MovesOn(FolderKeysOf(calls[d]), folders, folders')
              /\ RacesKnown(calls[d], items, items', raced, raced')
    PROVE  ZoteroInv'
<1>1. Linked' = Linked
  BY DEF Linked
<1>2. ZoteroTypeOK'
  BY DEF ZoteroInv, ZoteroTypeOK, LibraryTyped, RecordsTyped
<1>3. ASSUME NEW d \in Call PROVE Sound(calls'[d], items', folders', raced', Linked')
  <2>1. Sound(calls[d], items', folders', raced', Linked')
    BY <1>1, CallSound, StaysSound DEF ZoteroInv
  <2> QED BY <2>1
<1> QED BY <1>2, <1>3 DEF ZoteroInv

\* Another client edits items.
LEMMA OthersEditItems ==
    ASSUME ZoteroInv, calls' = calls, RecordsTyped', ItemsEdited(items, items'),
           UNCHANGED <<folders, links, unlinked, raced>>
    PROVE  ZoteroInv'
<1>1. LibraryTyped'
  BY DEF ZoteroInv, ZoteroTypeOK, LibraryTyped, ItemsEdited
<1>2. DuplicatesNeedARace'
  BY EditedNoDuplicates
<1>3. ASSUME NEW d \in Call
      PROVE  /\ MovesOn(ItemKeysOf(calls[d]), items, items')
             /\ MovesOn(FolderKeysOf(calls[d]), folders, folders')
             /\ RacesKnown(calls[d], items, items', raced, raced')
  BY EditedMoves, Unmoved
<1> QED BY <1>1, <1>2, <1>3, OthersSteps

\* Another client's tags edit one item.
LEMMA OthersTagEdits ==
    ASSUME ZoteroTypeOK, OthersTag PROVE ItemsEdited(items, items')
<1>1. PICK i \in DOMAIN items, ts \in SUBSET Tag :
         items' = Put(items, i, Changed(items[i], items[i].folders, ts))
  BY DEF OthersTag
<1>2. PICK fs : fs = items[i].folders
  OBVIOUS
<1>3. fs \in SUBSET FolderKey
  BY <1>2 DEF ZoteroTypeOK, Keyed, Item
<1>4. items' = Put(items, i, Changed(items[i], fs, ts))
  BY <1>1, <1>2
<1> QED BY <1>3, <1>4, ChangeEdits

\* Another client adds an item.
LEMMA OthersAddItemKeeps ==
    ASSUME ZoteroInv, OthersAddItem, RecordsTyped', UNCHANGED <<calls, links, unlinked>>
    PROVE  ZoteroInv'
<1>1. PICK w \in Work : /\ items' = Put(items, FreshItem, NewItem(w, {}, {}))
                        /\ raced' = raced \union {w}
  BY DEF OthersAddItem
<1>2. PICK item : item = NewItem(w, {}, {})
  OBVIOUS
<1>3. item \in Item /\ item.work = w
  <2>1. {} \in SUBSET FolderKey /\ {} \in SUBSET Tag
    OBVIOUS
  <2> QED BY <1>2, <2>1, NewItemTyped
<1>4. /\ ItemsPosted /\ FreshItem \notin DOMAIN items /\ items'[FreshItem] = item
      /\ DOMAIN items' = DOMAIN items \union {FreshItem}
  <2>1. FreshItems # {} /\ items' = Put(items, FreshItem, item)
    BY <1>1, <1>2 DEF OthersAddItem
  <2> QED BY <1>3, <2>1, OnePosted DEF ZoteroInv
<1>5. raced \subseteq raced' /\ raced' \subseteq Work
  BY <1>1 DEF ZoteroInv, ZoteroTypeOK
<1>6. LibraryTyped' /\ UNCHANGED folders
  BY <1>4, <1>5 DEF ZoteroInv, ZoteroTypeOK, LibraryTyped, ItemsPosted, OthersAddItem
<1>7. DuplicatesNeedARace'
  <2> SUFFICES ASSUME NEW i \in DOMAIN items', NEW j \in DOMAIN items', i # j,
                      items'[i].work = items'[j].work
               PROVE  items'[i].work \in raced'
    BY DEF DuplicatesNeedARace
  <2>1. CASE i = FreshItem \/ j = FreshItem
    BY <1>1, <1>3, <1>4, <2>1
  <2>2. CASE i \in DOMAIN items /\ j \in DOMAIN items
    BY <1>4, <1>5, <2>2 DEF ZoteroInv, DuplicatesNeedARace, ItemsPosted
  <2> QED BY <1>4, <2>1, <2>2
<1>8. ASSUME NEW d \in Call
      PROVE  /\ MovesOn(ItemKeysOf(calls[d]), items, items')
             /\ MovesOn(FolderKeysOf(calls[d]), folders, folders')
             /\ RacesKnown(calls[d], items, items', raced, raced')
  <2>1. \A i \in DOMAIN items' \ DOMAIN items : items'[i].work \in raced'
    BY <1>1, <1>3, <1>4
  <2> QED BY <1>4, <1>5, <1>6, <2>1, PostedMoves, Unmoved
<1> QED BY <1>6, <1>7, <1>8, OthersSteps

\* Another client moves a folder.
LEMMA OthersMoveFolderKeeps ==
    ASSUME ZoteroInv, OthersMoveFolder, RecordsTyped', UNCHANGED <<calls, links, unlinked>>
    PROVE  ZoteroInv'
<1>1. PICK f \in DOMAIN folders, p \in DOMAIN folders \union {NoKey} :
         folders' = Put(folders, f, [folders[f] EXCEPT !.parent = p, !.version = @ + 1])
  BY DEF OthersMoveFolder
<1>2. Keyed(folders, FolderKey, Folder) /\ f \in FolderKey /\ folders[f] \in Folder
      /\ p \in FolderKey \union {NoKey}
  BY <1>1 DEF ZoteroInv, ZoteroTypeOK, Keyed
<1>3. PICK v : v = folders[f].version
  OBVIOUS
<1>4. v \in Nat /\ v + 1 \in Nat /\ v + 1 > v
  BY <1>2, <1>3 DEF Folder
<1>5. PICK moved : moved = [folders[f] EXCEPT !.parent = p, !.version = v + 1]
  OBVIOUS
<1>6. moved \in Folder /\ moved.version = v + 1
  BY <1>2, <1>4, <1>5, Zenon DEF Folder
<1>7. folders' = Put(folders, f, moved)
  BY <1>1, <1>3, <1>5
<1>8. Keyed(Put(folders, f, moved), FolderKey, Folder)
  BY <1>2, <1>6, PutTyped
<1>9. \A keys : MovesOn(keys, folders, folders')
  BY <1>1, <1>3, <1>4, <1>6, <1>7 DEF Put, MovesOn
<1>10. UNCHANGED <<items, raced>>
  BY DEF OthersMoveFolder
<1>11. LibraryTyped' /\ DuplicatesNeedARace'
  BY <1>7, <1>8, <1>10 DEF ZoteroInv, ZoteroTypeOK, LibraryTyped, DuplicatesNeedARace
<1>12. ASSUME NEW d \in Call
       PROVE  /\ MovesOn(ItemKeysOf(calls[d]), items, items')
              /\ MovesOn(FolderKeysOf(calls[d]), folders, folders')
              /\ RacesKnown(calls[d], items, items', raced, raced')
  BY <1>9, <1>10, Unmoved, NoRaces
<1> QED BY <1>11, <1>12, OthersSteps

\* Whatever another client does keeps the invariant.
LEMMA OthersEditKeeps ==
    ASSUME ZoteroInv, OthersEdit PROVE ZoteroInv'
<1>1. RecordsTyped' /\ UNCHANGED <<calls, links, unlinked>>
  BY RecordsStay DEF ZoteroInv, OthersEdit
<1>2. CASE OthersTag
  BY <1>1, <1>2, OthersTagEdits, OthersEditItems DEF ZoteroInv, OthersTag
<1>3. CASE OthersDeleteItem
  <2>1. PICK i \in DOMAIN items : items' = Drop(items, {i})
    BY <1>3 DEF OthersDeleteItem
  <2>2. ItemsEdited(items, items')
    BY <2>1, DropEdits DEF ZoteroInv
  <2> QED BY <1>1, <1>3, <2>2, OthersEditItems DEF OthersDeleteItem
<1>4. CASE OthersAddItem
  BY <1>1, <1>4, OthersAddItemKeeps
<1>5. CASE OthersMoveFolder
  BY <1>1, <1>5, OthersMoveFolderKeeps
<1> QED BY <1>2, <1>3, <1>4, <1>5 DEF OthersEdit

-----------------------------------------------------------------------------
(* sync_final_corpus                                                       *)

\* What a synchronisation has yet to link depends on three of its locals.
LEMMA SameToLink ==
    ASSUME NEW call, NEW later, later.matched = call.matched, later.create = call.create,
           later.created = call.created
    PROVE  ToLink(later) = ToLink(call)
<1>1. PICK matched, create, created : matched = call.matched /\ create = call.create
                                      /\ created = call.created
  OBVIOUS
<1>2. \A other : other.matched = matched /\ other.create = create /\ other.created = created =>
         ToLink(other) = {matched[n].evidence : n \in DOMAIN matched}
                             \union {create[n] : n \in DOMAIN create}
                             \union {r.evidence : r \in created}
  BY Zenon DEF ToLink
<1> QED BY <1>1, <1>2

\* A step of a synchronisation that goes on to whatever is next.
LEMMA ContinueSound ==
    ASSUME NEW call \in CallState, call.op = "sync", call.created = {},
           NEW its, NEW fds, NEW races, NEW linked,
           ~call.dry => \A n \in DOMAIN FinalCorpus :
                           n < call.at => FinalCorpus[n] \in linked \union ToLink(call),
           ReadsAgree(call, its), SearchesHold(call, its, races),
           ListingsAgree(call.stack, fds)
    PROVE  /\ Continue(call) \in CallState /\ Continue(call).stack = call.stack
           /\ Sound(Continue(call), its, fds, races, linked)
<1>1. PICK s : s = SyncStep(call)
  OBVIOUS
<1>2. /\ call.at \in Nat \ {0} /\ call.matched \in Seq(Match) /\ call.create \in Seq(Evidence)
      /\ call.dry \in BOOLEAN
  BY FieldsTyped
<1>3. DOMAIN FinalCorpus = 1..Len(FinalCorpus) /\ Len(FinalCorpus) \in Nat
      /\ Final = {FinalCorpus[n] : n \in DOMAIN FinalCorpus}
  BY ZoteroAssumption DEF Final
<1>4. /\ s \in {"link", "report", "patch", "save", "post", "completed"}
      /\ s = "link" => call.at <= Len(FinalCorpus)
      /\ s \notin {"link", "report"} => call.at > Len(FinalCorpus) /\ ~call.dry
      /\ s \in {"patch", "save"} => call.matched # <<>>
      /\ s \in {"post", "completed"} => call.matched = <<>>
      /\ s = "completed" => call.create = <<>>
  BY <1>1, <1>2, <1>3 DEF SyncStep
<1>5. s \in StepName
  BY <1>4 DEF StepName
<1>6. PICK later : later = [call EXCEPT !.step = s]
  OBVIOUS
<1>7. /\ later.step = s /\ later.op = "sync" /\ later.dry = call.dry /\ later.snap = call.snap
      /\ later.at = call.at /\ later.matched = call.matched /\ later.create = call.create
      /\ later.created = {} /\ later.stack = call.stack /\ later \in CallState
  BY <1>5, <1>6, StepFields
<1>8. Continue(call) = later
  BY <1>1, <1>6 DEF Continue
<1>9. StepFits(later)
  BY <1>7 DEF StepFits, Edit
<1>10. ToLink(later) = ToLink(call)
  BY <1>7, SameToLink
<1>11. s = "completed" => Final \subseteq linked
  <2> SUFFICES ASSUME s = "completed" PROVE Final \subseteq linked
    OBVIOUS
  <2>1. ToLink(call) = {}
    BY <1>4 DEF ToLink
  <2>2. \A n \in DOMAIN FinalCorpus : FinalCorpus[n] \in linked
    BY <1>2, <1>3, <1>4, <2>1
  <2> QED BY <1>3, <2>2
<1>12. AccountsFor(later, linked)
  <2>1. later.step = "link" => later.at \in DOMAIN FinalCorpus
    BY <1>2, <1>3, <1>4, <1>7
  <2> QED BY <1>4, <1>7, <1>10, <1>11, <2>1 DEF AccountsFor
<1>13. Snaps(later) = Snaps(call) /\ Pending(later) = Pending(call)
  BY <1>7 DEF Snaps, Pending
<1> QED BY <1>7, <1>8, <1>9, <1>12, <1>13 DEF Sound, ReadsAgree, SearchesHold

\* sync_final_corpus begins with nothing gone through.
LEMMA SyncStarts ==
    ASSUME ZoteroInv, NEW c \in Call, NEW dry \in BOOLEAN, Goto(c, SyncCall(dry)), Untouched,
           RecordsTyped'
    PROVE  ZoteroInv'
<1>1. PICK call : call = [Idle EXCEPT !.op = "sync", !.dry = dry, !.folder = CollectionKey]
  OBVIOUS
<1>2. "sync" \in Operation \union {"none"} /\ "find_folder" \in StepName
  BY Zenon DEF Operation, StepName
<1>3. CollectionKey \in FolderKey \union {NoKey}
  BY ZoteroAssumption
<1>4. call \in CallState
  BY <1>1, <1>2, <1>3, IdleTyped, ZenonT(60) DEF CallState
<1>5. /\ call.op = "sync" /\ call.snap = NoKey /\ call.matched = <<>> /\ call.create = <<>>
      /\ call.created = {} /\ call.stack = <<>> /\ call.at = 1
  BY <1>1, Zenon DEF Idle
<1>6. Snaps(call) = {} /\ Pending(call) = {}
  BY <1>5 DEF Snaps, Pending
<1>7. \A n \in DOMAIN FinalCorpus : ~(n < 1)
  BY ZoteroAssumption
<1>8. CASE CollectionKey = NoKey
  <2>1. PICK later : later = [call EXCEPT !.step = "find_folder"]
    OBVIOUS
  <2>2. /\ later.step = "find_folder" /\ later.op = "sync" /\ later.snap = NoKey
        /\ later.matched = <<>> /\ later.create = <<>> /\ later.created = {}
        /\ later.stack = <<>> /\ later.at = 1 /\ later \in CallState
    BY <1>2, <1>4, <1>5, <2>1, StepFields
  <2>3. Goto(c, later)
    BY <1>1, <1>8, <2>1, Zenon DEF SyncCall
  <2>4. StepFits(later)
    BY <2>2 DEF StepFits, Edit
  <2>5. AccountsFor(later, Linked)
    BY <1>7, <2>2 DEF AccountsFor
  <2>6. Sound(later, items, folders, raced, Linked)
    BY <2>2, <2>4, <2>5, BlankSound
  <2> QED BY <2>2, <2>3, <2>6, QuietSteps DEF Untouched
<1>9. CASE CollectionKey # NoKey
  <2>1. Goto(c, Continue(call))
    BY <1>1, <1>9 DEF SyncCall
  <2>2. ReadsAgree(call, items) /\ SearchesHold(call, items, raced)
        /\ ListingsAgree(call.stack, folders)
    BY <1>5, <1>6 DEF ReadsAgree, SearchesHold, ListingsAgree
  <2>3. \A n \in DOMAIN FinalCorpus : n < call.at => FinalCorpus[n] \in Linked \union ToLink(call)
    BY <1>5, <1>7
  <2>4. /\ Continue(call) \in CallState
        /\ Sound(Continue(call), items, folders, raced, Linked)
    BY <1>4, <1>5, <2>2, <2>3, ContinueSound
  <2> QED BY <2>1, <2>4, QuietSteps DEF Untouched
<1> QED BY <1>8, <1>9

\* A synchronisation begins.
LEMMA StartSyncKeeps ==
    ASSUME ZoteroInv, NEW c \in Call, StartSync(c) PROVE ZoteroInv'
<1>1. Untouched /\ RecordsTyped'
  BY RecordsStay DEF ZoteroInv, StartSync, Untouched
<1>2. FALSE \in BOOLEAN /\ Goto(c, SyncCall(FALSE))
  BY DEF StartSync
<1> QED BY <1>1, <1>2, SyncStarts

\* A dry run begins.
LEMMA PlanSyncKeeps ==
    ASSUME ZoteroInv, NEW c \in Call, PlanSync(c) PROVE ZoteroInv'
<1>1. Untouched /\ RecordsTyped'
  BY RecordsStay DEF ZoteroInv, PlanSync, Untouched
<1>2. TRUE \in BOOLEAN /\ Goto(c, SyncCall(TRUE))
  BY DEF PlanSync
<1> QED BY <1>1, <1>2, SyncStarts

\* What a synchronisation has gone through when it is in none of its last steps.
LEMMA SyncSofar ==
    ASSUME ZoteroInv, NEW c \in Call, calls[c].op = "sync",
           calls[c].step \notin {"save_created", "completed", "failed"}
    PROVE  /\ calls[c] \in CallState /\ calls[c].created = {}
           /\ ~calls[c].dry => \A n \in DOMAIN FinalCorpus :
                 n < calls[c].at => FinalCorpus[n] \in Linked \union ToLink(calls[c])
           /\ ReadsAgree(calls[c], items) /\ SearchesHold(calls[c], items, raced)
           /\ ListingsAgree(calls[c].stack, folders)
BY CallSound DEF Sound, AccountsFor

\* The configured collection was found, or made.
LEMMA FolderKnown ==
    ASSUME NEW call \in CallState, NEW f \in FolderKey, NEW later,
           later = [call EXCEPT !.folder = f]
    PROVE  /\ later \in CallState /\ later.op = call.op /\ later.created = call.created
           /\ later.dry = call.dry /\ later.at = call.at /\ later.stack = call.stack
           /\ ToLink(later) = ToLink(call) /\ Snaps(later) = Snaps(call)
           /\ call.op = "sync" => Pending(later) = Pending(call)
<1>1. /\ later \in CallState /\ later.op = call.op /\ later.created = call.created
      /\ later.dry = call.dry /\ later.at = call.at /\ later.stack = call.stack
      /\ later.matched = call.matched /\ later.create = call.create /\ later.snap = call.snap
  BY Zenon DEF CallState
<1>2. ToLink(later) = ToLink(call)
  BY <1>1, SameToLink
<1>3. Snaps(later) = Snaps(call)
  BY <1>1, Zenon DEF Snaps
<1>4. call.op = "sync" => Pending(later) = Pending(call)
  BY <1>1 DEF Pending
<1> QED BY <1>1, <1>2, <1>3, <1>4

\* A synchronisation that knows its collection goes on.
LEMMA FolderKnownSound ==
    ASSUME ZoteroInv, NEW c \in Call, calls[c].op = "sync",
           calls[c].step \in {"find_folder", "new_folder"}, NEW f \in FolderKey
    PROVE  LET call == Continue([calls[c] EXCEPT !.folder = f]) IN
           /\ call \in CallState /\ call.stack = calls[c].stack
           /\ Sound(call, items, folders, raced, Linked)
<1>1. PICK later : later = [calls[c] EXCEPT !.folder = f]
  OBVIOUS
<1>2. /\ calls[c] \in CallState /\ calls[c].created = {}
      /\ ~calls[c].dry => \A n \in DOMAIN FinalCorpus :
            n < calls[c].at => FinalCorpus[n] \in Linked \union ToLink(calls[c])
      /\ ReadsAgree(calls[c], items) /\ SearchesHold(calls[c], items, raced)
      /\ ListingsAgree(calls[c].stack, folders)
  BY SyncSofar
<1>3. /\ later \in CallState /\ later.op = "sync" /\ later.created = {}
      /\ later.dry = calls[c].dry /\ later.at = calls[c].at /\ later.stack = calls[c].stack
      /\ ToLink(later) = ToLink(calls[c]) /\ Snaps(later) = Snaps(calls[c])
      /\ Pending(later) = Pending(calls[c])
  BY <1>1, <1>2, FolderKnown
<1>4. /\ ~later.dry => \A n \in DOMAIN FinalCorpus :
            n < later.at => FinalCorpus[n] \in Linked \union ToLink(later)
      /\ ReadsAgree(later, items) /\ SearchesHold(later, items, raced)
      /\ ListingsAgree(later.stack, folders)
  BY <1>2, <1>3 DEF ReadsAgree, SearchesHold
<1>5. /\ Continue(later) \in CallState /\ Continue(later).stack = later.stack
      /\ Sound(Continue(later), items, folders, raced, Linked)
  BY <1>3, <1>4, ContinueSound
<1> QED BY <1>1, <1>3, <1>5

\* sync_final_corpus: the collection is looked for by its name.
LEMMA FindCollectionKeeps ==
    ASSUME ZoteroInv, NEW c \in Call, FindCollection(c) PROVE ZoteroInv'
<1>1. Untouched /\ RecordsTyped'
  BY RecordsStay DEF ZoteroInv, FindCollection, Untouched
<1>2. /\ calls[c].op = "sync" /\ calls[c].step = "find_folder"
      /\ calls[c] \in CallState /\ Sound(calls[c], items, folders, raced, Linked)
  BY CallSound DEF FindCollection
<1>3. ASSUME NEW f \in DOMAIN folders, Goto(c, Continue([calls[c] EXCEPT !.folder = f]))
      PROVE  ZoteroInv'
  <2>1. f \in FolderKey
    BY DEF ZoteroInv, ZoteroTypeOK, Keyed
  <2>2. PICK call : call = Continue([calls[c] EXCEPT !.folder = f])
    OBVIOUS
  <2>3. call \in CallState /\ Sound(call, items, folders, raced, Linked)
    BY <1>2, <2>1, <2>2, FolderKnownSound
  <2> QED BY <1>1, <1>3, <2>2, <2>3, QuietSteps DEF Untouched
<1>4. CASE Goto(c, Continue(calls[c]))
  <2>1. /\ Continue(calls[c]) \in CallState
        /\ Sound(Continue(calls[c]), items, folders, raced, Linked)
    BY <1>2, SyncSofar, ContinueSound
  <2> QED BY <1>1, <1>4, <2>1, QuietSteps DEF Untouched
<1>5. CASE Await(c, "new_folder")
  <2>1. PICK later : later = [calls[c] EXCEPT !.step = "new_folder"]
    OBVIOUS
  <2>2. "new_folder" \in StepName
    BY DEF StepName
  <2>3. /\ later.step = "new_folder" /\ later.op = "sync" /\ later.dry = calls[c].dry
        /\ later.snap = calls[c].snap /\ later.at = calls[c].at
        /\ later.matched = calls[c].matched /\ later.create = calls[c].create
        /\ later.created = calls[c].created /\ later.stack = calls[c].stack
        /\ later \in CallState
    BY <1>2, <2>1, <2>2, StepFields
  <2>4. StepFits(later)
    BY <2>3 DEF StepFits, Edit
  <2>5. ToLink(later) = ToLink(calls[c]) /\ Pending(later) = Pending(calls[c])
    BY <1>2, <2>3 DEF ToLink, Pending
  <2>6. AccountsFor(later, Linked)
    BY <1>2, <2>3, <2>5 DEF Sound, AccountsFor
  <2>7. Sound(later, items, folders, raced, Linked)
    BY <1>2, <2>3, <2>4, <2>5, <2>6, KeepsSound
  <2> QED BY <1>1, <1>5, <2>1, <2>3, <2>7, QuietSteps DEF Await, Untouched
<1> QED BY <1>3, <1>4, <1>5 DEF FindCollection

\* sync_final_corpus: the collection is made.
LEMMA CreateCorpusFolderKeeps ==
    ASSUME ZoteroInv, NEW c \in Call, CreateCorpusFolder(c) PROVE ZoteroInv'
<1>1. /\ calls[c].op = "sync" /\ calls[c].step = "new_folder" /\ FreshFolders # {}
      /\ UNCHANGED <<items, links, citation_references, audit_events,
                     raced, unlinked, started, edits>>
  BY DEF CreateCorpusFolder
<1>2. PICK folder : folder = [name |-> "corpus", parent |-> NoKey, version |-> 0]
  OBVIOUS
<1>3. folder \in Folder
  BY <1>2 DEF Folder, FolderName
<1>4. PICK call : call = Continue([calls[c] EXCEPT !.folder = FreshFolder])
  OBVIOUS
<1>5. folders' = Put(folders, FreshFolder, folder) /\ Answered(c, call)
  BY <1>2, <1>4 DEF CreateCorpusFolder
<1>6. FreshFolder \in FolderKey
  BY <1>1 DEF FreshFolder, FreshFolders
<1>7. /\ call \in CallState /\ call.stack = calls[c].stack
      /\ Sound(call, items, folders, raced, Linked)
  BY <1>1, <1>4, <1>6, FolderKnownSound
<1>8. RecordsTyped'
  BY <1>1, <1>5, RecordsStay DEF ZoteroInv, Answered
<1>9. CASE Goto(c, call)
  BY <1>1, <1>3, <1>5, <1>7, <1>8, <1>9, FolderSteps
<1>10. CASE Raise(c)
  <2>1. Ended(c, "failed") \in CallState /\ Ended(c, "failed").stack = <<>>
    BY EndedTyped, EndedFields DEF ZoteroInv
  <2>2. Sound(Ended(c, "failed"), items, folders, raced, Linked)
    BY <1>1, EndedSound
  <2> QED BY <1>1, <1>3, <1>5, <1>8, <1>10, <2>1, <2>2, FolderSteps DEF Raise
<1> QED BY <1>5, <1>9, <1>10 DEF Answered

\* The next evidence of the corpus has a link, or the call has it to link.
LEMMA SyncAdvances ==
    ASSUME NEW call \in CallState, call.at \in DOMAIN FinalCorpus, NEW linked, NEW later,
           later.at = call.at + 1,
           \A n \in DOMAIN FinalCorpus :
              n < call.at => FinalCorpus[n] \in linked \union ToLink(call),
           FinalCorpus[call.at] \in linked \union ToLink(later),
           ToLink(call) \subseteq ToLink(later)
    PROVE  \A n \in DOMAIN FinalCorpus :
              n < later.at => FinalCorpus[n] \in linked \union ToLink(later)
<1>1. DOMAIN FinalCorpus = 1..Len(FinalCorpus)
  BY ZoteroAssumption
<1> SUFFICES ASSUME NEW n \in DOMAIN FinalCorpus, n < later.at
             PROVE  FinalCorpus[n] \in linked \union ToLink(later)
  OBVIOUS
<1>2. n < call.at \/ n = call.at
  BY <1>1
<1> QED BY <1>2

\* sync_final_corpus: the link of the next evidence is looked up.
LEMMA SyncLookUpLinkKeeps ==
    ASSUME ZoteroInv, NEW c \in Call, SyncLookUpLink(c) PROVE ZoteroInv'
<1>1. Untouched /\ RecordsTyped'
  BY RecordsStay DEF ZoteroInv, SyncLookUpLink, Untouched
<1>2. /\ calls[c].op = "sync" /\ calls[c].step = "link"
      /\ calls[c] \in CallState /\ Sound(calls[c], items, folders, raced, Linked)
  BY CallSound DEF SyncLookUpLink
<1>3. calls[c].at \in DOMAIN FinalCorpus /\ calls[c].at \in Nat \ {0}
  BY <1>2, FieldsTyped DEF Sound, AccountsFor
<1>4. /\ calls[c].created = {}
      /\ ~calls[c].dry => \A n \in DOMAIN FinalCorpus :
            n < calls[c].at => FinalCorpus[n] \in Linked \union ToLink(calls[c])
      /\ ReadsAgree(calls[c], items) /\ SearchesHold(calls[c], items, raced)
      /\ ListingsAgree(calls[c].stack, folders)
  BY <1>2, SyncSofar
<1>5. CASE FinalCorpus[calls[c].at] \in DOMAIN links
  <2>1. PICK n : n = calls[c].at + 1
    OBVIOUS
  <2>2. n \in Nat \ {0}
    BY <1>3, <2>1
  <2>3. PICK next : next = [calls[c] EXCEPT !.at = n]
    OBVIOUS
  <2>4. /\ next \in CallState /\ next.at = n /\ next.op = "sync" /\ next.dry = calls[c].dry
        /\ next.matched = calls[c].matched /\ next.create = calls[c].create
        /\ next.created = {} /\ next.snap = calls[c].snap /\ next.stack = calls[c].stack
    BY <1>2, <1>4, <2>2, <2>3, Zenon DEF CallState
  <2>5. ToLink(next) = ToLink(calls[c])
    BY <1>4, <2>4, SameToLink
  <2>6. Snaps(next) = Snaps(calls[c])
    BY <2>4, Zenon DEF Snaps
  <2>7. Pending(next) = Pending(calls[c])
    BY <1>2, <2>4 DEF Pending
  <2>8. FinalCorpus[calls[c].at] \in Linked
    BY <1>5 DEF Linked
  <2>9. ASSUME ~next.dry
        PROVE  \A m \in DOMAIN FinalCorpus :
                  m < next.at => FinalCorpus[m] \in Linked \union ToLink(next)
    BY <1>2, <1>3, <1>4, <2>1, <2>4, <2>5, <2>8, <2>9, SyncAdvances
  <2>10. /\ ReadsAgree(next, items) /\ SearchesHold(next, items, raced)
         /\ ListingsAgree(next.stack, folders)
    BY <1>4, <2>4, <2>6, <2>7 DEF ReadsAgree, SearchesHold
  <2>11. /\ Continue(next) \in CallState
         /\ Sound(Continue(next), items, folders, raced, Linked)
    BY <2>4, <2>9, <2>10, ContinueSound
  <2>12. Goto(c, Continue(next))
    BY <1>5, <2>1, <2>3 DEF SyncLookUpLink
  <2> QED BY <1>1, <2>11, <2>12, QuietSteps DEF Untouched
<1>6. CASE FinalCorpus[calls[c].at] \notin DOMAIN links
  <2>1. PICK later : later = [calls[c] EXCEPT !.step = "search"]
    OBVIOUS
  <2>2. "search" \in StepName
    BY DEF StepName
  <2>3. /\ later.step = "search" /\ later.op = "sync" /\ later.dry = calls[c].dry
        /\ later.snap = calls[c].snap /\ later.at = calls[c].at
        /\ later.matched = calls[c].matched /\ later.create = calls[c].create
        /\ later.created = calls[c].created /\ later.stack = calls[c].stack
        /\ later \in CallState
    BY <1>2, <2>1, <2>2, StepFields
  <2>4. StepFits(later)
    BY <2>3 DEF StepFits, Edit
  <2>5. ToLink(later) = ToLink(calls[c]) /\ Pending(later) = Pending(calls[c])
    BY <1>2, <2>3 DEF ToLink, Pending
  <2>6. AccountsFor(later, Linked)
    BY <1>3, <1>4, <2>3, <2>5 DEF AccountsFor
  <2>7. Sound(later, items, folders, raced, Linked)
    BY <1>2, <2>3, <2>4, <2>5, <2>6, KeepsSound
  <2>8. Goto(c, later)
    BY <1>6, <2>1 DEF SyncLookUpLink, Await
  <2> QED BY <1>1, <2>3, <2>7, <2>8, QuietSteps DEF Untouched
<1> QED BY <1>5, <1>6

\* sync_final_corpus: a dry run returns its plan.
LEMMA SyncReportKeeps ==
    ASSUME ZoteroInv, NEW c \in Call, SyncReport(c) PROVE ZoteroInv'
<1>1. Untouched /\ RecordsTyped' /\ Goto(c, Idle)
  BY RecordsStay DEF ZoteroInv, SyncReport, Untouched
<1>2. Sound(Idle, items, folders, raced, Linked)
  BY IdleSound
<1> QED BY <1>1, <1>2, IdleTyped, QuietSteps DEF Untouched

\* Appending to a sequence keeps its elements and adds one.
LEMMA Appended ==
    ASSUME NEW R, NEW s \in Seq(R), NEW r \in R, NEW t, t = Append(s, r)
    PROVE  /\ t \in Seq(R) /\ \A n \in DOMAIN s : n \in DOMAIN t /\ t[n] = s[n]
           /\ \E n \in DOMAIN t : t[n] = r
           /\ \A n \in DOMAIN t : n \in DOMAIN s \/ t[n] = r
<1>1. t \in Seq(R) /\ Len(t) = Len(s) + 1 /\ Len(s) \in Nat /\ t[Len(s) + 1] = r
  OBVIOUS
<1>2. \A n \in DOMAIN s : n \in DOMAIN t /\ t[n] = s[n]
  OBVIOUS
<1>3. Len(s) + 1 \in DOMAIN t
  BY <1>1
<1>4. \A n \in DOMAIN t : n \in DOMAIN s \/ t[n] = r
  OBVIOUS
<1> QED BY <1>1, <1>2, <1>3, <1>4

\* sync_final_corpus: the library is searched for the next evidence.
LEMMA SyncSearchKeeps ==
    ASSUME ZoteroInv, NEW c \in Call, SyncSearch(c) PROVE ZoteroInv'
<1>1. Untouched /\ RecordsTyped'
  BY RecordsStay DEF ZoteroInv, SyncSearch, Untouched
<1>2. /\ calls[c].op = "sync" /\ calls[c].step = "search"
      /\ calls[c] \in CallState /\ Sound(calls[c], items, folders, raced, Linked)
  BY CallSound DEF SyncSearch
<1>3. calls[c].at \in DOMAIN FinalCorpus /\ calls[c].at \in Nat \ {0}
      /\ calls[c].matched \in Seq(Match) /\ calls[c].create \in Seq(Evidence)
  BY <1>2, FieldsTyped DEF Sound, AccountsFor
<1>4. /\ calls[c].created = {}
      /\ ~calls[c].dry => \A n \in DOMAIN FinalCorpus :
            n < calls[c].at => FinalCorpus[n] \in Linked \union ToLink(calls[c])
      /\ ReadsAgree(calls[c], items) /\ SearchesHold(calls[c], items, raced)
      /\ ListingsAgree(calls[c].stack, folders)
  BY <1>2, SyncSofar
<1>5. PICK e : e = FinalCorpus[calls[c].at]
  OBVIOUS
<1>6. e \in Evidence
  BY <1>3, <1>5, ZoteroAssumption
<1>7. PICK at : at = calls[c].at + 1
  OBVIOUS
<1>8. at \in Nat \ {0}
  BY <1>3, <1>7
<1>9. PICK next : next = [calls[c] EXCEPT !.at = at]
  OBVIOUS
<1>10. /\ next \in CallState /\ next.at = at /\ next.op = "sync" /\ next.dry = calls[c].dry
       /\ next.matched = calls[c].matched /\ next.create = calls[c].create
       /\ next.created = {} /\ next.snap = calls[c].snap /\ next.stack = calls[c].stack
  BY <1>2, <1>4, <1>8, <1>9, Zenon DEF CallState
<1>11. ASSUME NEW call \in CallState, Goto(c, Continue(call)), call.at = at, call.op = "sync",
              call.dry = calls[c].dry, call.created = {}, call.stack = calls[c].stack,
              ~calls[c].dry => ToLink(calls[c]) \union {e} \subseteq ToLink(call),
              ReadsAgree(call, items), SearchesHold(call, items, raced)
       PROVE  ZoteroInv'
  <2>1. ASSUME ~call.dry
        PROVE  \A m \in DOMAIN FinalCorpus :
                  m < call.at => FinalCorpus[m] \in Linked \union ToLink(call)
    BY <1>2, <1>3, <1>4, <1>5, <1>7, <1>11, <2>1, SyncAdvances
  <2>2. ListingsAgree(call.stack, folders)
    BY <1>4, <1>11
  <2>3. /\ Continue(call) \in CallState
        /\ Sound(Continue(call), items, folders, raced, Linked)
    BY <1>11, <2>1, <2>2, ContinueSound
  <2> QED BY <1>1, <1>11, <2>3, QuietSteps DEF Untouched
<1>12. CASE calls[c].dry /\ Goto(c, Continue(next))
  <2>1. Snaps(next) = Snaps(calls[c])
    BY <1>10, Zenon DEF Snaps
  <2>2. Pending(next) = Pending(calls[c])
    BY <1>2, <1>10 DEF Pending
  <2>3. ReadsAgree(next, items) /\ SearchesHold(next, items, raced)
    BY <1>4, <2>1, <2>2 DEF ReadsAgree, SearchesHold
  <2> QED BY <1>10, <1>11, <1>12, <2>3
<1>13. ASSUME NEW i \in MatchesOf(WorkOf[e]),
              Goto(c, Continue([next EXCEPT
                        !.matched = Append(@, [evidence |-> e, snap |-> Snapshot(i)])]))
       PROVE  ZoteroInv'
  <2>1. i \in DOMAIN items
    BY DEF MatchesOf
  <2>2. PICK snap : snap = Snapshot(i)
    OBVIOUS
  <2>3. snap \in Snapshots /\ snap.key = i /\ snap.item = items[i]
    BY <2>1, <2>2, SnapshotTyped DEF ZoteroInv, Snapshot
  <2>4. PICK m : m = [evidence |-> e, snap |-> snap]
    OBVIOUS
  <2>5. m \in Match /\ m.evidence = e /\ m.snap = snap
    BY <1>6, <2>3, <2>4, Zenon DEF Match
  <2>6. PICK matched : matched = Append(calls[c].matched, m)
    OBVIOUS
  <2>7. /\ matched \in Seq(Match)
        /\ \A n \in DOMAIN calls[c].matched :
              n \in DOMAIN matched /\ matched[n] = calls[c].matched[n]
        /\ \E n \in DOMAIN matched : matched[n] = m
        /\ \A n \in DOMAIN matched : n \in DOMAIN calls[c].matched \/ matched[n] = m
    <3>1. PICK old : old = calls[c].matched
      OBVIOUS
    <3>2. old \in Seq(Match) /\ m \in Match /\ matched = Append(old, m)
      BY <1>3, <2>5, <2>6, <3>1
    <3>3. /\ matched \in Seq(Match)
          /\ \A n \in DOMAIN old : n \in DOMAIN matched /\ matched[n] = old[n]
          /\ \E n \in DOMAIN matched : matched[n] = m
          /\ \A n \in DOMAIN matched : n \in DOMAIN old \/ matched[n] = m
      BY <3>2, Appended
    <3> QED BY <3>1, <3>3
  <2>8. PICK call : call = [next EXCEPT !.matched = matched]
    OBVIOUS
  <2>9. /\ call \in CallState /\ call.at = at /\ call.op = "sync" /\ call.dry = calls[c].dry
        /\ call.matched = matched /\ call.create = calls[c].create
        /\ call.created = {} /\ call.snap = calls[c].snap /\ call.stack = calls[c].stack
    BY <1>10, <2>7, <2>8, Zenon DEF CallState
  <2>10. ToLink(calls[c]) \union {e} \subseteq ToLink(call)
    BY <1>4, <2>5, <2>7, <2>9 DEF ToLink
  <2>11. Snaps(call) \subseteq Snaps(calls[c]) \union {snap}
    BY <2>5, <2>7, <2>9 DEF Snaps
  <2>12. Pending(call) = Pending(calls[c])
    BY <1>2, <2>9 DEF Pending
  <2>13. AsRead(snap, items[i])
    <3>1. items[i].version \in Nat
      BY <2>1 DEF ZoteroInv, ZoteroTypeOK, Keyed, Item
    <3> QED BY <2>3, <3>1 DEF AsRead
  <2>14. ReadsAgree(call, items)
    BY <1>4, <2>3, <2>11, <2>13 DEF ReadsAgree
  <2>15. SearchesHold(call, items, raced)
    BY <1>4, <2>12 DEF SearchesHold
  <2>16. Goto(c, Continue(call))
    BY <1>10, <1>13, <2>2, <2>4, <2>6, <2>8
  <2> QED BY <1>11, <2>9, <2>10, <2>14, <2>15, <2>16
<1>14. CASE /\ MatchesOf(WorkOf[e]) = {}
            /\ Goto(c, Continue([next EXCEPT !.create = Append(@, e)]))
  <2>1. PICK create : create = Append(calls[c].create, e)
    OBVIOUS
  <2>2. /\ create \in Seq(Evidence)
        /\ \A n \in DOMAIN calls[c].create :
              n \in DOMAIN create /\ create[n] = calls[c].create[n]
        /\ \E n \in DOMAIN create : create[n] = e
        /\ \A n \in DOMAIN create : n \in DOMAIN calls[c].create \/ create[n] = e
    BY <1>3, <1>6, <2>1, Appended
  <2>3. PICK call : call = [next EXCEPT !.create = create]
    OBVIOUS
  <2>4. /\ call \in CallState /\ call.at = at /\ call.op = "sync" /\ call.dry = calls[c].dry
        /\ call.matched = calls[c].matched /\ call.create = create
        /\ call.created = {} /\ call.snap = calls[c].snap /\ call.stack = calls[c].stack
    BY <1>10, <2>2, <2>3, Zenon DEF CallState
  <2>5. ToLink(calls[c]) \union {e} \subseteq ToLink(call)
    BY <1>4, <2>2, <2>4 DEF ToLink
  <2>6. Snaps(call) = Snaps(calls[c])
    BY <2>4, Zenon DEF Snaps
  <2>7. Pending(call) \subseteq Pending(calls[c]) \union {WorkOf[e]}
    BY <1>2, <2>2, <2>4 DEF Pending
  <2>8. ReadsAgree(call, items)
    BY <1>4, <2>6 DEF ReadsAgree
  <2>9. SearchesHold(call, items, raced)
    <3>1. \A i \in DOMAIN items : items[i].work # WorkOf[e]
      BY <1>14 DEF MatchesOf
    <3> QED BY <1>4, <2>7, <3>1 DEF SearchesHold
  <2>10. Goto(c, Continue(call))
    BY <1>10, <1>14, <2>1, <2>3
  <2> QED BY <1>11, <2>4, <2>5, <2>8, <2>9, <2>10
<1>15. \/ calls[c].dry /\ Goto(c, Continue(next))
       \/ \E i \in MatchesOf(WorkOf[e]) :
             Goto(c, Continue([next EXCEPT
                        !.matched = Append(@, [evidence |-> e, snap |-> Snapshot(i)])]))
       \/ /\ MatchesOf(WorkOf[e]) = {}
          /\ Goto(c, Continue([next EXCEPT !.create = Append(@, e)]))
  BY <1>5, <1>7, <1>9 DEF SyncSearch
<1> QED BY <1>12, <1>13, <1>14, <1>15

\* The first of the items that were found.
LEMMA HeadMatched ==
    ASSUME NEW call \in CallState, call.matched # <<>>
    PROVE  /\ Head(call.matched) \in Match /\ 1 \in DOMAIN call.matched
           /\ Head(call.matched) = call.matched[1]
           /\ Head(call.matched).evidence \in Evidence
           /\ Head(call.matched).snap \in Snapshots
           /\ Head(call.matched).snap \in Snaps(call)
<1>1. call.matched \in Seq(Match)
  BY FieldsTyped
<1>2. /\ Head(call.matched) \in Match /\ 1 \in DOMAIN call.matched
      /\ Head(call.matched) = call.matched[1]
  BY <1>1
<1>3. Head(call.matched).evidence \in Evidence /\ Head(call.matched).snap \in Snapshots
  BY <1>2 DEF Match
<1>4. Head(call.matched).snap \in Snaps(call)
  BY <1>2 DEF Snaps
<1> QED BY <1>2, <1>3, <1>4

\* sync_final_corpus: an item that was found is patched.
LEMMA SyncPatchKeeps ==
    ASSUME ZoteroInv, NEW c \in Call, SyncPatch(c) PROVE ZoteroInv'
<1>1. /\ calls[c].op = "sync" /\ calls[c].step = "patch"
      /\ calls[c] \in CallState /\ StepFits(calls[c])
      /\ Sound(calls[c], items, folders, raced, Linked)
  BY CallSound DEF SyncPatch
<1>2. PICK snap : snap = Head(calls[c].matched).snap
  OBVIOUS
<1>3. calls[c].matched # <<>>
  BY <1>1 DEF Sound, AccountsFor
<1>4. snap \in Snapshots
  BY <1>1, <1>2, <1>3, HeadMatched
<1>5. UNCHANGED <<folders, links, raced, unlinked, citation_references, audit_events,
                  started, edits>>
  BY DEF SyncPatch
<1>6. CASE ~IsCurrent(snap)
  <2>1. Raise(c) /\ UNCHANGED <<items, faults>>
    BY <1>2, <1>6 DEF SyncPatch
  <2>2. Untouched /\ RecordsTyped'
    BY <1>5, <2>1, RecordsStay DEF ZoteroInv, Untouched
  <2> QED BY <1>1, <2>1, <2>2, Raises
<1>7. CASE IsCurrent(snap)
  <2>1. PICK fs : fs = SyncFolders(calls[c])
    OBVIOUS
  <2>2. fs \in SUBSET FolderKey /\ {} \in SUBSET Tag /\ snap.item \in Item
    BY <1>1, <1>4, <2>1, FieldsTyped DEF SyncFolders, Snapshots
  <2>3. PICK wanted : wanted = Merged(snap.item, fs, {})
    OBVIOUS
  <2>4. wanted.folders \subseteq FolderKey /\ wanted.tags \subseteq Tag
    BY <2>2, <2>3, MergedTyped
  <2>5. PICK later : later = [calls[c] EXCEPT !.step = "save"]
    OBVIOUS
  <2>6. items' = Patched(snap, wanted) /\ Answered(c, later)
    BY <1>2, <1>7, <2>1, <2>3, <2>5 DEF SyncPatch
  <2>7. ItemsEdited(items, items')
    BY <1>4, <1>7, <2>4, <2>6, PatchEdits DEF ZoteroInv
  <2>8. Sound(calls[c], items', folders, raced, Linked)
    BY <1>5, <2>7, EditSound
  <2>9. "save" \in StepName
    BY DEF StepName
  <2>10. /\ later.step = "save" /\ later.op = "sync" /\ later.dry = calls[c].dry
         /\ later.snap = calls[c].snap /\ later.at = calls[c].at
         /\ later.matched = calls[c].matched /\ later.create = calls[c].create
         /\ later.created = calls[c].created /\ later.stack = calls[c].stack
         /\ later \in CallState
    BY <1>1, <2>5, <2>9, StepFields
  <2>11. StepFits(later)
    BY <2>10 DEF StepFits, Edit
  <2>12. ToLink(later) = ToLink(calls[c]) /\ Pending(later) = Pending(calls[c])
    BY <1>1, <2>10 DEF ToLink, Pending
  <2>13. AccountsFor(later, Linked)
    BY <1>1, <2>10, <2>12 DEF Sound, AccountsFor
  <2>14. Sound(later, items', folders, raced, Linked)
    BY <2>8, <2>10, <2>11, <2>12, <2>13, KeepsSound
  <2> QED BY <1>1, <1>5, <2>6, <2>7, <2>10, <2>14, AnsweredEdits
<1> QED BY <1>6, <1>7

\* sync_final_corpus: an item that was found is linked.
LEMMA SyncSaveMatchedKeeps ==
    ASSUME ZoteroInv, NEW c \in Call, SyncSaveMatched(c) PROVE ZoteroInv'
<1>1. /\ calls[c].op = "sync" /\ calls[c].step = "save"
      /\ calls[c] \in CallState /\ Sound(calls[c], items, folders, raced, Linked)
  BY CallSound DEF SyncSaveMatched
<1>2. calls[c].matched # <<>>
  BY <1>1 DEF Sound, AccountsFor
<1>3. /\ calls[c].created = {}
      /\ ~calls[c].dry => \A n \in DOMAIN FinalCorpus :
            n < calls[c].at => FinalCorpus[n] \in Linked \union ToLink(calls[c])
      /\ ReadsAgree(calls[c], items) /\ SearchesHold(calls[c], items, raced)
      /\ ListingsAgree(calls[c].stack, folders)
  BY <1>1, SyncSofar
<1>4. PICK m : m = Head(calls[c].matched)
  OBVIOUS
<1>5. m \in Match /\ m = calls[c].matched[1] /\ m.evidence \in Evidence /\ m.snap.key \in ItemKey
  BY <1>1, <1>2, <1>4, HeadMatched DEF Snapshots
<1>6. SaveLink(m.evidence, m.snap.key)
  BY <1>4 DEF SyncSaveMatched
<1>7. /\ Keyed(links', Evidence, ItemKey) /\ unlinked' \subseteq Evidence
      /\ Linked' = Linked \union {m.evidence}
  BY <1>5, <1>6, SaveLinkLinks DEF ZoteroInv
<1>8. PICK rest : rest = Tail(calls[c].matched)
  OBVIOUS
<1>9. PICK old \in Seq(Match) : old = calls[c].matched /\ old # <<>> /\ rest = Tail(old)
  BY <1>1, <1>2, <1>8, FieldsTyped
<1>10. /\ rest \in Seq(Match)
       /\ \A n \in DOMAIN rest : n + 1 \in DOMAIN old /\ rest[n] = old[n + 1]
       /\ \A n \in DOMAIN old : n = 1 \/ (n - 1 \in DOMAIN rest /\ rest[n - 1] = old[n])
  BY <1>9
<1>11. PICK call : call = [calls[c] EXCEPT !.matched = rest]
  OBVIOUS
<1>12. /\ call \in CallState /\ call.at = calls[c].at /\ call.op = "sync"
       /\ call.dry = calls[c].dry /\ call.matched = rest /\ call.create = calls[c].create
       /\ call.created = {} /\ call.snap = calls[c].snap /\ call.stack = calls[c].stack
  BY <1>1, <1>3, <1>10, <1>11, Zenon DEF CallState
<1>13. ToLink(calls[c]) \subseteq ToLink(call) \union {m.evidence}
  <2>1. ASSUME NEW n \in DOMAIN old
        PROVE  old[n].evidence \in ToLink(call) \union {m.evidence}
    <3>1. CASE n = 1
      BY <1>5, <1>9, <3>1
    <3>2. CASE n - 1 \in DOMAIN rest /\ rest[n - 1] = old[n]
      BY <1>12, <3>2 DEF ToLink
    <3> QED BY <1>10, <3>1, <3>2
  <2>2. calls[c].create = call.create /\ calls[c].created = call.created
    BY <1>3, <1>12
  <2>3. ASSUME NEW e \in ToLink(calls[c]) PROVE e \in ToLink(call) \union {m.evidence}
    <3>1. CASE \E n \in DOMAIN old : e = old[n].evidence
      BY <2>1, <3>1
    <3>2. CASE \/ \E n \in DOMAIN call.create : e = call.create[n]
               \/ \E r \in call.created : e = r.evidence
      BY <3>2 DEF ToLink
    <3> QED BY <1>9, <2>2, <2>3, <3>1, <3>2 DEF ToLink
  <2> QED BY <2>3
<1>14. Snaps(call) \subseteq Snaps(calls[c])
  BY <1>9, <1>10, <1>12 DEF Snaps
<1>15. Pending(call) = Pending(calls[c])
  BY <1>1, <1>12 DEF Pending
<1>16. ~call.dry => \A n \in DOMAIN FinalCorpus :
          n < call.at => FinalCorpus[n] \in Linked' \union ToLink(call)
  BY <1>3, <1>7, <1>12, <1>13
<1>17. ReadsAgree(call, items) /\ SearchesHold(call, items, raced)
       /\ ListingsAgree(call.stack, folders)
  BY <1>3, <1>12, <1>14, <1>15 DEF ReadsAgree, SearchesHold
<1>18. PICK linked : linked = Linked'
  OBVIOUS
<1>19. /\ Continue(call) \in CallState
       /\ Sound(Continue(call), items, folders, raced, linked)
  BY <1>12, <1>16, <1>17, <1>18, ContinueSound
<1>20. Goto(c, Continue(call)) /\ RecordsTyped' /\ UNCHANGED <<items, folders, raced>>
  BY <1>8, <1>11, RecordsStay DEF ZoteroInv, SyncSaveMatched
<1>21. Linked \subseteq Linked'
  BY <1>7
<1>22. Sound(Continue(call), items, folders, raced, Linked')
  BY <1>18, <1>19
<1> QED BY <1>7, <1>19, <1>20, <1>21, <1>22, LinkSteps

\* A synchronisation that has only the items it created left to link.
LEMMA SavedSound ==
    ASSUME NEW call \in CallState, call.op = "sync", ~call.dry,
           call.matched = <<>>, call.create = <<>>,
           NEW its, NEW fds, NEW races, NEW linked,
           ReadsAgree(call, its), ListingsAgree(call.stack, fds),
           ~call.missing => Final \subseteq linked \union ToLink(call)
    PROVE  /\ Saved(call) \in CallState
           /\ Saved(call).snap = call.snap /\ Saved(call).matched = <<>>
           /\ Saved(call).create = <<>> /\ Saved(call).stack = call.stack
           /\ Saved(call).op = "sync"
           /\ Sound(Saved(call), its, fds, races, linked)
<1>1. PICK s : s = SavedStep(call)
  OBVIOUS
<1>2. /\ s \in {"save_created", "failed", "completed"}
      /\ s = "save_created" <=> call.created # {}
      /\ s = "completed" => ~call.missing
  BY <1>1 DEF SavedStep
<1>3. s \in StepName
  BY <1>2 DEF StepName
<1>4. PICK later : later = [call EXCEPT !.step = s]
  OBVIOUS
<1>5. /\ later.step = s /\ later.op = "sync" /\ later.dry = call.dry /\ later.snap = call.snap
      /\ later.matched = <<>> /\ later.create = <<>> /\ later.created = call.created
      /\ later.missing = call.missing /\ later.stack = call.stack /\ later \in CallState
  BY <1>3, <1>4, StepFields
<1>6. Saved(call) = later
  BY <1>1, <1>4 DEF Saved
<1>7. StepFits(later)
  BY <1>5 DEF StepFits, Edit
<1>8. ToLink(later) = ToLink(call)
  BY <1>5 DEF ToLink
<1>9. s = "completed" => Final \subseteq linked
  <2>1. s = "completed" => ToLink(call) = {}
    BY <1>2 DEF ToLink
  <2> QED BY <1>2, <2>1
<1>10. AccountsFor(later, linked)
  BY <1>2, <1>5, <1>8, <1>9 DEF AccountsFor
<1>11. Snaps(later) = Snaps(call) /\ Pending(later) = {}
  BY <1>5 DEF Snaps, Pending
<1>12. Sound(later, its, fds, races, linked)
  BY <1>5, <1>7, <1>10, <1>11 DEF Sound, ReadsAgree, SearchesHold
<1> QED BY <1>5, <1>6, <1>12

\* sync_final_corpus: what was not found is posted, and the library takes any part of it.
LEMMA SyncPostKeeps ==
    ASSUME ZoteroInv, NEW c \in Call, SyncPost(c) PROVE ZoteroInv'
<1>1. /\ calls[c].op = "sync" /\ calls[c].step = "post"
      /\ calls[c] \in CallState /\ Sound(calls[c], items, folders, raced, Linked)
      /\ UNCHANGED <<folders, links, citation_references, audit_events,
                     unlinked, started, edits>>
  BY CallSound DEF SyncPost
<1> DEFINE create == calls[c].create
<1>2. create = calls[c].create
  OBVIOUS
<1>3. create \in Seq(Evidence) /\ \A n \in DOMAIN create : create[n] \in Evidence
  BY <1>1, <1>2, FieldsTyped
<1>4. /\ calls[c].matched = <<>> /\ calls[c].created = {} /\ ~calls[c].dry
      /\ Final \subseteq Linked \union {create[n] : n \in DOMAIN create}
  <2>1. /\ calls[c].matched = <<>> /\ calls[c].created = {} /\ ~calls[c].dry
        /\ calls[c].at > Len(FinalCorpus)
        /\ \A n \in DOMAIN FinalCorpus :
              n < calls[c].at => FinalCorpus[n] \in Linked \union ToLink(calls[c])
    BY <1>1 DEF Sound, AccountsFor
  <2>2. calls[c].at \in Nat /\ Len(FinalCorpus) \in Nat
        /\ DOMAIN FinalCorpus = 1..Len(FinalCorpus)
    BY <1>1, FieldsTyped, ZoteroAssumption
  <2>3. \A n \in DOMAIN FinalCorpus : FinalCorpus[n] \in Linked \union ToLink(calls[c])
    BY <2>1, <2>2
  <2>4. ToLink(calls[c]) \subseteq {create[n] : n \in DOMAIN create}
    BY <1>2, <2>1 DEF ToLink
  <2> QED BY <2>1, <2>3, <2>4 DEF Final
<1> DEFINE works(ns) == {WorkOf[create[n]] : n \in ns}
           key(ns) == CHOOSE naming \in Namings(ns) : TRUE
           posted(ns) == {key(ns)[n] : n \in ns}
           work(ns) == [i \in posted(ns) |->
                           WorkOf[create[CHOOSE n \in ns : key(ns)[n] = i]]]
           call(ns) == [Idle EXCEPT
                !.op = "sync", !.dry = FALSE, !.missing = ns # DOMAIN create,
                !.created = {[at |-> n, evidence |-> create[n], key |-> key(ns)[n]] :
                                 n \in ns}]
<1>5. PICK taken \in SUBSET DOMAIN create :
         /\ Namings(taken) # {}
         /\ taken # DOMAIN create => MayFail
         /\ items' = [i \in DOMAIN items \union posted(taken) |->
                         IF i \in posted(taken)
                         THEN NewItem(work(taken)[i], SyncFolders(calls[c]), {})
                         ELSE items[i]]
         /\ IF taken = DOMAIN create THEN Answered(c, Saved(call(taken)))
            ELSE Goto(c, Saved(call(taken))) /\ faults' = faults + 1
         /\ raced' = raced \union (works(taken) \intersect PendingElsewhere(c))
                           \union {w \in works(taken) : \E m, n \in taken :
                                  m # n /\ WorkOf[create[m]] = w /\ WorkOf[create[n]] = w}
  BY Zenon DEF SyncPost
<1> HIDE DEF create
<1>6. PICK naming : naming = key(taken)
  OBVIOUS
<1>7. PICK next : next = call(taken)
  OBVIOUS
<1>8. PICK new : new = posted(taken)
  OBVIOUS
<1>9. PICK workOf : workOf = work(taken)
  OBVIOUS
<1>10. new = {naming[n] : n \in taken}
  BY <1>6, <1>8
<1>11. workOf = [i \in new |-> WorkOf[create[CHOOSE n \in taken : naming[n] = i]]]
  BY <1>6, <1>8, <1>9
<1>12. next = [Idle EXCEPT
                !.op = "sync", !.dry = FALSE, !.missing = taken # DOMAIN create,
                !.created = {[at |-> n, evidence |-> create[n], key |-> naming[n]] :
                                 n \in taken}]
  BY <1>6, <1>7
<1>13. items' = [i \in DOMAIN items \union new |->
                    IF i \in new THEN NewItem(workOf[i], SyncFolders(calls[c]), {})
                    ELSE items[i]]
  BY <1>5, <1>8, <1>9
<1>14. /\ IF taken = DOMAIN create THEN Answered(c, Saved(next))
          ELSE Goto(c, Saved(next)) /\ faults' = faults + 1
       /\ raced' = raced \union (works(taken) \intersect PendingElsewhere(c))
                           \union {w \in works(taken) : \E m, n \in taken :
                                  m # n /\ WorkOf[create[m]] = w /\ WorkOf[create[n]] = w}
  BY <1>5, <1>7
<1> HIDE DEF key, posted, work, call
<1>15. /\ naming \in [taken -> FreshItems]
       /\ \A m, n \in taken : m # n => naming[m] # naming[n]
  <2>1. naming \in Namings(taken)
    BY <1>5, <1>6 DEF key
  <2> QED BY <2>1 DEF Namings
<1>16. new \subseteq FreshItems /\ FreshItems \subseteq ItemKey
       /\ FreshItems \intersect DOMAIN items = {}
  BY <1>10, <1>15 DEF FreshItems
<1>17. \A n \in taken : WorkOf[create[n]] \in Work
  BY <1>3, ZoteroAssumption
<1>18. SyncFolders(calls[c]) \in SUBSET FolderKey /\ {} \in SUBSET Tag
  BY <1>1, FieldsTyped DEF SyncFolders
<1>19. \A n \in taken : /\ items'[naming[n]] \in Item
                        /\ items'[naming[n]].work = WorkOf[create[n]]
  <2> SUFFICES ASSUME NEW n \in taken
               PROVE  /\ items'[naming[n]] \in Item
                      /\ items'[naming[n]].work = WorkOf[create[n]]
    OBVIOUS
  <2>1. naming[n] \in new
    BY <1>10
  <2>2. PICK i : i = naming[n]
    OBVIOUS
  <2>3. (CHOOSE m \in taken : naming[m] = i) = n
    BY <1>15, <2>2
  <2>4. workOf[i] = WorkOf[create[n]]
    BY <1>11, <2>1, <2>2, <2>3
  <2>5. items'[i] = NewItem(workOf[i], SyncFolders(calls[c]), {})
    BY <1>13, <2>1, <2>2
  <2>6. PICK w \in Work : w = WorkOf[create[n]]
    BY <1>17
  <2>7. items'[i] = NewItem(w, SyncFolders(calls[c]), {})
    BY <2>4, <2>5, <2>6
  <2>8. items'[i] \in Item /\ items'[i].work = w
    BY <1>18, <2>7, NewItemTyped
  <2> QED BY <2>2, <2>6, <2>8
<1>20. ItemsPosted /\ DOMAIN items' = DOMAIN items \union new
       /\ \A i \in DOMAIN items : items'[i] = items[i]
  <2>1. DOMAIN items' = DOMAIN items \union new
    BY <1>13
  <2>2. \A i \in DOMAIN items : items'[i] = items[i]
    BY <1>13, <1>16
  <2>3. \A i \in DOMAIN items' : items'[i] \in Item
    BY <1>10, <1>19, <2>1, <2>2 DEF ZoteroInv, ZoteroTypeOK, Keyed
  <2>4. items' = [i \in DOMAIN items' |-> items'[i]]
    BY <1>13
  <2>5. Keyed(items', ItemKey, Item)
    BY <1>16, <2>1, <2>3, <2>4 DEF ZoteroInv, ZoteroTypeOK, Keyed
  <2> QED BY <1>16, <2>1, <2>2, <2>5 DEF ItemsPosted
<1>21. \A n \in taken : /\ WorkOf[create[n]] \in works(taken)
                        /\ WorkOf[create[n]] \in Pending(calls[c])
  BY <1>1, <1>2 DEF Pending
<1>22. raced \subseteq raced' /\ raced' \subseteq Work
  BY <1>14, <1>17 DEF ZoteroInv, ZoteroTypeOK
<1>23. \A i \in DOMAIN items' \ DOMAIN items :
          items'[i].work \in PendingElsewhere(c) => items'[i].work \in raced'
  BY <1>10, <1>14, <1>19, <1>20, <1>21
<1>24. DuplicatesNeedARace'
  <2> SUFFICES ASSUME NEW i \in DOMAIN items', NEW j \in DOMAIN items', i # j,
                      items'[i].work = items'[j].work
               PROVE  items'[i].work \in raced'
    BY DEF DuplicatesNeedARace
  <2>1. CASE i \in DOMAIN items /\ j \in DOMAIN items
    BY <1>20, <1>22, <2>1 DEF ZoteroInv, DuplicatesNeedARace
  <2>2. \A n \in taken, k \in DOMAIN items :
           items[k].work = WorkOf[create[n]] => WorkOf[create[n]] \in raced'
    BY <1>1, <1>21, <1>22 DEF Sound, SearchesHold
  <2>3. CASE i \in DOMAIN items /\ j \in new
    BY <1>10, <1>19, <1>20, <2>2, <2>3
  <2>4. CASE i \in new /\ j \in DOMAIN items
    BY <1>10, <1>19, <1>20, <2>2, <2>4
  <2>5. CASE i \in new /\ j \in new
    <3>1. PICK m \in taken, n \in taken : i = naming[m] /\ j = naming[n]
      BY <1>10, <2>5
    <3>2. m # n /\ WorkOf[create[m]] = items'[i].work /\ WorkOf[create[n]] = items'[i].work
      BY <1>19, <3>1
    <3> QED BY <1>14, <1>21, <3>2
  <2> QED BY <1>20, <2>1, <2>3, <2>4, <2>5
<1>25. RecordsTyped'
  BY <1>1, <1>5, <1>14, RecordsStay DEF ZoteroInv, Answered
<1>26. ASSUME NEW later \in CallState, Goto(c, later), Pending(later) = {}, Snaps(later) = {},
              later.stack = <<>>, StepFits(later), AccountsFor(later, Linked)
       PROVE  ZoteroInv'
  <2>1. ListingsAgree(later.stack, folders)
    BY <1>26 DEF ListingsAgree
  <2> QED BY <1>1, <1>20, <1>22, <1>23, <1>24, <1>25, <1>26, <2>1, PostSteps
<1>27. CASE Raise(c)
  <2> DEFINE later == Ended(c, "failed")
  <2>1. later \in CallState /\ Goto(c, later)
    BY <1>27, EndedTyped DEF ZoteroInv, Raise
  <2>2. Sound(later, items, folders, raced, Linked)
    BY <1>1, EndedSound
  <2>3. later.op = "sync" /\ later.snap = NoKey /\ later.matched = <<>>
        /\ later.create = <<>> /\ later.stack = <<>>
    BY <1>1, EndedFields
  <2> HIDE DEF later
  <2>4. Pending(later) = {} /\ Snaps(later) = {}
    BY <2>3 DEF Pending, Snaps
  <2> QED BY <1>26, <2>1, <2>2, <2>3, <2>4 DEF Sound
<1>28. CASE Goto(c, Saved(next))
  <2>1. PICK created :
           created = {[at |-> n, evidence |-> create[n], key |-> naming[n]] : n \in taken}
    OBVIOUS
  <2>2. created \subseteq Creation
    <3> SUFFICES ASSUME NEW n \in taken
                 PROVE  [at |-> n, evidence |-> create[n], key |-> naming[n]] \in Creation
      BY <2>1
    <3>1. n \in Nat /\ create[n] \in Evidence /\ naming[n] \in ItemKey
      BY <1>3, <1>15, <1>16
    <3> QED BY <3>1, Zenon DEF Creation
  <2>3. PICK missing \in BOOLEAN : missing = (taken # DOMAIN create)
    OBVIOUS
  <2>4. next = [Idle EXCEPT !.op = "sync", !.dry = FALSE, !.missing = missing,
                            !.created = created]
    BY <1>12, <2>1, <2>3
  <2>5. "sync" \in Operation \union {"none"} /\ FALSE \in BOOLEAN
    BY Zenon DEF Operation
  <2>6. next \in CallState
    <3>1. missing \in BOOLEAN
      BY <2>3
    <3> QED BY <2>2, <2>4, <2>5, <3>1, IdleTyped, ZenonT(60) DEF CallState
  <2>7. /\ next.op = "sync" /\ next.dry = FALSE /\ next.missing = missing
        /\ next.created = created /\ next.snap = NoKey /\ next.matched = <<>>
        /\ next.create = <<>> /\ next.stack = <<>>
    BY <2>4, Zenon DEF Idle
  <2>8. ~missing => {create[n] : n \in DOMAIN create} \subseteq ToLink(next)
    <3> SUFFICES ASSUME ~missing, NEW n \in DOMAIN create PROVE create[n] \in ToLink(next)
      OBVIOUS
    <3>1. PICK r : r = [at |-> n, evidence |-> create[n], key |-> naming[n]]
      OBVIOUS
    <3>2. r \in next.created /\ r.evidence = create[n]
      BY <2>1, <2>3, <2>7, <3>1
    <3> QED BY <3>2 DEF ToLink
  <2>9. ~next.missing => Final \subseteq Linked \union ToLink(next)
    BY <1>4, <2>7, <2>8
  <2>10. PICK later : later = Saved(next)
    OBVIOUS
  <2>11. /\ later \in CallState /\ later.op = "sync" /\ later.snap = NoKey
         /\ later.matched = <<>> /\ later.create = <<>> /\ later.stack = <<>>
         /\ Sound(later, items, folders, raced, Linked)
    <3>1. Snaps(next) = {}
      BY <2>7 DEF Snaps
    <3>2. ReadsAgree(next, items) /\ ListingsAgree(next.stack, folders)
      BY <2>7, <3>1 DEF ReadsAgree, ListingsAgree
    <3> QED BY <2>6, <2>7, <2>9, <2>10, <3>2, SavedSound
  <2>12. Pending(later) = {} /\ Snaps(later) = {}
    BY <2>11 DEF Pending, Snaps
  <2> QED BY <1>26, <1>28, <2>10, <2>11, <2>12 DEF Sound
<1> QED BY <1>14, <1>27, <1>28 DEF Answered

\* sync_final_corpus: an item that was created is linked.
LEMMA SyncSaveCreatedKeeps ==
    ASSUME ZoteroInv, NEW c \in Call, SyncSaveCreated(c) PROVE ZoteroInv'
<1>1. /\ calls[c].op = "sync" /\ calls[c].step = "save_created"
      /\ calls[c] \in CallState /\ Sound(calls[c], items, folders, raced, Linked)
  BY CallSound DEF SyncSaveCreated
<1>2. PICK r \in calls[c].created :
         SaveLink(r.evidence, r.key) /\ Goto(c, Saved([calls[c] EXCEPT !.created = @ \ {r}]))
  BY DEF SyncSaveCreated
<1>3. calls[c].created \subseteq Creation /\ r \in Creation
  BY <1>1, FieldsTyped
<1>4. r.evidence \in Evidence /\ r.key \in ItemKey
  BY <1>3 DEF Creation
<1>5. /\ Keyed(links', Evidence, ItemKey) /\ unlinked' \subseteq Evidence
      /\ Linked' = Linked \union {r.evidence}
  BY <1>2, <1>4, SaveLinkLinks DEF ZoteroInv
<1>6. /\ ~calls[c].dry /\ calls[c].matched = <<>> /\ calls[c].create = <<>>
      /\ ~calls[c].missing => Final \subseteq Linked \union ToLink(calls[c])
  BY <1>1 DEF Sound, AccountsFor
<1>7. PICK created : created = calls[c].created \ {r}
  OBVIOUS
<1>8. created \subseteq Creation
  BY <1>3, <1>7
<1>9. PICK call : call = [calls[c] EXCEPT !.created = created]
  OBVIOUS
<1>10. /\ call \in CallState /\ call.op = "sync" /\ call.dry = calls[c].dry
       /\ call.snap = calls[c].snap /\ call.matched = <<>> /\ call.create = <<>>
       /\ call.created = created /\ call.missing = calls[c].missing
       /\ call.stack = calls[c].stack
  BY <1>1, <1>6, <1>8, <1>9, Zenon DEF CallState
<1>11. ToLink(calls[c]) \subseteq ToLink(call) \union {r.evidence}
  BY <1>6, <1>7, <1>10 DEF ToLink
<1>12. PICK linked : linked = Linked'
  OBVIOUS
<1>13. ~call.missing => Final \subseteq linked \union ToLink(call)
  BY <1>5, <1>6, <1>10, <1>11, <1>12
<1>14. ReadsAgree(call, items) /\ ListingsAgree(call.stack, folders)
  <2>1. Snaps(call) \subseteq Snaps(calls[c])
    BY <1>10 DEF Snaps
  <2> QED BY <1>1, <1>10, <2>1 DEF Sound, ReadsAgree
<1>15. /\ Saved(call) \in CallState
       /\ Sound(Saved(call), items, folders, raced, linked)
  BY <1>6, <1>10, <1>13, <1>14, SavedSound
<1>16. Goto(c, Saved(call)) /\ RecordsTyped' /\ UNCHANGED <<items, folders, raced>>
  BY <1>2, <1>7, <1>9, RecordsStay DEF ZoteroInv, SyncSaveCreated
<1>17. Linked \subseteq Linked'
  BY <1>5
<1>18. Sound(Saved(call), items, folders, raced, Linked')
  BY <1>12, <1>15
<1> QED BY <1>5, <1>15, <1>16, <1>17, <1>18, LinkSteps

-----------------------------------------------------------------------------
(* The invariant                                                           *)

\* Whatever call begins keeps the invariant.
LEMMA StartKeeps ==
    ASSUME ZoteroInv, NEW c \in Call, Start(c) PROVE ZoteroInv'
<1>1. CASE PlanSync(c)
  BY <1>1, PlanSyncKeeps
<1>2. CASE StartCreate(c)
  BY <1>2, StartCreateKeeps
<1>3. CASE StartEdit(c)
  BY <1>3, StartEditKeeps
<1>4. CASE StartDeleteItem(c)
  BY <1>4, StartDeleteItemKeeps
<1>5. CASE StartCreateCollection(c)
  BY <1>5, StartCreateCollectionKeeps
<1>6. CASE StartDeleteCollection(c)
  BY <1>6, StartDeleteCollectionKeeps
<1>7. CASE StartCite(c)
  BY <1>7, StartCiteKeeps
<1> QED BY <1>1, <1>2, <1>3, <1>4, <1>5, <1>6, <1>7 DEF Start

\* Every step of a synchronisation keeps the invariant.
LEMMA SyncStepKeeps ==
    ASSUME ZoteroInv, NEW c \in Call,
           \/ FindCollection(c) \/ CreateCorpusFolder(c) \/ SyncLookUpLink(c) \/ SyncSearch(c)
           \/ SyncReport(c) \/ SyncPatch(c) \/ SyncSaveMatched(c) \/ SyncPost(c)
           \/ SyncSaveCreated(c)
    PROVE  ZoteroInv'
BY FindCollectionKeeps, CreateCorpusFolderKeeps, SyncLookUpLinkKeeps, SyncSearchKeeps,
   SyncReportKeeps, SyncPatchKeeps, SyncSaveMatchedKeeps, SyncPostKeeps,
   SyncSaveCreatedKeeps

\* So does every step of create_item, the edits and delete_item.
LEMMA ItemStepKeeps ==
    ASSUME ZoteroInv, NEW c \in Call,
           \/ CreateCheckFolder(c) \/ CreateLookUpLink(c) \/ CreateGetItem(c) \/ CreateSearch(c)
           \/ CreatePatch(c) \/ CreatePost(c) \/ CreateSaveLink(c)
           \/ EditCheckFolder(c) \/ EditRead(c) \/ EditPatch(c)
           \/ DeleteItemRead(c) \/ DeleteItemChildren(c) \/ DeleteItem(c) \/ DeleteItemLinks(c)
    PROVE  ZoteroInv'
BY CreateCheckFolderKeeps, CreateLookUpLinkKeeps, CreateGetItemKeeps, CreateSearchKeeps,
   CreatePatchKeeps, CreatePostKeeps, CreateSaveLinkKeeps, EditCheckFolderKeeps,
   EditReadKeeps, EditPatchKeeps, DeleteItemReadKeeps, DeleteItemChildrenKeeps,
   DeleteItemKeeps, DeleteItemLinksKeeps

\* So does every step of the calls about collections and citations.
LEMMA FolderStepKeeps ==
    ASSUME ZoteroInv, NEW c \in Call,
           \/ CollectionParent(c) \/ CollectionCandidates(c) \/ PostCollection(c)
           \/ CollectionRead(c) \/ CollectionContents(c) \/ TreeList(c) \/ TreeDelete(c)
           \/ CiteRead(c) \/ CiteLookUpLink(c) \/ SaveCitation(c)
    PROVE  ZoteroInv'
BY CollectionParentKeeps, CollectionCandidatesKeeps, PostCollectionKeeps,
   CollectionReadKeeps, CollectionContentsKeeps, TreeListKeeps, TreeDeleteKeeps,
   CiteReadKeeps, CiteLookUpLinkKeeps, SaveCitationKeeps

\* So does every step of a call.
LEMMA StepKeeps ==
    ASSUME ZoteroInv, NEW c \in Call, Step(c) PROVE ZoteroInv'
BY SyncStepKeeps, ItemStepKeeps, FolderStepKeeps, AuditKeeps, Zenon DEF Step

\* Stuttering keeps the invariant.
LEMMA UnchangedKeeps ==
    ASSUME ZoteroInv, UNCHANGED vars PROVE ZoteroInv'
<1>1. UNCHANGED <<items, folders, links, citation_references, audit_events, calls,
                  raced, unlinked, started, edits, faults>>
  BY DEF vars
<1>2. ZoteroTypeOK' /\ DuplicatesNeedARace' /\ Linked' = Linked
  BY <1>1 DEF ZoteroInv, ZoteroTypeOK, DuplicatesNeedARace, Linked
<1> QED BY <1>1, <1>2 DEF ZoteroInv

\* Every step keeps the invariant.
LEMMA NextKeeps ==
    ASSUME ZoteroInv, [Next]_vars PROVE ZoteroInv'
<1>1. ASSUME NEW c \in Call, StartSync(c) PROVE ZoteroInv'
  BY <1>1, StartSyncKeeps
<1>2. ASSUME NEW c \in Call, Start(c) PROVE ZoteroInv'
  BY <1>2, StartKeeps
<1>3. ASSUME NEW c \in Call, Step(c) PROVE ZoteroInv'
  BY <1>3, StepKeeps
<1>4. ASSUME NEW c \in Call, StepFails(c) PROVE ZoteroInv'
  BY <1>4, StepFailsKeeps
<1>5. ASSUME NEW c \in Call, Interrupt({c}) PROVE ZoteroInv'
  BY <1>5, InterruptKeeps
<1>6. CASE Interrupt(Call)
  BY <1>6, InterruptKeeps
<1>7. CASE OthersEdit
  BY <1>7, OthersEditKeeps
<1>8. CASE UNCHANGED vars
  BY <1>8, UnchangedKeeps
<1> QED BY <1>1, <1>2, <1>3, <1>4, <1>5, <1>6, <1>7, <1>8 DEF Next

\* The invariant holds at first, in whatever library.
LEMMA InitHolds == Init => ZoteroInv
<1> SUFFICES ASSUME Init PROVE ZoteroInv
  OBVIOUS
<1>1. Keyed(items, ItemKey, Item) /\ Keyed(folders, FolderKey, Folder)
  BY ZoteroAssumption DEF Init
<1>2. links = <<>> /\ citation_references = {} /\ audit_events = {} /\ unlinked = {}
      /\ calls = [c \in Call |-> Idle] /\ started = 0 /\ edits = 0 /\ faults = 0
      /\ raced = {w \in Work : \E i, j \in DOMAIN items :
                    i # j /\ items[i].work = w /\ items[j].work = w}
  BY DEF Init
<1>3. Keyed(links, Evidence, ItemKey)
  <2>1. DOMAIN links = {} /\ links = [e \in {} |-> links[e]]
    BY <1>2
  <2> QED BY <2>1 DEF Keyed
<1>4. started \in 0..MaxCalls /\ edits \in 0..MaxEdits /\ faults \in 0..MaxFaults
  BY <1>2, ZoteroAssumption
<1>5. calls \in [Call -> CallState]
  BY <1>2, IdleTyped
<1>6. ZoteroTypeOK
  BY <1>1, <1>2, <1>3, <1>4, <1>5 DEF ZoteroTypeOK
<1>7. DuplicatesNeedARace
  <2> SUFFICES ASSUME NEW i \in DOMAIN items, NEW j \in DOMAIN items, i # j,
                      items[i].work = items[j].work
               PROVE  items[i].work \in raced
    BY DEF DuplicatesNeedARace
  <2>1. items[i].work \in Work
    BY <1>1 DEF Keyed, Item
  <2> QED BY <1>2, <2>1
<1>8. ASSUME NEW c \in Call PROVE Sound(calls[c], items, folders, raced, Linked)
  <2>1. calls[c] = Idle
    BY <1>2
  <2> QED BY <2>1, IdleSound
<1> QED BY <1>6, <1>7, <1>8 DEF ZoteroInv

\* The invariant holds in every state of every behaviour: whatever other clients change and
\* whatever fails, is lost or is interrupted between two requests of a call.
THEOREM ZoteroInvHolds == Spec => []ZoteroInv
<1>1. Init => ZoteroInv
  BY InitHolds
<1>2. ZoteroInv /\ [Next]_vars => ZoteroInv'
  BY NextKeeps
<1> QED BY <1>1, <1>2, PTL DEF Spec

\* The remote library, the links, the citations and the locals of every call keep their
\* types, and the bounds their guards.
THEOREM ZoteroTypesHold == Spec => []ZoteroTypeOK
<1>1. ZoteroInv => ZoteroTypeOK
  BY DEF ZoteroInv
<1> QED BY <1>1, ZoteroInvHolds, PTL

\* Two items stand for one work only when the library held two at first, or someone added
\* one between the search of another call and its POST.
THEOREM DuplicatesAreRaces == Spec => []DuplicatesNeedARace
<1>1. ZoteroInv => DuplicatesNeedARace
  BY DEF ZoteroInv
<1> QED BY <1>1, ZoteroInvHolds, PTL

\* sync_final_corpus records "completed" only when every final evidence is linked, whatever
\* part of the bulk POST the library refused and whatever other calls did meanwhile.
THEOREM SyncsLinkAll == Spec => []CompletedSyncLinkedAll
<1>1. ZoteroInv => CompletedSyncLinkedAll
  <2> SUFFICES ASSUME ZoteroInv, NEW c \in Call, calls[c].op = "sync",
                      calls[c].step = "completed"
               PROVE  Final \subseteq DOMAIN links \union unlinked
    BY DEF CompletedSyncLinkedAll
  <2> QED BY CallSound DEF Sound, AccountsFor, Linked
<1> QED BY <1>1, ZoteroInvHolds, PTL

-----------------------------------------------------------------------------
(* What a step takes from an item, and where it deletes a folder           *)

\* An item that keeps its tags and the folders that remain has lost nothing.
LEMMA NothingLost ==
    ASSUME NEW i \in DOMAIN items, i \in DOMAIN items', items[i].tags \subseteq items'[i].tags,
           items[i].folders \intersect DOMAIN folders' \subseteq items'[i].folders
    PROVE  LossSeen(i)
BY DEF LossSeen

\* A step that leaves the items takes nothing from them.
LEMMA SameItems ==
    ASSUME items' = items PROVE \A i \in DOMAIN items : LossSeen(i)
<1> SUFFICES ASSUME NEW i \in DOMAIN items PROVE LossSeen(i)
  OBVIOUS
<1>1. i \in DOMAIN items' /\ items'[i] = items[i]
  OBVIOUS
<1> QED BY <1>1, NothingLost

\* A call writes the item it read, as it read it.
LEMMA SeenLost ==
    ASSUME NEW c \in Call, calls[c].step \in {"patch", "delete"}, NEW snap, Saw(c) = snap,
           snap.key \in DOMAIN items, items[snap.key] = snap.item,
           \A i \in DOMAIN items : i # snap.key => i \in DOMAIN items' /\ items'[i] = items[i]
    PROVE  \A i \in DOMAIN items : LossSeen(i)
<1> SUFFICES ASSUME NEW i \in DOMAIN items PROVE LossSeen(i)
  OBVIOUS
<1>1. CASE i # snap.key
  <2>1. i \in DOMAIN items' /\ items'[i] = items[i]
    BY <1>1
  <2> QED BY <2>1, NothingLost
<1>2. CASE i = snap.key
  <2>1. Saw(c).key = i /\ Saw(c).item = items[i]
    BY <1>2
  <2> QED BY <2>1 DEF LossSeen
<1> QED BY <1>1, <1>2

\* The version of the item is that of what the call read: it is what the call read.
LEMMA CurrentIsRead ==
    ASSUME ZoteroInv, NEW c \in Call, NEW snap \in Snaps(calls[c]), IsCurrent(snap)
    PROVE  snap.key \in DOMAIN items /\ items[snap.key] = snap.item
<1>1. ReadsAgree(calls[c], items)
  BY CallSound DEF Sound
<1> QED BY <1>1 DEF ReadsAgree, AsRead, IsCurrent

\* A PATCH takes only what the call had seen.
LEMMA PatchSeen ==
    ASSUME ZoteroInv, NEW c \in Call, calls[c].step = "patch", NEW snap \in Snaps(calls[c]),
           Saw(c) = snap, IsCurrent(snap), NEW wanted, items' = Patched(snap, wanted)
    PROVE  \A i \in DOMAIN items : LossSeen(i)
<1>1. snap.key \in DOMAIN items /\ items[snap.key] = snap.item
  BY CurrentIsRead
<1>2. \A i \in DOMAIN items : i # snap.key => i \in DOMAIN items' /\ items'[i] = items[i]
  BY DEF Patched, Put
<1> QED BY <1>1, <1>2, SeenLost

\* sync_final_corpus patches what it saw.
LEMMA SyncPatchSeen ==
    ASSUME ZoteroInv, NEW c \in Call, SyncPatch(c) PROVE \A i \in DOMAIN items : LossSeen(i)
<1>1. /\ calls[c].op = "sync" /\ calls[c].step = "patch" /\ calls[c] \in CallState
      /\ calls[c].matched # <<>>
  BY CallSound DEF SyncPatch, Sound, AccountsFor
<1>2. PICK snap : snap = Head(calls[c].matched).snap
  OBVIOUS
<1>3. snap \in Snaps(calls[c]) /\ Saw(c) = snap
  BY <1>1, <1>2, HeadMatched DEF Saw
<1>4. CASE IsCurrent(snap)
  <2>1. PICK wanted : wanted = Merged(snap.item, SyncFolders(calls[c]), {})
    OBVIOUS
  <2>2. items' = Patched(snap, wanted)
    BY <1>2, <1>4, <2>1 DEF SyncPatch
  <2> QED BY <1>1, <1>3, <1>4, <2>2, PatchSeen
<1>5. CASE ~IsCurrent(snap)
  BY <1>2, <1>5, SameItems DEF SyncPatch
<1> QED BY <1>4, <1>5

\* The item a call that does not synchronise is about to write.
LEMMA OwnSnap ==
    ASSUME ZoteroInv, NEW c \in Call, calls[c].op # "sync", calls[c].snap # NoKey
    PROVE  calls[c].snap \in Snaps(calls[c]) /\ Saw(c) = calls[c].snap
BY DEF Snaps, Saw

\* create_item patches what it saw.
LEMMA CreatePatchSeen ==
    ASSUME ZoteroInv, NEW c \in Call, CreatePatch(c) PROVE \A i \in DOMAIN items : LossSeen(i)
<1>1. calls[c].op = "create" /\ calls[c].step = "patch" /\ calls[c].snap # NoKey
  BY CallSound DEF CreatePatch, StepFits
<1>2. PICK snap : snap = calls[c].snap
  OBVIOUS
<1>3. snap \in Snaps(calls[c]) /\ Saw(c) = snap
  BY <1>1, <1>2, OwnSnap
<1>4. CASE IsCurrent(snap)
  <2>1. PICK wanted : wanted = CreateWants(calls[c], snap)
    OBVIOUS
  <2>2. items' = Patched(snap, wanted)
    BY <1>2, <1>4, <2>1 DEF CreatePatch
  <2> QED BY <1>1, <1>3, <1>4, <2>2, PatchSeen
<1>5. CASE ~IsCurrent(snap)
  BY <1>2, <1>5, SameItems DEF CreatePatch
<1> QED BY <1>4, <1>5

\* An edit patches what it saw.
LEMMA EditPatchSeen ==
    ASSUME ZoteroInv, NEW c \in Call, EditPatch(c) PROVE \A i \in DOMAIN items : LossSeen(i)
<1>1. calls[c].op \in Edit /\ calls[c].step = "patch" /\ calls[c].snap # NoKey
  BY CallSound DEF EditPatch, StepFits
<1>2. PICK snap : snap = calls[c].snap
  OBVIOUS
<1>3. snap \in Snaps(calls[c]) /\ Saw(c) = snap
  BY <1>1, <1>2, EditOps, OwnSnap
<1>4. CASE IsCurrent(snap)
  <2>1. PICK wanted : wanted = Edited(calls[c])
    OBVIOUS
  <2>2. items' = Patched(snap, wanted)
    BY <1>2, <1>4, <2>1 DEF EditPatch
  <2> QED BY <1>1, <1>3, <1>4, <2>2, PatchSeen
<1>5. CASE ~IsCurrent(snap)
  BY <1>2, <1>5, SameItems DEF EditPatch
<1> QED BY <1>4, <1>5

\* delete_item deletes what it saw.
LEMMA DeleteItemSeen ==
    ASSUME ZoteroInv, NEW c \in Call, DeleteItem(c) PROVE \A i \in DOMAIN items : LossSeen(i)
<1>1. /\ calls[c].op = "delete_item" /\ calls[c].step = "delete" /\ calls[c].snap # NoKey
      /\ calls[c].snap.key = calls[c].key
  BY CallSound DEF DeleteItem, StepFits
<1>2. PICK snap : snap = calls[c].snap
  OBVIOUS
<1>3. snap \in Snaps(calls[c]) /\ Saw(c) = snap
  BY <1>1, <1>2, OwnSnap
<1>4. CASE IsCurrent(snap)
  <2>1. items' = Drop(items, {snap.key})
    BY <1>1, <1>2, <1>4 DEF DeleteItem
  <2>2. \A i \in DOMAIN items : i # snap.key => i \in DOMAIN items' /\ items'[i] = items[i]
    BY <2>1 DEF Drop
  <2>3. snap.key \in DOMAIN items /\ items[snap.key] = snap.item
    BY <1>3, <1>4, CurrentIsRead
  <2> QED BY <1>1, <1>3, <2>2, <2>3, SeenLost
<1>5. CASE ~IsCurrent(snap)
  BY <1>2, <1>5, SameItems DEF DeleteItem
<1> QED BY <1>4, <1>5

\* Adding items takes nothing from those that were there.
LEMMA PostsLoseNothing ==
    ASSUME ZoteroInv, NEW c \in Call, SyncPost(c) \/ CreatePost(c)
    PROVE  \A i \in DOMAIN items : LossSeen(i)
<1>1. \A i \in DOMAIN items : i \in DOMAIN items' /\ items'[i] = items[i]
  <2>1. FreshItems \intersect DOMAIN items = {}
    BY DEF FreshItems
  <2>2. CASE CreatePost(c)
    <3>1. FreshItem \in FreshItems
      BY <2>2 DEF CreatePost, FreshItem
    <3>2. PICK item : items' = Put(items, FreshItem, item)
      BY <2>2 DEF CreatePost
    <3> QED BY <2>1, <3>1, <3>2 DEF Put
  <2>3. CASE SyncPost(c)
    <3> DEFINE create == calls[c].create
               key(ns) == CHOOSE naming \in Namings(ns) : TRUE
               posted(ns) == {key(ns)[n] : n \in ns}
               work(ns) == [i \in posted(ns) |->
                               WorkOf[create[CHOOSE n \in ns : key(ns)[n] = i]]]
    <3>1. PICK taken \in SUBSET DOMAIN create :
             /\ Namings(taken) # {}
             /\ items' = [i \in DOMAIN items \union posted(taken) |->
                             IF i \in posted(taken)
                             THEN NewItem(work(taken)[i], SyncFolders(calls[c]), {})
                             ELSE items[i]]
      BY <2>3, Zenon DEF SyncPost
    <3>2. key(taken) \in Namings(taken)
      BY <3>1
    <3>3. posted(taken) \subseteq FreshItems
      BY <3>2 DEF Namings
    <3> HIDE DEF posted, work
    <3> QED BY <2>1, <3>1, <3>3
  <2> QED BY <2>2, <2>3
<1> SUFFICES ASSUME NEW i \in DOMAIN items PROVE LossSeen(i)
  OBVIOUS
<1>2. i \in DOMAIN items' /\ items'[i] = items[i]
  BY <1>1
<1> QED BY <1>2, NothingLost

\* Deleting folders takes memberships in those folders alone.
LEMMA TreeDeleteLosesNothing ==
    ASSUME ZoteroInv, NEW c \in Call, TreeDelete(c) PROVE \A i \in DOMAIN items : LossSeen(i)
<1>1. CASE items' = items
  BY <1>1, SameItems
<1>2. CASE items' # items
  <2>1. PICK gone : WithoutFolders(gone)
    BY <1>2 DEF TreeDelete
  <2>2. /\ DOMAIN folders' = DOMAIN folders \ gone /\ DOMAIN items' = DOMAIN items
        /\ \A i \in DOMAIN items : /\ items'[i].tags = items[i].tags
                                   /\ items[i].folders \ gone \subseteq items'[i].folders
    BY <2>1, WithoutFoldersEdits DEF ZoteroInv
  <2> SUFFICES ASSUME NEW i \in DOMAIN items PROVE LossSeen(i)
    OBVIOUS
  <2> QED BY <2>2, NothingLost
<1> QED BY <1>1, <1>2

\* Steps that leave the library as it is.
LEMMA StartsLeave ==
    ASSUME NEW c \in Call, StartSync(c) \/ Start(c) \/ StepFails(c)
    PROVE  UNCHANGED <<items, folders>>
BY Zenon DEF StartSync, Start, StepFails, PlanSync, StartCreate, StartEdit, StartDeleteItem,
             StartCreateCollection, StartDeleteCollection, StartCite

Quiet(c) ==
    \/ FindCollection(c) \/ SyncLookUpLink(c) \/ SyncSearch(c) \/ SyncReport(c)
    \/ SyncSaveMatched(c) \/ SyncSaveCreated(c)
    \/ CreateCheckFolder(c) \/ CreateLookUpLink(c) \/ CreateGetItem(c) \/ CreateSearch(c)
    \/ CreateSaveLink(c) \/ EditCheckFolder(c) \/ EditRead(c)
    \/ DeleteItemRead(c) \/ DeleteItemChildren(c) \/ DeleteItemLinks(c)
    \/ CollectionParent(c) \/ CollectionCandidates(c)
    \/ CollectionRead(c) \/ CollectionContents(c) \/ TreeList(c)
    \/ CiteRead(c) \/ CiteLookUpLink(c) \/ SaveCitation(c) \/ Audit(c)

\* Steps that only read leave the library as it is.
LEMMA QuietLeaves ==
    ASSUME NEW c \in Call, Quiet(c) PROVE UNCHANGED <<items, folders>>
<1>1. CASE \/ FindCollection(c) \/ SyncLookUpLink(c) \/ SyncSearch(c) \/ SyncReport(c)
           \/ SyncSaveMatched(c) \/ SyncSaveCreated(c)
  BY <1>1, Zenon DEF FindCollection, SyncLookUpLink, SyncSearch, SyncReport, SyncSaveMatched,
                     SyncSaveCreated
<1>2. CASE \/ CreateCheckFolder(c) \/ CreateLookUpLink(c) \/ CreateGetItem(c)
           \/ CreateSearch(c) \/ CreateSaveLink(c) \/ EditCheckFolder(c) \/ EditRead(c)
  BY <1>2, Zenon DEF CreateCheckFolder, CreateLookUpLink, CreateGetItem, CreateSearch,
                     CreateSaveLink, EditCheckFolder, EditRead
<1>3. CASE \/ DeleteItemRead(c) \/ DeleteItemChildren(c) \/ DeleteItemLinks(c)
           \/ CollectionParent(c) \/ CollectionCandidates(c)
           \/ CollectionRead(c) \/ CollectionContents(c) \/ TreeList(c)
  BY <1>3, Zenon DEF DeleteItemRead, DeleteItemChildren, DeleteItemLinks, CollectionParent,
                     CollectionCandidates, CollectionRead, CollectionContents, TreeList
<1>4. CASE CiteRead(c) \/ CiteLookUpLink(c) \/ SaveCitation(c) \/ Audit(c)
  BY <1>4, Zenon DEF CiteRead, CiteLookUpLink, SaveCitation, Audit
<1> QED BY <1>1, <1>2, <1>3, <1>4 DEF Quiet

\* What the steps of a call do to the library.
LEMMA StepKinds ==
    ASSUME NEW c \in Call, Step(c)
    PROVE  \/ UNCHANGED <<items, folders>>
           \/ CreateCorpusFolder(c) \/ PostCollection(c) \/ TreeDelete(c)
           \/ SyncPatch(c) \/ CreatePatch(c) \/ EditPatch(c) \/ DeleteItem(c)
           \/ SyncPost(c) \/ CreatePost(c)
<1>1. \/ Quiet(c)
      \/ CreateCorpusFolder(c) \/ PostCollection(c) \/ TreeDelete(c)
      \/ SyncPatch(c) \/ CreatePatch(c) \/ EditPatch(c) \/ DeleteItem(c)
      \/ SyncPost(c) \/ CreatePost(c)
  BY Zenon DEF Step, Quiet
<1> QED BY <1>1, QuietLeaves

\* Only other clients count as edits.
LEMMA OwnSteps ==
    ASSUME ZoteroInv, Next, edits' = edits
    PROVE  \/ UNCHANGED <<items, folders>>
           \/ \E c \in Call : Step(c)
<1>1. ~OthersEdit
  <2>1. edits + 1 # edits
    BY DEF ZoteroInv, ZoteroTypeOK
  <2> QED BY <2>1 DEF OthersEdit
<1>2. ASSUME NEW ended, Interrupt(ended) PROVE UNCHANGED <<items, folders>>
  BY <1>2 DEF Interrupt
<1>3. ASSUME NEW c \in Call, StartSync(c) \/ Start(c) \/ StepFails(c)
      PROVE  UNCHANGED <<items, folders>>
  BY <1>3, StartsLeave
<1> QED BY <1>1, <1>2, <1>3 DEF Next

\* Nothing that a call did not see on an item disappears from it, unless another client took
\* it away: what _patch_item and delete_item send under If-Unmodified-Since-Version never
\* undoes the edit of somebody else.
THEOREM NothingUnseenIsLost == Spec => LosesOnlyWhatItSaw
<1>1. ZoteroInv /\ [Next]_vars => [edits' = edits => \A i \in DOMAIN items : LossSeen(i)]_vars
  <2> SUFFICES ASSUME ZoteroInv, Next, edits' = edits
               PROVE  \A i \in DOMAIN items : LossSeen(i)
    OBVIOUS
  <2>1. CASE UNCHANGED <<items, folders>>
    BY <2>1, SameItems
  <2>2. ASSUME NEW c \in Call, Step(c) PROVE \A i \in DOMAIN items : LossSeen(i)
    <3>1. CASE UNCHANGED <<items, folders>> \/ CreateCorpusFolder(c) \/ PostCollection(c)
      BY <3>1, SameItems DEF CreateCorpusFolder, PostCollection
    <3>2. CASE SyncPatch(c)
      BY <3>2, SyncPatchSeen
    <3>3. CASE CreatePatch(c)
      BY <3>3, CreatePatchSeen
    <3>4. CASE EditPatch(c)
      BY <3>4, EditPatchSeen
    <3>5. CASE DeleteItem(c)
      BY <3>5, DeleteItemSeen
    <3>6. CASE SyncPost(c) \/ CreatePost(c)
      BY <3>6, PostsLoseNothing
    <3>7. CASE TreeDelete(c)
      BY <3>7, TreeDeleteLosesNothing
    <3> QED BY <2>2, <3>1, <3>2, <3>3, <3>4, <3>5, <3>6, <3>7, StepKinds
  <2> QED BY <2>1, <2>2, OwnSteps
<1> QED BY <1>1, ZoteroInvHolds, PTL DEF Spec, LosesOnlyWhatItSaw

\* The folder a recursive deletion removes lies where the recursion listed it.
LEMMA DeletedWhereListed ==
    ASSUME ZoteroInv, NEW c \in Call, TreeDelete(c), folders' # folders
    PROVE  LET stack == calls[c].stack
               n == Len(stack)
           IN  n > 1 => folders[stack[n].key].parent = stack[n - 1].key
<1> DEFINE stack == calls[c].stack
<1>1. PICK n : n = Len(stack)
  OBVIOUS
<1>2. stack \in Seq(Frame)
  BY CallSound, FieldsTyped
<1>3. FolderIsCurrent(stack[n])
  BY <1>1 DEF TreeDelete
<1>4. ListingsAgree(stack, folders)
  BY CallSound DEF Sound
<1>5. n > 1 => n \in DOMAIN stack
  BY <1>1, <1>2
<1>6. n > 1 => AsListed(stack[n], stack[n - 1].key, folders)
  BY <1>4, <1>5 DEF ListingsAgree
<1>7. n > 1 => folders[stack[n].key].parent = stack[n - 1].key
  BY <1>3, <1>6 DEF AsListed, FolderIsCurrent
<1> QED BY <1>1, <1>7

\* A folder that delete_collection removes below the one it was asked to is still where it
\* was listed, for a folder that was moved since has another version.
THEOREM FoldersGoWhereListed == Spec => DeletesWhereItWasListed
<1> DEFINE Deletes(c) ==
        calls[c].op = "delete_collection" /\ calls[c].step = "delete" /\ folders' # folders
            /\ edits' = edits /\ calls'[c] # calls[c]
    Listed2(c) ==
        LET stack == calls[c].stack
            n == Len(stack)
        IN  n > 1 => folders[stack[n].key].parent = stack[n - 1].key
<1>1. ZoteroInv /\ [Next]_vars => [\A c \in Call : Deletes(c) => Listed2(c)]_vars
  <2> SUFFICES ASSUME ZoteroInv, Next, NEW c \in Call, Deletes(c) PROVE Listed2(c)
    OBVIOUS
  <2>1. PICK d \in Call : Step(d)
    BY OwnSteps
  <2>2. CreateCorpusFolder(d) \/ PostCollection(d) \/ TreeDelete(d)
    <3>1. ~SyncPatch(d) /\ ~CreatePatch(d) /\ ~EditPatch(d) /\ ~DeleteItem(d)
          /\ ~SyncPost(d) /\ ~CreatePost(d)
      BY Zenon DEF SyncPatch, CreatePatch, EditPatch, DeleteItem, SyncPost, CreatePost
    <3> QED BY <2>1, <3>1, StepKinds
  <2>3. c = d
    <3>1. \E call : Goto(d, call)
      BY <2>2, Zenon DEF CreateCorpusFolder, PostCollection, TreeDelete, Answered, Walk,
                         Raise, Return
    <3> QED BY <3>1 DEF Goto, ZoteroInv, ZoteroTypeOK
  <2>4. TreeDelete(c)
    BY <2>2, <2>3 DEF CreateCorpusFolder, PostCollection
  <2> QED BY <2>4, DeletedWhereListed
<1> QED BY <1>1, ZoteroInvHolds, PTL DEF Spec, DeletesWhereItWasListed
=============================================================================
