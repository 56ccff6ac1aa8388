----------------------------- MODULE ProviderProofs -----------------------------
(***************************************************************************)
(* Proofs about the two components that talk to others over the network:      *)
(* GithubPublish, where what was pushed survives any number of calls,         *)
(* branches, commits and other users, and SourceAdapters, where a run over    *)
(* a listing that does not change holds its first records, and a complete run *)
(* holds all of a listing that does, for any adapter, page size and length.   *)
(***************************************************************************)
EXTENDS GithubPublish, SourceAdapters, FiniteSetTheorems, TLAPS

-----------------------------------------------------------------------------
(* The inductive invariant, in the parts that the actions touch             *)

\* Commits are numbered without a gap; a commit has its own history, with that of every
\* commit in it.
HistoryInv ==
    /\ IsFiniteSet(DOMAIN history)
    /\ DOMAIN history = 0..Cardinality(DOMAIN history) - 1
    /\ \A c \in DOMAIN history :
          /\ c \in history[c] /\ history[c] \subseteq DOMAIN history
          /\ \A d \in history[c] : history[d] \subseteq history[c]

\* The default branch, the branch of an open pull request and the branch of a push are there,
\* and the push is in its history.
BranchesInv ==
    /\ refs \in [Branch -> DOMAIN history \union {NoCommit}]
    /\ refs[DefaultBranch] # NoCommit
    /\ pulls \subseteq Branch /\ \A b \in pulls : refs[b] # NoCommit
    /\ pushed \subseteq Branch \X DOMAIN history
    /\ \A push \in pushed : refs[push[1]] # NoCommit /\ push[2] \in history[refs[push[1]]]

\* A call that read a base has a commit there, and one that made a commit another.
CallInv(call, commits) ==
    /\ call.step # "repository" => call.base \in commits
    /\ call.step \in {"update", "pull", "record"} => call.commit \in commits
CallsInv ==
    /\ publishes \in [Publish -> {NoPublish} \union Publishing]
    /\ \A p \in Publish : publishes[p] # NoPublish => CallInv(publishes[p], DOMAIN history)

IssuesInv == issues \in 0..IssueWrites

GithubInv == HistoryInv /\ BranchesInv /\ CallsInv /\ IssuesInv

USE GithubAssumption

-----------------------------------------------------------------------------
(* What the steps are made of                                              *)

\* A call at one of its requests is no idle one.
LEMMA RequestRuns ==
    ASSUME CallsInv, NEW p \in Publish, publishes[p].step # "idle"
    PROVE  publishes[p] \in Publishing /\ publishes[p] # NoPublish
<1>1. NoPublish.step = "idle"
  BY DEF NoPublish
<1> QED BY <1>1 DEF CallsInv

LEMMA IdleIsNotPublishing == NoPublish \notin Publishing
<1>1. NoPublish.step = "idle"
  BY DEF NoPublish
<1>2. \A call \in Publishing : call.step # "idle"
  BY DEF Publishing
<1> QED BY <1>1, <1>2

\* A call that ends, or goes on with commits that are there, leaves the others as they were.
LEMMA PublishEndsKeepsCalls ==
    ASSUME CallsInv, NEW p \in Publish, PublishEnds(p), DOMAIN history \subseteq DOMAIN history'
    PROVE  CallsInv'
BY DEF CallsInv, CallInv, PublishEnds

LEMMA PublishStepKeepsCalls ==
    ASSUME CallsInv, NEW p \in Publish, publishes[p] \in Publishing,
           NEW step \in {"branch", "commit", "update", "pull", "record"},
           NEW base, NEW commit, PublishStep(p, step, base, commit),
           DOMAIN history \subseteq DOMAIN history', DOMAIN history' \subseteq Nat,
           base \in DOMAIN history',
           IF step \in {"update", "pull", "record"} THEN commit \in DOMAIN history'
                                                    ELSE commit = NoCommit
    PROVE  CallsInv'
<1> DEFINE call == [publishes[p] EXCEPT !.step = step, !.base = base, !.commit = commit]
<1>1. call \in Publishing /\ call.step = step /\ call.base = base /\ call.commit = commit
  BY DEF Publishing
<1>2. publishes' = [publishes EXCEPT ![p] = call]
  BY DEF PublishStep, CallsInv
<1> HIDE DEF call
<1>3. publishes' \in [Publish -> {NoPublish} \union Publishing]
  BY <1>1, <1>2 DEF CallsInv
<1>4. ASSUME NEW q \in Publish, publishes'[q] # NoPublish
      PROVE  CallInv(publishes'[q], DOMAIN history')
  <2>1. CASE q = p
    BY <1>1, <1>2, <2>1 DEF CallsInv, CallInv
  <2>2. CASE q # p
    <3>1. publishes'[q] = publishes[q]
      BY <1>2, <2>2 DEF CallsInv
    <3> QED BY <1>4, <3>1 DEF CallsInv, CallInv
  <2> QED BY <2>1, <2>2
<1> QED BY <1>3, <1>4 DEF CallsInv

\* A request that was answered or lost its answer.
LEMMA AnsweredKeepsCalls ==
    ASSUME HistoryInv, HistoryInv', CallsInv, NEW p \in Publish, publishes[p] \in Publishing,
           publishes[p].step # "repository",
           NEW step \in {"commit", "update", "pull", "record"},
           NEW commit, Answered(p, step, commit),
           DOMAIN history \subseteq DOMAIN history',
           IF step = "commit" THEN commit = NoCommit ELSE commit \in DOMAIN history'
    PROVE  CallsInv'
<1>1. DOMAIN history' \subseteq Nat
  BY FS_CardinalityType DEF HistoryInv
<1>2. CASE PublishEnds(p)
  BY <1>2, PublishEndsKeepsCalls
<1>3. CASE PublishStep(p, step, publishes[p].base, commit)
  <2>1. publishes[p] # NoPublish
    BY IdleIsNotPublishing
  <2>2. publishes[p].base \in DOMAIN history'
    BY <2>1 DEF CallsInv, CallInv
  <2> QED BY <1>1, <1>3, <2>2, PublishStepKeepsCalls
<1> QED BY <1>2, <1>3 DEF Answered

\* A new commit has the history of its parent and itself; the others keep theirs.
LEMMA CreatedKeepsHistory ==
    ASSUME HistoryInv, NEW parent \in DOMAIN history, Created(NextCommit, parent)
    PROVE  /\ HistoryInv'
           /\ DOMAIN history' = DOMAIN history \union {NextCommit}
           /\ \A d \in DOMAIN history : history'[d] = history[d]
           /\ history'[NextCommit] = history[parent] \union {NextCommit}
<1> DEFINE n == NextCommit
<1>1. n \in Nat /\ n \notin DOMAIN history /\ n = Cardinality(DOMAIN history)
  BY FS_CardinalityType DEF HistoryInv, NextCommit
<1>2. history' = [d \in DOMAIN history \union {n} |-> IF d = n THEN history[parent] \union {n}
                                                                ELSE history[d]]
  BY DEF Created
<1> HIDE DEF n
<1>3. /\ DOMAIN history' = DOMAIN history \union {n}
      /\ \A d \in DOMAIN history : history'[d] = history[d]
      /\ history'[n] = history[parent] \union {n}
  BY <1>1, <1>2
<1>4. IsFiniteSet(DOMAIN history') /\ Cardinality(DOMAIN history') = n + 1
  BY <1>1, <1>3, FS_AddElement DEF HistoryInv
<1>5. DOMAIN history' = 0..Cardinality(DOMAIN history') - 1
  <2>1. DOMAIN history = 0..n - 1
    BY <1>1 DEF HistoryInv
  <2>2. 0..n = (0..n - 1) \union {n}
    BY <1>1
  <2>3. Cardinality(DOMAIN history') - 1 = n
    BY <1>1, <1>4
  <2>4. DOMAIN history' = 0..n
    BY <1>3, <2>1, <2>2
  <2> QED BY <2>3, <2>4
<1>6. ASSUME NEW c \in DOMAIN history'
      PROVE  /\ c \in history'[c] /\ history'[c] \subseteq DOMAIN history'
             /\ \A d \in history'[c] : history'[d] \subseteq history'[c]
  <2>1. CASE c \in DOMAIN history
    BY <1>3, <2>1 DEF HistoryInv
  <2>2. CASE c = n
    <3>1. history[parent] \subseteq DOMAIN history
          /\ \A d \in history[parent] : history[d] \subseteq history[parent]
      BY DEF HistoryInv
    <3>2. history'[c] = history[parent] \union {n}
      BY <1>3, <2>2
    <3>3. ASSUME NEW d \in history'[c] PROVE history'[d] \subseteq history'[c]
      BY <1>3, <2>2, <3>1, <3>2, <3>3
    <3> QED BY <1>3, <2>2, <3>1, <3>2, <3>3
  <2> QED BY <1>3, <2>1, <2>2
<1> QED BY <1>3, <1>4, <1>5, <1>6 DEF HistoryInv, n

\* A branch keeps what was pushed to it when it moves to a commit that has its head in the
\* history, whatever is pushed besides to the new head.
LEMMA MovedKeepsBranches ==
    ASSUME HistoryInv, BranchesInv, HistoryInv',
           DOMAIN history \subseteq DOMAIN history',
           \A d \in DOMAIN history : history'[d] = history[d],
           NEW b \in Branch, NEW c \in DOMAIN history', refs' = [refs EXCEPT ![b] = c],
           refs[b] # NoCommit => refs[b] \in history'[c],
           pushed' = pushed \/ pushed' = pushed \union {<<b, c>>},
           pulls' \subseteq pulls
    PROVE  BranchesInv'
<1>1. DOMAIN history' \subseteq Nat
  BY FS_CardinalityType DEF HistoryInv
<1>2. c # NoCommit
  BY <1>1
<1>3. /\ refs' \in [Branch -> DOMAIN history' \union {NoCommit}]
      /\ \A q \in Branch : refs'[q] = IF q = b THEN c ELSE refs[q]
  BY DEF BranchesInv
<1>4. ASSUME NEW push \in pushed'
      PROVE  /\ push \in Branch \X DOMAIN history'
             /\ refs'[push[1]] # NoCommit /\ push[2] \in history'[refs'[push[1]]]
  <2>1. CASE push = <<b, c>>
    BY <1>2, <1>3, <2>1 DEF HistoryInv
  <2>2. CASE push \in pushed
    <3>1. /\ push[1] \in Branch /\ push[2] \in DOMAIN history /\ push \in Branch \X DOMAIN history'
          /\ refs[push[1]] \in DOMAIN history
          /\ refs[push[1]] # NoCommit /\ push[2] \in history[refs[push[1]]]
      BY <2>2 DEF BranchesInv
    <3>2. CASE push[1] # b
      BY <1>3, <3>1, <3>2
    <3>3. CASE push[1] = b
      <4>1. refs[b] \in history'[c] /\ push[2] \in history'[refs[b]]
        BY <3>1, <3>3
      <4>2. history'[refs[b]] \subseteq history'[c]
        BY <4>1 DEF HistoryInv
      <4> QED BY <1>2, <1>3, <3>1, <3>3, <4>1, <4>2
    <3> QED BY <3>2, <3>3
  <2> QED BY <2>1, <2>2
<1>5. /\ refs'[DefaultBranch] # NoCommit
      /\ pulls' \subseteq Branch /\ \A q \in pulls' : refs'[q] # NoCommit
  BY <1>2, <1>3 DEF BranchesInv
<1> QED BY <1>3, <1>4, <1>5 DEF BranchesInv

\* What touches neither commits nor branches.
LEMMA SameBranches ==
    ASSUME HistoryInv, BranchesInv, UNCHANGED <<refs, history, pushed>>,
           pulls' \subseteq Branch, \A b \in pulls' : refs[b] # NoCommit
    PROVE  HistoryInv' /\ BranchesInv'
BY DEF HistoryInv, BranchesInv

-----------------------------------------------------------------------------
(* The requests                                                            *)

\* A call that starts has read nothing yet.
LEMMA StartPublishSafe ==
    ASSUME GithubInv, NEW p \in Publish, StartPublish(p)
    PROVE  GithubInv'
<1> USE DEF GithubInv
<1>1. UNCHANGED <<refs, history, pulls, issues, pushed>>
  BY DEF StartPublish
<1>2. HistoryInv' /\ BranchesInv'
  BY <1>1, SameBranches DEF BranchesInv
<1>3. CallsInv'
  <2>1. CASE UNCHANGED publishes
    BY <1>1, <2>1 DEF CallsInv, CallInv
  <2>2. ASSUME NEW call, publishes' = [publishes EXCEPT ![p] = call],
               call \in Publishing, call.step = "repository"
        PROVE  CallsInv'
    BY <1>1, <2>2 DEF CallsInv, CallInv
  <2>3. CASE ~UNCHANGED publishes
    <3>1. PICK b \in Branch \ {"main"} : publishes' = [publishes EXCEPT ![p] =
              [step |-> "repository", branch |-> b, base |-> NoCommit, commit |-> NoCommit]]
      BY <2>3 DEF StartPublish
    <3>2. [step |-> "repository", branch |-> b, base |-> NoCommit, commit |-> NoCommit]
              \in Publishing
      BY DEF Publishing
    <3> QED BY <2>2, <3>1, <3>2
  <2> QED BY <2>1, <2>3
<1> QED BY <1>1, <1>2, <1>3 DEF IssuesInv

\* The base that is read is the head of the default branch, which is always there.
LEMMA ReadBaseSafe ==
    ASSUME GithubInv, NEW p \in Publish, publishes[p] \in Publishing, ReadBase(p)
    PROVE  GithubInv'
<1> USE DEF GithubInv
<1>1. UNCHANGED <<refs, history, pulls, issues, pushed>>
  BY DEF ReadBase
<1>2. HistoryInv' /\ BranchesInv'
  BY <1>1, SameBranches DEF BranchesInv
<1>3. CallsInv'
  <2>1. CASE PublishEnds(p)
    BY <1>1, <2>1, PublishEndsKeepsCalls
  <2>2. CASE PublishStep(p, "branch", refs[DefaultBranch], NoCommit)
    <3>1. refs[DefaultBranch] \in DOMAIN history
      BY DEF BranchesInv
    <3>2. DOMAIN history \subseteq Nat
      BY FS_CardinalityType DEF HistoryInv
    <3> QED BY <1>1, <2>2, <3>1, <3>2, PublishStepKeepsCalls
  <2> QED BY <2>1, <2>2 DEF ReadBase
<1> QED BY <1>1, <1>2, <1>3 DEF IssuesInv

\* A request that is refused or fails leaves GitHub as it was.
LEMMA RefusedSafe ==
    ASSUME GithubInv, NEW p \in Publish, Refused(p), UNCHANGED issues
    PROVE  GithubInv'
<1>1. HistoryInv' /\ BranchesInv'
  BY SameBranches DEF GithubInv, BranchesInv, Refused
<1>2. CallsInv'
  BY PublishEndsKeepsCalls DEF GithubInv, Refused
<1> QED BY <1>1, <1>2 DEF GithubInv, IssuesInv

\* A branch that is created was not there, so nothing was pushed to it.
LEMMA CreateBranchSafe ==
    ASSUME GithubInv, NEW p \in Publish, publishes[p] \in Publishing, CreateBranch(p)
    PROVE  GithubInv'
<1> USE DEF GithubInv
<1> DEFINE b == publishes[p].branch
           base == publishes[p].base
<1>1. CASE refs[b] # NoCommit
  BY <1>1, RefusedSafe DEF CreateBranch
<1>2. CASE refs[b] = NoCommit
  <2>1. /\ refs' = [refs EXCEPT ![b] = base] /\ Answered(p, "commit", NoCommit)
        /\ UNCHANGED <<history, pulls, pushed, issues>>
    BY <1>2 DEF CreateBranch
  <2>2. b \in Branch /\ base \in DOMAIN history
    <3>1. publishes[p] # NoPublish /\ publishes[p].step = "branch"
      BY IdleIsNotPublishing DEF CreateBranch, AtRequest
    <3> QED BY <3>1 DEF CallsInv, CallInv, Publishing
  <2>3. HistoryInv'
    BY <2>1 DEF HistoryInv
  <2>4. BranchesInv'
    BY <1>2, <2>1, <2>2, <2>3, MovedKeepsBranches
  <2>5. CallsInv'
    <3>1. publishes[p].step # "repository"
      BY DEF CreateBranch, AtRequest
    <3> QED BY <2>1, <2>3, <3>1, AnsweredKeepsCalls
  <2> QED BY <2>1, <2>3, <2>4, <2>5 DEF IssuesInv
<1> QED BY <1>1, <1>2

\* A commit that no branch reaches yet.
LEMMA CreateCommitSafe ==
    ASSUME GithubInv, NEW p \in Publish, publishes[p] \in Publishing, CreateCommit(p)
    PROVE  GithubInv'
<1> USE DEF GithubInv
<1>1. /\ publishes[p].step = "commit" /\ Created(NextCommit, publishes[p].base)
      /\ Answered(p, "update", NextCommit) /\ UNCHANGED <<refs, pulls, pushed, issues>>
  BY DEF CreateCommit, AtRequest
<1>2. publishes[p].base \in DOMAIN history
  BY <1>1, IdleIsNotPublishing DEF CallsInv, CallInv
<1>3. /\ HistoryInv'
      /\ DOMAIN history' = DOMAIN history \union {NextCommit}
      /\ \A d \in DOMAIN history : history'[d] = history[d]
  BY <1>1, <1>2, CreatedKeepsHistory
<1>4. BranchesInv'
  <2>1. \A push \in pushed : push[1] \in Branch /\ refs[push[1]] \in DOMAIN history
    BY DEF BranchesInv
  <2> QED BY <1>1, <1>3, <2>1 DEF BranchesInv
<1>5. CallsInv'
  BY <1>1, <1>3, AnsweredKeepsCalls
<1> QED BY <1>1, <1>3, <1>4, <1>5 DEF IssuesInv

\* Without "force" the branch moves only to a commit that has its head in the history.
LEMMA UpdateBranchSafe ==
    ASSUME GithubInv, NEW p \in Publish, publishes[p] \in Publishing, UpdateBranch(p)
    PROVE  GithubInv'
<1> USE DEF GithubInv
<1> DEFINE b == publishes[p].branch
           c == publishes[p].commit
<1>1. CASE ~MayMove(b, c)
  BY <1>1, RefusedSafe DEF UpdateBranch
<1>2. CASE MayMove(b, c)
  <2>1. /\ refs' = [refs EXCEPT ![b] = c] /\ pushed' = pushed \union {<<b, c>>}
        /\ Answered(p, "pull", c) /\ UNCHANGED <<history, pulls, issues>>
        /\ publishes[p].step = "update"
    BY <1>2 DEF UpdateBranch, AtRequest
  <2>2. b \in Branch /\ c \in DOMAIN history /\ refs[b] \in history[c]
    BY <1>2, <2>1, IdleIsNotPublishing DEF CallsInv, CallInv, Publishing, MayMove
  <2>3. HistoryInv'
    BY <2>1 DEF HistoryInv
  <2> HIDE DEF b, c
  <2>4. BranchesInv'
    BY <2>1, <2>2, <2>3, MovedKeepsBranches
  <2>5. CallsInv'
    BY <2>1, <2>2, <2>3, AnsweredKeepsCalls
  <2> QED BY <2>1, <2>3, <2>4, <2>5 DEF IssuesInv
<1> QED BY <1>1, <1>2

LEMMA OpenPullSafe ==
    ASSUME GithubInv, NEW p \in Publish, publishes[p] \in Publishing, OpenPull(p)
    PROVE  GithubInv'
<1> USE DEF GithubInv
<1> DEFINE b == publishes[p].branch
           c == publishes[p].commit
<1>1. CASE Refused(p) /\ UNCHANGED issues
  BY <1>1, RefusedSafe
<1>2. CASE ~Refused(p)
  <2>1. /\ pulls' = pulls \union {b} /\ refs[b] # NoCommit
        /\ Answered(p, "record", c) /\ UNCHANGED <<refs, history, pushed, issues>>
        /\ publishes[p].step = "pull"
    BY <1>2 DEF OpenPull, AtRequest
  <2>2. b \in Branch /\ c \in DOMAIN history
    BY <2>1, IdleIsNotPublishing DEF CallsInv, CallInv, Publishing
  <2>3. HistoryInv' /\ BranchesInv'
    BY <2>1, <2>2, SameBranches DEF BranchesInv
  <2>4. CallsInv'
    <3> HIDE DEF c
    <3> QED BY <2>1, <2>2, <2>3, AnsweredKeepsCalls
  <2> QED BY <2>1, <2>3, <2>4 DEF IssuesInv
<1> QED BY <1>1, <1>2 DEF OpenPull

LEMMA RecordPublishSafe ==
    ASSUME GithubInv, NEW p \in Publish, RecordPublish(p)
    PROVE  GithubInv'
BY RefusedSafe DEF RecordPublish, Refused

\* Issues and comments touch no branch.
LEMMA WriteIssueSafe ==
    ASSUME GithubInv, WriteIssue
    PROVE  GithubInv'
<1> USE DEF GithubInv
<1>1. UNCHANGED <<refs, history, pulls, publishes, pushed>>
  BY DEF WriteIssue
<1>2. HistoryInv' /\ BranchesInv' /\ CallsInv'
  BY <1>1, SameBranches DEF BranchesInv, CallsInv, CallInv
<1>3. IssuesInv'
  BY DEF WriteIssue, IssuesInv
<1> QED BY <1>2, <1>3

-----------------------------------------------------------------------------
(* Other users                                                             *)

LEMMA OthersPushSafe ==
    ASSUME GithubInv, OthersPush
    PROVE  GithubInv'
<1> USE DEF GithubInv
<1>1. PICK b \in Branch :
          /\ Created(NextCommit, IF refs[b] = NoCommit THEN refs[DefaultBranch] ELSE refs[b])
          /\ refs' = [refs EXCEPT ![b] = NextCommit]
          /\ pushed' = pushed \union {<<b, NextCommit>>}
  BY DEF OthersPush
<1> DEFINE parent == IF refs[b] = NoCommit THEN refs[DefaultBranch] ELSE refs[b]
           n == NextCommit
<1>2. parent \in DOMAIN history
  BY DEF BranchesInv
<1>3. /\ HistoryInv'
      /\ DOMAIN history' = DOMAIN history \union {n}
      /\ \A d \in DOMAIN history : history'[d] = history[d]
      /\ history'[n] = history[parent] \union {n}
  BY <1>1, <1>2, CreatedKeepsHistory
<1>4. UNCHANGED <<pulls, issues, publishes>>
  BY DEF OthersPush
<1>5. refs[b] # NoCommit => refs[b] \in history'[n]
  BY <1>2, <1>3 DEF HistoryInv
<1>6. BranchesInv'
  <2> HIDE DEF n, parent
  <2>1. n \in DOMAIN history' /\ DOMAIN history \subseteq DOMAIN history'
    BY <1>3
  <2>2. refs' = [refs EXCEPT ![b] = n] /\ pushed' = pushed \union {<<b, n>>}
    BY <1>1 DEF n
  <2> QED BY <1>3, <1>4, <1>5, <2>1, <2>2, MovedKeepsBranches
<1>7. CallsInv'
  BY <1>3, <1>4 DEF CallsInv, CallInv
<1> QED BY <1>3, <1>4, <1>6, <1>7 DEF IssuesInv

\* A branch that is deleted takes its pull request and the record of its pushes along.
LEMMA OthersDeleteSafe ==
    ASSUME GithubInv, OthersDelete
    PROVE  GithubInv'
<1> USE DEF GithubInv
<1>1. PICK b \in Branch \ {DefaultBranch} :
          /\ refs' = [refs EXCEPT ![b] = NoCommit]
          /\ pulls' = pulls \ {b}
          /\ pushed' = {push \in pushed : push[1] # b}
  BY DEF OthersDelete
<1>2. UNCHANGED <<history, issues, publishes>>
  BY DEF OthersDelete
<1>3. /\ refs' \in [Branch -> DOMAIN history \union {NoCommit}]
      /\ \A q \in Branch : q # b => refs'[q] = refs[q]
  BY <1>1 DEF BranchesInv
<1>4. \A push \in pushed' : push \in pushed /\ push[1] \in Branch /\ refs'[push[1]] = refs[push[1]]
  BY <1>1, <1>3 DEF BranchesInv
<1>5. BranchesInv'
  <2>1. refs'[DefaultBranch] # NoCommit
    BY <1>1, <1>3 DEF BranchesInv
  <2>2. pulls' \subseteq Branch /\ \A q \in pulls' : refs'[q] # NoCommit
    BY <1>1, <1>3 DEF BranchesInv
  <2>3. pushed' \subseteq Branch \X DOMAIN history'
    BY <1>2, <1>4 DEF BranchesInv
  <2>4. \A push \in pushed' : refs'[push[1]] # NoCommit /\ push[2] \in history'[refs'[push[1]]]
    BY <1>2, <1>4 DEF BranchesInv
  <2> QED BY <1>2, <1>3, <2>1, <2>2, <2>3, <2>4 DEF BranchesInv
<1>6. HistoryInv' /\ CallsInv'
  BY <1>2 DEF HistoryInv, CallsInv, CallInv
<1> QED BY <1>2, <1>5, <1>6 DEF IssuesInv

\* A merge moves the default branch forward.
LEMMA OthersEndPullSafe ==
    ASSUME GithubInv, OthersEndPull
    PROVE  GithubInv'
<1> USE DEF GithubInv
<1>1. PICK b \in pulls :
          /\ pulls' = pulls \ {b}
          /\ \/ /\ refs[DefaultBranch] \in history[refs[b]]
                /\ refs' = [refs EXCEPT ![DefaultBranch] = refs[b]]
             \/ UNCHANGED refs
  BY DEF OthersEndPull
<1>2. UNCHANGED <<history, issues, publishes, pushed>>
  BY DEF OthersEndPull
<1>3. HistoryInv' /\ CallsInv'
  BY <1>2 DEF HistoryInv, CallsInv, CallInv
<1>4. b \in Branch /\ refs[b] \in DOMAIN history
  BY DEF BranchesInv
<1>5. BranchesInv'
  <2>1. CASE UNCHANGED refs
    BY <1>1, <1>2, <2>1, SameBranches DEF BranchesInv
  <2>2. CASE /\ refs[DefaultBranch] \in history[refs[b]]
             /\ refs' = [refs EXCEPT ![DefaultBranch] = refs[b]]
    <3> DEFINE c == refs[b]
    <3>1. c \in DOMAIN history' /\ refs' = [refs EXCEPT ![DefaultBranch] = c]
          /\ refs[DefaultBranch] \in history'[c]
      BY <1>2, <1>4, <2>2
    <3> HIDE DEF c
    <3> QED BY <1>1, <1>2, <1>3, <3>1, MovedKeepsBranches
  <2> QED BY <1>1, <2>1, <2>2
<1> QED BY <1>2, <1>3, <1>5 DEF IssuesInv

-----------------------------------------------------------------------------
(* The theorems                                                            *)

LEMMA GithubInitially == GithubInit => GithubInv
<1> SUFFICES ASSUME GithubInit PROVE GithubInv
  OBVIOUS
<1>1. DOMAIN history = {0} /\ history[0] = {0}
  BY DEF GithubInit
<1>2. IsFiniteSet(DOMAIN history) /\ Cardinality(DOMAIN history) = 1 /\ {0} = 0..0
  <2>1. IsFiniteSet({0}) /\ Cardinality({0}) = 1
    BY FS_Singleton
  <2>2. {0} = 0..0
    OBVIOUS
  <2> QED BY <1>1, <2>1, <2>2
<1>3. HistoryInv
  BY <1>1, <1>2 DEF HistoryInv
<1>4. BranchesInv
  BY <1>1 DEF GithubInit, BranchesInv
<1>5. CallsInv /\ IssuesInv
  BY DEF GithubInit, CallsInv, IssuesInv
<1> QED BY <1>3, <1>4, <1>5 DEF GithubInv

LEMMA GithubStep == GithubInv /\ [GithubNext]_githubVars => GithubInv'
<1> SUFFICES ASSUME GithubInv, [GithubNext]_githubVars PROVE GithubInv'
  OBVIOUS
<1>1. ASSUME NEW p \in Publish, PublishRequest(p) PROVE GithubInv'
  <2>1. publishes[p] \in Publishing
    <3>1. publishes[p].step # "idle"
      BY <1>1 DEF PublishRequest, ReadBase, CreateBranch, CreateCommit, UpdateBranch, OpenPull,
                  RecordPublish, AtRequest
    <3> QED BY <3>1, RequestRuns DEF GithubInv
  <2> QED BY <1>1, <2>1, ReadBaseSafe, CreateBranchSafe, CreateCommitSafe, UpdateBranchSafe,
             OpenPullSafe, RecordPublishSafe DEF PublishRequest
<1>2. ASSUME NEW p \in Publish, PublishFails(p) PROVE GithubInv'
  BY <1>2, RefusedSafe DEF PublishFails
<1>3. CASE UNCHANGED githubVars
  BY <1>3 DEF githubVars, GithubInv, HistoryInv, BranchesInv, CallsInv, CallInv, IssuesInv
<1> QED BY <1>1, <1>2, <1>3, StartPublishSafe, WriteIssueSafe, OthersPushSafe, OthersDeleteSafe,
           OthersEndPullSafe DEF GithubNext

LEMMA GithubInvariant == GithubSpec => []GithubInv
BY GithubInitially, GithubStep, PTL DEF GithubSpec

\* Branches, commits and calls keep their types: commits are numbered without a gap.
THEOREM GithubTypesHold == GithubSpec => []GithubTypeOK
<1>1. GithubInv => GithubTypeOK
  BY DEF GithubInv, HistoryInv, BranchesInv, CallsInv, IssuesInv, GithubTypeOK
<1> QED BY <1>1, GithubInvariant, PTL

\* publish_files never takes anybody's push out of a branch, whatever fails and whoever else
\* writes the repository.
THEOREM PushesHold == GithubSpec => []PushesSurvive
<1>1. GithubInv => PushesSurvive
  BY DEF GithubInv, BranchesInv, PushesSurvive
<1> QED BY <1>1, GithubInvariant, PTL
-----------------------------------------------------------------------------
(* The inductive invariant                                                 *)

Saving == [state: {"page", "pause", "wait", "saved", "failed"}, adapter: Adapter,
           requested: Requested, limit: Nat, offset: Nat, got: Seq(Int),
           attempt: 0..Attempts - 1, slept: 0..Delay,
           error: {"none", "provider", "value", "repeated"},
           complete: BOOLEAN, changes: SUBSET Change, cut: Cut]

SourceTypes ==
    /\ listing \in Seq(Int)
    /\ saves \in [Save -> {NoSave} \union Saving]
    /\ has_requested \in BOOLEAN /\ age \in 0..Delay /\ index_built \in BOOLEAN
    /\ source_faults \in 0..MaxFaults

Entries(q) == {q[i] : i \in 1..Len(q)}
Distinct(q) == \A i, j \in 1..Len(q) : q[i] = q[j] => i = j

\* A call that goes on begins its next page behind what it has, and what it is about to ask
\* for, or has asked, is a full page or all that is left; a numbered page begins at a multiple of
\* its limit.  While no page was cut, what Web of Science Starter sent are full pages.
SaveGoesOn(save) ==
    /\ save.offset = Len(save.got) /\ save.error = "none" /\ ~save.complete
    /\ save.requested # 0 => save.offset < save.requested
    /\ save.adapter = "wos_starter" /\ save.cut = "none" =>
          save.offset % PageSize[save.adapter] = 0
    /\ save.state \in {"pause", "wait"} =>
          /\ save.limit > 0
          /\ save.requested # 0 => /\ save.offset + save.limit <= save.requested
                                   /\ \/ save.limit = PageSize[save.adapter]
                                      \/ save.offset + save.limit = save.requested
          /\ save.adapter = "wos_starter" => save.offset % save.limit = 0

\* What a call has of a listing that did not change.
InOrder(save) ==
    /\ Len(save.got) <= Len(listing)
    /\ \A i \in 1..Len(save.got) : save.got[i] = listing[i]
    /\ save.state = "saved" => \/ Len(save.got) = Smaller(save.requested, Len(listing))
                               \/ save.cut = "empty" /\ ~save.complete
    /\ save.error # "repeated"

SaveAgrees(save) ==
    /\ save.offset <= save.requested /\ Len(save.got) <= save.requested
    /\ save.state \in {"page", "pause", "wait"} => SaveGoesOn(save)
    /\ Distinct(save.got)
    /\ "withdrawn" \notin save.changes => Entries(save.got) \subseteq Entries(listing)
    /\ save.changes = {} => InOrder(save)
    /\ save.error = "value" =>
          /\ save.adapter = "wos_starter"
          /\ save.cut = "none" => save.requested - Len(save.got) < PageSize[save.adapter]

\* No record is listed twice, and the next one that is added is new.
SourcesInv ==
    /\ SourceTypes
    /\ ~has_requested => age = Delay
    /\ Distinct(listing) /\ \A i \in 1..Len(listing) : listing[i] + source_faults > 0
    /\ \A s \in Save : saves[s] # NoSave => SaveAgrees(saves[s])

-----------------------------------------------------------------------------
(* Sequences of numbers                                                    *)

LEMMA SubSeqNumbers ==
    ASSUME NEW q \in Seq(Int), NEW m \in Nat \ {0}, NEW n \in Nat, n <= Len(q)
    PROVE  /\ SubSeq(q, m, n) \in Seq(Int)
           /\ Len(SubSeq(q, m, n)) = IF m <= n THEN n - m + 1 ELSE 0
           /\ \A i \in 1..n - m + 1 : SubSeq(q, m, n)[i] = q[m + i - 1]
OBVIOUS

\* The first numbers.
LEMMA FirstOf ==
    ASSUME NEW q \in Seq(Int), NEW n \in 0..Len(q)
    PROVE  /\ SubSeq(q, 1, n) \in Seq(Int) /\ Len(SubSeq(q, 1, n)) = n
           /\ \A i \in 1..n : SubSeq(q, 1, n)[i] = q[i]
<1>1. /\ n \in Nat /\ n <= Len(q) /\ 1 \in Nat \ {0} /\ n - 1 + 1 = n
      /\ (IF 1 <= n THEN n - 1 + 1 ELSE 0) = n /\ \A i \in 1..n : 1 + i - 1 = i
  OBVIOUS
<1> QED BY <1>1, SubSeqNumbers

LEMMA ConcatNumbers ==
    ASSUME NEW a \in Seq(Int), NEW b \in Seq(Int)
    PROVE  /\ a \o b \in Seq(Int) /\ Len(a \o b) = Len(a) + Len(b)
           /\ \A i \in 1..Len(a) : (a \o b)[i] = a[i]
           /\ \A i \in 1..Len(b) : (a \o b)[Len(a) + i] = b[i]
OBVIOUS

\* The page of at most l numbers behind the first off: it is full, or the last one.
PageOf(q, off, l) == SubSeq(q, off + 1, Smaller(off + l, Len(q)))

LEMMA PageNumbers ==
    ASSUME NEW q \in Seq(Int), NEW off \in Nat, NEW l \in Nat \ {0}
    PROVE  /\ PageOf(q, off, l) \in Seq(Int) /\ Len(PageOf(q, off, l)) \in 0..l
           /\ \A i \in 1..Len(PageOf(q, off, l)) : PageOf(q, off, l)[i] = q[off + i]
           /\ \/ Len(PageOf(q, off, l)) = 0 /\ off >= Len(q)
              \/ off + Len(PageOf(q, off, l)) = Len(q)
              \/ off + Len(PageOf(q, off, l)) < Len(q) /\ Len(PageOf(q, off, l)) = l
<1> DEFINE page == PageOf(q, off, l)
<1>1. PICK n \in Nat : n = Len(q)
  OBVIOUS
<1>2. PICK e \in Nat : e = Smaller(off + l, n) /\ page = SubSeq(q, off + 1, e)
  <2>1. Smaller(off + l, n) \in Nat
    BY DEF Smaller
  <2> QED BY <1>1, <2>1 DEF PageOf
<1> HIDE DEF page
<1>3. e <= off + l /\ e <= n /\ (off < n => off < e) /\ (e < n => e = off + l)
  BY <1>2 DEF Smaller
<1>4. /\ page \in Seq(Int) /\ Len(page) = IF off + 1 <= e THEN e - (off + 1) + 1 ELSE 0
      /\ \A i \in 1..e - (off + 1) + 1 : page[i] = q[off + 1 + i - 1]
  <2>1. off + 1 \in Nat \ {0} /\ e <= Len(q)
    BY <1>1, <1>2, <1>3
  <2>2. /\ SubSeq(q, off + 1, e) \in Seq(Int)
        /\ Len(SubSeq(q, off + 1, e)) = IF off + 1 <= e THEN e - (off + 1) + 1 ELSE 0
        /\ \A i \in 1..e - (off + 1) + 1 : SubSeq(q, off + 1, e)[i] = q[off + 1 + i - 1]
    BY <2>1, SubSeqNumbers, SMTT(30)
  <2> QED BY <1>2, <2>2
<1>5. CASE off + 1 <= e
  <2>1. e - (off + 1) + 1 = e - off /\ \A i \in 1..e - off : off + 1 + i - 1 = off + i
    OBVIOUS
  <2>2. Len(page) = e - off
    BY <1>4, <1>5, <2>1
  <2>3. \A i \in 1..Len(page) : page[i] = q[off + i]
    BY <1>4, <2>1, <2>2
  <2>4. PICK k \in Nat \ {0} : k = e - off /\ off + k = e
    BY <1>5
  <2>5. k \in 0..l /\ (off + k = n \/ (off + k < n /\ k = l))
    <3>1. k <= l /\ off + k <= n
      BY <1>3, <2>4
    <3>2. CASE e = n
      BY <2>4, <3>1, <3>2
    <3>3. CASE e < n
      <4>1. e = off + l
        BY <1>3, <3>3
      <4>2. k = l
        BY <2>4, <4>1
      <4> QED BY <2>4, <3>3, <4>2
    <3> QED BY <1>3, <3>2, <3>3
  <2> QED BY <1>1, <1>4, <2>2, <2>3, <2>4, <2>5 DEF page
<1>6. CASE ~(off + 1 <= e)
  <2>1. Len(page) = 0
    BY <1>4, <1>6
  <2>2. off >= Len(q)
    BY <1>1, <1>3, <1>6
  <2>3. Len(page) \in 0..l /\ \A i \in 1..Len(page) : page[i] = q[off + i]
    BY <2>1
  <2> QED BY <1>4, <2>1, <2>2, <2>3 DEF page
<1> QED BY <1>5, <1>6

LEMMA NextMultiple ==
    ASSUME NEW a \in Nat, NEW b \in Nat \ {0}, a % b = 0
    PROVE  (a + b) % b = 0
<1>1. PICK p \in Int, q \in Int, r \in 0..b - 1 :
         r = (a + b) % b /\ a = b * p /\ a + b = b * q + r
  <2>1. ASSUME NEW n \in Nat
        PROVE  \E q \in Int, r \in 0..b - 1 : r = n % b /\ n = b * q + r
    <3>1. n \div b \in Int /\ n % b \in 0..b - 1
      OBVIOUS
    <3>2. n = b * (n \div b) + (n % b)
      OBVIOUS
    <3> QED BY <3>1, <3>2
  <2>2. PICK p \in Int, o \in 0..b - 1 : o = a % b /\ a = b * p + o
    BY <2>1
  <2>3. PICK q \in Int, r \in 0..b - 1 : r = (a + b) % b /\ a + b = b * q + r
    <3>1. a + b \in Nat
      OBVIOUS
    <3> QED BY <2>1, <3>1
  <2>4. o = 0
    BY <2>2
  <2>5. b * p \in Int
    OBVIOUS
  <2>6. a = b * p
    BY <2>2, <2>4, <2>5
  <2> QED BY <2>3, <2>6
<1>2. r = b * (p + 1 - q)
  BY <1>1
<1>3. PICK x \in Int : x = p + 1 - q /\ r = b * x
  BY <1>2
<1>4. ~(x >= 1)
  <2>1. x >= 1 => b * x >= b
    OBVIOUS
  <2> QED BY <1>1, <1>3, <2>1
<1>5. ~(x <= -1)
  <2>1. x <= -1 => b * x <= -b
    OBVIOUS
  <2> QED BY <1>1, <1>3, <2>1
<1>6. x = 0
  BY <1>4, <1>5
<1> QED BY <1>1, <1>3, <1>6

LEMMA FirstNumbers ==
    ASSUME NEW n \in Nat
    PROVE  IsFiniteSet(1..n) /\ Cardinality(1..n) = n
<1>1. IsFiniteSet(1..n) /\ Cardinality(1..n) = IF 1 > n THEN 0 ELSE n - 1 + 1
  BY FS_Interval
<1> QED BY <1>1

\* As many different entries of a sequence as it has are all of them.
LEMMA EnoughIsAll ==
    ASSUME NEW q \in Seq(Int), NEW r \in Seq(Int), Distinct(q), Entries(q) \subseteq Entries(r),
           Len(q) >= Len(r)
    PROVE  \A n \in 1..Len(r) : \E k \in 1..Len(q) : q[k] = r[n]
<1> DEFINE S == 1..Len(q)
           T == 1..Len(r)
           place == [k \in S |-> CHOOSE n \in T : r[n] = q[k]]
<1>1. \A k \in S : place[k] \in T /\ r[place[k]] = q[k]
  <2>1. \A k \in S : \E n \in T : r[n] = q[k]
    BY DEF Entries
  <2> QED BY <2>1
<1>2. place \in Injection(S, T)
  <2>1. place \in [S -> T]
    BY <1>1
  <2>2. \A j, k \in S : place[j] = place[k] => j = k
    BY <1>1 DEF Distinct
  <2> QED BY <2>1, <2>2 DEF Injection, IsInjective
<1>3. /\ IsFiniteSet(S) /\ IsFiniteSet(T)
      /\ Cardinality(S) = Len(q) /\ Cardinality(T) = Len(r)
  BY FirstNumbers
<1> HIDE DEF S, T, place
<1>4. Cardinality(S) <= Cardinality(T) /\ (Cardinality(S) = Cardinality(T) <=> place \in Surjection(S, T))
  BY <1>2, <1>3, FS_Injection
<1>5. place \in Surjection(S, T)
  BY <1>3, <1>4
<1>6. \A n \in T : \E k \in S : place[k] = n
  BY <1>5 DEF Surjection
<1> QED BY <1>1, <1>6 DEF S, T

\* A listing that lacks its nth record, and one with another record in front.
LEMMA WithoutNumbers ==
    ASSUME listing \in Seq(Int), NEW n \in 1..Len(listing)
    PROVE  /\ Without(n) \in Seq(Int) /\ Len(Without(n)) = Len(listing) - 1
           /\ \A i \in 1..n - 1 : Without(n)[i] = listing[i]
           /\ \A i \in n..Len(listing) - 1 : Without(n)[i] = listing[i + 1]
<1> DEFINE front == SubSeq(listing, 1, n - 1)
           back == SubSeq(listing, n + 1, Len(listing))
<1>1. PICK len \in Nat : len = Len(listing) /\ n \in 1..len
  OBVIOUS
<1>2. /\ front \in Seq(Int) /\ Len(front) = n - 1
      /\ \A i \in 1..n - 1 : front[i] = listing[i]
  <2>1. n - 1 \in 0..Len(listing)
    BY <1>1
  <2> QED BY <2>1, FirstOf
<1>3. /\ back \in Seq(Int) /\ Len(back) = len - n
      /\ \A i \in 1..len - n : back[i] = listing[n + i]
  <2>1. PICK m \in Nat \ {0} : m = n + 1 /\ len <= Len(listing) /\ back = SubSeq(listing, m, len)
    BY <1>1
  <2>2. /\ SubSeq(listing, m, len) \in Seq(Int)
        /\ Len(SubSeq(listing, m, len)) = IF m <= len THEN len - m + 1 ELSE 0
        /\ \A i \in 1..len - m + 1 : SubSeq(listing, m, len)[i] = listing[m + i - 1]
    BY <2>1, SubSeqNumbers
  <2>3. /\ (IF m <= len THEN len - m + 1 ELSE 0) = len - n /\ len - m + 1 = len - n
        /\ \A i \in 1..len - n : m + i - 1 = n + i
    BY <1>1, <2>1
  <2> HIDE DEF back
  <2>4. back \in Seq(Int) /\ Len(back) = len - n
    BY <2>1, <2>2, <2>3
  <2>5. \A i \in 1..len - n : back[i] = listing[m + i - 1]
    BY <2>1, <2>2, <2>3
  <2> QED BY <2>3, <2>4, <2>5
<1> HIDE DEF front, back
<1>4. /\ front \o back \in Seq(Int) /\ Len(front \o back) = Len(front) + Len(back)
      /\ \A i \in 1..Len(front) : (front \o back)[i] = front[i]
      /\ \A i \in 1..Len(back) : (front \o back)[Len(front) + i] = back[i]
  BY <1>2, <1>3, ConcatNumbers
<1>5. Without(n) = front \o back
  BY DEF Without, front, back
<1>6. ASSUME NEW i \in n..len - 1 PROVE (front \o back)[i] = listing[i + 1]
  <2>1. i - n + 1 \in 1..len - n /\ (n - 1) + (i - n + 1) = i /\ n + (i - n + 1) = i + 1
    BY <1>1
  <2>2. (front \o back)[(n - 1) + (i - n + 1)] = back[i - n + 1]
    BY <1>2, <1>3, <1>4, <2>1
  <2> QED BY <1>3, <2>1, <2>2
<1>7. Len(front \o back) = len - 1 /\ \A i \in 1..n - 1 : (front \o back)[i] = listing[i]
  <2>1. Len(front) + Len(back) = len - 1
    BY <1>1, <1>2, <1>3
  <2> QED BY <1>2, <1>4, <2>1
<1> QED BY <1>1, <1>4, <1>5, <1>6, <1>7

\* It has the other records, each once.
LEMMA WithoutEntries ==
    ASSUME listing \in Seq(Int), Distinct(listing), NEW n \in 1..Len(listing)
    PROVE  /\ Without(n) \in Seq(Int) /\ Distinct(Without(n))
           /\ Entries(Without(n)) = Entries(listing) \ {listing[n]}
<1>1. PICK len \in Nat : len = Len(listing) /\ n \in 1..len
  OBVIOUS
<1>2. PICK rest \in Seq(Int) : /\ rest = Without(n) /\ Len(rest) = len - 1
                               /\ \A i \in 1..n - 1 : rest[i] = listing[i]
                               /\ \A i \in n..len - 1 : rest[i] = listing[i + 1]
  BY <1>1, WithoutNumbers
<1> DEFINE at(i) == IF i < n THEN i ELSE i + 1
<1>3. ASSUME NEW i \in 1..len - 1 PROVE at(i) \in 1..len /\ at(i) # n /\ rest[i] = listing[at(i)]
  <2>1. CASE i < n
    <3>1. i \in 1..n - 1 /\ i \in 1..len /\ i # n
      BY <1>1, <2>1
    <3> QED BY <1>2, <2>1, <3>1
  <2>2. CASE ~(i < n)
    <3>1. i \in n..len - 1
      BY <1>1, <2>2
    <3> QED BY <1>1, <1>2, <2>2, <3>1
  <2> QED BY <2>1, <2>2
<1>4. \A i, j \in 1..len - 1 : at(i) = at(j) => i = j
  OBVIOUS
<1>5. ASSUME NEW m \in 1..len, m # n PROVE \E i \in 1..len - 1 : at(i) = m
  <2>1. CASE m < n
    <3>1. m \in 1..len - 1 /\ at(m) = m
      BY <1>1, <2>1
    <3> QED BY <3>1
  <2>2. CASE m > n
    <3>1. m - 1 \in 1..len - 1 /\ at(m - 1) = m
      BY <1>1, <2>2
    <3> QED BY <3>1
  <2> QED BY <1>1, <1>5, <2>1, <2>2
<1> HIDE DEF at
<1>6. Distinct(rest)
  <2>1. ASSUME NEW i \in 1..len - 1, NEW j \in 1..len - 1, rest[i] = rest[j] PROVE i = j
    <3>1. listing[at(i)] = listing[at(j)] /\ at(i) \in 1..len /\ at(j) \in 1..len
      BY <1>3, <2>1
    <3>2. at(i) = at(j)
      BY <1>1, <3>1 DEF Distinct
    <3> QED BY <1>4, <3>2
  <2> QED BY <1>2, <2>1 DEF Distinct
<1>7. ASSUME NEW i \in 1..len - 1 PROVE rest[i] \in Entries(listing) \ {listing[n]}
  BY <1>1, <1>3 DEF Distinct, Entries
<1>8. ASSUME NEW m \in 1..len, m # n PROVE listing[m] \in Entries(rest)
  <2>1. PICK i \in 1..len - 1 : at(i) = m
    BY <1>5, <1>8
  <2>2. rest[i] = listing[m] /\ i \in 1..Len(rest)
    BY <1>2, <1>3, <2>1
  <2> QED BY <2>2 DEF Entries
<1>9. Entries(rest) = Entries(listing) \ {listing[n]}
  <2>1. ASSUME NEW x \in Entries(rest) PROVE x \in Entries(listing) \ {listing[n]}
    <3>1. PICK i \in 1..len - 1 : x = rest[i]
      BY <1>2 DEF Entries
    <3> QED BY <1>7, <3>1
  <2>2. ASSUME NEW x \in Entries(listing) \ {listing[n]} PROVE x \in Entries(rest)
    <3>1. PICK m \in 1..len : x = listing[m]
      BY <1>1 DEF Entries
    <3> QED BY <1>8, <3>1
  <2> QED BY <2>1, <2>2
<1> QED BY <1>2, <1>6, <1>9

LEMMA InFront ==
    ASSUME NEW q \in Seq(Int), Distinct(q), NEW x \in Int, x \notin Entries(q)
    PROVE  /\ <<x>> \o q \in Seq(Int) /\ Distinct(<<x>> \o q)
           /\ Entries(<<x>> \o q) = Entries(q) \union {x}
<1>1. PICK n \in Nat : n = Len(q)
  OBVIOUS
<1>2. PICK r \in Seq(Int) : /\ r = <<x>> \o q /\ Len(r) = n + 1 /\ r[1] = x
                            /\ \A i \in 1..n : r[1 + i] = q[i]
  <2>1. PICK one \in Seq(Int) : one = <<x>> /\ Len(one) = 1 /\ one[1] = x
    <3>1. <<x>> \in Seq(Int)
      OBVIOUS
    <3>2. Len(<<x>>) = 1 /\ <<x>>[1] = x
      OBVIOUS
    <3> QED BY <3>1, <3>2, Zenon
  <2>2. /\ one \o q \in Seq(Int) /\ Len(one \o q) = Len(one) + Len(q)
        /\ \A i \in 1..Len(one) : (one \o q)[i] = one[i]
        /\ \A i \in 1..Len(q) : (one \o q)[Len(one) + i] = q[i]
    BY ConcatNumbers
  <2>3. 1 \in 1..Len(one) /\ Len(one) + Len(q) = n + 1
    BY <1>1, <2>1
  <2>4. PICK r \in Seq(Int) : r = one \o q /\ r = <<x>> \o q
    BY <2>1, <2>2
  <2>5. Len(r) = n + 1 /\ r[1] = x
    BY <2>1, <2>2, <2>3, <2>4
  <2>6. \A i \in 1..n : r[1 + i] = q[i]
    BY <1>1, <2>1, <2>2, <2>4
  <2> QED BY <2>4, <2>5, <2>6
<1>3. \A i \in 2..n + 1 : i - 1 \in 1..n /\ r[i] = q[i - 1]
  <2>1. \A i \in 2..n + 1 : i - 1 \in 1..n /\ 1 + (i - 1) = i
    BY <1>1
  <2> QED BY <1>2, <2>1
<1>4. \A i \in 1..n + 1 : i = 1 \/ i \in 2..n + 1
  BY <1>1
<1>5. Distinct(r)
  <2> SUFFICES ASSUME NEW i \in 1..n + 1, NEW j \in 1..n + 1, r[i] = r[j] PROVE i = j
    BY <1>2 DEF Distinct
  <2>1. CASE i = 1 /\ j \in 2..n + 1
    BY <1>1, <1>2, <1>3, <2>1 DEF Entries
  <2>2. CASE j = 1 /\ i \in 2..n + 1
    BY <1>1, <1>2, <1>3, <2>2 DEF Entries
  <2>3. CASE i \in 2..n + 1 /\ j \in 2..n + 1
    <3>1. i - 1 = j - 1
      BY <1>1, <1>3, <2>3 DEF Distinct
    <3> QED BY <3>1
  <2> QED BY <1>4, <2>1, <2>2, <2>3
<1>6. Entries(r) = Entries(q) \union {x}
  <2>1. ASSUME NEW i \in 1..n PROVE q[i] \in Entries(r)
    <3>1. 1 + i \in 1..n + 1
      BY <1>1
    <3> QED BY <1>2, <3>1 DEF Entries
  <2>2. x \in Entries(r)
    BY <1>1, <1>2 DEF Entries
  <2>3. ASSUME NEW i \in 1..n + 1 PROVE r[i] \in Entries(q) \union {x}
    BY <1>1, <1>2, <1>3, <1>4 DEF Entries
  <2> QED BY <1>1, <1>2, <2>1, <2>2, <2>3 DEF Entries
<1> QED BY <1>2, <1>5, <1>6

-----------------------------------------------------------------------------
(* What the steps are made of                                              *)

LEMMA SavingIsNotIdle == NoSave.state = "idle" /\ NoSave \notin Saving
<1>1. NoSave.state = "idle"
  BY DEF NoSave
<1>2. \A save \in Saving : save.state # "idle"
  BY DEF Saving
<1> QED BY <1>1, <1>2

\* The numbers in a call.
LEMMA SavingNumbers ==
    ASSUME NEW save \in Saving
    PROVE  /\ save.limit \in Nat /\ save.offset \in Nat /\ save.requested \in Nat
           /\ save.got \in Seq(Int) /\ Len(save.got) \in Nat
           /\ PageSize[save.adapter] \in Nat \ {0}
           /\ save.attempt \in 0..Attempts - 1 /\ save.slept \in 0..Delay
           /\ 0 \in 0..Attempts - 1 /\ 0 \in 0..Delay
<1>1. /\ save.limit \in Nat /\ save.offset \in Nat /\ save.requested \in Requested
      /\ save.got \in Seq(Int) /\ save.adapter \in Adapter
      /\ save.attempt \in 0..Attempts - 1 /\ save.slept \in 0..Delay
  BY DEF Saving
<1>2. save.requested \in Nat /\ PageSize[save.adapter] \in Nat \ {0}
  BY <1>1, SourcesAssumption
<1>3. 0 \in 0..Attempts - 1 /\ 0 \in 0..Delay
  BY SourcesAssumption
<1>4. save.limit \in Nat /\ save.offset \in Nat /\ Len(save.got) \in Nat
  BY <1>1
<1> QED BY <1>1, <1>2, <1>3, <1>4

\* The records that the steps make of a call.
LEMMA SavingUpdates ==
    ASSUME NEW save \in Saving
    PROVE  /\ \A state \in {"pause", "wait"}, limit \in Nat, attempt \in 0..Attempts - 1 :
                0 \in 0..Delay =>
                [save EXCEPT !.state = state, !.limit = limit, !.attempt = attempt, !.slept = 0]
                    \in Saving
           /\ \A error \in {"provider", "value"} :
                [save EXCEPT !.state = "failed", !.error = error] \in Saving
           /\ \A attempt \in 0..Attempts - 1 : [save EXCEPT !.attempt = attempt] \in Saving
           /\ \A slept \in 0..Delay : [save EXCEPT !.slept = slept] \in Saving
BY Zenon DEF Saving

\* And those that a page makes of it.
LEMMA PageUpdates ==
    ASSUME NEW save \in Saving, NEW cut \in Cut, NEW got \in Seq(Int)
    PROVE  /\ \A error \in {"repeated"} :
                [save EXCEPT !.cut = cut, !.state = "failed", !.error = error, !.got = got] \in Saving
           /\ \A complete \in BOOLEAN :
                [save EXCEPT !.cut = cut, !.state = "saved", !.got = got, !.complete = complete]
                    \in Saving
           /\ \A offset \in Nat : 0 \in 0..Attempts - 1 =>
                [save EXCEPT !.cut = cut, !.state = "page", !.got = got, !.limit = 0, !.attempt = 0,
                             !.offset = offset] \in Saving
BY Zenon DEF Saving

\* A call at one of its steps runs.
LEMMA SaveRuns ==
    ASSUME SourcesInv, NEW s \in Save, saves[s].state # "idle"
    PROVE  saves[s] \in Saving /\ saves[s] # NoSave /\ SaveAgrees(saves[s])
BY SavingIsNotIdle DEF SourcesInv, SourceTypes

\* Every adapter names the record behind the offset.
LEMMA FirstRecordIsNext ==
    ASSUME SourcesInv, NEW s \in Save, saves[s].state = "wait"
    PROVE  FirstRecord(s) = saves[s].offset + 1
<1>1. saves[s] \in Saving /\ SaveAgrees(saves[s])
  BY SaveRuns
<1>2. saves[s].offset \in Nat /\ saves[s].limit \in Nat \ {0}
      /\ (saves[s].adapter = "wos_starter" => saves[s].offset % saves[s].limit = 0)
  BY <1>1, SavingNumbers DEF SaveAgrees, SaveGoesOn
<1>3. CASE saves[s].adapter = "wos_starter"
  <2>1. \A a \in Nat, b \in Nat \ {0} : a % b = 0 => (a \div b + 1 - 1) * b + 1 = a + 1
    OBVIOUS
  <2> QED BY <1>2, <1>3, <2>1 DEF FirstRecord
<1>4. CASE saves[s].adapter # "wos_starter"
  BY <1>4 DEF FirstRecord
<1> QED BY <1>3, <1>4

\* Call s takes a step and becomes save, which may mark a request or count a fault.
Becomes(s, save) ==
    /\ saves' = [saves EXCEPT ![s] = save]
    /\ UNCHANGED <<listing, index_built>>
    /\ source_faults' \in 0..MaxFaults /\ source_faults' >= source_faults
    /\ has_requested' \in BOOLEAN /\ age' \in 0..Delay /\ (~has_requested' => age' = Delay)

LEMMA QuietStep ==
    ASSUME SourcesInv, NEW s \in Save, NEW save, SaveGoes(s, save),
           UNCHANGED <<listing, has_requested, age, index_built, source_faults>>
    PROVE  Becomes(s, save)
BY DEF SourcesInv, SourceTypes, Becomes, SaveGoes

LEMMA CountedStep ==
    ASSUME SourcesInv, NEW s \in Save, NEW save, SaveGoes(s, save), Faulty,
           UNCHANGED <<listing, has_requested, age, index_built>>
    PROVE  Becomes(s, save)
<1>1. source_faults' \in 0..MaxFaults /\ source_faults' >= source_faults
  BY SourcesAssumption DEF SourcesInv, SourceTypes, Faulty
<1> QED BY <1>1 DEF SourcesInv, SourceTypes, Becomes, SaveGoes

LEMMA AskingStep ==
    ASSUME SourcesInv, NEW s \in Save, NEW save, SaveGoes(s, save), MarkRequested(s),
           age' = IF saves[s].adapter = "arxiv" THEN 0 ELSE age,
           UNCHANGED <<listing, index_built, source_faults>>
    PROVE  Becomes(s, save)
<1>1. has_requested' \in BOOLEAN
  BY Zenon DEF SourcesInv, SourceTypes, MarkRequested
<1>2. age' \in 0..Delay
  BY SourcesAssumption DEF SourcesInv, SourceTypes
<1>3. ~has_requested' => age' = Delay
  BY DEF SourcesInv, MarkRequested
<1> QED BY <1>1, <1>2, <1>3 DEF SourcesInv, SourceTypes, Becomes, SaveGoes

\* Such a step is safe when what the call becomes agrees with the listing.
LEMMA BecomesSafe ==
    ASSUME SourcesInv, NEW s \in Save, NEW save \in {NoSave} \union Saving, Becomes(s, save),
           save # NoSave => SaveAgrees(save)
    PROVE  SourcesInv'
<1>1. SourceTypes'
  BY DEF SourcesInv, SourceTypes, Becomes
<1>2. saves'[s] = save /\ \A t \in Save : t # s => saves'[t] = saves[t]
  BY DEF SourcesInv, SourceTypes, Becomes
<1>3. ASSUME NEW t \in Save, saves'[t] # NoSave PROVE SaveAgrees(saves[t])'
  <2>1. CASE t = s
    <3>1. saves'[t] = save /\ listing' = listing /\ SaveAgrees(save)
      BY <1>2, <1>3, <2>1 DEF Becomes
    <3> QED BY <3>1, Zenon DEF SaveAgrees, SaveGoesOn, InOrder
  <2>2. CASE t # s
    <3>1. SaveAgrees(saves[t]) /\ saves'[t] = saves[t]
      BY <1>2, <1>3, <2>2 DEF SourcesInv
    <3>2. listing' = listing
      BY DEF Becomes
    <3> QED BY <3>1, <3>2, Zenon DEF SaveAgrees, SaveGoesOn, InOrder
  <2> QED BY <2>1, <2>2
<1>4. (~has_requested => age = Delay)' /\ Distinct(listing)'
  BY DEF SourcesInv, Becomes, Distinct
<1>5. (\A i \in 1..Len(listing) : listing[i] + source_faults > 0)'
  <2>1. listing' = listing /\ source_faults \in Nat /\ source_faults' \in Nat
        /\ source_faults' >= source_faults
    BY SourcesAssumption DEF SourcesInv, SourceTypes, Becomes
  <2>2. \A i \in 1..Len(listing) : listing[i] \in Int
    BY DEF SourcesInv, SourceTypes
  <2> QED BY <2>1, <2>2 DEF SourcesInv
<1> QED BY <1>1, <1>3, <1>4, <1>5 DEF SourcesInv

-----------------------------------------------------------------------------
(* The steps of a call                                                     *)

LEMMA StartCallSafe ==
    ASSUME SourcesInv, NEW s \in Save, StartCall(s)
    PROVE  SourcesInv'
<1>1. PICK a \in Adapter, requested \in Requested :
         saves' = [saves EXCEPT ![s] =
                [state |-> "page", adapter |-> a, requested |-> requested, limit |-> 0,
                 offset |-> 0, got |-> <<>>, attempt |-> 0, slept |-> 0, error |-> "none",
                 complete |-> FALSE, changes |-> {}, cut |-> "none"]]
  BY DEF StartCall
<1>2. PICK save : save =
                [state |-> "page", adapter |-> a, requested |-> requested, limit |-> 0,
                 offset |-> 0, got |-> <<>>, attempt |-> 0, slept |-> 0, error |-> "none",
                 complete |-> FALSE, changes |-> {}, cut |-> "none"]
  OBVIOUS
<1>3. save \in Saving
  <2>1. 0 \in 0..Delay /\ 0 \in 0..Attempts - 1 /\ <<>> \in Seq(Int)
    BY SourcesAssumption
  <2> QED BY <1>2, <2>1 DEF Saving, Change, Cut
<1>4. /\ save.got = <<>> /\ save.offset = 0 /\ save.error = "none" /\ save.state = "page"
      /\ save.adapter = a /\ save.complete = FALSE
  BY <1>2
<1>5. save.requested \in Nat /\ listing \in Seq(Int) /\ Len(listing) \in Nat /\ Len(<<>>) = 0
  BY <1>3, SavingNumbers DEF SourcesInv, SourceTypes
<1>6. SaveAgrees(save)
  <2>1. Distinct(save.got) /\ Entries(save.got) = {}
    BY <1>4, <1>5 DEF Distinct, Entries
  <2>2. 0 % PageSize[a] = 0
    <3>1. PageSize[a] \in Nat \ {0} /\ \A n \in Nat \ {0} : 0 % n = 0
      BY SourcesAssumption
    <3> QED BY <3>1
  <2> QED BY <1>4, <1>5, <2>1, <2>2 DEF SaveAgrees, SaveGoesOn, InOrder
<1>8. Becomes(s, save)
  BY <1>1, <1>2, QuietStep DEF StartCall, SaveGoes
<1> QED BY <1>3, <1>6, <1>8, BecomesSafe

LEMMA PageLimitFits ==
    ASSUME SourcesInv, NEW s \in Save, saves[s].state = "page"
    PROVE  /\ PageLimit(s) \in Nat \ {0}
           /\ saves[s].requested # 0 /\ Len(saves[s].got) < saves[s].requested =>
                /\ saves[s].offset + PageLimit(s) <= saves[s].requested
                /\ \/ PageLimit(s) = PageSize[saves[s].adapter]
                   \/ saves[s].offset + PageLimit(s) = saves[s].requested
<1>1. saves[s] \in Saving /\ SaveAgrees(saves[s])
  BY SaveRuns
<1>2. /\ saves[s].offset \in Nat /\ saves[s].requested \in Nat /\ Len(saves[s].got) \in Nat
      /\ PageSize[saves[s].adapter] \in Nat \ {0}
  BY <1>1, SavingNumbers
<1>3. saves[s].offset = Len(saves[s].got)
      /\ (saves[s].requested # 0 => saves[s].offset < saves[s].requested)
  BY <1>1 DEF SaveAgrees, SaveGoesOn
<1>4. PICK offset \in Nat, requested \in Nat, size \in Nat \ {0} :
         /\ offset = saves[s].offset /\ requested = saves[s].requested
         /\ size = PageSize[saves[s].adapter] /\ offset = Len(saves[s].got)
         /\ requested # 0 => offset < requested
  BY <1>2, <1>3
<1>5. PageLimit(s) = IF requested = 0 THEN 1
                     ELSE IF size < requested - offset THEN size ELSE requested - offset
  BY <1>4, Zenon DEF PageLimit, Smaller
<1>6. PICK limit : limit = PageLimit(s)
  OBVIOUS
<1>7. /\ limit \in Nat \ {0}
      /\ requested # 0 => offset + limit <= requested /\ (limit = size \/ offset + limit = requested)
  BY <1>4, <1>5, <1>6
<1> QED BY <1>4, <1>6, <1>7

\* A call that asks, at once or after a pause.
LEMMA AskingAgrees ==
    ASSUME SourcesInv, NEW s \in Save, saves[s].state \in {"page", "pause"},
           NEW limit \in Nat \ {0}, NEW state \in {"pause", "wait"},
           saves[s].requested # 0 => /\ saves[s].offset + limit <= saves[s].requested
                                     /\ \/ limit = PageSize[saves[s].adapter]
                                        \/ saves[s].offset + limit = saves[s].requested,
           saves[s].adapter = "wos_starter" => saves[s].offset % limit = 0,
           NEW attempt \in 0..Attempts - 1,
           NEW save, save = [saves[s] EXCEPT !.state = state, !.limit = limit,
                                             !.attempt = attempt, !.slept = 0]
    PROVE  save \in Saving /\ SaveAgrees(save)
<1>1. saves[s] \in Saving /\ SaveAgrees(saves[s])
  BY SaveRuns
<1>2. save \in Saving
  BY <1>1, SavingUpdates, SavingNumbers
<1>3. /\ save.state = state /\ save.limit = limit /\ save.offset = saves[s].offset
      /\ save.got = saves[s].got /\ save.error = saves[s].error
      /\ save.requested = saves[s].requested /\ save.adapter = saves[s].adapter
      /\ save.changes = saves[s].changes /\ save.cut = saves[s].cut
      /\ save.complete = saves[s].complete
  BY <1>1, Zenon DEF Saving
<1>4. SaveGoesOn(save)
  BY <1>1, <1>3 DEF SaveAgrees, SaveGoesOn
<1>5. save.changes = {} => InOrder(save)
  BY <1>1, <1>3 DEF SaveAgrees, InOrder
<1> QED BY <1>1, <1>2, <1>3, <1>4, <1>5 DEF SaveAgrees

LEMMA AskPageSafe ==
    ASSUME SourcesInv, NEW s \in Save, AskPage(s)
    PROVE  SourcesInv'
<1>1. saves[s].state = "page" /\ saves[s] \in Saving /\ SaveAgrees(saves[s])
  BY SaveRuns DEF AskPage
<1>2. UNCHANGED <<listing, index_built, source_faults>>
  BY DEF AskPage
<1>3. CASE Misaligned(s)
  <2>1. PICK save : save = [saves[s] EXCEPT !.state = "failed", !.error = "value"]
    OBVIOUS
  <2>2. /\ save.state = "failed" /\ save.error = "value" /\ save.offset = saves[s].offset
        /\ save.got = saves[s].got /\ save.requested = saves[s].requested
        /\ save.adapter = saves[s].adapter /\ save.changes = saves[s].changes
        /\ save.cut = saves[s].cut
    BY <1>1, <2>1, Zenon DEF Saving
  <2>3. save \in Saving
    BY <1>1, <2>1, SavingUpdates
  <2>4. SaveGoes(s, save) /\ UNCHANGED <<has_requested, age>>
    BY <1>3, <2>1 DEF AskPage, Fails
  <2>5. Becomes(s, save)
    BY <1>2, <2>4, QuietStep
  <2>6. ASSUME save.cut = "none"
        PROVE  saves[s].requested - Len(saves[s].got) < PageSize[saves[s].adapter]
    <3>1. /\ saves[s].adapter = "wos_starter" /\ saves[s].requested # 0
          /\ saves[s].offset % PageLimit(s) # 0
      BY <1>3 DEF Misaligned
    <3>2. /\ saves[s].offset % PageSize[saves[s].adapter] = 0 /\ saves[s].offset = Len(saves[s].got)
      BY <1>1, <2>2, <2>6, <3>1 DEF SaveAgrees, SaveGoesOn
    <3>3. PageLimit(s) # PageSize[saves[s].adapter]
      BY <3>1, <3>2
    <3>4. /\ Len(saves[s].got) \in Nat /\ saves[s].requested \in Nat
          /\ PageSize[saves[s].adapter] \in Nat
      BY <1>1, SavingNumbers
    <3> QED BY <3>1, <3>3, <3>4 DEF PageLimit, Smaller
  <2>7. SaveAgrees(save)
    BY <1>1, <1>3, <2>2, <2>6 DEF SaveAgrees, InOrder, Misaligned
  <2> QED BY <1>2, <2>3, <2>5, <2>7, BecomesSafe
<1>4. CASE ~Misaligned(s)
  <2>1. /\ PageLimit(s) \in Nat \ {0}
        /\ saves[s].requested # 0 => /\ saves[s].offset + PageLimit(s) <= saves[s].requested
                                     /\ \/ PageLimit(s) = PageSize[saves[s].adapter]
                                        \/ saves[s].offset + PageLimit(s) = saves[s].requested
        /\ saves[s].adapter = "wos_starter" => saves[s].offset % PageLimit(s) = 0
    <3>1. 0 % 1 = 0
      OBVIOUS
    <3>2. /\ saves[s].offset = Len(saves[s].got) /\ saves[s].offset <= saves[s].requested
          /\ saves[s].requested # 0 => saves[s].offset < saves[s].requested
      BY <1>1 DEF SaveAgrees, SaveGoesOn
    <3>3. saves[s].offset \in Nat /\ saves[s].requested \in Nat
      BY <1>1, SavingNumbers
    <3>4. saves[s].requested = 0 => PageLimit(s) = 1 /\ saves[s].offset = 0
      BY <3>2, <3>3 DEF PageLimit
    <3>5. /\ PageLimit(s) \in Nat \ {0}
          /\ saves[s].requested # 0 => /\ saves[s].offset + PageLimit(s) <= saves[s].requested
                                       /\ \/ PageLimit(s) = PageSize[saves[s].adapter]
                                          \/ saves[s].offset + PageLimit(s) = saves[s].requested
      BY <1>1, <3>2, PageLimitFits
    <3> QED BY <1>4, <3>1, <3>4, <3>5 DEF Misaligned
  <2>2. saves[s].attempt \in 0..Attempts - 1 /\ 0 \in 0..Attempts - 1
    BY <1>1, SavingNumbers
  <2>3. CASE saves[s].adapter = "arxiv" /\ has_requested
    <3>1. PICK save : save = [saves[s] EXCEPT !.state = "pause", !.limit = PageLimit(s), !.slept = 0]
      OBVIOUS
    <3>2. SaveGoes(s, save) /\ UNCHANGED <<has_requested, age>>
      BY <1>4, <2>3, <3>1 DEF AskPage
    <3>3. save = [saves[s] EXCEPT !.state = "pause", !.limit = PageLimit(s),
                                  !.attempt = saves[s].attempt, !.slept = 0]
      BY <1>1, <3>1, Zenon DEF Saving
    <3>4. save \in Saving /\ SaveAgrees(save)
      BY <1>1, <2>1, <2>2, <3>3, AskingAgrees
    <3>5. Becomes(s, save)
      BY <1>2, <3>2, QuietStep
    <3> QED BY <1>2, <3>4, <3>5, BecomesSafe
  <2>4. CASE ~(saves[s].adapter = "arxiv" /\ has_requested)
    <3>1. PICK save : save = [saves[s] EXCEPT !.state = "wait", !.limit = PageLimit(s),
                                              !.attempt = 0, !.slept = 0]
      OBVIOUS
    <3>2. /\ SaveGoes(s, save) /\ MarkRequested(s)
          /\ age' = IF saves[s].adapter = "arxiv" THEN 0 ELSE age
      BY <1>4, <2>4, <3>1 DEF AskPage, Asks
    <3>3. save \in Saving /\ SaveAgrees(save)
      BY <1>1, <2>1, <2>2, <3>1, AskingAgrees
    <3>4. Becomes(s, save)
      BY <1>2, <3>2, AskingStep
    <3> QED BY <1>2, <3>3, <3>4, BecomesSafe
  <2> QED BY <2>3, <2>4
<1> QED BY <1>3, <1>4

LEMMA WakeSafe ==
    ASSUME SourcesInv, NEW s \in Save, Wake(s)
    PROVE  SourcesInv'
<1>1. saves[s].state = "pause" /\ saves[s] \in Saving /\ SaveAgrees(saves[s])
  BY SaveRuns DEF Wake
<1>2. PICK save : save = [saves[s] EXCEPT !.state = "wait", !.limit = saves[s].limit,
                                          !.attempt = 0, !.slept = 0]
  OBVIOUS
<1>3. /\ SaveGoes(s, save) /\ MarkRequested(s)
      /\ age' = IF saves[s].adapter = "arxiv" THEN 0 ELSE age
      /\ UNCHANGED <<listing, index_built, source_faults>>
  BY <1>2 DEF Wake, Asks
<1>4. /\ saves[s].limit \in Nat \ {0} /\ 0 \in 0..Attempts - 1
      /\ saves[s].requested # 0 => /\ saves[s].offset + saves[s].limit <= saves[s].requested
                                   /\ \/ saves[s].limit = PageSize[saves[s].adapter]
                                      \/ saves[s].offset + saves[s].limit = saves[s].requested
      /\ saves[s].adapter = "wos_starter" => saves[s].offset % saves[s].limit = 0
  BY <1>1, SavingNumbers DEF SaveAgrees, SaveGoesOn
<1>5. save \in Saving /\ SaveAgrees(save)
  BY <1>1, <1>2, <1>4, AskingAgrees
<1>6. Becomes(s, save)
  BY <1>3, AskingStep
<1> QED BY <1>3, <1>5, <1>6, BecomesSafe

LEMMA AnswerFailsSafe ==
    ASSUME SourcesInv, NEW s \in Save, AnswerFails(s)
    PROVE  SourcesInv'
<1>1. saves[s].state = "wait" /\ saves[s] \in Saving /\ SaveAgrees(saves[s])
  BY SaveRuns DEF AnswerFails
<1>2. Faulty /\ UNCHANGED <<listing, has_requested, age, index_built>>
  BY DEF AnswerFails
<1>3. CASE TriesAgain(s) /\ SaveGoes(s, [saves[s] EXCEPT !.attempt = @ + 1])
  <2>1. PICK save : save = [saves[s] EXCEPT !.attempt = saves[s].attempt + 1]
    OBVIOUS
  <2>2. SaveGoes(s, save)
    BY <1>3, <2>1
  <2>3. saves[s].attempt + 1 \in 0..Attempts - 1
    <3>1. saves[s].attempt \in 0..Attempts - 1
      BY <1>1, SavingNumbers
    <3> QED BY <1>3, <3>1, SourcesAssumption DEF TriesAgain
  <2>4. save \in Saving
    BY <1>1, <2>1, <2>3, SavingUpdates
  <2>5. /\ save.state = saves[s].state /\ save.limit = saves[s].limit
        /\ save.offset = saves[s].offset /\ save.got = saves[s].got
        /\ save.error = saves[s].error /\ save.requested = saves[s].requested
        /\ save.adapter = saves[s].adapter /\ save.changes = saves[s].changes
        /\ save.cut = saves[s].cut /\ save.complete = saves[s].complete
    BY <1>1, <2>1, Zenon DEF Saving
  <2>6. SaveAgrees(save)
    BY <1>1, <2>5 DEF SaveAgrees, SaveGoesOn, InOrder
  <2>7. Becomes(s, save)
    BY <1>2, <2>2, CountedStep
  <2> QED BY <2>4, <2>6, <2>7, BecomesSafe
<1>4. CASE Fails(s, "provider")
  <2>1. PICK save : save = [saves[s] EXCEPT !.state = "failed", !.error = "provider"]
    OBVIOUS
  <2>2. SaveGoes(s, save)
    BY <1>4, <2>1 DEF Fails
  <2>3. save \in Saving
    BY <1>1, <2>1, SavingUpdates
  <2>4. /\ save.state = "failed" /\ save.error = "provider" /\ save.offset = saves[s].offset
        /\ save.got = saves[s].got /\ save.requested = saves[s].requested
        /\ save.changes = saves[s].changes
    BY <1>1, <2>1, Zenon DEF Saving
  <2>5. SaveAgrees(save)
    BY <1>1, <2>4 DEF SaveAgrees, InOrder
  <2>6. Becomes(s, save)
    BY <1>2, <2>2, CountedStep
  <2> QED BY <2>3, <2>5, <2>6, BecomesSafe
<1> QED BY <1>3, <1>4 DEF AnswerFails

LEMMA EndCallSafe ==
    ASSUME SourcesInv, NEW s \in Save, EndCall(s)
    PROVE  SourcesInv'
<1>1. Becomes(s, NoSave)
  BY QuietStep DEF EndCall, SaveGoes
<1> QED BY <1>1, BecomesSafe

-----------------------------------------------------------------------------
(* A page                                                                  *)

\* The page that was asked for holds the records behind the offset, as many as the limit unless
\* it is the last.
LEMMA PageOfCall ==
    ASSUME SourcesInv, NEW s \in Save, saves[s].state = "wait"
    PROVE  /\ Page(s) \in Seq(Int) /\ Len(Page(s)) \in 0..saves[s].limit
           /\ \A i \in 1..Len(Page(s)) : Page(s)[i] = listing[saves[s].offset + i]
           /\ \/ Len(Page(s)) = 0 /\ saves[s].offset >= Len(listing)
              \/ saves[s].offset + Len(Page(s)) = Len(listing)
              \/ /\ saves[s].offset + Len(Page(s)) < Len(listing)
                 /\ Len(Page(s)) = saves[s].limit /\ saves[s].limit # 0
<1>1. saves[s] \in Saving /\ SaveAgrees(saves[s])
  BY SaveRuns
<1>2. PICK off \in Nat, l \in Nat \ {0} : off = saves[s].offset /\ l = saves[s].limit
  BY <1>1, SavingNumbers DEF SaveAgrees, SaveGoesOn
<1>3. PICK q \in Seq(Int) : q = listing
  BY DEF SourcesInv, SourceTypes
<1>4. Page(s) = PageOf(q, off, l)
  <2>1. FirstRecord(s) = off + 1
    BY <1>2, FirstRecordIsNext
  <2>2. Page(s) = SubSeq(q, off + 1, Smaller(off + 1 + l - 1, Len(q)))
    BY <1>2, <1>3, <2>1, Zenon DEF Page
  <2>3. off + 1 + l - 1 = off + l
    OBVIOUS
  <2> QED BY <2>2, <2>3, Zenon DEF PageOf
<1>5. PICK page : page = PageOf(q, off, l)
  OBVIOUS
<1>6. /\ page \in Seq(Int) /\ Len(page) \in 0..l
      /\ \A i \in 1..Len(page) : page[i] = q[off + i]
      /\ \/ Len(page) = 0 /\ off >= Len(q)
         \/ off + Len(page) = Len(q)
         \/ off + Len(page) < Len(q) /\ Len(page) = l
  <2>1. /\ PageOf(q, off, l) \in Seq(Int) /\ Len(PageOf(q, off, l)) \in 0..l
        /\ \A i \in 1..Len(PageOf(q, off, l)) : PageOf(q, off, l)[i] = q[off + i]
        /\ \/ Len(PageOf(q, off, l)) = 0 /\ off >= Len(q)
           \/ off + Len(PageOf(q, off, l)) = Len(q)
           \/ off + Len(PageOf(q, off, l)) < Len(q) /\ Len(PageOf(q, off, l)) = l
    BY PageNumbers, Zenon
  <2> QED BY <1>5, <2>1, Zenon
<1> QED BY <1>2, <1>3, <1>4, <1>5, <1>6

\* And so does what the provider sends of it: an empty page before the end, or a short one, is
\* on record.
LEMMA CutPage ==
    ASSUME SourcesInv, NEW s \in Save, saves[s].state = "wait", NEW n \in 0..Len(Page(s)),
           NEW records, records = SubSeq(Page(s), 1, n), NEW cut, cut = CutTo(s, n)
    PROVE  /\ records \in Seq(Int) /\ Len(records) = n /\ n \in Nat /\ n <= saves[s].limit
           /\ \A i \in 1..n : records[i] = listing[saves[s].offset + i]
           /\ n # 0 => saves[s].offset + n <= Len(listing)
           /\ cut \in Cut
           /\ n = 0 => saves[s].offset >= Len(listing) \/ cut = "empty"
           /\ cut = "none" => /\ saves[s].cut = "none"
                              /\ saves[s].offset + n < Len(listing) => n = saves[s].limit
<1>1. saves[s] \in Saving /\ saves[s].cut \in Cut /\ saves[s].limit \in Nat /\ saves[s].offset \in Nat
  BY SaveRuns DEF Saving
<1>2. PICK page \in Seq(Int), len \in Nat : page = Page(s) /\ len = Len(page)
  BY PageOfCall
<1>3. /\ len <= saves[s].limit /\ \A i \in 1..len : page[i] = listing[saves[s].offset + i]
      /\ len # 0 => saves[s].offset + len <= Len(listing)
      /\ len = 0 => saves[s].offset >= Len(listing)
      /\ saves[s].offset + len < Len(listing) => len = saves[s].limit
  <2>1. /\ len \in 0..saves[s].limit /\ \A i \in 1..len : page[i] = listing[saves[s].offset + i]
        /\ \/ len = 0 /\ saves[s].offset >= Len(listing)
           \/ saves[s].offset + len = Len(listing)
           \/ /\ saves[s].offset + len < Len(listing)
              /\ len = saves[s].limit /\ saves[s].limit # 0
    BY <1>2, PageOfCall
  <2>2. PICK off \in Nat, l \in Nat, m \in Nat :
           off = saves[s].offset /\ l = saves[s].limit /\ m = Len(listing)
    BY <1>1 DEF SourcesInv, SourceTypes
  <2>3. /\ len <= l /\ (len # 0 => off + len <= m) /\ (len = 0 => off >= m)
        /\ off + len < m => len = l
    <3>1. len \in 0..l /\ ((len = 0 /\ off >= m) \/ off + len = m \/ (off + len < m /\ len = l /\ l # 0))
      BY <2>1, <2>2, Zenon
    <3> QED BY <3>1
  <2> QED BY <2>1, <2>2, <2>3
<1>4. n \in 0..len /\ Len(listing) \in Nat
  BY <1>2 DEF SourcesInv, SourceTypes
<1>5. records \in Seq(Int) /\ Len(records) = n /\ \A i \in 1..n : records[i] = page[i]
  BY <1>2, <1>4, FirstOf
<1>6. cut = IF n = len THEN saves[s].cut ELSE IF n = 0 THEN "empty" ELSE "short"
  BY <1>2 DEF CutTo
<1>7. cut \in Cut /\ (n = 0 => saves[s].offset >= Len(listing) \/ cut = "empty")
  BY <1>1, <1>3, <1>6 DEF Cut
<1>8. cut = "none" => n = len /\ saves[s].cut = "none"
  BY <1>6
<1>9. /\ n \in Nat /\ n <= saves[s].limit /\ (n # 0 => saves[s].offset + n <= Len(listing))
      /\ \A i \in 1..n : i \in 1..len
  <2>1. n \in Nat /\ n <= len /\ \A i \in 1..n : i \in 1..len
    BY <1>2, <1>4
  <2>2. PICK off \in Nat, l \in Nat, m \in Nat :
           off = saves[s].offset /\ l = saves[s].limit /\ m = Len(listing)
    BY <1>1, <1>4
  <2>3. len <= l /\ (len # 0 => off + len <= m)
    BY <1>3, <2>2, Zenon
  <2>4. n <= l /\ (n # 0 => off + n <= m)
    <3>1. CASE n = 0
      BY <3>1
    <3>2. CASE n # 0
      <4>1. len # 0 /\ len <= l /\ off + len <= m
        BY <2>1, <2>3, <3>2
      <4> QED BY <2>1, <4>1
    <3> QED BY <3>1, <3>2
  <2> QED BY <2>1, <2>2, <2>4
<1> QED BY <1>3, <1>5, <1>7, <1>8, <1>9

\* The records of a page up to the first that a call has, and what it has with them.
Known(save) == {save.got[k] : k \in 1..Len(save.got)}
Fresh(save, records) == {i \in 1..Len(records) : \A j \in 1..i : records[j] \notin Known(save)}
With(save, records) == save.got \o SubSeq(records, 1, Cardinality(Fresh(save, records)))

\* They are the page's first, and none of them is there twice.
LEMMA NewRecords ==
    ASSUME SourcesInv, NEW s \in Save, saves[s].state = "wait",
           NEW records \in Seq(Int), NEW n \in Nat, Len(records) = n, n <= saves[s].limit,
           saves[s].requested # 0,
           \A i \in 1..n : records[i] = listing[saves[s].offset + i],
           n # 0 => saves[s].offset + n <= Len(listing)
    PROVE  /\ Cardinality(Fresh(saves[s], records)) \in 0..n
           /\ With(saves[s], records) \in Seq(Int)
           /\ Len(With(saves[s], records)) =
                saves[s].offset + Cardinality(Fresh(saves[s], records))
           /\ Len(With(saves[s], records)) <= saves[s].requested
           /\ Distinct(With(saves[s], records))
           /\ "withdrawn" \notin saves[s].changes =>
                Entries(With(saves[s], records)) \subseteq Entries(listing)
           /\ saves[s].changes = {} =>
                /\ Cardinality(Fresh(saves[s], records)) = n
                /\ Len(With(saves[s], records)) <= Len(listing)
                /\ \A i \in 1..Len(With(saves[s], records)) :
                      With(saves[s], records)[i] = listing[i]
<1>0. PICK had, new, got :
         /\ had = Known(saves[s]) /\ had = {saves[s].got[k] : k \in 1..Len(saves[s].got)}
         /\ new = Fresh(saves[s], records)
         /\ new = {i \in 1..n : \A j \in 1..i : records[j] \notin had}
         /\ got = With(saves[s], records)
         /\ got = saves[s].got \o SubSeq(records, 1, Cardinality(new))
  BY Zenon DEF Known, Fresh, With
<1>1. PICK save \in Saving : save = saves[s] /\ SaveAgrees(save) /\ SaveGoesOn(save)
  BY SaveRuns DEF SaveAgrees
<1>2. PICK off \in Nat, old \in Seq(Int), limit \in Nat, requested \in Nat :
         /\ off = save.offset /\ old = save.got /\ Len(old) = off
         /\ limit = save.limit /\ requested = save.requested /\ off + limit <= requested
  BY <1>1, SavingNumbers DEF SaveGoesOn
<1>3. /\ Len(listing) \in Nat /\ Distinct(listing) /\ \A i \in 1..Len(listing) : listing[i] \in Int
      /\ \A i \in 1..n : off + i \in 1..Len(listing) /\ records[i] = listing[off + i]
  <2>1. Len(listing) \in Nat /\ Distinct(listing) /\ \A i \in 1..Len(listing) : listing[i] \in Int
    BY DEF SourcesInv, SourceTypes
  <2>2. PICK len \in Nat : len = Len(listing) /\ (n # 0 => off + n <= len)
    BY <1>1, <1>2, <2>1
  <2>3. \A i \in 1..n : off + i \in 1..len
    BY <2>2
  <2>4. \A i \in 1..n : records[i] = listing[off + i]
    BY <1>1, <1>2
  <2> QED BY <2>1, <2>2, <2>3, <2>4
<1>4. had = {old[k] : k \in 1..off} /\ got = old \o SubSeq(records, 1, Cardinality(new))
  <2>1. saves[s].got = old /\ Len(saves[s].got) = off
    BY <1>1, <1>2
  <2>2. had = {saves[s].got[k] : k \in 1..Len(saves[s].got)}
    BY <1>0
  <2>3. had = {old[k] : k \in 1..off}
    BY <2>1, <2>2
  <2> QED BY <1>0, <2>1, <2>3, Zenon
<1>5. PICK c \in 0..n : /\ c = Cardinality(new) /\ IsFiniteSet(new) /\ new \subseteq 1..n
                        /\ c = n => new = 1..n
  <2>1. IsFiniteSet(1..n) /\ Cardinality(1..n) = n /\ new \in SUBSET (1..n)
    BY <1>0, FirstNumbers
  <2>2. /\ IsFiniteSet(new) /\ Cardinality(new) <= n /\ (n = Cardinality(new) => 1..n = new)
    BY <2>1, FS_Subset
  <2>3. Cardinality(new) \in Nat
    BY <2>2, FS_CardinalityType
  <2>4. Cardinality(new) \in 0..n
    BY <2>2, <2>3
  <2> QED BY <2>1, <2>2, <2>4
\* The new records are the first of the page.
<1>6. ASSUME NEW k \in 1..c PROVE k \in new
  <2> SUFFICES ASSUME k \notin new PROVE FALSE
    OBVIOUS
  <2>1. k - 1 \in Nat /\ k \in 1..n
    BY <1>5
  <2>2. PICK below : below = 1..k - 1 /\ IsFiniteSet(below) /\ Cardinality(below) = k - 1
    BY <2>1, FirstNumbers
  <2>3. ASSUME NEW i \in new PROVE i \in 1..k - 1
    <3>1. i \in 1..n /\ \A j \in 1..i : records[j] \notin had
      BY <1>0, <2>3
    <3>2. ~(k <= i)
      <4> SUFFICES ASSUME k <= i PROVE FALSE
        OBVIOUS
      <4>1. \A j \in 1..k : j \in 1..i
        BY <2>1, <3>1
      <4> QED BY <1>0, <2>1, <3>1, <4>1
    <3> QED BY <2>1, <3>1, <3>2
  <2>4. Cardinality(new) <= k - 1
    <3>1. new \in SUBSET below
      BY <2>2, <2>3
    <3>2. Cardinality(new) <= Cardinality(below)
      BY <2>2, <3>1, FS_Subset
    <3>3. Cardinality(below) = k - 1
      BY <2>2
    <3> QED BY <3>2, <3>3
  <2> QED BY <1>5, <2>1, <2>4
<1>7. ASSUME NEW k \in 1..c PROVE k \in 1..n /\ records[k] \notin had
  <2>1. k \in 1..n /\ k \in 1..k
    BY <1>5
  <2> QED BY <1>0, <1>6, <2>1
<1>8. /\ got \in Seq(Int) /\ Len(got) = off + c
      /\ \A i \in 1..off : got[i] = old[i]
      /\ \A k \in 1..c : got[off + k] = records[k]
  <2>1. PICK first \in Seq(Int) : /\ first = SubSeq(records, 1, c) /\ Len(first) = c
                                  /\ \A k \in 1..c : first[k] = records[k]
    <3>1. c \in 0..Len(records)
      BY <1>5
    <3> QED BY <3>1, FirstOf
  <2>2. got = old \o first
    BY <1>4, <1>5, <2>1
  <2>3. /\ old \o first \in Seq(Int) /\ Len(old \o first) = Len(old) + Len(first)
        /\ \A i \in 1..Len(old) : (old \o first)[i] = old[i]
        /\ \A i \in 1..Len(first) : (old \o first)[Len(old) + i] = first[i]
    BY ConcatNumbers
  <2> QED BY <1>2, <2>1, <2>2, <2>3
<1>9. ASSUME NEW i \in 1..off + c, ~(i \in 1..off)
      PROVE  /\ i - off \in 1..c /\ off + (i - off) = i
             /\ got[i] = records[i - off] /\ got[i] = listing[i]
             /\ got[i] \notin had /\ i \in 1..Len(listing)
  <2>1. i - off \in 1..c /\ off + (i - off) = i
    <3>1. c \in Nat
      BY <1>5
    <3> QED BY <1>9, <3>1
  <2>2. /\ got[off + (i - off)] = records[i - off]
        /\ i - off \in 1..n /\ records[i - off] \notin had
    BY <1>7, <1>8, <2>1
  <2>3. records[i - off] = listing[off + (i - off)] /\ off + (i - off) \in 1..Len(listing)
    BY <1>3, <2>2
  <2>4. PICK k \in 1..c : k = i - off /\ off + k = i
    BY <2>1
  <2> QED BY <2>2, <2>3, <2>4
<1>10. ASSUME NEW i \in 1..off PROVE got[i] = old[i] /\ got[i] \in had
  BY <1>4, <1>8
<1>11. Distinct(got)
  <2> SUFFICES ASSUME NEW i \in 1..Len(got), NEW j \in 1..Len(got), got[i] = got[j] PROVE i = j
    BY Zenon DEF Distinct
  <2>0. i \in 1..off + c /\ j \in 1..off + c
    BY <1>8
  <2>1. CASE i \in 1..off /\ j \in 1..off
    <3>1. old[i] = old[j] /\ Distinct(old)
      BY <1>1, <1>2, <1>10, <2>1 DEF SaveAgrees
    <3> QED BY <1>2, <2>1, <3>1 DEF Distinct
  <2>2. CASE ~(i \in 1..off) /\ ~(j \in 1..off)
    <3>1. i \in 1..Len(listing) /\ j \in 1..Len(listing) /\ listing[i] = listing[j]
      BY <1>9, <2>0, <2>2
    <3> QED BY <1>3, <3>1 DEF Distinct
  <2>3. CASE i \in 1..off /\ ~(j \in 1..off)
    BY <1>9, <1>10, <2>0, <2>3
  <2>4. CASE ~(i \in 1..off) /\ j \in 1..off
    BY <1>9, <1>10, <2>0, <2>4
  <2> QED BY <2>1, <2>2, <2>3, <2>4
<1>12. ASSUME "withdrawn" \notin save.changes PROVE Entries(got) \subseteq Entries(listing)
  <2> SUFFICES ASSUME NEW i \in 1..off + c PROVE got[i] \in Entries(listing)
    <3>1. Len(got) = off + c
      BY <1>8
    <3> QED BY <3>1, Zenon DEF Entries
  <2>1. CASE i \in 1..off
    <3>1. Entries(old) \subseteq Entries(listing)
      BY <1>1, <1>2, <1>12 DEF SaveAgrees
    <3>2. old[i] \in Entries(old)
      BY <1>2, <2>1 DEF Entries
    <3> QED BY <1>10, <2>1, <3>1, <3>2
  <2>2. CASE ~(i \in 1..off)
    BY <1>9, <2>2 DEF Entries
  <2> QED BY <2>1, <2>2
<1>13. ASSUME save.changes = {}
       PROVE  c = n /\ Len(got) <= Len(listing) /\ \A i \in 1..Len(got) : got[i] = listing[i]
  <2>1. /\ off <= Len(listing)
        /\ \A k \in 1..off : old[k] = listing[k] /\ k \in 1..Len(listing)
    <3>1. off <= Len(listing) /\ \A k \in 1..off : old[k] = listing[k]
      BY <1>1, <1>2, <1>13 DEF SaveAgrees, InOrder
    <3> QED BY <1>3, <3>1
  <2>2. ASSUME NEW i \in 1..n PROVE i \in new
    <3> SUFFICES ASSUME NEW j \in 1..i, NEW k \in 1..off, records[j] = old[k] PROVE FALSE
      <4>1. \A j \in 1..i, k \in 1..off : records[j] # old[k]
        OBVIOUS
      <4>2. \A j \in 1..i : records[j] \notin had
        BY <1>4, <4>1, Zenon
      <4>3. new = {l \in 1..n : \A j \in 1..l : records[j] \notin had}
        BY <1>0
      <4> QED BY <4>2, <4>3
    <3>1. j \in 1..n
      OBVIOUS
    <3>2. off + j \in 1..Len(listing) /\ listing[off + j] = listing[k] /\ k \in 1..Len(listing)
      BY <1>3, <2>1, <3>1
    <3>3. off + j = k
      BY <1>3, <3>2 DEF Distinct
    <3> QED BY <3>1, <3>3
  <2>3. new = 1..n /\ c = n
    <3>1. new = 1..n
      BY <1>5, <2>2
    <3> QED BY <1>5, <3>1, FirstNumbers
  <2>4. \A i \in 1..off + c : got[i] = listing[i]
    BY <1>9, <1>10, <2>1
  <2>5. off + c <= Len(listing)
    <3>1. c = 0 \/ off + c \in 1..Len(listing)
      BY <1>3, <2>3
    <3> QED BY <1>3, <2>1, <3>1
  <2> QED BY <1>8, <2>3, <2>4, <2>5
<1>14. Len(got) <= requested
  <2>1. n <= limit
    BY <1>1, <1>2
  <2>2. off + c <= requested
    BY <1>2, <1>5, <2>1
  <2> QED BY <1>8, <2>2
<1> QED BY <1>0, <1>1, <1>2, <1>5, <1>8, <1>11, <1>12, <1>13, <1>14

\* What is sent of a page is saved, and ends the call, or lets it go on behind a page that was
\* full or cut.
LEMMA SavePageSafe ==
    ASSUME SourcesInv, NEW s \in Save, saves[s].state = "wait", saves[s].requested # 0,
           NEW n \in 0..Len(Page(s)), SavePage(s, SubSeq(Page(s), 1, n), CutTo(s, n)),
           Becomes(s, saves'[s])
    PROVE  /\ SourcesInv'
           /\ saves'[s].state = "saved" /\ saves'[s].complete =>
                Len(saves'[s].got) >= Len(listing)
<1>1. PICK save \in Saving :
         save = saves[s] /\ SaveAgrees(save) /\ SaveGoesOn(save) /\ save.state = "wait"
  BY SaveRuns DEF SaveAgrees
<1>2. PICK records, cut : records = SubSeq(Page(s), 1, n) /\ cut = CutTo(s, n)
  OBVIOUS
<1> DEFINE new == Fresh(save, records)
           got == With(save, records)
           faulty == Cardinality(new) < Len(records)
           next == records # <<>> /\ HasNext(s, Len(records)) /\ Len(got) < save.requested
<1>3. /\ records \in Seq(Int) /\ Len(records) = n /\ n \in Nat /\ n <= save.limit
      /\ \A i \in 1..n : records[i] = listing[save.offset + i]
      /\ n # 0 => save.offset + n <= Len(listing)
      /\ cut \in Cut
      /\ n = 0 => save.offset >= Len(listing) \/ cut = "empty"
      /\ cut = "none" => /\ save.cut = "none"
                         /\ save.offset + n < Len(listing) => n = save.limit
  <2>1. /\ records \in Seq(Int) /\ Len(records) = n /\ n \in Nat /\ n <= saves[s].limit
        /\ \A i \in 1..n : records[i] = listing[saves[s].offset + i]
        /\ n # 0 => saves[s].offset + n <= Len(listing)
    BY <1>2, CutPage
  <2>2. /\ cut \in Cut
        /\ n = 0 => saves[s].offset >= Len(listing) \/ cut = "empty"
        /\ cut = "none" => /\ saves[s].cut = "none"
                           /\ saves[s].offset + n < Len(listing) => n = saves[s].limit
    BY <1>2, CutPage
  <2> QED BY <1>1, <2>1, <2>2
<1>4. /\ Cardinality(new) \in 0..n
      /\ got \in Seq(Int) /\ Len(got) = save.offset + Cardinality(new)
      /\ Len(got) <= save.requested /\ Distinct(got)
      /\ "withdrawn" \notin save.changes => Entries(got) \subseteq Entries(listing)
      /\ save.changes = {} => /\ Cardinality(new) = n /\ Len(got) <= Len(listing)
                              /\ \A i \in 1..Len(got) : got[i] = listing[i]
  <2>1. /\ n <= saves[s].limit /\ \A i \in 1..n : records[i] = listing[saves[s].offset + i]
        /\ n # 0 => saves[s].offset + n <= Len(listing)
    BY <1>1, <1>3
  <2>2. records \in Seq(Int) /\ n \in Nat /\ Len(records) = n
    BY <1>3
  <2> HIDE DEF new, got
  <2>3. /\ Cardinality(Fresh(saves[s], records)) \in 0..n
        /\ With(saves[s], records) \in Seq(Int)
        /\ Len(With(saves[s], records)) =
             saves[s].offset + Cardinality(Fresh(saves[s], records))
        /\ Len(With(saves[s], records)) <= saves[s].requested
        /\ Distinct(With(saves[s], records))
        /\ "withdrawn" \notin saves[s].changes =>
             Entries(With(saves[s], records)) \subseteq Entries(listing)
        /\ saves[s].changes = {} =>
             /\ Cardinality(Fresh(saves[s], records)) = n
             /\ Len(With(saves[s], records)) <= Len(listing)
             /\ \A i \in 1..Len(With(saves[s], records)) :
                   With(saves[s], records)[i] = listing[i]
    BY <2>1, <2>2, NewRecords
  <2> QED BY <1>1, <2>3 DEF new, got
<1>5. PICK off \in Nat, len \in Nat, limit \in Nat, requested \in Nat, size \in Nat \ {0} :
         /\ off = save.offset /\ len = Len(listing) /\ limit = save.limit
         /\ requested = save.requested /\ size = PageSize[save.adapter]
         /\ off = Len(save.got) /\ off <= requested
  <2>1. Len(listing) \in Nat
    BY DEF SourcesInv, SourceTypes
  <2>2. save.offset = Len(save.got) /\ save.offset <= save.requested
    BY <1>1 DEF SaveAgrees, SaveGoesOn
  <2> QED BY <2>1, <2>2, SavingNumbers
<1>6. SaveGoes(s,
        IF faulty THEN [save EXCEPT !.cut = cut, !.state = "failed", !.error = "repeated", !.got = got]
        ELSE IF next THEN [save EXCEPT !.cut = cut, !.state = "page", !.got = got, !.limit = 0,
                                       !.attempt = 0, !.offset = NextOffset(s, Len(records))]
        ELSE [save EXCEPT !.cut = cut, !.state = "saved", !.got = got,
                          !.complete = IsComplete(s, got)])
  <2>1. SavePage(s, records, cut)
    BY <1>2, Zenon
  <2> DEFINE base == [saves[s] EXCEPT !.cut = cut]
             fresh == {i \in 1..Len(records) :
                         \A j \in 1..i : records[j] \notin {base.got[k] : k \in 1..Len(base.got)}}
             all == base.got \o SubSeq(records, 1, Cardinality(fresh))
             more == records # <<>> /\ HasNext(s, Len(records)) /\ Len(all) < base.requested
  <2>2. SaveGoes(s,
          IF Cardinality(fresh) < Len(records)
            THEN [base EXCEPT !.state = "failed", !.error = "repeated", !.got = all]
          ELSE IF more THEN [base EXCEPT !.state = "page", !.got = all, !.limit = 0, !.attempt = 0,
                                         !.offset = NextOffset(s, Len(records))]
          ELSE [base EXCEPT !.state = "saved", !.got = all, !.complete = IsComplete(s, all)])
    BY <2>1, Zenon DEF SavePage
  <2>4. base.got = save.got /\ base.requested = save.requested
    BY <1>1, Zenon DEF Saving
  <2>5. fresh = new /\ all = got /\ (more <=> next)
    <3> HIDE DEF base
    <3>1. fresh = new
      BY <2>4, Zenon DEF Fresh, Known
    <3>2. all = got
      <4> HIDE DEF fresh
      <4> QED BY <2>4, <3>1, Zenon DEF With
    <3> HIDE DEF fresh, all, new, got
    <3> QED BY <2>4, <3>1, <3>2, Zenon
  <2>3. SaveGoes(s,
          IF faulty THEN [[saves[s] EXCEPT !.cut = cut] EXCEPT !.state = "failed",
                              !.error = "repeated", !.got = got]
          ELSE IF next THEN [[saves[s] EXCEPT !.cut = cut] EXCEPT !.state = "page", !.got = got,
                              !.limit = 0, !.attempt = 0, !.offset = NextOffset(s, Len(records))]
          ELSE [[saves[s] EXCEPT !.cut = cut] EXCEPT !.state = "saved", !.got = got,
                              !.complete = IsComplete(s, got)])
    <3> HIDE DEF fresh, all, more, new, got, next
    <3> QED BY <2>2, <2>5, Zenon DEF faulty
  <2> QED BY <1>1, <2>3, Zenon
<1> HIDE DEF new, got
<1>7. ASSUME NEW after \in Saving, SaveGoes(s, after), SaveAgrees(after),
             after.state = "saved" /\ after.complete => Len(after.got) >= Len(listing)
      PROVE  /\ SourcesInv'
             /\ saves'[s].state = "saved" /\ saves'[s].complete =>
                  Len(saves'[s].got) >= Len(listing)
  <2>1. saves'[s] = after
    BY <1>7 DEF SaveGoes, SourcesInv, SourceTypes
  <2>2. Becomes(s, after)
    BY <2>1
  <2> QED BY <1>7, <2>1, <2>2, BecomesSafe
<1>8. CASE faulty
  <2>1. PICK after : after = [save EXCEPT !.cut = cut, !.state = "failed", !.error = "repeated",
                                          !.got = got]
    OBVIOUS
  <2>2. SaveGoes(s, after)
    BY <1>6, <1>8, <2>1
  <2>6. after \in Saving
    BY <1>3, <1>4, <2>1, PageUpdates
  <2>3. /\ after.state = "failed" /\ after.error = "repeated" /\ after.got = got
        /\ after.offset = save.offset /\ after.requested = save.requested
        /\ after.changes = save.changes
    BY <2>1, Zenon DEF Saving
  <2>4. save.changes # {}
    BY <1>3, <1>4, <1>8
  <2>5. SaveAgrees(after)
    BY <1>1, <1>4, <2>3, <2>4 DEF SaveAgrees
  <2> QED BY <1>7, <2>2, <2>3, <2>5, <2>6
<1>9. ASSUME ~faulty
      PROVE  /\ Cardinality(new) = n /\ Len(got) = off + n
             /\ NextOffset(s, Len(records)) = off + n
             /\ next <=> n # 0 /\ off + n < len /\ off + n < requested
  <2>1. Cardinality(new) = n
    BY <1>3, <1>4, <1>9
  <2>2. Len(got) = off + n
    BY <1>4, <1>5, <2>1
  <2>3. NextOffset(s, Len(records)) = off + n
    BY <1>1, <1>3, <1>5 DEF NextOffset
  <2>4. records = <<>> <=> n = 0
    BY <1>3
  <2>5. HasNext(s, Len(records)) <=> off + n < len
    BY <1>5, <2>3 DEF HasNext
  <2> QED BY <1>5, <2>1, <2>2, <2>3, <2>4, <2>5
<1>10. CASE ~faulty /\ next
  <2>1. PICK after : after = [save EXCEPT !.cut = cut, !.state = "page", !.got = got, !.limit = 0,
                                          !.attempt = 0, !.offset = off + n]
    OBVIOUS
  <2>2. SaveGoes(s, after)
    BY <1>6, <1>9, <1>10, <2>1
  <2>3. after \in Saving
    <3>1. 0 \in 0..Attempts - 1 /\ off + n \in Nat
      BY <1>3, SourcesAssumption
    <3> QED BY <1>3, <1>4, <2>1, <3>1, PageUpdates
  <2>4. /\ after.state = "page" /\ after.got = got /\ after.offset = off + n
        /\ after.requested = requested /\ after.error = save.error
        /\ after.complete = save.complete /\ after.changes = save.changes /\ after.cut = cut
        /\ after.adapter = save.adapter
    BY <1>5, <2>1, Zenon DEF Saving
  <2>5. Len(got) = off + n /\ off + n < requested /\ off + n < len
    BY <1>9, <1>10
  <2>6. ASSUME after.adapter = "wos_starter", after.cut = "none"
        PROVE  (off + n) % size = 0
    <3>1. off % size = 0
      BY <1>1, <1>3, <1>5, <2>4, <2>6 DEF SaveGoesOn
    <3>2. n = limit
      BY <1>3, <1>5, <2>4, <2>5, <2>6
    <3>3. limit = size
      <4>1. limit = size \/ off + limit = requested
        BY <1>1, <1>5 DEF SaveGoesOn
      <4> QED BY <2>5, <3>2, <4>1
    <3> QED BY <3>1, <3>2, <3>3, NextMultiple
  <2>7. SaveGoesOn(after)
    BY <1>1, <1>5, <2>4, <2>5, <2>6 DEF SaveGoesOn
  <2>8. after.changes = {} => InOrder(after)
    BY <1>1, <1>4, <2>4 DEF SaveGoesOn, InOrder
  <2>9. SaveAgrees(after)
    BY <1>1, <1>4, <1>5, <2>4, <2>5, <2>7, <2>8 DEF SaveAgrees, SaveGoesOn
  <2> QED BY <1>7, <2>2, <2>3, <2>4, <2>9
<1>11. CASE ~faulty /\ ~next
  <2>1. PICK complete \in BOOLEAN : complete = IsComplete(s, got)
    <3>1. PICK is \in BOOLEAN : is <=> Len(got) >= Len(listing)
      OBVIOUS
    <3>2. IsComplete(s, got) \in BOOLEAN
      BY SMT DEF IsComplete
    <3> QED BY <3>2
  <2>2. PICK after : after = [save EXCEPT !.cut = cut, !.state = "saved", !.got = got,
                                          !.complete = complete]
    OBVIOUS
  <2>3. SaveGoes(s, after)
    BY <1>6, <1>11, <2>1, <2>2
  <2>4. after \in Saving
    BY <1>3, <1>4, <2>2, PageUpdates
  <2>5. /\ after.state = "saved" /\ after.got = got /\ after.offset = off
        /\ after.requested = requested /\ after.error = save.error
        /\ after.complete = complete /\ after.changes = save.changes /\ after.cut = cut
    BY <1>5, <2>2, Zenon DEF Saving
  <2>6. complete <=> off + n >= len
    BY <1>5, <1>9, <1>11, <2>1 DEF IsComplete
  <2>7. ASSUME save.changes = {}
        PROVE  Len(got) = Smaller(requested, len) \/ (cut = "empty" /\ ~complete)
    <3>1. Len(got) = off + n /\ off + n <= requested /\ off + n <= len
      BY <1>4, <1>5, <1>9, <1>11, <2>7
    <3>2. ~(off + n < len) \/ ~(off + n < requested) \/ n = 0
      BY <1>9, <1>11
    <3>3. CASE n = 0 /\ off + n < len
      <4>1. cut = "empty"
        BY <1>3, <1>5, <3>3
      <4> QED BY <2>6, <3>3, <4>1
    <3>4. CASE ~(off + n < len) \/ ~(off + n < requested)
      BY <3>1, <3>4 DEF Smaller
    <3> QED BY <3>2, <3>3, <3>4
  <2>8. after.changes = {} => InOrder(after)
    BY <1>1, <1>4, <1>5, <2>5, <2>7 DEF SaveGoesOn, InOrder
  <2>9. SaveAgrees(after)
    BY <1>1, <1>4, <1>5, <2>5, <2>8 DEF SaveAgrees, SaveGoesOn
  <2>10. complete => Len(got) >= Len(listing)
    BY <1>5, <1>9, <1>11, <2>6
  <2> QED BY <1>7, <2>3, <2>4, <2>5, <2>9, <2>10
<1> QED BY <1>8, <1>10, <1>11

LEMMA AnswerSafe ==
    ASSUME SourcesInv, NEW s \in Save, Answer(s)
    PROVE  /\ SourcesInv'
           /\ saves'[s].state = "saved" /\ saves'[s].complete =>
                Len(saves'[s].got) >= Len(listing)
<1>1. /\ saves[s].state = "wait" /\ saves[s] \in Saving
      /\ SaveAgrees(saves[s]) /\ SaveGoesOn(saves[s])
  BY SaveRuns DEF Answer, SaveAgrees
<1>2. UNCHANGED <<listing, has_requested, age, index_built>>
  BY DEF Answer
<1>3. CASE saves[s].requested = 0
  <2>1. PICK save : save = [saves[s] EXCEPT !.state = "saved"]
    OBVIOUS
  <2>2. SaveGoes(s, save) /\ UNCHANGED source_faults
    BY <1>3, <2>1 DEF Answer
  <2>3. save \in Saving
    BY <1>1, <2>1, Zenon DEF Saving
  <2>4. /\ save.state = "saved" /\ save.error = saves[s].error /\ save.offset = saves[s].offset
        /\ save.got = saves[s].got /\ save.requested = saves[s].requested
        /\ save.changes = saves[s].changes /\ save.complete = saves[s].complete
    BY <1>1, <2>1, Zenon DEF Saving
  <2>5. Len(saves[s].got) = Smaller(saves[s].requested, Len(listing))
    <3>1. Len(saves[s].got) = 0 /\ Len(listing) \in Nat
      BY <1>1, <1>3, SavingNumbers DEF SaveAgrees, SourcesInv, SourceTypes
    <3> QED BY <1>3, <3>1 DEF Smaller
  <2>6. SaveAgrees(save)
    BY <1>1, <2>4, <2>5 DEF SaveAgrees, SaveGoesOn, InOrder
  <2>7. Becomes(s, save)
    BY <1>2, <2>2, QuietStep
  <2>8. saves'[s] = save /\ ~save.complete
    BY <1>1, <2>2, <2>4 DEF SaveGoes, SaveGoesOn, SourcesInv, SourceTypes
  <2> QED BY <2>3, <2>6, <2>7, <2>8, BecomesSafe
<1>4. CASE saves[s].requested # 0
  <2>1. PICK n \in 0..Len(Page(s)) :
           /\ UNCHANGED source_faults \/ Faulty
           /\ SavePage(s, SubSeq(Page(s), 1, n), CutTo(s, n))
    BY <1>4, Zenon DEF Answer
  <2>2. SaveGoes(s, saves'[s])
    <3>1. \A save : saves' = [saves EXCEPT ![s] = save] => saves'[s] = save
      BY DEF SourcesInv, SourceTypes
    <3> QED BY <2>1, <3>1 DEF SavePage, SaveGoes
  <2>3. Becomes(s, saves'[s])
    BY <1>2, <2>1, <2>2, QuietStep, CountedStep
  <2> QED BY <1>1, <1>4, <2>1, <2>3, SavePageSafe
<1> QED BY <1>3, <1>4

-----------------------------------------------------------------------------
(* The world                                                               *)

\* The listing that comes of a change: its records are those of before, but for one that was
\* added or withdrawn.
LEMMA ListingDrifts ==
    ASSUME SourcesInv, NEW change \in Change, NEW n \in 1..Len(listing) + 1,
           (change = "added") = (n = Len(listing) + 1),
           NEW after, after = CASE change = "added" -> <<0 - source_faults>> \o listing
                                [] change = "moved" -> <<listing[n]>> \o Without(n)
                                [] change = "withdrawn" -> Without(n)
    PROVE  /\ after \in Seq(Int) /\ Distinct(after)
           /\ Entries(after) \subseteq Entries(listing) \union {0 - source_faults}
           /\ change # "withdrawn" => Entries(listing) \subseteq Entries(after)
<1>1. /\ listing \in Seq(Int) /\ Distinct(listing) /\ source_faults \in Nat
      /\ \A i \in 1..Len(listing) : listing[i] \in Int /\ listing[i] + source_faults > 0
  <2>1. listing \in Seq(Int) /\ Distinct(listing) /\ source_faults \in Nat
    BY SourcesAssumption DEF SourcesInv, SourceTypes
  <2>2. \A i \in 1..Len(listing) : listing[i] \in Int
    BY <2>1
  <2> QED BY <2>1, <2>2 DEF SourcesInv
<1>2. CASE change = "added"
  <2>1. after = <<0 - source_faults>> \o listing /\ 0 - source_faults \in Int
    BY <1>1, <1>2
  <2>2. 0 - source_faults \notin Entries(listing)
    <3>1. \A i \in 1..Len(listing) : listing[i] # 0 - source_faults
      BY <1>1
    <3> QED BY <3>1 DEF Entries
  <2> QED BY <1>1, <2>1, <2>2, InFront
<1>3. CASE change # "added"
  <2>1. n \in 1..Len(listing) /\ change \in {"moved", "withdrawn"}
    <3>1. n # Len(listing) + 1 /\ Len(listing) \in Nat
      BY <1>1, <1>3
    <3> QED BY <1>3, <3>1 DEF Change
  <2>2. /\ Without(n) \in Seq(Int) /\ Distinct(Without(n))
        /\ Entries(Without(n)) = Entries(listing) \ {listing[n]}
    BY <1>1, <2>1, WithoutEntries
  <2>3. listing[n] \in Entries(listing) /\ listing[n] \in Int
    BY <1>1, <2>1 DEF Entries
  <2>4. CASE change = "withdrawn"
    <3>1. after = Without(n)
      BY <2>4
    <3> QED BY <2>2, <2>4, <3>1
  <2>5. CASE change = "moved"
    <3>1. PICK x \in Int, rest \in Seq(Int) : x = listing[n] /\ rest = Without(n)
      BY <2>2, <2>3
    <3>2. /\ after = <<x>> \o rest /\ Distinct(rest) /\ x \notin Entries(rest)
          /\ Entries(rest) \union {x} = Entries(listing)
      BY <2>2, <2>3, <2>5, <3>1
    <3>3. after \in Seq(Int) /\ Distinct(after) /\ Entries(after) = Entries(rest) \union {x}
      BY <3>2, InFront
    <3> QED BY <3>2, <3>3
  <2> QED BY <2>1, <2>4, <2>5
<1> QED BY <1>2, <1>3

LEMMA DriftSafe ==
    ASSUME SourcesInv, Drift
    PROVE  SourcesInv'
<1>1. PICK change \in Change, n \in 1..Len(listing) + 1 :
         /\ (change = "added") = (n = Len(listing) + 1)
         /\ listing' = CASE change = "added" -> <<0 - source_faults>> \o listing
                          [] change = "moved" -> <<listing[n]>> \o Without(n)
                          [] change = "withdrawn" -> Without(n)
         /\ saves' = [s \in Save |-> IF saves[s] = NoSave THEN NoSave
                                     ELSE [saves[s] EXCEPT !.changes = @ \union {change}]]
  BY DEF Drift
<1>2. /\ source_faults \in Nat /\ source_faults' \in 0..MaxFaults
      /\ source_faults' = source_faults + 1
      /\ UNCHANGED <<has_requested, age, index_built>>
  <2>1. source_faults \in 0..MaxFaults /\ MaxFaults \in Nat
    BY SourcesAssumption DEF SourcesInv, SourceTypes
  <2>2. /\ source_faults < MaxFaults /\ source_faults' = source_faults + 1
        /\ UNCHANGED <<has_requested, age, index_built>>
    BY DEF Drift, Faulty
  <2> QED BY <2>1, <2>2
<1>3. /\ listing' \in Seq(Int) /\ Distinct(listing')
      /\ Entries(listing') \subseteq Entries(listing) \union {0 - source_faults}
      /\ change # "withdrawn" => Entries(listing) \subseteq Entries(listing')
  BY <1>1, ListingDrifts
<1>4. ASSUME NEW s \in Save, saves[s] # NoSave
      PROVE  saves'[s] \in Saving /\ SaveAgrees(saves[s])'
  <2>1. PICK save \in Saving : save = saves[s] /\ SaveAgrees(save)
    BY <1>4 DEF SourcesInv, SourceTypes
  <2>2. PICK after : after = [save EXCEPT !.changes = save.changes \union {change}]
    OBVIOUS
  <2>3. saves'[s] = after
    BY <1>1, <1>4, <2>1, <2>2
  <2>4. save.changes \in SUBSET Change /\ save.changes \union {change} \in SUBSET Change
    BY <2>1 DEF Saving
  <2>5. after \in Saving
    BY <2>2, <2>4, Zenon DEF Saving
  <2>6. /\ after.state = save.state /\ after.limit = save.limit /\ after.offset = save.offset
        /\ after.got = save.got /\ after.error = save.error /\ after.cut = save.cut
        /\ after.requested = save.requested /\ after.adapter = save.adapter
        /\ after.complete = save.complete /\ after.changes = save.changes \union {change}
    BY <2>2, Zenon DEF Saving
  <2>7. after.changes # {}
    BY <2>6
  <2>8. ASSUME "withdrawn" \notin after.changes PROVE Entries(after.got) \subseteq Entries(listing')
    <3>1. "withdrawn" \notin save.changes /\ change # "withdrawn"
      BY <2>6, <2>8
    <3> QED BY <1>3, <2>1, <2>6, <3>1 DEF SaveAgrees
  <2>9. SaveGoesOn(save) => SaveGoesOn(after)
    BY <2>6 DEF SaveGoesOn
  <2>10. SaveAgrees(after)'
    BY <2>1, <2>6, <2>7, <2>8, <2>9 DEF SaveAgrees, SaveGoesOn
  <2> QED BY <2>3, <2>5, <2>10, Zenon DEF SaveAgrees, SaveGoesOn, InOrder
<1>5. ASSUME NEW s \in Save, saves[s] = NoSave PROVE saves'[s] = NoSave
  BY <1>1, <1>5
<1>6. SourceTypes'
  <2>1. \A s \in Save : saves'[s] \in {NoSave} \union Saving
    BY <1>4, <1>5
  <2>2. saves' = [s \in Save |-> saves'[s]]
    BY <1>1
  <2> QED BY <1>2, <1>3, <2>1, <2>2 DEF SourcesInv, SourceTypes
<1>7. ASSUME NEW i \in 1..Len(listing') PROVE listing'[i] + source_faults' > 0
  <2>1. listing'[i] \in Entries(listing')
    BY DEF Entries
  <2>2. CASE listing'[i] = 0 - source_faults
    BY <1>2, <2>2
  <2>3. CASE listing'[i] \in Entries(listing)
    <3>1. PICK j \in 1..Len(listing) : listing'[i] = listing[j]
      BY <2>3 DEF Entries
    <3>2. listing[j] \in Int /\ listing[j] + source_faults > 0
      BY DEF SourcesInv, SourceTypes
    <3> QED BY <1>2, <3>1, <3>2
  <2> QED BY <1>3, <2>1, <2>2, <2>3
<1>8. (~has_requested => age = Delay)'
  BY <1>2 DEF SourcesInv
<1> QED BY <1>3, <1>4, <1>5, <1>6, <1>7, <1>8 DEF SourcesInv

LEMMA RefreshIndexSafe ==
    ASSUME SourcesInv, RefreshIndex
    PROVE  SourcesInv'
<1>1. UNCHANGED <<listing, saves, has_requested, age, source_faults>> /\ index_built' \in BOOLEAN
  BY Zenon DEF RefreshIndex
<1>2. SourceTypes'
  BY <1>1 DEF SourcesInv, SourceTypes
<1>3. \A s \in Save : SaveAgrees(saves[s])' <=> SaveAgrees(saves[s])
  BY <1>1 DEF SaveAgrees, SaveGoesOn, InOrder
<1> QED BY <1>1, <1>2, <1>3 DEF SourcesInv


LEMMA TickSafe ==
    ASSUME SourcesInv, Tick
    PROVE  SourcesInv'
<1>1. age' \in 0..Delay /\ (age = Delay => age' = Delay)
  BY SourcesAssumption DEF Tick, Smaller, SourcesInv, SourceTypes
<1>2. ASSUME NEW s \in Save, saves[s].state # "pause" PROVE saves'[s] = saves[s]
  BY <1>2 DEF Tick
<1>3. ASSUME NEW s \in Save, saves[s].state = "pause"
      PROVE  saves'[s] \in Saving /\ SaveAgrees(saves'[s])
  <2>1. saves[s] \in Saving /\ SaveAgrees(saves[s])
    BY <1>3, SaveRuns
  <2>2. saves[s].slept \in 0..Delay
    BY <2>1, SavingNumbers
  <2>3. Smaller(saves[s].slept + 1, Delay) \in 0..Delay
    BY <2>2, SourcesAssumption DEF Smaller
  <2>4. PICK slept \in 0..Delay : slept = Smaller(saves[s].slept + 1, Delay)
    BY <2>3
  <2>5. saves'[s] = [saves[s] EXCEPT !.slept = slept]
    BY <1>3, <2>4 DEF Tick
  <2>6. saves'[s] \in Saving
    <3>1. PICK before \in Saving : before = saves[s]
      BY <2>1
    <3>2. [before EXCEPT !.slept = slept] \in Saving
      BY SavingUpdates, Zenon
    <3> QED BY <2>5, <3>1, <3>2, Zenon
  <2>7. PICK save : save = saves'[s]
    OBVIOUS
  <2>8. /\ save.state = saves[s].state /\ save.limit = saves[s].limit
        /\ save.offset = saves[s].offset /\ save.got = saves[s].got
        /\ save.error = saves[s].error /\ save.requested = saves[s].requested
        /\ save.adapter = saves[s].adapter /\ save.changes = saves[s].changes
        /\ save.cut = saves[s].cut /\ save.complete = saves[s].complete
    BY <2>1, <2>5, <2>7, Zenon DEF Saving
  <2>9. SaveAgrees(save)
    BY <2>1, <2>8 DEF SaveAgrees, SaveGoesOn, InOrder
  <2> QED BY <2>6, <2>7, <2>9
<1>4. saves' \in [Save -> {NoSave} \union Saving]
  <2>1. \A s \in Save : saves'[s] \in {NoSave} \union Saving
    BY <1>2, <1>3 DEF SourcesInv, SourceTypes
  <2>2. saves' = [s \in Save |-> saves'[s]]
    BY DEF Tick
  <2> QED BY <2>1, <2>2
<1>5. ASSUME NEW s \in Save, saves'[s] # NoSave PROVE SaveAgrees(saves[s])'
  <2>1. SaveAgrees(saves'[s])
    BY <1>2, <1>3, <1>5 DEF SourcesInv
  <2>2. listing' = listing
    BY DEF Tick
  <2> QED BY <2>1, <2>2, Zenon DEF SaveAgrees, SaveGoesOn, InOrder
<1>6. SourceTypes'
  BY <1>1, <1>4 DEF Tick, SourcesInv, SourceTypes
<1>7. /\ (~has_requested => age = Delay)' /\ Distinct(listing)'
      /\ (\A i \in 1..Len(listing) : listing[i] + source_faults > 0)'
  BY <1>1 DEF Tick, SourcesInv, Distinct
<1> QED BY <1>5, <1>6, <1>7 DEF SourcesInv

-----------------------------------------------------------------------------
(* The theorems                                                            *)

LEMMA SourcesInitSafe ==
    ASSUME SourcesInit
    PROVE  SourcesInv
<1>1. /\ listing \in Seq(Int) /\ Distinct(listing)
      /\ source_faults = 0 /\ \A i \in 1..Len(listing) : listing[i] + source_faults > 0
  <2>1. PICK n \in Nat : listing = [i \in 1..n |-> i]
    BY SourcesAssumption DEF SourcesInit
  <2>2. listing \in Seq(Int) /\ Len(listing) = n /\ \A i \in 1..n : listing[i] = i
    BY <2>1
  <2>3. source_faults = 0 /\ \A i \in 1..n : i + 0 > 0
    BY DEF SourcesInit
  <2>4. Distinct(listing)
    BY <2>2 DEF Distinct
  <2> QED BY <2>2, <2>3, <2>4
<1>2. 0 \in 0..MaxFaults /\ Delay \in 0..Delay
  BY SourcesAssumption
<1>3. SourceTypes
  BY <1>1, <1>2 DEF SourcesInit, SourceTypes
<1> QED BY <1>1, <1>3 DEF SourcesInit, SourcesInv

LEMMA SourcesNextSafe ==
    ASSUME SourcesInv, [SourcesNext]_sourcesVars
    PROVE  SourcesInv'
<1>1. ASSUME NEW s \in Save, StartCall(s) \/ AskPage(s) \/ Wake(s) \/ Answer(s) \/ AnswerFails(s)
                             \/ EndCall(s)
      PROVE  SourcesInv'
  BY <1>1, StartCallSafe, AskPageSafe, WakeSafe, AnswerSafe, AnswerFailsSafe, EndCallSafe
<1>2. CASE Drift \/ RefreshIndex \/ Tick
  BY <1>2, DriftSafe, RefreshIndexSafe, TickSafe
<1>3. CASE UNCHANGED sourcesVars
  <2>1. UNCHANGED <<listing, saves, has_requested, age, index_built, source_faults>>
    BY <1>3 DEF sourcesVars
  <2>2. SourceTypes' /\ Distinct(listing)'
    BY <2>1 DEF SourcesInv, SourceTypes, Distinct
  <2>3. \A s \in Save : SaveAgrees(saves[s])' <=> SaveAgrees(saves[s])
    BY <2>1 DEF SaveAgrees, SaveGoesOn, InOrder
  <2> QED BY <2>1, <2>2, <2>3 DEF SourcesInv
<1> QED BY <1>1, <1>2, <1>3 DEF SourcesNext

LEMMA SourcesInvHolds == SourcesSpec => []SourcesInv
BY SourcesInitSafe, SourcesNextSafe, PTL DEF SourcesSpec

\* The state of the calls and of the provider has its type; a call never has, and never asks
\* for, more than it wants.
THEOREM SourcesTypesHold == SourcesSpec => []SourcesTypeOK
<1>1. SourcesInv => SourcesTypeOK
  <2> SUFFICES ASSUME SourcesInv PROVE SourcesTypeOK
    OBVIOUS
  <2>1. ASSUME NEW s \in Save, saves[s] # NoSave
        PROVE  /\ saves[s].adapter \in Adapter /\ saves[s].requested \in Requested
               /\ saves[s].state \in {"page", "pause", "wait", "saved", "failed"}
               /\ saves[s].offset \in 0..saves[s].requested
               /\ Len(saves[s].got) \in 0..saves[s].requested
               /\ saves[s].slept \in 0..Delay /\ saves[s].attempt \in 0..Attempts - 1
               /\ saves[s].error \in {"none", "provider", "value", "repeated"}
               /\ saves[s].complete \in BOOLEAN
               /\ saves[s].changes \subseteq Change /\ saves[s].cut \in Cut
    <3>1. saves[s] \in Saving /\ SaveAgrees(saves[s])
      BY <2>1 DEF SourcesInv, SourceTypes
    <3>2. saves[s].offset \in 0..saves[s].requested /\ Len(saves[s].got) \in 0..saves[s].requested
      BY <3>1, SavingNumbers DEF SaveAgrees
    <3> QED BY <3>1, <3>2 DEF Saving
  <2> QED BY <2>1 DEF SourcesInv, SourceTypes, SourcesTypeOK
<1> QED BY <1>1, SourcesInvHolds, PTL

\* Paging agrees with next_offset for every adapter, page size, limit and length of listing:
\* what a call has of a listing that did not change are its first records, in order.
THEOREM SavedInOrder == SourcesSpec => []SavedInListingOrder
<1>1. SourcesInv => SavedInListingOrder
  <2> SUFFICES ASSUME SourcesInv, NEW s \in Save, saves[s] # NoSave, saves[s].changes = {}
               PROVE  saves[s].got = SubSeq(listing, 1, Len(saves[s].got))
    BY DEF SavedInListingOrder
  <2>1. saves[s] \in Saving /\ InOrder(saves[s])
    BY DEF SourcesInv, SourceTypes, SaveAgrees
  <2>2. PICK got \in Seq(Int) : got = saves[s].got
    BY <2>1, SavingNumbers
  <2>3. /\ listing \in Seq(Int) /\ Len(got) <= Len(listing)
        /\ \A i \in 1..Len(got) : got[i] = listing[i]
    BY <2>1, <2>2 DEF InOrder, SourcesInv, SourceTypes
  <2>4. got = SubSeq(listing, 1, Len(got))
    BY <2>3
  <2> QED BY <2>2, <2>4
<1> QED BY <1>1, SourcesInvHolds, PTL

\* Over such a listing a call that ended saved has all it asked for, unless the provider sent an
\* empty page before the end, and then it is not complete; the gateway's own ValueError is met by
\* Web of Science Starter alone, behind a short page or when less than a page is left to ask for.
THEOREM SavesEndWell == SourcesSpec => []StableSavesEndWell
<1>1. SourcesInv => StableSavesEndWell
  BY DEF StableSavesEndWell, SourcesInv, SaveAgrees, InOrder
<1> QED BY <1>1, SourcesInvHolds, PTL

\* What a step of one call makes of another: nothing.
LEMMA OthersStay ==
    ASSUME SourcesInv, NEW s \in Save, NEW t \in Save, t # s,
           StartCall(t) \/ AskPage(t) \/ Wake(t) \/ Answer(t) \/ AnswerFails(t) \/ EndCall(t)
    PROVE  saves'[s] = saves[s]
<1>1. \E save : saves' = [saves EXCEPT ![t] = save]
  BY Zenon DEF StartCall, AskPage, Wake, Answer, AnswerFails, EndCall, Fails, Asks, SaveGoes,
               SavePage
<1> QED BY <1>1 DEF SourcesInv, SourceTypes

\* And what the world makes of a call: it stays where it is.
LEMMA WorldStays ==
    ASSUME SourcesInv, NEW s \in Save, saves[s] # NoSave, Drift \/ RefreshIndex \/ Tick
    PROVE  saves'[s].state = saves[s].state
<1>1. PICK save \in Saving : save = saves[s]
  BY DEF SourcesInv, SourceTypes
<1>2. CASE Drift
  <2>1. PICK change : saves'[s] = [save EXCEPT !.changes = @ \union {change}]
    BY <1>1, <1>2 DEF Drift
  <2> QED BY <1>1, <2>1, Zenon DEF Saving
<1>3. CASE RefreshIndex
  BY <1>3 DEF RefreshIndex
<1>4. CASE Tick
  <2>1. saves'[s] = [save EXCEPT !.slept = Smaller(@ + 1, Delay)] \/ saves'[s] = save
    BY <1>1, <1>4 DEF Tick
  <2> QED BY <1>1, <2>1, Zenon DEF Saving
<1> QED BY <1>2, <1>3, <1>4

\* A run that is recorded as complete has every record that the provider lists by then, for every
\* way of cutting pages short, adding records and moving them, while none is withdrawn: as many
\* different records of the listing as it has are all of them.
THEOREM CompleteRunsHaveAll == SourcesSpec => CompleteHasAll
<1>1. ASSUME SourcesInv, SourcesInv', [SourcesNext]_sourcesVars
      PROVE  [\A s \in Save :
                saves[s].state = "wait" /\ saves'[s].state = "saved" /\ saves'[s].complete
                    /\ "withdrawn" \notin saves'[s].changes =>
                  \A n \in 1..Len(listing) : \E k \in 1..Len(saves'[s].got) :
                      saves'[s].got[k] = listing[n]]_sourcesVars
  <2> SUFFICES ASSUME SourcesNext, NEW s \in Save,
                      saves[s].state = "wait", saves'[s].state = "saved", saves'[s].complete,
                      "withdrawn" \notin saves'[s].changes
               PROVE  \A n \in 1..Len(listing) : \E k \in 1..Len(saves'[s].got) :
                          saves'[s].got[k] = listing[n]
    BY <1>1
  <2>1. saves[s] \in Saving /\ saves[s] # NoSave
    BY <1>1, SaveRuns
  <2>2. Answer(s)
    <3>1. ASSUME NEW t \in Save, t # s, StartCall(t) \/ AskPage(t) \/ Wake(t) \/ Answer(t)
                                       \/ AnswerFails(t) \/ EndCall(t)
          PROVE  FALSE
      BY <1>1, <3>1, OthersStay
    <3>2. CASE StartCall(s) \/ AskPage(s) \/ Wake(s) \/ EndCall(s)
      BY <2>1, <3>2 DEF StartCall, AskPage, Wake, EndCall
    <3>3. CASE AnswerFails(s)
      <4>1. PICK attempt : \/ saves'[s] = [saves[s] EXCEPT !.attempt = attempt]
                           \/ saves'[s] = [saves[s] EXCEPT !.state = "failed", !.error = "provider"]
        BY <1>1, <3>3 DEF AnswerFails, Fails, SaveGoes, SourcesInv, SourceTypes
      <4>2. saves'[s].state # "saved"
        <5>1. PICK save \in Saving : save = saves[s] /\ save.state = "wait"
          BY <2>1
        <5>2. [save EXCEPT !.attempt = attempt].state = save.state
          BY Zenon DEF Saving
        <5>3. [save EXCEPT !.state = "failed", !.error = "provider"].state = "failed"
          BY Zenon DEF Saving
        <5> QED BY <4>1, <5>1, <5>2, <5>3
      <4> QED BY <4>2
    <3>4. CASE Drift \/ RefreshIndex \/ Tick
      BY <1>1, <2>1, <3>4, WorldStays
    <3> QED BY <1>1, <3>1, <3>2, <3>3, <3>4 DEF SourcesNext
  <2>3. PICK save \in Saving : save = saves'[s] /\ SaveAgrees(saves[s])'
    <3>1. saves'[s] # NoSave
      BY DEF NoSave
    <3>2. saves'[s] \in Saving /\ SaveAgrees(saves[s])'
      BY <1>1, <3>1 DEF SourcesInv, SourceTypes
    <3> QED BY <3>2
  <2>4. listing' = listing /\ listing \in Seq(Int)
    BY <1>1, <2>2 DEF Answer, SourcesInv, SourceTypes
  <2>5. Distinct(save.got) /\ Entries(save.got) \subseteq Entries(listing)
    <3>1. Distinct(save.got)
      BY <2>3, Zenon DEF SaveAgrees, Distinct
    <3>2. Entries(save.got) \subseteq Entries(listing')
      BY <2>3 DEF SaveAgrees, Entries
    <3> QED BY <2>4, <3>1, <3>2
  <2>6. Len(save.got) >= Len(listing) /\ save.got \in Seq(Int)
    BY <1>1, <2>2, <2>3, AnswerSafe, SavingNumbers
  <2> QED BY <2>3, <2>4, <2>5, <2>6, EnoughIsAll
<1> QED BY <1>1, SourcesInvHolds, PTL DEF SourcesSpec, CompleteHasAll

\* A call asks arXiv only when the last request to it lies the polite delay back, or another
\* call made one while this one was pausing.
THEOREM PacedRequests == SourcesSpec => PacedUnlessTogether
<1>1. ASSUME SourcesInv, [SourcesNext]_sourcesVars
      PROVE  [\A s \in Save : AsksArxiv(s) => age = Delay \/ saves[s].slept > age]_sourcesVars
  <2> SUFFICES ASSUME SourcesNext, NEW s \in Save, AsksArxiv(s)
               PROVE  age = Delay \/ saves[s].slept > age
    BY <1>1
  <2>1. /\ saves[s] \in Saving /\ saves[s].state \notin {"idle", "wait"} /\ saves[s] # NoSave
        /\ saves'[s].state = "wait"
    BY <1>1, SavingIsNotIdle DEF AsksArxiv, SourcesInv, SourceTypes, Saving
  <2>2. /\ NoSave.state # "wait"
        /\ \A save : saves' = [saves EXCEPT ![s] = save] => saves'[s] = save
    BY <1>1, SavingIsNotIdle DEF SourcesInv, SourceTypes
  <2>3. ASSUME NEW t \in Save, t # s, StartCall(t) \/ AskPage(t) \/ Wake(t) \/ Answer(t)
                                     \/ AnswerFails(t) \/ EndCall(t)
        PROVE  FALSE
    BY <1>1, <2>1, <2>3, OthersStay
  <2>4. CASE AskPage(s)
    <3>1. saves[s].adapter = "arxiv" /\ ~Misaligned(s)
      BY DEF AsksArxiv, Misaligned
    <3>2. ASSUME has_requested PROVE saves'[s].state = "pause"
      <4>1. saves' = [saves EXCEPT ![s] = [saves[s] EXCEPT !.state = "pause",
                                             !.limit = PageLimit(s), !.slept = 0]]
        BY <2>4, <3>1, <3>2 DEF AskPage, SaveGoes
      <4> QED BY <2>1, <2>2, <4>1 DEF Saving
    <3> QED BY <1>1, <2>1, <3>2 DEF SourcesInv
  <2>5. CASE Wake(s)
    BY <1>1, <2>5, SourcesAssumption DEF Wake, SourcesInv, SourceTypes
  <2>6. CASE StartCall(s) \/ Answer(s) \/ AnswerFails(s) \/ EndCall(s)
    <3>1. saves[s] = NoSave \/ saves[s].state = "wait" \/ saves' = [saves EXCEPT ![s] = NoSave]
      BY <2>6, Zenon DEF StartCall, Answer, AnswerFails, EndCall
    <3> QED BY <2>1, <2>2, <3>1, SavingIsNotIdle
  <2>7. CASE Drift \/ RefreshIndex \/ Tick
    BY <1>1, <2>1, <2>7, WorldStays
  <2> QED BY <1>1, <2>3, <2>4, <2>5, <2>6, <2>7 DEF SourcesNext
<1> QED BY <1>1, SourcesInvHolds, PTL DEF SourcesSpec, PacedUnlessTogether
=============================================================================
