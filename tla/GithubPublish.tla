---------------------------- MODULE GithubPublish ----------------------------
(***************************************************************************)
(* GitHubClient of integrations/github.py: publish_files is a sequence of    *)
(* requests that creates a branch, a commit and a pull request; create_issue *)
(* and comment_issue are one request each.  Every request may fail, before    *)
(* or after GitHub did what it asked; nothing is undone and nothing is tried  *)
(* again but by the client.                                                *)
(*                                                                         *)
(* GitHub and its other users are external: they push, delete branches,       *)
(* merge and close pull requests.  A commit is a number, with its history    *)
(* (the commits reachable from it); blobs, trees and commits that no branch   *)
(* reaches change nothing.                                                 *)
(***************************************************************************)
EXTENDS Integers, FiniteSets

CONSTANTS
    Publish,          \* calls that may run at once
    Branch,           \* names; "main" is conventional
    DefaultBranch,    \* of the repository
    NoCommit,
    MaxPublishes, MaxPushes, MaxEventsOnGithub,  \* bounds: calls, pushes of others, failures and
                                         \* deleted, merged or closed work together
    IssueWrites       \* bound: issues and comments

ASSUME GithubAssumption ==
    /\ DefaultBranch \in Branch /\ NoCommit \notin Nat
    /\ MaxPublishes \in Nat /\ MaxPushes \in Nat /\ MaxEventsOnGithub \in Nat /\ IssueWrites \in Nat

VARIABLES
    refs,        \* the commit of each branch, or NoCommit
    history,     \* the commits reachable from each commit
    pulls,       \* open pull requests into the default branch: their head branches
    issues,      \* issues and comments on GitHub
    operations,  \* github_operations
    publishes,   \* the calls of publish_files
    pushed,      \* observation: what was pushed to a branch since the branch exists
    publishes_made, pushes_made, github_events

githubVars == <<refs, history, pulls, issues, operations, publishes, pushed,
                publishes_made, pushes_made, github_events>>

NoPublish == [step |-> "idle"]
Publishing == [step: {"repository", "branch", "commit", "update", "pull", "record"},
               branch: Branch, base: Nat \union {NoCommit}, commit: Nat \union {NoCommit}]

GithubTypeOK ==
    /\ refs \in [Branch -> DOMAIN history \union {NoCommit}]
    /\ DOMAIN history = 0..Cardinality(DOMAIN history) - 1
    /\ \A c \in DOMAIN history : history[c] \subseteq DOMAIN history
    /\ pulls \subseteq Branch /\ issues \in 0..IssueWrites
    /\ publishes \in [Publish -> {NoPublish} \union Publishing]
    /\ pushed \subseteq Branch \X DOMAIN history

GithubInit ==
    /\ refs = [b \in Branch |-> IF b = DefaultBranch THEN 0 ELSE NoCommit]
    /\ history = [c \in {0} |-> {0}]
    /\ pulls = {} /\ issues = 0 /\ operations = {}
    /\ publishes = [p \in Publish |-> NoPublish]
    /\ pushed = {<<DefaultBranch, 0>>}
    /\ publishes_made = 0 /\ pushes_made = 0 /\ github_events = 0

-----------------------------------------------------------------------------
Occurs == github_events < MaxEventsOnGithub /\ github_events' = github_events + 1
AtRequest(p, step) == publishes[p].step = step
PublishStep(p, step, base, commit) ==
    publishes' = [publishes EXCEPT ![p] = [@ EXCEPT !.step = step, !.base = base,
                                                    !.commit = commit]]
PublishEnds(p) == publishes' = [publishes EXCEPT ![p] = NoPublish]

Created(c, parent) ==
    history' = [d \in DOMAIN history \union {c} |-> IF d = c THEN history[parent] \union {c}
                                                             ELSE history[d]]
NextCommit == Cardinality(DOMAIN history)

\* What a request does, the call going on; or its answer is lost and the call fails.
Answered(p, step, commit) ==
    \/ PublishStep(p, step, publishes[p].base, commit) /\ UNCHANGED github_events
    \/ PublishEnds(p) /\ Occurs

\* The request fails: GitHub refuses it or cannot be reached.
Refused(p) == PublishEnds(p) /\ UNCHANGED <<refs, history, pulls, pushed>>

-----------------------------------------------------------------------------
(* publish_files                                                           *)

\* A conventional default branch is refused; a dry run is recorded and answered with the plan.
StartPublish(p) ==
    /\ publishes[p] = NoPublish
    /\ publishes_made < MaxPublishes /\ publishes_made' = publishes_made + 1
    /\ \E b \in Branch \ {"main"} :
          \/ /\ publishes' = [publishes EXCEPT ![p] =
                   [step |-> "repository", branch |-> b, base |-> NoCommit, commit |-> NoCommit]]
             /\ UNCHANGED operations
          \/ /\ operations' = operations \union
                   {[branch |-> b, status |-> "planned", commit |-> NoCommit]}
             /\ UNCHANGED publishes
    /\ UNCHANGED <<refs, history, pulls, issues, pushed, pushes_made, github_events>>

\* The default branch of the repository is refused; its head becomes the base.
ReadBase(p) ==
    /\ AtRequest(p, "repository")
    /\ IF publishes[p].branch = DefaultBranch THEN PublishEnds(p)
       ELSE PublishStep(p, "branch", refs[DefaultBranch], NoCommit)
    /\ UNCHANGED <<refs, history, pulls, issues, operations, pushed, publishes_made,
                   pushes_made, github_events>>

\* POST git/refs: GitHub refuses a branch that exists.
CreateBranch(p) ==
    /\ AtRequest(p, "branch")
    /\ LET b == publishes[p].branch IN
       IF refs[b] # NoCommit THEN Refused(p) /\ UNCHANGED github_events
       ELSE /\ refs' = [refs EXCEPT ![b] = publishes[p].base]
            /\ Answered(p, "commit", NoCommit)
            /\ UNCHANGED <<history, pulls, pushed>>
    /\ UNCHANGED <<issues, operations, publishes_made, pushes_made>>

\* The blobs, the tree and the commit, whose parent is the base; no branch has it yet.
CreateCommit(p) ==
    /\ AtRequest(p, "commit")
    /\ Created(NextCommit, publishes[p].base)
    /\ Answered(p, "update", NextCommit)
    /\ UNCHANGED <<refs, pulls, issues, operations, pushed, publishes_made, pushes_made>>

\* Mutant: "force": True.
MayMoveForced(b, c) == refs[b] # NoCommit

\* "force": False: GitHub moves an existing branch to a commit that has its head in the history.
MayMove(b, c) == refs[b] # NoCommit /\ refs[b] \in history[c]

UpdateBranch(p) ==
    /\ AtRequest(p, "update")
    /\ LET b == publishes[p].branch
           c == publishes[p].commit
       IN  IF ~MayMove(b, c) THEN Refused(p) /\ UNCHANGED github_events
           ELSE /\ refs' = [refs EXCEPT ![b] = c] /\ pushed' = pushed \union {<<b, c>>}
                /\ Answered(p, "pull", c)
                /\ UNCHANGED <<history, pulls>>
    /\ UNCHANGED <<issues, operations, publishes_made, pushes_made>>

\* GitHub refuses a second open pull request of a branch, one of a branch that is gone, and one
\* without a commit that the default branch lacks.
OpenPull(p) ==
    /\ AtRequest(p, "pull")
    /\ LET b == publishes[p].branch IN
       IF b \in pulls \/ refs[b] = NoCommit \/ refs[b] \in history[refs[DefaultBranch]]
         THEN Refused(p) /\ UNCHANGED github_events
         ELSE /\ pulls' = pulls \union {b}
              /\ Answered(p, "record", publishes[p].commit)
              /\ UNCHANGED <<refs, history, pushed>>
    /\ UNCHANGED <<issues, operations, publishes_made, pushes_made>>

RecordPublish(p) ==
    /\ AtRequest(p, "record")
    /\ operations' = operations \union {[branch |-> publishes[p].branch, status |-> "completed",
                                         commit |-> publishes[p].commit]}
    /\ PublishEnds(p)
    /\ UNCHANGED <<refs, history, pulls, issues, pushed, publishes_made, pushes_made,
                   github_events>>

\* A request, or the insert of the record, fails with nothing done.
PublishFails(p) ==
    /\ publishes[p] # NoPublish /\ Occurs
    /\ Refused(p)
    /\ UNCHANGED <<issues, operations, publishes_made, pushes_made>>

\* create_issue and comment_issue: one POST, then a record; a plan is recorded for an issue only.
WriteIssue ==
    /\ issues < IssueWrites
    /\ \/ /\ issues' = issues + 1
          /\ \/ /\ operations' = operations \union {[branch |-> DefaultBranch,
                                      status |-> "issue", commit |-> issues']}
                /\ UNCHANGED github_events
             \/ Occurs /\ UNCHANGED operations
       \/ /\ operations' = operations \union {[branch |-> DefaultBranch,
                                  status |-> "planned", commit |-> NoCommit]}
          /\ UNCHANGED <<issues, github_events>>
    /\ UNCHANGED <<refs, history, pulls, publishes, pushed, publishes_made, pushes_made>>

-----------------------------------------------------------------------------
(* Other users of the repository                                           *)

\* Somebody pushes on top of a branch, or creates it from the default branch.
OthersPush ==
    /\ pushes_made < MaxPushes /\ pushes_made' = pushes_made + 1
    /\ \E b \in Branch :
          LET parent == IF refs[b] = NoCommit THEN refs[DefaultBranch] ELSE refs[b] IN
          /\ Created(NextCommit, parent)
          /\ refs' = [refs EXCEPT ![b] = NextCommit]
          /\ pushed' = pushed \union {<<b, NextCommit>>}
    /\ UNCHANGED <<pulls, issues, operations, publishes, publishes_made, github_events>>

\* A branch that is deleted closes its pull request.
OthersDelete ==
    /\ Occurs
    /\ \E b \in Branch \ {DefaultBranch} :
          /\ refs[b] # NoCommit
          /\ refs' = [refs EXCEPT ![b] = NoCommit]
          /\ pulls' = pulls \ {b}
          /\ pushed' = {push \in pushed : push[1] # b}
    /\ UNCHANGED <<history, issues, operations, publishes, publishes_made, pushes_made>>

\* A pull request is merged by moving the default branch forward, or closed.
OthersEndPull ==
    /\ Occurs
    /\ \E b \in pulls :
          /\ pulls' = pulls \ {b}
          /\ \/ /\ refs[DefaultBranch] \in history[refs[b]]
                /\ refs' = [refs EXCEPT ![DefaultBranch] = refs[b]]
             \/ UNCHANGED refs
    /\ UNCHANGED <<history, issues, operations, publishes, pushed, publishes_made,
                   pushes_made>>

PublishRequest(p) ==
    \/ ReadBase(p) \/ CreateBranch(p) \/ CreateCommit(p) \/ UpdateBranch(p) \/ OpenPull(p)
    \/ RecordPublish(p)

GithubNext ==
    \/ \E p \in Publish : StartPublish(p) \/ PublishRequest(p) \/ PublishFails(p)
    \/ WriteIssue \/ OthersPush \/ OthersDelete \/ OthersEndPull

GithubSpec == GithubInit /\ [][GithubNext]_githubVars

-----------------------------------------------------------------------------
(* Properties                                                              *)

\* "It never force-pushes" (README.md): what anybody pushed to a branch stays in its history
\* while the branch exists, whichever publishes, retries and pushes meet there.
PushesSurvive ==
    \A push \in pushed : refs[push[1]] # NoCommit => push[2] \in history[refs[push[1]]]
=============================================================================
