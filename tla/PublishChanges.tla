----------------------------- MODULE PublishChanges -----------------------------
(***************************************************************************)
(* Publication of a checkout's changes as a pull request                   *)
(* (internal/publish): requests run git in the checkout they share         *)
(* (internal/git/native.go), push and open the pull request                *)
(* (internal/git/github.go), step by step and without a lock.  Each step   *)
(* may fail, and may have had its effect all the same.                     *)
(***************************************************************************)
EXTENDS Naturals, FiniteSets

CONSTANTS
    Publications,   \* requests
    RunIds,         \* the runs they publish for: a request repeats one of the same run
    Branches,       \* names of branches
    NoBranch,       \* the base, whose commits hold none of the work
    Work            \* changes an agent makes

VARIABLES
    changes,    \* not committed
    head,       \* the branch the checkout is on
    branches,   \* the branches there are, with the work their commits hold
    remote,     \* the work each holds in the remote repository
    pulls,      \* how many pull requests were opened of each branch
    results,    \* s.results: the runs with a result, and its branch
    publication,\* each request: where it is, its run, its branch, what it found
    met         \* two requests have been at the checkout at once

gitVars == <<changes, head, branches>>
publishVars == <<gitVars, remote, pulls, results, publication, met>>

Local == {b \in Branches : branches[b].known}
Unborn == [known |-> FALSE, work |-> {}]

PublishInit ==
    /\ changes = {} /\ head = NoBranch
    /\ branches = [b \in Branches |-> Unborn]
    /\ remote = [b \in Branches |-> {}]
    /\ pulls = [b \in Branches |-> 0]
    /\ results = [i \in RunIds |-> NoBranch]
    /\ \E run \in [Publications -> RunIds], branch \in [Publications -> Branches] :
          publication = [p \in Publications |->
              [at |-> "idle", run |-> run[p], branch |-> branch[p], found |-> {}]]
    /\ met = FALSE

UnderWay(p) == publication[p].at \notin {"idle", "answered", "failed"}
Publishing(p, label) == publication' = [publication EXCEPT ![p].at = label]

AgentWorks(w) ==
    /\ w \notin changes /\ \A b \in Branches : w \notin branches[b].work
    /\ changes' = changes \cup {w}
    /\ UNCHANGED <<head, branches, remote, pulls, results, publication, met>>

---------------------------------------------------------------------------
\* A run that has a result gets it again.
HasResult(p) == results[publication[p].run] # NoBranch

\* The request is refused: no permission, no such repository, a field missing;
\* or it goes on.
BeginPublish(p) ==
    /\ publication[p].at = "idle"
    /\ Publishing(p, "failed") \/ Publishing(p, IF HasResult(p) THEN "answered" ELSE "status")
    /\ UNCHANGED <<gitVars, remote, pulls, results, met>>

\* Nothing to publish is an error.
ReadStatus(p) ==
    /\ publication[p].at = "status"
    /\ publication' = [publication EXCEPT ![p].at = IF changes = {} THEN "failed" ELSE "branch",
                                          ![p].found = changes]
    /\ met' = (met \/ \E q \in Publications \ {p} : UnderWay(q))
    /\ UNCHANGED <<gitVars, remote, pulls, results>>

\* Mutant: git switch -C.
CreateBranchAnyway(p) ==
    /\ publication[p].at = "branch"
    /\ Publishing(p, "commit") /\ head' = publication[p].branch
    /\ branches' = [branches EXCEPT ![publication[p].branch] = [known |-> TRUE, work |-> {}]]
    /\ UNCHANGED <<changes, remote, pulls, results, met>>

\* git switch -c: a branch that is there is an error; the work comes along.
CreateBranch(p) ==
    /\ publication[p].at = "branch"
    /\ LET b == publication[p].branch IN
       \/ /\ b \notin Local /\ \E label \in {"commit", "failed"} : Publishing(p, label)
          /\ head' = b /\ branches' = [branches EXCEPT ![b].known = TRUE]
       \/ Publishing(p, "failed") /\ UNCHANGED <<head, branches>>
    /\ UNCHANGED <<changes, remote, pulls, results, met>>

\* Mutant: without git add --all.
CommitPart(p) ==
    /\ publication[p].at = "commit" /\ Publishing(p, "push")
    /\ \E some \in (SUBSET changes) \ {{}} :
          /\ branches' = [branches EXCEPT ![head].work = @ \cup some]
          /\ changes' = changes \ some
    /\ UNCHANGED <<head, remote, pulls, results, met>>

\* git add --all and git commit, on the branch the checkout is on by now.
Commit(p) ==
    /\ publication[p].at = "commit"
    /\ \/ /\ changes # {} /\ \E label \in {"push", "failed"} : Publishing(p, label)
          /\ branches' = [branches EXCEPT ![head].work = @ \cup changes]
          /\ changes' = {}
       \/ Publishing(p, "failed") /\ UNCHANGED <<changes, branches>>
    /\ UNCHANGED <<head, remote, pulls, results, met>>

PushBranch(p) ==
    /\ publication[p].at = "push"
    /\ \/ \E label \in {"pull", "failed"} : Publishing(p, label)
          /\ remote' = [remote EXCEPT ![publication[p].branch] = branches[publication[p].branch].work]
       \/ Publishing(p, "failed") /\ UNCHANGED remote
    /\ UNCHANGED <<gitVars, pulls, results, met>>

\* The request to GitHub may be carried out though its answer is lost.
OpenPullRequest(p) ==
    /\ publication[p].at = "pull"
    /\ \/ \E label \in {"store", "failed"} : Publishing(p, label)
          /\ pulls' = [pulls EXCEPT ![publication[p].branch] = @ + 1]
       \/ Publishing(p, "failed") /\ UNCHANGED pulls
    /\ UNCHANGED <<gitVars, remote, results, met>>

StoreResult(p) ==
    /\ publication[p].at = "store" /\ Publishing(p, "answered")
    /\ results' = [results EXCEPT ![publication[p].run] = publication[p].branch]
    /\ UNCHANGED <<gitVars, remote, pulls, met>>

\* The gateway restarts: results and requests are gone, the checkout stays.
PublisherRestarts ==
    /\ \E p \in Publications : UnderWay(p) \/ publication[p].at = "answered"
    /\ publication' = [p \in Publications |->
          IF publication[p].at = "idle" THEN publication[p] ELSE [publication[p] EXCEPT !.at = "failed"]]
    /\ results' = [i \in RunIds |-> NoBranch]
    /\ UNCHANGED <<gitVars, remote, pulls, met>>

PublishNext ==
    \/ \E w \in Work : AgentWorks(w)
    \/ \E p \in Publications :
          \/ BeginPublish(p) \/ ReadStatus(p) \/ CreateBranch(p) \/ Commit(p)
          \/ PushBranch(p) \/ OpenPullRequest(p) \/ StoreResult(p)
    \/ PublisherRestarts

---------------------------------------------------------------------------
\* However often a publication is repeated - after an error whose pull request
\* was opened, after a restart, twice at once - a branch gets one pull request.
OnePullRequest == \A b \in Branches : pulls[b] <= 1

\* The branch of a pull request a request has been told of holds, in the remote
\* repository, all the work the request had found, unless two requests met in
\* the checkout.
PullRequestHasWork ==
    \A p \in Publications :
        (publication[p].at = "store" /\ ~met)
        => publication[p].found \subseteq remote[publication[p].branch]
=============================================================================
