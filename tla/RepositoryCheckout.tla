--------------------------- MODULE RepositoryCheckout ---------------------------
(***************************************************************************)
(* The checkout of one connected repository: requests to clone it          *)
(* (internal/repository/service.go), which share nothing but the           *)
(* directory, the git clone each may run (internal/git/native.go), and the *)
(* directory a mirror's registration prepares (internal/filesync).         *)
(***************************************************************************)
EXTENDS Naturals

CONSTANTS
    CloneRequests,  \* requests to Clone
    MaxKills        \* bound on the clients that leave while git runs

ASSUME CheckoutAssumption == MaxKills \in Nat

VARIABLES
    root,       \* the directory: is it there, its .git, its files
    clone,      \* each request
    births,     \* how often the directory was made
    watching,   \* the one s.watchers has a watcher of, 0: none
    kills,
    cutShort,   \* a clone was killed while it wrote files
    raced       \* a request took a clone under way for something else

checkoutVars == <<root, clone, births, watching, kills, cutShort, raced>>

Absent == [dir |-> FALSE, git |-> "none", files |-> "none"]
Bare(git) == [dir |-> TRUE, git |-> git, files |-> "none"]
WholeCheckout == [dir |-> TRUE, git |-> "cloned", files |-> "all"]

CheckoutInit ==
    /\ root \in {Absent, Bare("init")}
    /\ clone = [r \in CloneRequests |-> "idle"]
    /\ births = (IF root.dir THEN 1 ELSE 0) /\ watching = 0
    /\ kills = 0 /\ cutShort = FALSE /\ raced = FALSE

Steps(r, from, to) == clone[r] = from /\ clone' = [clone EXCEPT ![r] = to]
Another(r, at) == \E q \in CloneRequests \ {r} : clone[q] \in at

---------------------------------------------------------------------------
\* Mutant: every directory is taken for a checkout.
IsPlaceholderNever == FALSE

\* A directory with nothing but .git is one that no clone has filled.
IsPlaceholder == root.dir /\ root.git # "none" /\ root.files = "none"

\* prepareExistingCheckout, as far as it only looks.
LookAtCheckout(r) ==
    /\ Steps(r, "idle", IF ~root.dir THEN "stat" ELSE IF IsPlaceholder THEN "clear" ELSE "own")
    /\ raced' = (raced \/ (clone'[r] = "own" /\ Another(r, {"rmdir", "cloning"})))
    /\ UNCHANGED <<root, births, watching, kills, cutShort>>

\* It removes .git, which fails when a clone refills it, then the directory,
\* which must be empty.
ClearPlaceholder(r) ==
    /\ \/ Steps(r, "clear", "rmdir") /\ root' = [root EXCEPT !.git = "none"]
       \/ /\ Steps(r, "clear", "failed") /\ Another(r, {"cloning"})
          /\ root' = [root EXCEPT !.git = IF root.dir THEN "init" ELSE "none"]
    /\ raced' = (raced \/ root.files # "none" \/ Another(r, {"cloning"}))
    /\ UNCHANGED <<births, watching, kills, cutShort>>

RemoveCheckout(r) ==
    /\ \/ Steps(r, "rmdir", "stat") /\ root = Bare("none") /\ root' = Absent
       \/ Steps(r, "rmdir", "failed") /\ root # Bare("none") /\ UNCHANGED root
    /\ UNCHANGED <<births, watching, kills, cutShort, raced>>

\* Clone refuses a directory that is there; git one that is not empty.
StartClone(r) ==
    /\ \/ Steps(r, "stat", IF root.dir THEN "failed" ELSE "git") /\ UNCHANGED <<root, births>>
       \/ /\ Steps(r, "git", "cloning") /\ root \in {Absent, Bare("none")}
          /\ root' = Bare("init") /\ births' = IF root.dir THEN births ELSE births + 1
       \/ Steps(r, "git", "failed") /\ UNCHANGED <<root, births>>
    /\ UNCHANGED <<watching, kills, cutShort, raced>>

\* git fetches, writes the files and returns; when it fails it removes what
\* there is.
GitClones(r) ==
    /\ clone[r] = "cloning"
    /\ \/ /\ root = Bare("init") /\ root' = Bare("cloned") /\ UNCHANGED clone
       \/ /\ root.git = "cloned" /\ root.files # "all" /\ UNCHANGED clone
          /\ root' = [root EXCEPT !.files = IF @ = "none" THEN "some" ELSE "all"]
       \/ root = WholeCheckout /\ Steps(r, "cloning", "own") /\ UNCHANGED root
       \/ Steps(r, "cloning", "failed") /\ root' = Absent
    /\ UNCHANGED <<births, watching, kills, cutShort, raced>>

\* The request's context kills git, which removes nothing.
ClientGivesUp(r) ==
    /\ kills < MaxKills /\ kills' = kills + 1
    /\ Steps(r, "cloning", "failed")
    /\ cutShort' = (cutShort \/ root.files = "some")
    /\ UNCHANGED <<root, births, watching, raced>>

\* startWatcher keeps the watcher it has, of this directory or an earlier one.
StartWatcher == watching' = IF watching = 0 THEN births ELSE watching

\* prepareAgentCheckout, which fails when files vanish under it.
OwnCheckout(r) ==
    /\ \/ /\ Steps(r, "own", "answered") /\ root.dir
          /\ StartWatcher
       \/ /\ Steps(r, "own", "failed") /\ (~root.dir \/ Another(r, {"cloning"}))
          /\ UNCHANGED watching
    /\ UNCHANGED <<root, births, kills, cutShort, raced>>

\* filesync's Register, for a checkout that is not there.
PreparePlaceholder ==
    /\ root = Absent /\ births = 0
    /\ root' = Bare("init") /\ births' = 1
    /\ UNCHANGED <<clone, watching, kills, cutShort, raced>>

CheckoutNext ==
    \/ \E r \in CloneRequests :
          \/ LookAtCheckout(r) \/ ClearPlaceholder(r) \/ RemoveCheckout(r) \/ StartClone(r)
          \/ GitClones(r) \/ ClientGivesUp(r) \/ OwnCheckout(r)
    \/ PreparePlaceholder

---------------------------------------------------------------------------
\* When requests have been answered and none is under way, the checkout a
\* successful one has promised is the whole repository, and the directory
\* watched is this one - whatever failed, was killed or was left by others
\* before.  It is not after a kill that left some of the files, or when two
\* requests met in the directory.
CheckoutAnswered ==
    (/\ \E r \in CloneRequests : clone[r] = "answered"
     /\ \A r \in CloneRequests : clone[r] \in {"idle", "answered", "failed"}
     /\ ~cutShort /\ ~raced)
    => root = WholeCheckout /\ watching = births
=============================================================================
