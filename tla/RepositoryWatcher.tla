--------------------------- MODULE RepositoryWatcher ---------------------------
(***************************************************************************)
(* The watcher of one checkout (internal/repository/watcher.go): a         *)
(* goroutine that reads file events, watches the directories they report   *)
(* and, a little later, publishes the status git reads.  The inotify       *)
(* queue drops events when it is full, and a user has so many watches.     *)
(***************************************************************************)
EXTENDS Naturals, Sequences, FiniteSets, SequencesExt

CONSTANTS
    LastDirectory,  \* directories are 0 .. LastDirectory
    MaxVersion,     \* bound on the changes of the checkout
    EventQueue,     \* events the kernel keeps
    MaxWatches      \* watches the kernel allows

ASSUME WatcherAssumption == {LastDirectory, MaxVersion, EventQueue, MaxWatches} \subseteq Nat

\* 0 is the checkout, 1 a directory of it, the others are directories of 1.
Directories == 0 .. LastDirectory
Parent(d) == IF d = 1 THEN 0 ELSE 1

VARIABLES
    tree,       \* the directories there are
    version,    \* changes of the checkout so far
    watched,    \* the directories with a watch
    events,     \* not read yet: [op, dir]
    run,        \* the goroutine: where it is, the steps of its walk, the status it has read
    timer,      \* the debounce timer is armed, or has fired
    published,  \* the version whose status was published last
    since,      \* the version when Start returned
    failed,     \* the last refresh has failed
    cut         \* a created directory was not followed up

treeVars == <<tree, version>>
watchVars == <<watched, events, cut>>
statusVars == <<published, since, failed>>
watcherVars == <<treeVars, watchVars, run, timer, statusVars>>

In(d) == SetToSortSeq({c \in tree \ {0} : Parent(c) = d}, <)
Walking(label, d) == [at |-> label, todo |-> <<<<"add", d>>>>, seen |-> 0]
Selecting == [at |-> "select", todo |-> <<>>, seen |-> 0]

WatcherInit ==
    /\ tree \in {{0}, {0, 1}} /\ version = 0
    /\ watched = {} /\ events = <<>> /\ cut = FALSE
    /\ run = Walking("start", 0) /\ timer = FALSE
    /\ published = 0 /\ since = 0 /\ failed = FALSE

---------------------------------------------------------------------------
\* An event of directory d, if it is watched and the queue has room.
Notify(d, op, dir) ==
    /\ version < MaxVersion /\ version' = version + 1
    /\ IF d \in watched /\ Len(events) < EventQueue
       THEN events' = Append(events, [op |-> op, dir |-> dir]) /\ UNCHANGED cut
       ELSE cut' = (cut \/ (d \in watched /\ op = "create")) /\ UNCHANGED events
    /\ UNCHANGED <<run, timer, statusVars>>

Edit(d) == d \in tree /\ Notify(d, "write", d) /\ UNCHANGED <<tree, watched>>

MakeDirectory(d) ==
    /\ d \notin tree /\ Parent(d) \in tree
    /\ tree' = tree \cup {d}
    /\ Notify(Parent(d), "create", d) /\ UNCHANGED watched

RemoveDirectory(d) ==
    /\ d \in tree \ {0} /\ In(d) = <<>>
    /\ tree' = tree \ {d} /\ watched' = watched \ {d}
    /\ Notify(Parent(d), "remove", d)

---------------------------------------------------------------------------
\* addDirectories, of Start and of an event: watch a directory, then read it;
\* the first error ends the walk.
Step(goesOn, then) ==
    \/ goesOn /\ run' = [run EXCEPT !.todo = then \o Tail(@)] /\ UNCHANGED <<timer, cut>>
    \/ /\ ~goesOn /\ run.at = "start"
       /\ run' = [run EXCEPT !.at = "off", !.todo = <<>>] /\ UNCHANGED <<timer, cut>>
    \/ /\ ~goesOn /\ run.at = "walk"
       /\ run' = Selecting /\ timer' = TRUE
       /\ cut' = (cut \/ Head(run.todo)[2] \in tree \/ Tail(run.todo) # <<>>)

\* Mutant: only the directory itself is watched.
WalkShallow ==
    /\ run.at \in {"start", "walk"} /\ run.todo # <<>>
    /\ LET d == Head(run.todo)[2] IN
       /\ Step(d \in tree /\ Cardinality(watched \cup {d}) <= MaxWatches, <<>>)
       /\ watched' = IF run'.at # run.at THEN watched ELSE watched \cup {d}
    /\ UNCHANGED <<treeVars, events, statusVars>>

Walk ==
    /\ run.at \in {"start", "walk"} /\ run.todo # <<>>
    /\ LET op == Head(run.todo)[1]
           d == Head(run.todo)[2]
           fits == d \in tree /\ Cardinality(watched \cup {d}) <= MaxWatches
       IN \/ op = "add" /\ Step(fits, <<<<"read", d>>>>)
             /\ watched' = IF fits THEN watched \cup {d} ELSE IF run.at = "start" THEN {} ELSE watched
          \/ op = "read" /\ Step(d \in tree, [i \in DOMAIN In(d) |-> <<"add", In(d)[i]>>])
             /\ watched' = IF d \notin tree /\ run.at = "start" THEN {} ELSE watched
    /\ UNCHANGED <<treeVars, events, statusVars>>

\* Start returns, or the event is handled: its refresh is due after the walk.
Walked ==
    /\ run.at \in {"start", "walk"} /\ run.todo = <<>>
    /\ run' = Selecting
    /\ \/ run.at = "start" /\ since' = version /\ UNCHANGED timer
       \/ run.at = "walk" /\ timer' = TRUE /\ UNCHANGED since
    /\ UNCHANGED <<treeVars, watchVars, published, failed>>

HandleEvent ==
    /\ run.at = "select" /\ events # <<>>
    /\ events' = Tail(events)
    /\ IF Head(events).op = "create"
       THEN run' = Walking("walk", Head(events).dir) /\ UNCHANGED timer
       ELSE timer' = TRUE /\ UNCHANGED run
    /\ UNCHANGED <<treeVars, watched, cut, statusVars>>

TimerFires ==
    /\ run.at = "select" /\ timer
    /\ timer' = FALSE /\ run' = [run EXCEPT !.at = "status"]
    /\ UNCHANGED <<treeVars, watchVars, statusVars>>

\* publishStatus: git reads the status, the hub gets it; a failure is dropped.
PublishStatus ==
    /\ \/ /\ run.at = "status"
          /\ run' = [run EXCEPT !.at = "publish", !.seen = version]
          /\ UNCHANGED statusVars
       \/ /\ run.at = "publish"
          /\ run' = Selecting /\ published' = run.seen /\ failed' = FALSE /\ UNCHANGED since
       \/ /\ run.at \in {"status", "publish"}
          /\ run' = Selecting /\ failed' = TRUE /\ UNCHANGED <<published, since>>
    /\ UNCHANGED <<treeVars, watchVars, timer>>

WatcherRun == Walk \/ Walked \/ HandleEvent \/ TimerFires \/ PublishStatus

WatcherNext ==
    \/ \E d \in Directories : Edit(d) \/ MakeDirectory(d) \/ RemoveDirectory(d)
    \/ WatcherRun

---------------------------------------------------------------------------
\* When the checkout rests, the status published last is the status it has,
\* unless nothing has changed since Start, the last refresh has failed, a new
\* directory was not followed up, or the watcher did not start.
SeesLastChange ==
    <>[](published = version \/ version = since \/ failed \/ cut \/ run.at = "off")
=============================================================================
