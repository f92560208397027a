------------------------------- MODULE HostTools -------------------------------
(***************************************************************************)
(* The parts of the system that work on files and processes, each in       *)
(* behaviours of its own: they share no state in these models.  A part     *)
(* that is not looked at rests in one of its initial states.               *)
(***************************************************************************)
EXTENDS HostSession, TerminalSession, RepositoryCheckout, RepositoryWatcher, PublishChanges, HostMirrors

VARIABLE tool   \* the part a behaviour is about

toolVars == <<tool, vars, termVars, checkoutVars, watcherVars, publishVars, mirrorVars>>

ToolInit ==
    /\ tool \in {"session", "terminal", "checkout", "watcher", "publish", "mirrors"}
    /\ Init
    /\ TerminalInit(IF tool = "terminal" THEN {"container", "host"} ELSE {"host"})
    /\ CheckoutInit /\ WatcherInit /\ PublishInit /\ MirrorInit
    /\ tool # "terminal" => command = "none"
    /\ tool # "checkout" => root = Absent
    /\ tool # "watcher" => tree = {0}
    /\ tool # "publish" => \A p \in Publications :
                               /\ publication[p].run = CHOOSE i \in RunIds : TRUE
                               /\ publication[p].branch = CHOOSE b \in Branches : TRUE
    /\ tool # "mirrors" => ~engine

ToolNext ==
    /\ UNCHANGED tool
    /\ \/ /\ tool = "session" /\ Next
          /\ UNCHANGED <<termVars, checkoutVars, watcherVars, publishVars, mirrorVars>>
       \/ /\ tool = "terminal" /\ TerminalNext
          /\ UNCHANGED <<vars, checkoutVars, watcherVars, publishVars, mirrorVars>>
       \/ /\ tool = "checkout" /\ CheckoutNext
          /\ UNCHANGED <<vars, termVars, watcherVars, publishVars, mirrorVars>>
       \/ /\ tool = "watcher" /\ WatcherNext
          /\ UNCHANGED <<vars, termVars, checkoutVars, publishVars, mirrorVars>>
       \/ /\ tool = "publish" /\ PublishNext
          /\ UNCHANGED <<vars, termVars, checkoutVars, watcherVars, mirrorVars>>
       \/ /\ tool = "mirrors" /\ MirrorNext
          /\ UNCHANGED <<vars, termVars, checkoutVars, watcherVars, publishVars>>

\* Goroutines and handlers are scheduled, in the part a behaviour is about, and
\* the contexts of prompts end: the gateway asks with a timeout of two minutes.
ToolFairness ==
    /\ \A c \in Prompts :
        /\ WF_vars(tool = "session" /\ (OpenSession(c) \/ Save(c) \/ Prompt(c)))
        /\ WF_vars(tool = "session" /\ Collect(c))
        /\ WF_vars(tool = "session" /\ ReadPeer(c))
    /\ \A q \in Cancels : WF_vars(tool = "session" /\ (Save(q) \/ Cancel(q)))
    /\ TerminalFairness
    /\ WF_watcherVars(tool = "watcher" /\ WatcherRun)

ToolSpec == ToolInit /\ [][ToolNext]_toolVars /\ ToolFairness
=============================================================================
