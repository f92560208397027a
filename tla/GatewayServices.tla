--------------------------- MODULE GatewayServices ---------------------------
(***************************************************************************)
(* The services of one gateway over one database: workspaces, channels     *)
(* with their secrets, agent tasks and the resource graph, restarted       *)
(* together.  `use` is what the clients of a behaviour ask for; it bounds  *)
(* the requests, never what a request does to the other services.          *)
(***************************************************************************)
EXTENDS ChannelSecrets, ResourceGraph

CONSTANTS
    Uses,           \* the kinds of clients, of those below
    Brief           \* those that send one request less than the others

ASSUME ServicesAssumption ==
    Uses \subseteq {"members", "channels", "messages", "secrets", "tasks", "graph"}

VARIABLES use

servicesVars == <<gatewayVars, memberVars, chatVars, secretVars, taskVars, graphVars, linked, use>>

\* A workspace with an owner and a member, for the clients that do not make one.
OneWorkspace ==
    \E owner \in Users, n \in Names :
        /\ wsSeq = 0
        /\ wsMem = NoWorkspace /\ roleMem = NoRoles
        /\ resMem = NoResources /\ resRow = NoResources
        /\ memberAcked = {} /\ memberRefused = {}
        /\ wsRow = [NoWorkspace EXCEPT ![Home] = [slug |-> n, by |-> owner]]
        /\ roleRow = [NoRoles EXCEPT ![Home] = [u \in Users |-> IF u = owner THEN "owner" ELSE "member"]]

NoTask == agentRow = {} /\ taskRow = Nothing

Init ==
    /\ use \in Uses
    /\ IF use = "members" THEN MembersInit ELSE OneWorkspace
    /\ GatewayInit(IF use \in Brief THEN 1 ELSE 0) /\ ChatInit /\ SecretInit /\ TaskInit /\ GraphInit
    /\ use = "members" => chanRow = NoItems /\ threadRow = {}
    /\ use = "secrets" => chanRow # NoItems
    /\ use \in {"members", "channels", "messages", "secrets"} => NoTask
    /\ use \in {"tasks", "graph"} => threadRow = {1}
    /\ use = "graph" => agentRow = Users /\ taskRow = Nothing

Restart ==
    /\ GatewayRestart
    /\ MembersRestart /\ ChatRestart /\ SecretRestart /\ TaskRestart /\ GraphRestart

Serves ==
    \/ use = "members" /\ MembersNext /\ UNCHANGED <<chatVars, secretVars, taskVars, linked>>
    \/ use = "channels" /\ ChannelNext /\ UNCHANGED <<memberVars, secretVars, taskVars, linked>>
    \/ use = "messages" /\ MessageNext /\ UNCHANGED <<memberVars, secretVars, taskVars, linked>>
    \/ use = "secrets" /\ SecretNext /\ UNCHANGED <<memberVars, chatVars, taskVars, graphVars, linked>>
    \/ use = "tasks" /\ TaskNext /\ UNCHANGED <<memberVars, secretVars, linked>>
    \/ use = "graph" /\ GraphNext /\ UNCHANGED <<memberVars, secretVars, taskVars>>

Next == (Serves \/ Restart) /\ UNCHANGED use

Spec == Init /\ [][Next]_servicesVars
=============================================================================
