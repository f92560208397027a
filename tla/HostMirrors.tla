------------------------------ MODULE HostMirrors ------------------------------
(***************************************************************************)
(* Folders of the host connected as resources: CreateMirror of the host    *)
(* agent (internal/hostagent/server.go), the gateway's Register            *)
(* (internal/filesync/service.go), the Syncthing of each side and the      *)
(* approvals in the host agent's configuration (hostagent/config.go).      *)
(* Every call may fail; one to the gateway may have had its effect.        *)
(***************************************************************************)
EXTENDS Naturals

CONSTANTS
    Folders,        \* folders of the host
    OtherSaves,     \* requests that save the configuration for another reason
    MaxTries,       \* bound on the requests for a folder
    MaxImports,     \* bound on the imports of a configuration
    MaxHostStops    \* bound on the host agent's stops

ASSUME MirrorAssumption ==
    /\ {MaxTries, MaxImports, MaxHostStops} \subseteq Nat
    /\ Folders \cap OtherSaves = {} /\ "import" \notin Folders \cup OtherSaves

VARIABLES
    engine,     \* the host agent has a Syncthing
    catalog,    \* the folders that are resources of the gateway
    gateway,    \* of the gateway, the folders with: a .git, a shared folder, its ignores, a session
    host,       \* of the host: shared folders, their ignores
    mirror,     \* the request for each folder: where it is, how many there were
    statusCopy, \* the session a request to Status has read, of each folder
    approved,   \* resources in s.config
    index,      \* s.mirrors
    disk,       \* runspace-local.json: can it be read, its resources
    exported,   \* the configuration exported last
    imports,
    save,       \* each call of saveConfig: [at, what it has marshalled]
    agent,      \* the host agent: [up, stops]
    told,       \* the folders whose approval was answered with success
    undone      \* those an import or an older save has taken back

mirrorGateway == <<catalog, gateway, statusCopy>>
mirrorConfig == <<approved, index, disk, exported, imports, save>>
mirrorTold == <<told, undone>>
mirrorVars == <<engine, mirrorGateway, host, mirror, mirrorConfig, agent, mirrorTold>>

Savers == Folders \cup OtherSaves \cup {"import"}

MirrorInit ==
    /\ engine \in BOOLEAN /\ catalog = {}
    /\ gateway = [git |-> {}, folder |-> {}, ignores |-> {}, session |-> {}]
    /\ host = [folder |-> {}, ignores |-> {}]
    /\ mirror = [f \in Folders |-> [at |-> "idle", tries |-> 0]]
    /\ statusCopy = [f \in Folders |-> "none"]
    /\ approved = {} /\ index = {} /\ disk = [whole |-> TRUE, folders |-> {}]
    /\ exported = {} /\ imports = 0
    /\ save = [c \in Savers |-> [at |-> "idle", folders |-> {}]]
    /\ agent = [up |-> TRUE, stops |-> 0]
    /\ told = {} /\ undone = {}

---------------------------------------------------------------------------
\* A step of the request for f: it goes on, or answers an error, "idle".
Moves(f, from, labels) ==
    /\ agent.up /\ mirror[f].at = from
    /\ \E label \in labels : mirror' = [mirror EXCEPT ![f].at = label]

\* A call of the gateway, or of a Syncthing, and whether it succeeds.
GatewayCall(f, from, next) == Moves(f, from, {next, "idle"})
EngineCall(f, from, next) == Moves(f, from, {next, "idle"})

\* The folder becomes a resource, or is one already.
RegisterResource(f) ==
    /\ agent.up /\ mirror[f].at = "idle" /\ mirror[f].tries < MaxTries
    /\ \E label \in {"idle", IF engine THEN "seed" ELSE "approve"} :
          /\ label # "idle" => f \notin catalog
          /\ mirror' = [mirror EXCEPT ![f] = [at |-> label, tries |-> @.tries + 1]]
          /\ \/ catalog' = catalog \cup {f}
             \/ label = "idle" /\ UNCHANGED catalog
    /\ UNCHANGED <<engine, gateway, statusCopy, host, mirrorConfig, agent, mirrorTold>>

\* A folder with a remote is cloned on the gateway first.
SeedCheckout(f) ==
    /\ GatewayCall(f, "seed", "register")
    /\ gateway' \in {gateway, [gateway EXCEPT !.git = @ \cup {f}]}
    /\ UNCHANGED <<engine, catalog, statusCopy, host, mirrorConfig, agent, mirrorTold>>

\* Register prepares the checkout and shares it, then protects .git, then keeps
\* the session; an error is the request's.
ShareOnGateway(f) ==
    /\ EngineCall(f, "register", "protect")
    /\ \E shared \in {{}, {f}} :
          /\ mirror'[f].at # "idle" => shared = {f}
          /\ \E git \in {{}, {f}} :
                gateway' = [gateway EXCEPT !.git = @ \cup git, !.folder = @ \cup shared]
    /\ UNCHANGED <<engine, catalog, statusCopy, host, mirrorConfig, agent, mirrorTold>>

\* Mutant: an error of SetIgnores is dropped.
IgnoreOnGatewayAnyway(f) ==
    /\ EngineCall(f, "protect", "shareHost")
    /\ \/ gateway' = [gateway EXCEPT !.ignores = @ \cup {f}, !.session = @ \cup {f}]
       \/ gateway' = [gateway EXCEPT !.session = @ \cup {f}]
    /\ UNCHANGED <<engine, catalog, statusCopy, host, mirrorConfig, agent, mirrorTold>>

IgnoreOnGateway(f) ==
    /\ EngineCall(f, "protect", "shareHost")
    /\ \/ gateway' = [gateway EXCEPT !.ignores = @ \cup {f}, !.session = @ \cup {f}]
       \/ mirror'[f].at = "idle" /\ gateway' \in {gateway, [gateway EXCEPT !.ignores = @ \cup {f}]}
    /\ UNCHANGED <<engine, catalog, statusCopy, host, mirrorConfig, agent, mirrorTold>>

\* Then the host shares its side, and protects it.
ShareOnHost(f) ==
    /\ EngineCall(f, "shareHost", "protectHost")
    /\ \/ host' = [host EXCEPT !.folder = @ \cup {f}]
       \/ mirror'[f].at = "idle" /\ UNCHANGED host
    /\ UNCHANGED <<engine, mirrorGateway, mirrorConfig, agent, mirrorTold>>

IgnoreOnHost(f) ==
    /\ EngineCall(f, "protectHost", "approve")
    /\ \/ host' = [host EXCEPT !.ignores = @ \cup {f}]
       \/ mirror'[f].at = "idle" /\ UNCHANGED host
    /\ UNCHANGED <<engine, mirrorGateway, mirrorConfig, agent, mirrorTold>>

\* Status keeps the session it has read, or made up, with the engine's answer.
ReadSyncStatus(f) ==
    /\ f \in catalog
    /\ \/ statusCopy[f] = "none" /\ UNCHANGED gateway
          /\ statusCopy' = [statusCopy EXCEPT ![f] = IF f \in gateway.session THEN "kept" ELSE "madeUp"]
       \/ /\ statusCopy[f] # "none" /\ statusCopy' = [statusCopy EXCEPT ![f] = "none"]
          /\ gateway' = [gateway EXCEPT !.session = IF statusCopy[f] = "kept" THEN @ \cup {f} ELSE @ \ {f}]
    /\ UNCHANGED <<engine, catalog, host, mirror, mirrorConfig, agent, mirrorTold>>

---------------------------------------------------------------------------
\* saveConfig marshals under the lock, later writes the file.
Marshals(c) == save[c].at = "marshal" /\ save' = [save EXCEPT ![c] = [at |-> "write", folders |-> approved]]
Due(c) == save' = [save EXCEPT ![c] = [at |-> "marshal", folders |-> {}]]

ApproveMirror(f) ==
    /\ Moves(f, "approve", {"save"}) /\ Due(f)
    /\ approved' = approved \cup {f} /\ index' = index \cup {f}
    /\ UNCHANGED <<engine, mirrorGateway, host, disk, exported, imports, agent, mirrorTold>>

\* The user's part is replaced by one exported before, and s.mirrors made anew.
ImportConfig ==
    /\ agent.up /\ imports < MaxImports /\ save["import"].at = "idle"
    /\ imports' = imports + 1 /\ Due("import")
    /\ approved' = exported /\ index' = exported
    /\ undone' = undone \cup (told \ exported)
    /\ UNCHANGED <<engine, mirrorGateway, host, mirror, disk, exported, agent, told>>

ExportConfig ==
    /\ agent.up /\ exported # approved /\ exported' = approved
    /\ UNCHANGED <<engine, mirrorGateway, host, mirror, approved, index, disk, imports, save, agent, mirrorTold>>

\* An agent's preference, a capability or a chat.
SaveAgentPreference(c) ==
    /\ agent.up /\ save[c].at = "idle" /\ Due(c)
    /\ UNCHANGED <<engine, mirrorGateway, host, mirror, approved, index, disk, exported, imports, agent, mirrorTold>>

Marshal(c) ==
    /\ agent.up /\ Marshals(c)
    /\ UNCHANGED <<engine, mirrorGateway, host, mirror, approved, index, disk, exported, imports, agent, mirrorTold>>

\* The write replaces the file, whatever was written since; or it fails, and may
\* have cut the file.
WriteConfig(c) ==
    /\ agent.up /\ save[c].at = "write"
    /\ save' = [save EXCEPT ![c] = [at |-> "idle", folders |-> {}]]
    /\ mirror' = IF c \in Folders THEN [mirror EXCEPT ![c].at = "idle"] ELSE mirror
    /\ \/ /\ disk' = [whole |-> TRUE, folders |-> save[c].folders]
          /\ told' = told \cup ({c} \cap Folders)
          /\ undone' = undone \cup (told \ save[c].folders) \cup (({c} \cap Folders) \ approved)
       \/ disk' \in {disk, [whole |-> FALSE, folders |-> {}]} /\ UNCHANGED mirrorTold
    /\ UNCHANGED <<engine, mirrorGateway, host, approved, index, exported, imports, agent>>

\* The host agent stops, maybe in the middle of a write.
StopHostAgent ==
    /\ agent.up /\ agent.stops < MaxHostStops
    /\ agent' = [up |-> FALSE, stops |-> agent.stops + 1]
    /\ mirror' = [f \in Folders |-> [mirror[f] EXCEPT !.at = "idle"]]
    /\ disk' \in {disk} \cup
          {[whole |-> FALSE, folders |-> {}] : c \in {c \in Savers : save[c].at = "write"}}
    /\ save' = [c \in Savers |-> [at |-> "idle", folders |-> {}]]
    /\ approved' = {} /\ index' = {}
    /\ UNCHANGED <<engine, mirrorGateway, host, exported, imports, mirrorTold>>

\* Mutant: s.mirrors is not made anew.
EnableApprovalsOnly ==
    /\ ~agent.up /\ disk.whole
    /\ agent' = [agent EXCEPT !.up = TRUE] /\ approved' = disk.folders
    /\ UNCHANGED <<engine, mirrorGateway, host, mirror, index, disk, exported, imports, save, mirrorTold>>

\* EnableApprovalPersistence reads a file that is whole and makes s.mirrors anew.
EnableApprovalPersistence ==
    /\ ~agent.up /\ disk.whole
    /\ agent' = [agent EXCEPT !.up = TRUE]
    /\ approved' = disk.folders /\ index' = disk.folders
    /\ UNCHANGED <<engine, mirrorGateway, host, mirror, disk, exported, imports, save, mirrorTold>>

MirrorNext ==
    \/ \E f \in Folders :
          \/ RegisterResource(f) \/ SeedCheckout(f) \/ ShareOnGateway(f) \/ IgnoreOnGateway(f)
          \/ ShareOnHost(f) \/ IgnoreOnHost(f) \/ ReadSyncStatus(f) \/ ApproveMirror(f)
    \/ \E c \in OtherSaves : SaveAgentPreference(c)
    \/ \E c \in Savers : Marshal(c) \/ WriteConfig(c)
    \/ ImportConfig \/ ExportConfig \/ StopHostAgent \/ EnableApprovalPersistence

---------------------------------------------------------------------------
\* A folder both sides share is protected on the gateway's, however often steps
\* failed and were tried again: no .git travels.
GitStaysPut == \A f \in host.folder \cap gateway.folder : f \in gateway.ignores

\* A folder whose approval was answered with success is served to terminals and
\* file requests, after restarts too, unless an import has replaced it or a save
\* that had marshalled before it has overwritten it.
ApprovalSurvives == agent.up => told \ undone \subseteq index
=============================================================================
