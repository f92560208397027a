---------------------------- MODULE HostToolsProofs ----------------------------
(***************************************************************************)
(* Proofs about the tools: mirrors, terminals, publications, checkouts.    *)
(* Each part has an inductive invariant of its own; a step of another part *)
(* leaves it alone.                                                        *)
(***************************************************************************)
EXTENDS HostTools, Integers, TLAPS

-----------------------------------------------------------------------------
(* Mirrors.                                                                *)

MirrorStep ==
    {"idle", "seed", "register", "protect", "shareHost", "protectHost", "approve", "save"}

GatewayFolders ==
    [git : SUBSET Folders, folder : SUBSET Folders, ignores : SUBSET Folders, session : SUBSET Folders]
DiskFile == [whole : BOOLEAN, folders : SUBSET Folders]
HostFolders == [folder : SUBSET Folders, ignores : SUBSET Folders]

\* The records of the mirrors have their fields.
MirrorTypes ==
    /\ gateway \in GatewayFolders /\ host \in HostFolders
    /\ mirror \in [Folders -> [at : MirrorStep, tries : Nat]]
    /\ save \in [Savers -> [at : {"idle", "marshal", "write"}, folders : SUBSET Folders]]
    /\ disk \in DiskFile
    /\ agent \in [up : BOOLEAN, stops : Nat]
    /\ approved \in SUBSET Folders /\ exported \in SUBSET Folders
    /\ told \in SUBSET Folders

\* The host shares a folder only after the gateway has protected it.
ProtectedFirst ==
    /\ \A f \in Folders :
        mirror[f].at \in {"shareHost", "protectHost"} => f \in gateway.ignores
    /\ host.folder \subseteq gateway.ignores

\* Nothing is shared when the gateway and the host start.
LEMMA MirrorStarts == MirrorInit => MirrorTypes /\ ProtectedFirst
<1> SUFFICES ASSUME MirrorInit PROVE MirrorTypes /\ ProtectedFirst
  OBVIOUS
<1>1. MirrorTypes
  BY DEF MirrorInit, MirrorTypes, MirrorStep, GatewayFolders, HostFolders, DiskFile
<1> QED BY <1>1 DEF MirrorInit, ProtectedFirst

\* A step of the request for f leaves the other requests alone.
LEMMA MovesType ==
    ASSUME MirrorTypes, NEW f \in Folders, NEW from, NEW labels \in SUBSET MirrorStep,
           Moves(f, from, labels)
    PROVE  /\ mirror' \in [Folders -> [at : MirrorStep, tries : Nat]]
           /\ mirror[f].at = from /\ mirror'[f].at \in labels
           /\ \A g \in Folders \ {f} : mirror'[g] = mirror[g]
BY DEF Moves, MirrorTypes

\* What a step of the request for f may do to the folders that are shared.
LEMMA RequestKeeps ==
    ASSUME MirrorTypes, ProtectedFirst, NEW f \in Folders,
           mirror' \in [Folders -> [at : MirrorStep, tries : Nat]],
           \A g \in Folders \ {f} : mirror'[g] = mirror[g],
           gateway' \in GatewayFolders, gateway.ignores \subseteq gateway'.ignores,
           host' \in HostFolders, host'.folder \subseteq host.folder \cup (gateway.ignores \cap {f}),
           mirror'[f].at \in {"shareHost", "protectHost"} => f \in gateway'.ignores,
           save' \in [Savers -> [at : {"idle", "marshal", "write"}, folders : SUBSET Folders]],
           UNCHANGED <<disk, agent, exported, told>>, approved' \in SUBSET Folders
    PROVE  MirrorTypes' /\ ProtectedFirst'
<1>1. MirrorTypes'
  BY DEF MirrorTypes
<1>2. \A g \in Folders :
        mirror'[g].at \in {"shareHost", "protectHost"} => g \in gateway'.ignores
  BY DEF ProtectedFirst
<1>3. host'.folder \subseteq gateway'.ignores
  BY DEF ProtectedFirst
<1> QED BY <1>1, <1>2, <1>3 DEF ProtectedFirst

\* The steps of a request to mirror a folder keep the order of the two sides.
LEMMA RequestSteps ==
    ASSUME MirrorTypes, ProtectedFirst, NEW f \in Folders,
           \/ RegisterResource(f) \/ SeedCheckout(f) \/ ShareOnGateway(f) \/ IgnoreOnGateway(f)
           \/ ShareOnHost(f) \/ IgnoreOnHost(f) \/ ReadSyncStatus(f) \/ ApproveMirror(f)
    PROVE  MirrorTypes' /\ ProtectedFirst'
<1> USE DEF mirrorGateway, mirrorConfig, mirrorTold
<1> gateway \in GatewayFolders /\ host \in HostFolders
  BY DEF MirrorTypes
<1> {f} \in SUBSET Folders /\ {} \in SUBSET Folders
  OBVIOUS
<1> save \in [Savers -> [at : {"idle", "marshal", "write"}, folders : SUBSET Folders]] /\ approved \in SUBSET Folders
  BY DEF MirrorTypes
<1>1. CASE RegisterResource(f)
  <2>1. PICK label \in {"idle", "seed", "approve"} :
            mirror' = [mirror EXCEPT ![f] = [at |-> label, tries |-> mirror[f].tries + 1]]
    BY <1>1 DEF RegisterResource
  <2>2. [at |-> label, tries |-> mirror[f].tries + 1] \in [at : MirrorStep, tries : Nat]
    <3>1. mirror[f] \in [at : MirrorStep, tries : Nat]
      BY DEF MirrorTypes
    <3>2. mirror[f].tries + 1 \in Nat
      BY <3>1
    <3>3. label \in MirrorStep
      BY DEF MirrorStep
    <3> QED BY <3>2, <3>3
  <2>3. mirror' \in [Folders -> [at : MirrorStep, tries : Nat]]
    BY <2>1, <2>2 DEF MirrorTypes
  <2>4. mirror'[f].at = label /\ \A g \in Folders \ {f} : mirror'[g] = mirror[g]
    BY <2>1 DEF MirrorTypes
  <2> QED BY <1>1, <2>3, <2>4, RequestKeeps DEF RegisterResource
<1>2. CASE SeedCheckout(f)
  <2>1. Moves(f, "seed", {"register", "idle"})
    BY <1>2 DEF SeedCheckout, GatewayCall
  <2>2. gateway' \in GatewayFolders /\ gateway'.ignores = gateway.ignores
    BY <1>2 DEF SeedCheckout, GatewayFolders, GatewayCall, Moves
  <2>3. /\ mirror' \in [Folders -> [at : MirrorStep, tries : Nat]]
        /\ mirror'[f].at \in {"register", "idle"}
        /\ \A g \in Folders \ {f} : mirror'[g] = mirror[g]
    BY <2>1, MovesType DEF MirrorStep
  <2> QED BY <1>2, <2>2, <2>3, RequestKeeps DEF SeedCheckout
<1>3. CASE ShareOnGateway(f)
  <2>1. Moves(f, "register", {"protect", "idle"})
    BY <1>3 DEF ShareOnGateway, EngineCall
  <2>2. gateway' \in GatewayFolders /\ gateway'.ignores = gateway.ignores
    <3>1. PICK git \in {{}, {f}}, shared \in {{}, {f}} :
              gateway' = [gateway EXCEPT !.git = @ \cup git, !.folder = @ \cup shared]
      BY <1>3 DEF ShareOnGateway
    <3>2. git \in SUBSET Folders /\ shared \in SUBSET Folders
      OBVIOUS
    <3> QED BY <3>1, <3>2 DEF GatewayFolders
  <2>3. /\ mirror' \in [Folders -> [at : MirrorStep, tries : Nat]]
        /\ mirror'[f].at \in {"protect", "idle"}
        /\ \A g \in Folders \ {f} : mirror'[g] = mirror[g]
    BY <2>1, MovesType DEF MirrorStep
  <2> QED BY <1>3, <2>2, <2>3, RequestKeeps DEF ShareOnGateway
<1>4. CASE IgnoreOnGateway(f)
  <2>1. Moves(f, "protect", {"shareHost", "idle"})
    BY <1>4 DEF IgnoreOnGateway, EngineCall
  <2>2. /\ gateway' \in GatewayFolders /\ gateway.ignores \subseteq gateway'.ignores
        /\ mirror'[f].at # "idle" => f \in gateway'.ignores
    <3>1. CASE gateway' = [gateway EXCEPT !.ignores = @ \cup {f}, !.session = @ \cup {f}]
      BY <3>1 DEF GatewayFolders
    <3>2. CASE mirror'[f].at = "idle" /\ gateway' = [gateway EXCEPT !.ignores = @ \cup {f}]
      BY <3>2 DEF GatewayFolders
    <3>3. CASE mirror'[f].at = "idle" /\ gateway' = gateway
      BY <3>3
    <3> QED BY <1>4, <3>1, <3>2, <3>3 DEF IgnoreOnGateway
  <2>3. /\ mirror' \in [Folders -> [at : MirrorStep, tries : Nat]]
        /\ mirror'[f].at \in {"shareHost", "idle"}
        /\ \A g \in Folders \ {f} : mirror'[g] = mirror[g]
    BY <2>1, MovesType DEF MirrorStep
  <2> QED BY <1>4, <2>2, <2>3, RequestKeeps DEF IgnoreOnGateway
<1>5. CASE ShareOnHost(f)
  <2>1. Moves(f, "shareHost", {"protectHost", "idle"})
    BY <1>5 DEF ShareOnHost, EngineCall
  <2>2. mirror[f].at = "shareHost"
    BY <2>1 DEF Moves
  <2>3. f \in gateway.ignores
    BY <2>2 DEF ProtectedFirst
  <2>4. host' \in HostFolders /\ host'.folder \subseteq host.folder \cup {f}
    BY <1>5 DEF ShareOnHost, HostFolders, EngineCall, Moves
  <2>5. /\ mirror' \in [Folders -> [at : MirrorStep, tries : Nat]]
        /\ mirror'[f].at \in {"protectHost", "idle"}
        /\ \A g \in Folders \ {f} : mirror'[g] = mirror[g]
    BY <2>1, MovesType DEF MirrorStep
  <2> QED BY <1>5, <2>3, <2>4, <2>5, RequestKeeps DEF ShareOnHost
<1>6. CASE IgnoreOnHost(f)
  <2>1. Moves(f, "protectHost", {"approve", "idle"})
    BY <1>6 DEF IgnoreOnHost, EngineCall
  <2>2. host' \in HostFolders /\ host'.folder = host.folder
    BY <1>6 DEF IgnoreOnHost, HostFolders, EngineCall, Moves
  <2>3. /\ mirror' \in [Folders -> [at : MirrorStep, tries : Nat]]
        /\ mirror'[f].at \in {"approve", "idle"}
        /\ \A g \in Folders \ {f} : mirror'[g] = mirror[g]
    BY <2>1, MovesType DEF MirrorStep
  <2> QED BY <1>6, <2>2, <2>3, RequestKeeps DEF IgnoreOnHost
<1>7. CASE ReadSyncStatus(f)
  <2>1. gateway' \in GatewayFolders /\ gateway'.ignores = gateway.ignores
    BY <1>7 DEF ReadSyncStatus, GatewayFolders
  <2> QED BY <1>7, <2>1 DEF ReadSyncStatus, MirrorTypes, ProtectedFirst
<1>8. CASE ApproveMirror(f)
  <2>1. Moves(f, "approve", {"save"})
    BY <1>8 DEF ApproveMirror
  <2>2. save' \in [Savers -> [at : {"idle", "marshal", "write"}, folders : SUBSET Folders]]
    BY <1>8 DEF ApproveMirror, Due
  <2>3. /\ mirror' \in [Folders -> [at : MirrorStep, tries : Nat]]
        /\ mirror'[f].at = "save"
        /\ \A g \in Folders \ {f} : mirror'[g] = mirror[g]
    BY <2>1, MovesType DEF MirrorStep
  <2> QED BY <1>8, <2>2, <2>3, RequestKeeps DEF ApproveMirror
<1> QED BY <1>1, <1>2, <1>3, <1>4, <1>5, <1>6, <1>7, <1>8

\* Saves, imports, exports and restarts do not touch what is shared.
LEMMA ConfigSteps ==
    ASSUME MirrorTypes, ProtectedFirst,
           \/ \E c \in OtherSaves : SaveAgentPreference(c)
           \/ \E c \in Savers : Marshal(c) \/ WriteConfig(c)
           \/ ImportConfig \/ ExportConfig \/ StopHostAgent \/ EnableApprovalPersistence
    PROVE  MirrorTypes' /\ ProtectedFirst'
<1> USE DEF mirrorGateway, mirrorConfig, mirrorTold
<1>1. ASSUME NEW c \in OtherSaves, SaveAgentPreference(c) PROVE MirrorTypes' /\ ProtectedFirst'
  BY <1>1 DEF SaveAgentPreference, Due, MirrorTypes, ProtectedFirst, Savers
<1>2. ASSUME NEW c \in Savers, Marshal(c) PROVE MirrorTypes' /\ ProtectedFirst'
  BY <1>2 DEF Marshal, Marshals, MirrorTypes, ProtectedFirst
<1>3. ASSUME NEW c \in Savers, WriteConfig(c) PROVE MirrorTypes' /\ ProtectedFirst'
  <2>1. save' \in [Savers -> [at : {"idle", "marshal", "write"}, folders : SUBSET Folders]]
    BY <1>3 DEF WriteConfig, MirrorTypes
  <2>2. mirror' \in [Folders -> [at : MirrorStep, tries : Nat]]
    BY <1>3 DEF WriteConfig, MirrorTypes, MirrorStep
  <2>3. disk' \in DiskFile /\ told' \in SUBSET Folders
    <3>1. save[c].folders \in SUBSET Folders
      BY DEF MirrorTypes
    <3>2. [whole |-> TRUE, folders |-> save[c].folders] \in DiskFile
      BY <3>1 DEF DiskFile
    <3>3. [whole |-> FALSE, folders |-> {}] \in DiskFile /\ disk \in DiskFile
      BY DEF DiskFile, MirrorTypes
    <3> QED BY <1>3, <3>2, <3>3 DEF WriteConfig, MirrorTypes
  <2>4. \A f \in Folders : mirror'[f].at \in {mirror[f].at, "idle"}
    BY <1>3 DEF WriteConfig, MirrorTypes
  <2> QED BY <1>3, <2>1, <2>2, <2>3, <2>4 DEF WriteConfig, MirrorTypes, ProtectedFirst
<1>4. CASE ImportConfig
  BY <1>4 DEF ImportConfig, Due, MirrorTypes, ProtectedFirst, Savers
<1>5. CASE ExportConfig
  BY <1>5 DEF ExportConfig, MirrorTypes, ProtectedFirst
<1>6. CASE StopHostAgent
  <2>1. save' \in [Savers -> [at : {"idle", "marshal", "write"}, folders : SUBSET Folders]]
    BY <1>6 DEF StopHostAgent
  <2>2. mirror' \in [Folders -> [at : MirrorStep, tries : Nat]]
    BY <1>6 DEF StopHostAgent, MirrorTypes, MirrorStep
  <2>3. \A f \in Folders : mirror'[f].at = "idle"
    BY <1>6 DEF StopHostAgent, MirrorTypes
  <2>4. disk' \in DiskFile
    <3>1. disk' = disk \/ disk' = [whole |-> FALSE, folders |-> {}]
      BY <1>6 DEF StopHostAgent
    <3>2. [whole |-> FALSE, folders |-> {}] \in DiskFile
      BY DEF DiskFile
    <3> QED BY <3>1, <3>2 DEF MirrorTypes
  <2> QED BY <1>6, <2>1, <2>2, <2>3, <2>4 DEF StopHostAgent, MirrorTypes, ProtectedFirst
<1>7. CASE EnableApprovalPersistence
  <2>1. agent' \in [up : BOOLEAN, stops : Nat]
    BY <1>7 DEF EnableApprovalPersistence, MirrorTypes
  <2>2. approved' \in SUBSET Folders
    BY <1>7 DEF EnableApprovalPersistence, MirrorTypes, DiskFile
  <2> QED BY <1>7, <2>1, <2>2 DEF EnableApprovalPersistence, MirrorTypes, ProtectedFirst
<1> QED BY <1>1, <1>2, <1>3, <1>4, <1>5, <1>6, <1>7

\* The index and the approvals are the same set; what was answered with success is
\* in the approvals of an agent that runs and in a file that can be read.  A save
\* that misses its own folder comes after an import that has taken it back.
ApprovalInv ==
    /\ index = approved
    /\ ~agent.up => \A c \in Savers : save[c].at = "idle"
    /\ disk.whole => told \ undone \subseteq disk.folders
    /\ agent.up => told \ undone \subseteq approved
    /\ \A f \in Folders :
        /\ save[f].at # "idle" /\ f \notin approved => f \notin exported
        /\ save[f].at = "write" /\ f \notin save[f].folders => f \notin approved

\* No step loses an approval that was answered.
LEMMA ApprovalKept ==
    ASSUME MirrorTypes, ApprovalInv, MirrorNext
    PROVE  ApprovalInv'
<1> USE DEF mirrorGateway, mirrorConfig, mirrorTold
<1> Folders \subseteq Savers
  BY DEF Savers
<1>1. ASSUME NEW f \in Folders,
             \/ RegisterResource(f) \/ SeedCheckout(f) \/ ShareOnGateway(f) \/ IgnoreOnGateway(f)
             \/ ShareOnHost(f) \/ IgnoreOnHost(f) \/ ReadSyncStatus(f)
      PROVE  ApprovalInv'
  <2>1. UNCHANGED <<mirrorConfig, agent, mirrorTold>>
    BY <1>1 DEF RegisterResource, SeedCheckout, ShareOnGateway, IgnoreOnGateway, ShareOnHost, IgnoreOnHost, ReadSyncStatus
  <2> QED BY <2>1 DEF ApprovalInv
<1>2. ASSUME NEW f \in Folders, ApproveMirror(f) PROVE ApprovalInv'
  <2>1. /\ agent.up /\ agent' = agent /\ approved' = approved \cup {f} /\ index' = index \cup {f}
        /\ save' = [save EXCEPT ![f] = [at |-> "marshal", folders |-> {}]]
        /\ UNCHANGED <<disk, exported, told, undone>>
    BY <1>2 DEF ApproveMirror, Due, Moves
  <2> QED BY <2>1 DEF ApprovalInv, MirrorTypes
<1>3. ASSUME NEW c \in OtherSaves, SaveAgentPreference(c) PROVE ApprovalInv'
  <2>1. c \notin Folders
    BY MirrorAssumption
  <2> QED BY <1>3, <2>1 DEF SaveAgentPreference, Due, ApprovalInv, MirrorTypes
<1>4. ASSUME NEW c \in Savers, Marshal(c) PROVE ApprovalInv'
  BY <1>4 DEF Marshal, Marshals, ApprovalInv, MirrorTypes
<1>5. ASSUME NEW c \in Savers, WriteConfig(c) PROVE ApprovalInv'
  <2>1. c \in Folders /\ c \in approved => c \in save[c].folders
    BY <1>5 DEF WriteConfig, ApprovalInv
  <2> QED BY <1>5, <2>1 DEF WriteConfig, ApprovalInv, MirrorTypes
<1>6. CASE ImportConfig
  <2>1. "import" \notin Folders
    BY MirrorAssumption
  <2> QED BY <1>6, <2>1 DEF ImportConfig, Due, ApprovalInv, MirrorTypes
<1>7. CASE ExportConfig
  BY <1>7 DEF ExportConfig, ApprovalInv, MirrorTypes
<1>8. CASE StopHostAgent
  <2>1. disk' = disk \/ disk' = [whole |-> FALSE, folders |-> {}]
    BY <1>8 DEF StopHostAgent
  <2> QED BY <1>8, <2>1 DEF StopHostAgent, ApprovalInv, MirrorTypes
<1>9. CASE EnableApprovalPersistence
  BY <1>9 DEF EnableApprovalPersistence, ApprovalInv, MirrorTypes
<1> QED BY <1>1, <1>2, <1>3, <1>4, <1>5, <1>6, <1>7, <1>8, <1>9 DEF MirrorNext

\* Nothing was approved or answered before.
LEMMA ApprovalStarts == MirrorInit => ApprovalInv
BY DEF MirrorInit, ApprovalInv

\* Every step of the mirrors keeps the order of the two sides.
LEMMA MirrorKept == ASSUME MirrorTypes, ProtectedFirst, MirrorNext PROVE MirrorTypes' /\ ProtectedFirst'
BY RequestSteps, ConfigSteps DEF MirrorNext

\* The invariants speak of the mirrors only.
LEMMA MirrorFrame ==
    ASSUME MirrorTypes, ProtectedFirst, ApprovalInv, UNCHANGED mirrorVars
    PROVE  MirrorTypes' /\ ProtectedFirst' /\ ApprovalInv'
<1> USE DEF mirrorVars, mirrorGateway, mirrorConfig, mirrorTold
<1>1. MirrorTypes'
  BY DEF MirrorTypes
<1>2. ProtectedFirst'
  BY DEF ProtectedFirst
<1>3. ApprovalInv'
  BY DEF ApprovalInv
<1> QED BY <1>1, <1>2, <1>3

-----------------------------------------------------------------------------
(* Terminals.                                                              *)

Copier == [at : {"read", "send", "end"}, chunk : Nat]
TerminalHandlers ==
    [at : {"write"}, chunk : Streams \X Nat] \cup
    [at : {"select", "input", "wait", "end"}, chunk : {0}]

TerminalTypes ==
    /\ pipe \in [Streams -> Seq(Nat)] /\ written \in [Streams -> Nat]
    /\ copier \in [Streams -> Copier]
    /\ output \in Seq(Streams \X Nat)
    /\ handler \in TerminalHandlers
    /\ shown \in [Streams -> Seq(Nat)]

Writing(s) == handler.at = "write" /\ handler.chunk[1] = s

\* Of stream s: the chunks that have left the output channel, those that have
\* left the pipe, and those that have gone into the channel.
Left(s) == IF Writing(s) THEN Len(shown[s]) + 1 ELSE Len(shown[s])
ReadUpTo(s) == written[s] - Len(pipe[s])
Entered(s) == IF copier[s].at = "send" THEN ReadUpTo(s) - 1 ELSE ReadUpTo(s)

\* While the client is there, every chunk of a stream is in one place: shown, in
\* the handler, in the channel, in the reader or in the pipe, in this order.
Flow(s) ==
    /\ \A i \in 1 .. Len(pipe[s]) : pipe[s][i] = ReadUpTo(s) + i
    /\ copier[s].at = "send" => copier[s].chunk = ReadUpTo(s)
    /\ Writing(s) => handler.chunk[2] = Len(shown[s]) + 1
    /\ Left(s) <= Entered(s)
    /\ \A k \in Left(s) + 1 .. Entered(s) : \E i \in 1 .. Len(output) : output[i] = <<s, k>>
    /\ \A i \in 1 .. Len(output) : output[i][1] = s => output[i][2] \in Left(s) + 1 .. Entered(s)
    /\ \A i, j \in 1 .. Len(output) :
        i < j /\ output[i][1] = s /\ output[j][1] = s => output[i][2] < output[j][2]

Live == ~gone /\ handler.at # "end"

TerminalInv ==
    /\ TerminalTypes
    /\ ShownIsPrefix
    /\ kind = "host" => output = <<>> /\ handler.at # "write"
    /\ cancelled => ~Live
    /\ Live => \A s \in Streams : Flow(s)

\* A terminal starts with empty pipes and an open channel.
LEMMA TerminalStarts == ASSUME NEW kinds, TerminalInit(kinds) PROVE TerminalInv /\ NoSendOnClosed
<1> USE DEF TerminalInit, OpenTerminal, RefuseTerminal, RefuseHostTerminal, Idle
<1>1. TerminalTypes
  <2>1. handler \in TerminalHandlers
    BY DEF TerminalHandlers
  <2>2. copier \in [Streams -> Copier]
    BY DEF Copier
  <2> QED BY <2>1, <2>2 DEF TerminalTypes
<1>2. ASSUME NEW s \in Streams PROVE Flow(s)
  BY DEF Flow, Left, Entered, ReadUpTo, Writing
<1> QED BY <1>1, <1>2 DEF TerminalInv, ShownIsPrefix, NoSendOnClosed

\* The flow depends on what the handler has to write and on nothing else it does.
LEMMA FlowFrame ==
    ASSUME NEW s \in Streams, Flow(s), UNCHANGED <<pipe, written, copier, output, shown>>,
           Writing(s)' = Writing(s), Writing(s) => handler' = handler
    PROVE  Flow(s)'
BY DEF Flow, Left, Entered, ReadUpTo, Writing

\* Steps that move no chunk, or end the session.
LEMMA QuietSteps ==
    ASSUME TerminalInv, handler' \in TerminalHandlers,
           UNCHANGED <<kind, pipe, written, copier, output, shown>>,
           handler.at # "write" /\ handler'.at # "write",
           Live' => Live, cancelled' => cancelled \/ ~Live'
    PROVE  TerminalInv'
<1>1. TerminalTypes' /\ ShownIsPrefix'
  BY DEF TerminalInv, TerminalTypes, ShownIsPrefix
<1>2. ASSUME Live', NEW s \in Streams PROVE Flow(s)'
  BY <1>2, FlowFrame DEF TerminalInv, Writing
<1> QED BY <1>1, <1>2 DEF TerminalInv

\* What the command writes is the next chunk of its stream.
LEMMA CommandWritesKeeps ==
    ASSUME TerminalInv, NEW s \in Streams, CommandWrites(s)
    PROVE  TerminalInv'
<1> USE DEF termOutput, termClient
<1>1. /\ pipe \in [Streams -> Seq(Nat)] /\ written \in [Streams -> Nat]
      /\ pipe[s] \in Seq(Nat) /\ written[s] \in Nat
  BY DEF TerminalInv, TerminalTypes
<1>2. /\ pipe' = [pipe EXCEPT ![s] = Append(pipe[s], written[s] + 1)]
      /\ written' = [written EXCEPT ![s] = written[s] + 1]
      /\ UNCHANGED <<kind, copier, output, handler, shown, gone, cancelled>>
  BY DEF CommandWrites
<1>3. /\ pipe' \in [Streams -> Seq(Nat)] /\ written' \in [Streams -> Nat]
      /\ \A r \in Streams \ {s} : pipe'[r] = pipe[r] /\ written'[r] = written[r]
      /\ pipe'[s] = Append(pipe[s], written[s] + 1) /\ written'[s] = written[s] + 1
  BY <1>1, <1>2
<1>4. ASSUME NEW r \in Streams, Flow(r) PROVE Flow(r)'
  <2>1. CASE r # s
    <3>1. pipe'[r] = pipe[r] /\ ReadUpTo(r)' = ReadUpTo(r)
      BY <1>3, <2>1 DEF ReadUpTo
    <3>2. Left(r)' = Left(r) /\ Entered(r)' = Entered(r) /\ Writing(r)' = Writing(r)
      BY <1>2, <3>1 DEF Left, Entered, Writing
    <3> QED BY <1>2, <1>4, <3>1, <3>2 DEF Flow
  <2>2. CASE r = s
    <3>1. ReadUpTo(s)' = ReadUpTo(s) /\ Len(pipe'[s]) = Len(pipe[s]) + 1
      BY <1>1, <1>3 DEF ReadUpTo
    <3>2. Left(s)' = Left(s) /\ Entered(s)' = Entered(s) /\ Writing(s)' = Writing(s)
      BY <1>2, <3>1 DEF Left, Entered, Writing
    <3>3. \A i \in 1 .. Len(pipe'[s]) : pipe'[s][i] = ReadUpTo(s)' + i
      <4>1. \A i \in 1 .. Len(pipe[s]) : pipe[s][i] = ReadUpTo(s) + i
        BY <1>4, <2>2 DEF Flow
      <4>2. ReadUpTo(s) + Len(pipe[s]) + 1 = written[s] + 1 /\ Len(pipe[s]) \in Nat /\ ReadUpTo(s) \in Int
        BY <1>1 DEF ReadUpTo
      <4>3. /\ \A i \in 1 .. Len(pipe[s]) : pipe'[s][i] = pipe[s][i]
            /\ pipe'[s][Len(pipe[s]) + 1] = written[s] + 1
        BY <1>1, <1>3
      <4>4. \A i \in 1 .. Len(pipe'[s]) : i \in 1 .. Len(pipe[s]) \/ i = Len(pipe[s]) + 1
        BY <3>1, <4>2
      <4> QED BY <3>1, <4>1, <4>2, <4>3, <4>4
    <3> QED BY <1>2, <1>4, <2>2, <3>1, <3>2, <3>3 DEF Flow
  <2> QED BY <2>1, <2>2
<1>5. TerminalTypes' /\ ShownIsPrefix'
  BY <1>2, <1>3 DEF TerminalInv, TerminalTypes, ShownIsPrefix
<1> QED BY <1>2, <1>4, <1>5 DEF TerminalInv, Live

\* A reader takes the first chunk of the pipe, or ends.
LEMMA CopyReadKeeps ==
    ASSUME TerminalInv, NEW s \in Streams, CopyRead(s)
    PROVE  TerminalInv'
<1> USE DEF termOutput, termClient
<1>1. /\ pipe \in [Streams -> Seq(Nat)] /\ written \in [Streams -> Nat]
      /\ pipe[s] \in Seq(Nat) /\ written[s] \in Nat
      /\ copier \in [Streams -> Copier]
  BY DEF TerminalInv, TerminalTypes
<1>2. UNCHANGED <<kind, written, output, handler, shown, gone, cancelled>> /\ copier[s].at = "read"
  BY DEF CopyRead
<1>3. CASE pipe[s] # <<>> /\ copier' = [copier EXCEPT ![s] = [at |-> "send", chunk |-> Head(pipe[s])]]
           /\ pipe' = [pipe EXCEPT ![s] = Tail(pipe[s])]
  <2>1. /\ Head(pipe[s]) \in Nat /\ Tail(pipe[s]) \in Seq(Nat) /\ Len(Tail(pipe[s])) = Len(pipe[s]) - 1
        /\ \A i \in 1 .. Len(Tail(pipe[s])) : Tail(pipe[s])[i] = pipe[s][i + 1]
        /\ Head(pipe[s]) = pipe[s][1] /\ 1 \in 1 .. Len(pipe[s])
    BY <1>1, <1>3
  <2>2. [at |-> "send", chunk |-> Head(pipe[s])] \in Copier
    BY <2>1 DEF Copier
  <2>3. /\ pipe' \in [Streams -> Seq(Nat)] /\ copier' \in [Streams -> Copier]
        /\ \A r \in Streams \ {s} : pipe'[r] = pipe[r] /\ copier'[r] = copier[r]
        /\ pipe'[s] = Tail(pipe[s]) /\ copier'[s].at = "send" /\ copier'[s].chunk = Head(pipe[s])
    BY <1>1, <1>3, <2>1, <2>2
  <2>4. ASSUME NEW r \in Streams, Flow(r) PROVE Flow(r)'
    <3>1. CASE r # s
      BY <1>2, <2>3, <2>4, <3>1 DEF Flow, Left, Entered, ReadUpTo, Writing
    <3>2. CASE r = s
      <4>1. ReadUpTo(s)' = ReadUpTo(s) + 1
        BY <1>1, <1>2, <2>1, <2>3 DEF ReadUpTo
      <4>2. Left(s)' = Left(s) /\ Entered(s)' = Entered(s) /\ Writing(s)' = Writing(s)
        BY <1>1, <1>2, <2>1, <2>3, <4>1 DEF Left, Entered, Writing, ReadUpTo
      <4>3. Head(pipe[s]) = ReadUpTo(s)'
        BY <1>1, <2>1, <2>4, <3>2, <4>1 DEF Flow
      <4>4. \A i \in 1 .. Len(pipe'[s]) : pipe'[s][i] = ReadUpTo(s)' + i
        <5>1. \A i \in 1 .. Len(pipe[s]) : pipe[s][i] = ReadUpTo(s) + i
          BY <2>4, <3>2 DEF Flow
        <5>2. ReadUpTo(s) \in Int
          BY <1>1 DEF ReadUpTo
        <5>3. \A i \in 1 .. Len(Tail(pipe[s])) : i + 1 \in 1 .. Len(pipe[s])
          BY <1>1, <2>1
        <5>4. \A i \in 1 .. Len(Tail(pipe[s])) : Tail(pipe[s])[i] = ReadUpTo(s) + (i + 1)
          BY <2>1, <5>1, <5>3
        <5>5. \A i \in 1 .. Len(Tail(pipe[s])) : i \in Int /\ ReadUpTo(s) + (i + 1) = (ReadUpTo(s) + 1) + i
          BY <5>2
        <5> QED BY <2>3, <4>1, <5>4, <5>5
      <4> QED BY <1>2, <2>3, <2>4, <3>2, <4>2, <4>3, <4>4 DEF Flow
    <3> QED BY <3>1, <3>2
  <2>5. TerminalTypes' /\ ShownIsPrefix'
    BY <1>2, <2>3 DEF TerminalInv, TerminalTypes, ShownIsPrefix
  <2> QED BY <1>2, <2>4, <2>5 DEF TerminalInv, Live
<1>4. CASE copier' = [copier EXCEPT ![s] = Idle("end")] /\ pipe' = pipe
  <2>1. /\ copier' \in [Streams -> Copier]
        /\ \A r \in Streams \ {s} : copier'[r] = copier[r]
        /\ copier'[s].at = "end"
    BY <1>1, <1>4 DEF Copier, Idle
  <2>2. ASSUME NEW r \in Streams, Flow(r) PROVE Flow(r)'
    BY <1>2, <1>4, <2>1, <2>2 DEF Flow, Left, Entered, ReadUpTo, Writing
  <2>3. TerminalTypes' /\ ShownIsPrefix'
    BY <1>2, <1>4, <2>1 DEF TerminalInv, TerminalTypes, ShownIsPrefix
  <2> QED BY <1>2, <2>2, <2>3 DEF TerminalInv, Live
<1> QED BY <1>3, <1>4 DEF CopyRead

\* A reader appends its chunk to the channel, behind the earlier ones of its stream.
LEMMA CopySendKeeps ==
    ASSUME TerminalInv, NEW s \in Streams, CopySend(s)
    PROVE  TerminalInv'
<1> USE DEF termCommand, termClient
<1>1. /\ copier \in [Streams -> Copier] /\ copier[s].chunk \in Nat
      /\ output \in Seq(Streams \X Nat) /\ written \in [Streams -> Nat] /\ pipe \in [Streams -> Seq(Nat)]
  BY DEF TerminalInv, TerminalTypes, Copier
<1>2. /\ kind = "container" /\ copier[s].at = "send"
      /\ UNCHANGED <<kind, pipe, written, cancelled, handler, shown, gone>>
  BY DEF CopySend
<1>3. CASE output' = Append(output, <<s, copier[s].chunk>>) /\ copier' = [copier EXCEPT ![s] = Idle("read")]
  <2>1. Idle("read") \in Copier /\ Idle("read").at = "read"
    BY DEF Idle, Copier
  <2>2. /\ copier' \in [Streams -> Copier] /\ copier'[s].at = "read"
        /\ \A r \in Streams \ {s} : copier'[r] = copier[r]
    BY <1>1, <1>3, <2>1
  <2>3. <<s, copier[s].chunk>> \in Streams \X Nat
    BY <1>1
  <2>4. /\ output' \in Seq(Streams \X Nat) /\ Len(output') = Len(output) + 1
        /\ \A i \in 1 .. Len(output) : output'[i] = output[i]
        /\ output'[Len(output) + 1] = <<s, copier[s].chunk>>
        /\ Len(output) + 1 \in 1 .. Len(output') /\ Len(output) \in Nat
        /\ \A i \in 1 .. Len(output) : i \in 1 .. Len(output')
        /\ \A i \in 1 .. Len(output') : i \in 1 .. Len(output) \/ i = Len(output) + 1
    BY <1>1, <1>3, <2>3
  <2>5. ASSUME NEW r \in Streams, Flow(r) PROVE Flow(r)'
    <3>1. ReadUpTo(r)' = ReadUpTo(r) /\ Left(r)' = Left(r) /\ Writing(r)' = Writing(r) /\ ReadUpTo(r) \in Int
      BY <1>1, <1>2 DEF ReadUpTo, Left, Writing
    <3>2. Left(r) \in Int /\ Entered(r) \in Int
      BY <1>1, <3>1 DEF Left, Entered, TerminalInv, TerminalTypes
    <3>3. CASE r # s
      <4>1. Entered(r)' = Entered(r) /\ copier'[r] = copier[r]
        BY <2>2, <3>1, <3>3 DEF Entered
      <4>2. \A k \in Left(r) + 1 .. Entered(r) : \E i \in 1 .. Len(output') : output'[i] = <<r, k>>
        <5>1. \A k \in Left(r) + 1 .. Entered(r) : \E i \in 1 .. Len(output) : output[i] = <<r, k>>
          BY <2>5 DEF Flow
        <5> QED BY <2>4, <5>1
      <4>3. \A i \in 1 .. Len(output') : output'[i][1] = r => i \in 1 .. Len(output)
        BY <1>1, <2>4, <3>3
      <4>4. \A i \in 1 .. Len(output') : output'[i][1] = r => output'[i][2] \in Left(r) + 1 .. Entered(r)
        BY <2>4, <2>5, <4>3 DEF Flow
      <4>5. \A i, j \in 1 .. Len(output') :
              i < j /\ output'[i][1] = r /\ output'[j][1] = r => output'[i][2] < output'[j][2]
        BY <2>4, <2>5, <4>3 DEF Flow
      <4> QED BY <1>2, <2>5, <3>1, <4>1, <4>2, <4>4, <4>5 DEF Flow
    <3>4. CASE r = s
      <4>1. Entered(s) = ReadUpTo(s) - 1 /\ Entered(s)' = Entered(s) + 1 /\ copier[s].chunk = Entered(s) + 1
        BY <1>2, <2>2, <2>5, <3>1, <3>4 DEF Entered, Flow
      <4>2. \A k \in Left(s) + 1 .. Entered(s) + 1 : \E i \in 1 .. Len(output') : output'[i] = <<s, k>>
        <5>1. TAKE k \in Left(s) + 1 .. Entered(s) + 1
        <5>2. CASE k = Entered(s) + 1
          <6>1. output'[Len(output) + 1] = <<s, k>>
            BY <2>4, <4>1, <5>2
          <6> QED BY <2>4, <6>1
        <5>3. CASE k # Entered(s) + 1
          <6>1. k \in Left(s) + 1 .. Entered(s)
            BY <3>2, <3>4, <5>3
          <6>2. \E i \in 1 .. Len(output) : output[i] = <<s, k>>
            BY <2>5, <3>4, <6>1 DEF Flow
          <6> QED BY <2>4, <6>2
        <5> QED BY <5>2, <5>3
      <4>3. \A i \in 1 .. Len(output') : output'[i][1] = s => output'[i][2] \in Left(s) + 1 .. Entered(s) + 1
        <5>1. \A i \in 1 .. Len(output) : output'[i][1] = s => output'[i][2] \in Left(s) + 1 .. Entered(s)
          BY <2>4, <2>5, <3>4 DEF Flow
        <5>2. output'[Len(output) + 1][2] = Entered(s) + 1
          BY <2>4, <4>1
        <5>3. Left(s) <= Entered(s)
          BY <2>5, <3>4 DEF Flow
        <5>4. \A k \in Left(s) + 1 .. Entered(s) : k \in Left(s) + 1 .. Entered(s) + 1
          BY <3>2, <3>4
        <5>5. Entered(s) + 1 \in Left(s) + 1 .. Entered(s) + 1
          BY <3>2, <3>4, <5>3
        <5> QED BY <2>4, <5>1, <5>2, <5>4, <5>5
      <4>4. \A i, j \in 1 .. Len(output') :
              i < j /\ output'[i][1] = s /\ output'[j][1] = s => output'[i][2] < output'[j][2]
        <5>1. TAKE i, j \in 1 .. Len(output')
        <5>2. HAVE i < j /\ output'[i][1] = s /\ output'[j][1] = s
        <5>3. i \in 1 .. Len(output)
          BY <1>1, <2>4, <5>2
        <5>4. CASE j \in 1 .. Len(output)
          BY <2>4, <2>5, <3>4, <5>2, <5>3, <5>4 DEF Flow
        <5>5. CASE j = Len(output) + 1
          <6>1. output'[i][2] \in Left(s) + 1 .. Entered(s)
            BY <2>4, <2>5, <3>4, <5>2, <5>3 DEF Flow
          <6>2. output'[j][2] = Entered(s) + 1
            BY <2>4, <4>1, <5>5
          <6> QED BY <3>2, <3>4, <6>1, <6>2
        <5> QED BY <1>1, <2>4, <5>4, <5>5
      <4>5. Left(s) <= Entered(s) + 1
        BY <2>5, <3>2, <3>4 DEF Flow
      <4> QED BY <1>2, <2>2, <2>5, <3>1, <3>4, <4>1, <4>2, <4>3, <4>4, <4>5 DEF Flow
    <3> QED BY <3>3, <3>4
  <2>6. TerminalTypes' /\ ShownIsPrefix'
    BY <1>2, <2>2, <2>4 DEF TerminalInv, TerminalTypes, ShownIsPrefix
  <2> QED BY <1>2, <2>5, <2>6 DEF TerminalInv, Live
<1>4. CASE cancelled /\ output' = output /\ copier' = [copier EXCEPT ![s] = Idle("end")]
  <2>1. copier' \in [Streams -> Copier]
    BY <1>1, <1>4 DEF Copier, Idle
  <2>2. TerminalTypes' /\ ShownIsPrefix'
    BY <1>2, <1>4, <2>1 DEF TerminalInv, TerminalTypes, ShownIsPrefix
  <2> QED BY <1>2, <1>4, <2>2 DEF TerminalInv, Live
<1> QED BY <1>3, <1>4 DEF CopySend

\* On the host nothing is between the reader and the connection.
LEMMA HostWritesKeeps ==
    ASSUME TerminalInv, NEW s \in Streams, HostWrites(s)
    PROVE  TerminalInv'
<1> USE DEF termCommand, termClient
<1>1. /\ copier \in [Streams -> Copier] /\ copier[s].chunk \in Nat
      /\ written \in [Streams -> Nat] /\ pipe \in [Streams -> Seq(Nat)]
      /\ shown \in [Streams -> Seq(Nat)] /\ shown[s] \in Seq(Nat)
  BY DEF TerminalInv, TerminalTypes, Copier
<1>2. /\ kind = "host" /\ copier[s].at = "send" /\ Shows(s, copier[s].chunk)
      /\ copier' = [copier EXCEPT ![s] = Idle("read")]
      /\ UNCHANGED <<kind, pipe, written, cancelled, handler, gone, output>>
  BY DEF HostWrites
<1>3. output = <<>> /\ handler.at # "write"
  BY <1>2 DEF TerminalInv
<1>4. Idle("read") \in Copier /\ Idle("read").at = "read"
  BY DEF Idle, Copier
<1>5. /\ copier' \in [Streams -> Copier] /\ copier'[s].at = "read"
      /\ \A r \in Streams \ {s} : copier'[r] = copier[r]
  BY <1>1, <1>2, <1>4
<1>6. CASE ~Live
  <2>1. shown' = shown /\ ~Live'
    BY <1>2, <1>6 DEF Shows, Live
  <2>2. TerminalTypes' /\ ShownIsPrefix'
    BY <1>2, <1>5, <2>1 DEF TerminalInv, TerminalTypes, ShownIsPrefix
  <2> QED BY <1>2, <1>6, <2>1, <2>2 DEF TerminalInv
<1>7. CASE Live
  <2>1. shown' = [shown EXCEPT ![s] = Append(shown[s], copier[s].chunk)]
    BY <1>2, <1>7 DEF Shows, Live
  <2>2. Flow(s)
    BY <1>7 DEF TerminalInv
  <2>3. ReadUpTo(s) \in Int /\ ~Writing(s) /\ Len(output) = 0
    BY <1>1, <1>3 DEF ReadUpTo, Writing
  <2>4. copier[s].chunk = Len(shown[s]) + 1
    <3>1. Entered(s) = ReadUpTo(s) - 1 /\ copier[s].chunk = ReadUpTo(s) /\ Left(s) = Len(shown[s])
      BY <1>2, <2>2, <2>3 DEF Entered, Flow, Left
    <3>2. Left(s) <= Entered(s) /\ Entered(s) \notin Left(s) + 1 .. Entered(s)
      BY <2>2, <2>3 DEF Flow
    <3>3. Entered(s) \in Int /\ Left(s) \in Nat
      BY <1>1, <2>3, <3>1
    <3>4. Entered(s) = Left(s)
      BY <3>2, <3>3
    <3> QED BY <2>3, <3>1, <3>4
  <2>5. /\ shown' \in [Streams -> Seq(Nat)] /\ shown'[s] = Append(shown[s], copier[s].chunk)
        /\ \A r \in Streams \ {s} : shown'[r] = shown[r]
    BY <1>1, <2>1
  <2>6. ASSUME NEW r \in Streams, Flow(r) PROVE Flow(r)'
    <3>1. ReadUpTo(r)' = ReadUpTo(r) /\ ~Writing(r) /\ ~Writing(r)' /\ Len(output') = 0
      BY <1>2, <1>3, <2>3 DEF ReadUpTo, Writing
    <3>2. CASE r # s
      <4>1. Entered(r)' = Entered(r) /\ Left(r)' = Left(r)
        BY <1>5, <2>5, <3>1, <3>2 DEF Entered, Left
      <4> QED BY <1>2, <1>5, <2>6, <3>1, <3>2, <4>1 DEF Flow
    <3>3. CASE r = s
      <4>1. Entered(s)' = ReadUpTo(s) /\ Left(s)' = ReadUpTo(s)
        <5>1. Len(shown'[s]) = Len(shown[s]) + 1
          BY <1>1, <2>5
        <5>2. copier[s].chunk = ReadUpTo(s)
          BY <1>2, <2>2 DEF Flow
        <5> QED BY <1>5, <2>4, <3>1, <3>3, <5>1, <5>2 DEF Entered, Left
      <4>2. Left(s)' + 1 .. Entered(s)' = {} /\ Left(s)' <= Entered(s)'
        BY <2>3, <4>1
      <4> QED BY <1>2, <1>5, <2>2, <3>1, <3>3, <4>2 DEF Flow
    <3> QED BY <3>2, <3>3
  <2>7. ShownIsPrefix'
    <3>1. \A i \in 1 .. Len(shown'[s]) : shown'[s][i] = i
      BY <1>1, <2>4, <2>5 DEF TerminalInv, ShownIsPrefix
    <3>2. DOMAIN shown'[s] = 1 .. Len(shown'[s])
      BY <1>1, <2>5
    <3>3. \A r \in Streams \ {s} : \A i \in DOMAIN shown'[r] : shown'[r][i] = i
      BY <2>5 DEF TerminalInv, ShownIsPrefix
    <3> QED BY <3>1, <3>2, <3>3 DEF ShownIsPrefix
  <2>8. TerminalTypes'
    BY <1>2, <1>5, <2>5 DEF TerminalInv, TerminalTypes
  <2> QED BY <1>2, <1>3, <1>7, <2>6, <2>7, <2>8 DEF TerminalInv, Live
<1> QED BY <1>6, <1>7

\* The handler takes the first chunk, and that is the next one of its stream.
LEMMA SelectOutputKeeps ==
    ASSUME TerminalInv, kind = "container", handler.at = "select", output # <<>>,
           handler' = [at |-> "write", chunk |-> Head(output)], output' = Tail(output),
           UNCHANGED <<kind, pipe, written, copier, cancelled, shown, gone>>
    PROVE  TerminalInv'
<1>1. /\ copier \in [Streams -> Copier] /\ shown \in [Streams -> Seq(Nat)]
      /\ output \in Seq(Streams \X Nat) /\ written \in [Streams -> Nat] /\ pipe \in [Streams -> Seq(Nat)]
  BY DEF TerminalInv, TerminalTypes
<1>a. Len(output) \in Nat /\ Len(output) # 0
  BY <1>1
<1>b. Len(output') = Len(output) - 1
  BY <1>1
<1>2. /\ output' \in Seq(Streams \X Nat)
      /\ \A i \in 1 .. Len(output') : output'[i] = output[i + 1] /\ i + 1 \in 1 .. Len(output)
      /\ \A i \in 1 .. Len(output) : i = 1 \/ (i - 1 \in 1 .. Len(output') /\ output'[i - 1] = output[i])
      /\ \A i, j \in 1 .. Len(output') : i < j => i + 1 < j + 1
      /\ \A i \in 1 .. Len(output') : 1 < i + 1
      /\ 1 \in 1 .. Len(output) /\ Head(output) = output[1]
      /\ output[1] \in Streams \X Nat
  <2>1. output' \in Seq(Streams \X Nat) /\ Head(output) = output[1]
    BY <1>1
  <2>2. \A i \in 1 .. Len(output') : output'[i] = output[i + 1] /\ i + 1 \in 1 .. Len(output) /\ 1 < i + 1
    BY <1>1, <1>a, <1>b
  <2>3. \A i \in 1 .. Len(output) : i = 1 \/ (i - 1 \in 1 .. Len(output') /\ output'[i - 1] = output[i])
    <3>1. TAKE i \in 1 .. Len(output)
    <3>2. i = 1 \/ (i - 1 \in 1 .. Len(output') /\ (i - 1) + 1 = i)
      BY <1>a, <1>b
    <3>3. i = 1 \/ output'[i - 1] = output[(i - 1) + 1]
      BY <2>2, <3>2
    <3> QED BY <3>2, <3>3
  <2>4. 1 \in 1 .. Len(output) /\ output[1] \in Streams \X Nat
    BY <1>1, <1>a
  <2>5. \A i, j \in 1 .. Len(output') : i < j => i + 1 < j + 1
    BY <1>a, <1>b
  <2> QED BY <2>1, <2>2, <2>3, <2>4, <2>5
<1>c. PICK s \in Streams, c \in Nat : output[1] = <<s, c>>
  BY <1>2
<1>3. s \in Streams /\ c \in Nat /\ output[1] = <<s, c>> /\ handler'.chunk = <<s, c>> /\ handler'.at = "write"
  BY <1>2, <1>c
<1>4. handler' \in TerminalHandlers
  BY <1>2, <1>3 DEF TerminalHandlers
<1>5. TerminalTypes' /\ ShownIsPrefix'
  BY <1>1, <1>2, <1>4 DEF TerminalInv, TerminalTypes, ShownIsPrefix
<1>6. ASSUME NEW r \in Streams, \A q \in Streams : Flow(q) PROVE Flow(r)'
  <2>1. /\ ReadUpTo(r)' = ReadUpTo(r) /\ Entered(r)' = Entered(r) /\ ~Writing(r) /\ (Writing(r)' <=> r = s)
        /\ Left(r) = Len(shown[r])
    BY <1>1, <1>3 DEF ReadUpTo, Entered, Writing, Left
  <2>2. Left(r) \in Nat /\ Entered(r) \in Int
    <3>1. ReadUpTo(r) \in Int /\ Len(shown[r]) \in Nat
      BY <1>1 DEF ReadUpTo
    <3> QED BY <2>1, <3>1 DEF Entered
  <2>3. \A i, j \in 1 .. Len(output') :
          i < j /\ output'[i][1] = r /\ output'[j][1] = r => output'[i][2] < output'[j][2]
    <3>1. TAKE i, j \in 1 .. Len(output')
    <3>2. HAVE i < j /\ output'[i][1] = r /\ output'[j][1] = r
    <3>3. /\ output[i + 1][1] = r /\ output[j + 1][1] = r
          /\ i + 1 \in 1 .. Len(output) /\ j + 1 \in 1 .. Len(output) /\ i + 1 < j + 1
      BY <1>2, <3>1, <3>2
    <3>4. output[i + 1][2] < output[j + 1][2]
      BY <1>6, <3>3 DEF Flow
    <3> QED BY <1>2, <3>4
  <2>4. CASE r # s
    <3>1. Left(r)' = Left(r)
      BY <2>1, <2>4 DEF Left
    <3>2. \A k \in Left(r) + 1 .. Entered(r) : \E i \in 1 .. Len(output') : output'[i] = <<r, k>>
      <4>1. TAKE k \in Left(r) + 1 .. Entered(r)
      <4>2. PICK i \in 1 .. Len(output) : output[i] = <<r, k>>
        BY <1>6 DEF Flow
      <4>3. i # 1
        BY <1>3, <2>4, <4>2
      <4> QED BY <1>2, <4>2, <4>3
    <3>3. \A i \in 1 .. Len(output') : output'[i][1] = r => output'[i][2] \in Left(r) + 1 .. Entered(r)
      BY <1>2, <1>6 DEF Flow
    <3> QED BY <1>6, <2>1, <2>3, <2>4, <3>1, <3>2, <3>3 DEF Flow
  <2>5. CASE r = s
    <3>1. c \in Left(s) + 1 .. Entered(s)
      BY <1>2, <1>3, <1>6 DEF Flow
    <3>2. Left(s) + 1 \in Left(s) + 1 .. Entered(s)
      BY <2>2, <2>5, <3>1
    <3>3. PICK n \in 1 .. Len(output) : output[n] = <<s, Left(s) + 1>>
      BY <1>3, <1>6, <3>2 DEF Flow
    <3>4. n = 1
      <4>1. SUFFICES ASSUME n # 1 PROVE FALSE
        OBVIOUS
      <4>2. 1 < n /\ output[1][1] = s /\ output[n][1] = s /\ output[n][2] = Left(s) + 1
        BY <1>2, <1>3, <3>3, <4>1
      <4>3. output[1][2] < output[n][2]
        BY <1>2, <1>3, <1>6, <3>3, <4>2 DEF Flow
      <4>4. c < Left(s) + 1
        BY <1>3, <4>2, <4>3
      <4> QED BY <2>2, <2>5, <3>1, <4>4
    <3>5. c = Left(s) + 1 /\ Left(s)' = Left(s) + 1
      <4>1. c = Left(s) + 1
        BY <1>3, <3>3, <3>4
      <4>2. Left(s) = Len(shown[s]) /\ Writing(s)' /\ shown' = shown
        BY <2>1, <2>5
      <4>3. Left(s)' = Len(shown'[s]) + 1
        BY <4>2 DEF Left
      <4> QED BY <4>1, <4>2, <4>3
    <3>6. \A k \in Left(s) + 2 .. Entered(s) : \E i \in 1 .. Len(output') : output'[i] = <<s, k>>
      <4>1. TAKE k \in Left(s) + 2 .. Entered(s)
      <4>2. k \in Left(s) + 1 .. Entered(s) /\ k # c
        BY <2>2, <2>5, <3>5
      <4>3. PICK i \in 1 .. Len(output) : output[i] = <<s, k>>
        BY <1>3, <1>6, <4>2 DEF Flow
      <4>4. i # 1
        BY <1>3, <4>2, <4>3
      <4> QED BY <1>2, <4>3, <4>4
    <3>7. \A i \in 1 .. Len(output') : output'[i][1] = s => output'[i][2] \in Left(s) + 2 .. Entered(s)
      <4>1. TAKE i \in 1 .. Len(output')
      <4>2. HAVE output'[i][1] = s
      <4>3. output[i + 1][1] = s /\ i + 1 \in 1 .. Len(output) /\ 1 < i + 1
        BY <1>2, <4>1, <4>2
      <4>4. output[i + 1][2] \in Left(s) + 1 .. Entered(s)
        BY <1>3, <1>6, <4>3 DEF Flow
      <4>5. c < output[i + 1][2]
        BY <1>2, <1>3, <1>6, <4>3 DEF Flow
      <4>6. output'[i][2] = output[i + 1][2]
        BY <1>2, <4>1
      <4> QED BY <2>2, <2>5, <3>5, <4>4, <4>5, <4>6
    <3>8. Left(s) + 1 <= Entered(s) /\ Left(s) + 1 + 1 = Left(s) + 2
      BY <2>2, <2>5, <3>2
    <3>9. handler'.chunk[2] = Len(shown'[s]) + 1
      BY <1>3, <2>1, <2>5, <3>5
    <3>10. Left(r)' + 1 = Left(s) + 2 /\ Entered(r)' = Entered(s) /\ Left(r)' <= Entered(r)'
      BY <2>1, <2>2, <2>5, <3>5, <3>8
    <3>11. /\ \A k \in Left(r)' + 1 .. Entered(r)' : \E i \in 1 .. Len(output') : output'[i] = <<r, k>>
           /\ \A i \in 1 .. Len(output') : output'[i][1] = r => output'[i][2] \in Left(r)' + 1 .. Entered(r)'
      BY <2>5, <3>6, <3>7, <3>10
    <3>12. /\ \A i \in 1 .. Len(pipe'[r]) : pipe'[r][i] = ReadUpTo(r)' + i
           /\ copier'[r].at = "send" => copier'[r].chunk = ReadUpTo(r)'
      BY <1>6, <2>1 DEF Flow
    <3> QED BY <2>3, <2>5, <3>9, <3>10, <3>11, <3>12 DEF Flow
  <2> QED BY <2>4, <2>5
<1>7. Live' => Live
  BY <1>3 DEF Live
<1> QED BY <1>5, <1>6, <1>7 DEF TerminalInv, Live

\* The chunk the handler writes is the next one the client sees.
LEMMA WriteOutputKeeps ==
    ASSUME TerminalInv, handler.at = "write", Shows(handler.chunk[1], handler.chunk[2]),
           handler' = Idle("select"),
           UNCHANGED <<kind, pipe, written, copier, output, cancelled, gone>>
    PROVE  TerminalInv'
<1>1. /\ copier \in [Streams -> Copier] /\ shown \in [Streams -> Seq(Nat)]
      /\ written \in [Streams -> Nat] /\ pipe \in [Streams -> Seq(Nat)]
  BY DEF TerminalInv, TerminalTypes
<1> DEFINE s == handler.chunk[1]
           c == handler.chunk[2]
<1>2. s \in Streams /\ c \in Nat /\ Writing(s)
  BY DEF TerminalInv, TerminalTypes, TerminalHandlers, Writing
<1>3. handler' \in TerminalHandlers /\ handler'.at = "select"
  BY DEF TerminalHandlers, Idle
<1>4. \A r \in Streams : (Writing(r) <=> r = s) /\ ~Writing(r)'
  BY <1>3 DEF Writing
<1> HIDE DEF s, c
<1>5. CASE gone
  <2>1. shown' = shown /\ ~Live'
    BY <1>5 DEF Shows, Live
  <2>2. TerminalTypes' /\ ShownIsPrefix'
    BY <1>1, <1>3, <2>1 DEF TerminalInv, TerminalTypes, ShownIsPrefix
  <2> QED BY <1>3, <2>1, <2>2 DEF TerminalInv
<1>6. CASE ~gone
  <2>1. Live /\ \A r \in Streams : Flow(r)
    BY <1>6 DEF Live, TerminalInv
  <2>2. shown' = [shown EXCEPT ![s] = Append(shown[s], c)]
    BY <1>6 DEF Shows, s, c
  <2>3. c = Len(shown[s]) + 1
    BY <1>2, <2>1 DEF Flow, c
  <2>4. /\ shown' \in [Streams -> Seq(Nat)] /\ shown'[s] = Append(shown[s], c)
        /\ shown[s] \in Seq(Nat)
        /\ \A r \in Streams \ {s} : shown'[r] = shown[r]
        /\ Len(shown'[s]) = Len(shown[s]) + 1
    BY <1>1, <1>2, <2>2
  <2>5. ASSUME NEW r \in Streams PROVE Flow(r)'
    <3>1. Left(r)' = Left(r)
      BY <1>4, <2>4 DEF Left
    <3>2. ReadUpTo(r)' = ReadUpTo(r) /\ Entered(r)' = Entered(r)
      BY DEF ReadUpTo, Entered
    <3> QED BY <1>4, <2>1, <3>1, <3>2 DEF Flow
  <2>6. ShownIsPrefix'
    <3>1. \A i \in 1 .. Len(shown'[s]) : shown'[s][i] = i
      <4>1. \A i \in 1 .. Len(shown[s]) : shown[s][i] = i
        BY <1>2, <2>4 DEF TerminalInv, ShownIsPrefix
      <4> QED BY <2>3, <2>4, <4>1
    <3>2. DOMAIN shown'[s] = 1 .. Len(shown'[s])
      BY <1>2, <2>4
    <3>3. \A r \in Streams \ {s} : \A i \in DOMAIN shown'[r] : shown'[r][i] = i
      BY <2>4 DEF TerminalInv, ShownIsPrefix
    <3> QED BY <3>1, <3>2, <3>3 DEF ShownIsPrefix
  <2>7. TerminalTypes'
    BY <1>1, <1>3, <2>4 DEF TerminalInv, TerminalTypes
  <2> QED BY <1>3, <2>1, <2>5, <2>6, <2>7 DEF TerminalInv, Live
<1> QED BY <1>5, <1>6

\* Close ends the session or waits for the command, with nobody at the connection.
LEMMA CloseKeeps ==
    ASSUME TerminalInv, CloseTerminal, gone' = gone, kind' = kind, kind = "container" \/ gone
    PROVE  TerminalInv'
<1>1. handler' \in TerminalHandlers /\ handler'.at \in {"end", "wait"} /\ ~Live'
  BY DEF CloseTerminal, Idle, TerminalHandlers, Live
<1>2. TerminalTypes' /\ ShownIsPrefix'
  BY <1>1 DEF CloseTerminal, TerminalInv, TerminalTypes, ShownIsPrefix
<1> QED BY <1>1, <1>2 DEF TerminalInv, CloseTerminal

\* Every step of a terminal keeps the chunks in order.
LEMMA TerminalKept == ASSUME TerminalInv, TerminalNext PROVE TerminalInv'
<1> USE DEF termCommand, termOutput, termClient
<1>1. ASSUME NEW s \in Streams, CommandWrites(s) \/ CopyRead(s) \/ CopySend(s) \/ HostWrites(s)
      PROVE  TerminalInv'
  BY <1>1, CommandWritesKeeps, CopyReadKeeps, CopySendKeeps, HostWritesKeeps
<1>2. ASSUME handler.at # "write",
             UNCHANGED <<kind, pipe, written, copier, output, cancelled, shown, gone>>,
             handler' = Idle("input") \/ handler' = Idle("select") \/ handler' = Idle("end"),
             handler.at # "end"
      PROVE  TerminalInv'
  <2>1. handler' \in TerminalHandlers /\ handler'.at # "write"
    BY <1>2 DEF TerminalHandlers, Idle
  <2> QED BY <1>2, <2>1, QuietSteps DEF Live
<1>3. CASE CommandReads \/ CommandEnds \/ ClientLeaves \/ CollectTerminal \/ Listen
  <2>1. /\ UNCHANGED <<kind, pipe, written, copier, output, handler, cancelled, shown>>
        /\ gone' = gone \/ gone'
    BY <1>3 DEF CommandReads, CommandEnds, ClientLeaves, CollectTerminal, Listen
  <2>2. TerminalTypes' /\ ShownIsPrefix'
    BY <2>1 DEF TerminalInv, TerminalTypes, ShownIsPrefix
  <2>3. ASSUME Live', NEW s \in Streams PROVE Flow(s)'
    BY <2>1, <2>3, FlowFrame DEF TerminalInv, Writing, Live
  <2> QED BY <2>1, <2>2, <2>3 DEF TerminalInv, Live
<1>4. CASE Select
  <2>1. CASE handler' = Idle("input") /\ UNCHANGED <<termCommand, termOutput, shown>>
    BY <1>2, <1>4, <2>1 DEF Select
  <2>2. CASE CloseTerminal
    BY <1>4, <2>2, CloseKeeps DEF Select
  <2>3. CASE output # <<>> /\ handler' = [at |-> "write", chunk |-> Head(output)] /\ output' = Tail(output)
             /\ UNCHANGED <<termCommand, copier, closed, cancelled, waiter, listener, shown>>
    BY <1>4, <2>3, SelectOutputKeeps DEF Select
  <2> QED BY <1>4, <2>1, <2>2, <2>3 DEF Select
<1>5. CASE WriteOutput
  <2>1. CASE CloseTerminal /\ gone
    BY <1>5, <2>1, CloseKeeps DEF WriteOutput
  <2> QED BY <1>5, <2>1, WriteOutputKeeps DEF WriteOutput
<1>6. CASE ReadTerminalInput
  <2>1. CASE CloseTerminal /\ gone
    BY <1>6, <2>1, CloseKeeps DEF ReadTerminalInput
  <2> QED BY <1>2, <1>6, <2>1 DEF ReadTerminalInput
<1>7. CASE WriteInput
  <2>1. CASE CloseTerminal /\ kind = "container"
    BY <1>7, <2>1, CloseKeeps DEF WriteInput
  <2> QED BY <1>2, <1>7, <2>1 DEF WriteInput
<1>8. CASE HostWait
  BY <1>2, <1>8 DEF HostWait
<1> QED BY <1>1, <1>3, <1>4, <1>5, <1>6, <1>7, <1>8 DEF TerminalNext, TerminalHandler

\* Once the channel is closed every reader has ended, and stays so.
LEMMA ClosedKept ==
    ASSUME copier \in [Streams -> Copier], NoSendOnClosed, TerminalNext
    PROVE  NoSendOnClosed'
<1> USE DEF termCommand, termOutput, termClient
<1>1. ASSUME NEW s \in Streams, CopyRead(s) \/ CopySend(s) \/ HostWrites(s) PROVE NoSendOnClosed'
  <2>1. ~closed /\ closed' = closed
    BY <1>1 DEF CopyRead, CopySend, HostWrites, NoSendOnClosed
  <2> QED BY <2>1 DEF NoSendOnClosed
<1>2. CASE CollectTerminal
  BY <1>2 DEF CollectTerminal, NoSendOnClosed
<1>3. CASE UNCHANGED <<closed, copier>>
  BY <1>3 DEF NoSendOnClosed
<1>4. ASSUME NEW s \in Streams, CommandWrites(s) PROVE UNCHANGED <<closed, copier>>
  BY <1>4 DEF CommandWrites
<1>5. CASE CommandReads \/ CommandEnds \/ ClientLeaves \/ Listen
  BY <1>3, <1>5 DEF CommandReads, CommandEnds, ClientLeaves, Listen
<1>6. CASE TerminalHandler
  BY <1>3, <1>6 DEF TerminalHandler, Select, WriteOutput, ReadTerminalInput, WriteInput, HostWait, CloseTerminal
<1> QED BY <1>1, <1>2, <1>3, <1>4, <1>5, <1>6 DEF TerminalNext

-----------------------------------------------------------------------------
(* Publication of changes.                                                 *)

PublishStep ==
    {"idle", "status", "branch", "commit", "push", "pull", "store", "answered", "failed"}

PublishTypes ==
    /\ branches \in [Branches -> [known : BOOLEAN, work : SUBSET Work]]
    /\ remote \in [Branches -> SUBSET Work] /\ pulls \in [Branches -> Nat]
    /\ changes \in SUBSET Work
    /\ publication \in [Publications -> [at : PublishStep, run : RunIds, branch : Branches, found : SUBSET Work]]

\* Requests that own the branch they have made: git switch -c gives it to one.
Owner(p) == publication[p].at \in {"commit", "push", "pull"}
BranchesOwned ==
    /\ \A b \in Branches : ~branches[b].known => pulls[b] = 0
    /\ \A p \in Publications : Owner(p) =>
        branches[publication[p].branch].known /\ pulls[publication[p].branch] = 0
    /\ \A p, q \in Publications :
        Owner(p) /\ Owner(q) /\ publication[p].branch = publication[q].branch => p = q

\* A request that is alone at the checkout carries what it has found along.
AtCheckout(p) == publication[p].at \in {"branch", "commit", "push", "pull", "store"}
WorkCarried ==
    /\ \A p, q \in Publications : AtCheckout(p) /\ AtCheckout(q) => p = q
    /\ \A p \in Publications :
        /\ publication[p].at \in {"branch", "commit"} => publication[p].found \subseteq changes
        /\ publication[p].at = "commit" => head = publication[p].branch
        /\ publication[p].at = "push" =>
            publication[p].found \subseteq branches[publication[p].branch].work
        /\ publication[p].at \in {"pull", "store"} =>
            publication[p].found \subseteq remote[publication[p].branch]

PublishInv == PublishTypes /\ OnePullRequest /\ BranchesOwned /\ (~met => WorkCarried)

\* No branch and no pull request when the gateway starts.
LEMMA PublishStarts == PublishInit => PublishInv
<1> SUFFICES ASSUME PublishInit PROVE PublishInv
  OBVIOUS
<1>1. /\ publication \in [Publications -> [at : PublishStep, run : RunIds, branch : Branches, found : SUBSET Work]]
      /\ \A p \in Publications : publication[p].at = "idle"
  BY DEF PublishInit, PublishStep
<1>2. PublishTypes
  BY <1>1 DEF PublishInit, PublishTypes, Unborn
<1> QED BY <1>1, <1>2 DEF PublishInit, PublishInv, OnePullRequest, BranchesOwned, WorkCarried, Owner, AtCheckout

\* A step of request p that only moves it on.
LEMMA PublishingType ==
    ASSUME PublishTypes, NEW p \in Publications, NEW label \in PublishStep, Publishing(p, label)
    PROVE  /\ publication' \in [Publications -> [at : PublishStep, run : RunIds, branch : Branches, found : SUBSET Work]]
           /\ publication'[p].at = label
           /\ publication'[p].branch = publication[p].branch /\ publication'[p].found = publication[p].found
           /\ \A q \in Publications \ {p} : publication'[q] = publication[q]
BY DEF PublishTypes, Publishing

\* Every step of the publications keeps branches owned and the work carried along.
LEMMA PublishKept == ASSUME PublishInv, PublishNext PROVE PublishInv'
<1> USE DEF gitVars
<1> PublishTypes /\ OnePullRequest /\ BranchesOwned /\ (~met => WorkCarried)
  BY DEF PublishInv
<1>1. ASSUME NEW w \in Work, AgentWorks(w) PROVE PublishInv'
  <2>1. PublishTypes' /\ OnePullRequest' /\ BranchesOwned'
    BY <1>1 DEF AgentWorks, PublishTypes, OnePullRequest, BranchesOwned, Owner
  <2>2. ~met' => WorkCarried'
    BY <1>1 DEF AgentWorks, WorkCarried, AtCheckout
  <2> QED BY <2>1, <2>2 DEF PublishInv
<1>2. ASSUME NEW p \in Publications, BeginPublish(p) PROVE PublishInv'
  <2>1. PICK label \in {"failed", "answered", "status"} : Publishing(p, label)
    BY <1>2 DEF BeginPublish
  <2>2. label \in PublishStep
    BY DEF PublishStep
  <2>3. PublishTypes'
    BY <1>2, <2>1, <2>2, PublishingType DEF BeginPublish, PublishTypes
  <2>4. OnePullRequest' /\ BranchesOwned'
    BY <1>2, <2>1, <2>2, PublishingType DEF BeginPublish, OnePullRequest, BranchesOwned, Owner
  <2>5. ~met' => WorkCarried'
    BY <1>2, <2>1, <2>2, PublishingType DEF BeginPublish, WorkCarried, AtCheckout
  <2> QED BY <2>3, <2>4, <2>5 DEF PublishInv
<1>3. ASSUME NEW p \in Publications, ReadStatus(p) PROVE PublishInv'
  <2>1. PICK label \in {"failed", "branch"} :
            publication' = [publication EXCEPT ![p].at = label, ![p].found = changes]
    BY <1>3 DEF ReadStatus
  <2>2. label \in PublishStep
    BY DEF PublishStep
  <2>3. /\ publication' \in [Publications -> [at : PublishStep, run : RunIds, branch : Branches, found : SUBSET Work]]
        /\ publication'[p].at = label /\ publication'[p].found = changes
        /\ publication'[p].branch = publication[p].branch
        /\ \A q \in Publications \ {p} : publication'[q] = publication[q]
    BY <2>1, <2>2 DEF PublishTypes
  <2>4. PublishTypes'
    BY <1>3, <2>3 DEF ReadStatus, PublishTypes
  <2>5. OnePullRequest' /\ BranchesOwned'
    <3>1. UNCHANGED <<branches, pulls>>
      BY <1>3 DEF ReadStatus
    <3>2. ~ Owner(p)' /\ \A q \in Publications \ {p} : Owner(q)' <=> Owner(q)
      BY <2>3 DEF Owner
    <3> QED BY <2>3, <3>1, <3>2 DEF OnePullRequest, BranchesOwned
  <2>6. ~met' => WorkCarried'
    BY <1>3, <2>3 DEF ReadStatus, WorkCarried, AtCheckout, UnderWay
  <2> QED BY <2>4, <2>5, <2>6 DEF PublishInv
<1>4. ASSUME NEW p \in Publications, CreateBranch(p) PROVE PublishInv'
  <2> DEFINE b == publication[p].branch
  <2>1. b \in Branches /\ publication[p].at = "branch"
    BY <1>4 DEF CreateBranch, PublishTypes
  <2>2. PICK label \in {"commit", "failed"} : Publishing(p, label)
    BY <1>4 DEF CreateBranch
  <2>3. label \in PublishStep
    BY DEF PublishStep
  <2>m. /\ publication'[p].at = label
        /\ publication'[p].branch = publication[p].branch /\ publication'[p].found = publication[p].found
        /\ \A q \in Publications \ {p} : publication'[q] = publication[q]
    BY <2>2, <2>3, PublishingType
  <2>n. \A q \in Publications : publication[q].branch \in Branches /\ publication[q].found \in SUBSET Work
    BY DEF PublishTypes
  <2>4. UNCHANGED <<changes, remote, pulls, results, met>>
    BY <1>4 DEF CreateBranch
  <2>5. CASE b \notin Local /\ head' = b /\ branches' = [branches EXCEPT ![b].known = TRUE]
    <3>1. /\ branches' \in [Branches -> [known : BOOLEAN, work : SUBSET Work]]
          /\ ~branches[b].known /\ branches'[b].known
          /\ \A c \in Branches : branches'[c].work = branches[c].work
          /\ \A c \in Branches \ {b} : branches'[c] = branches[c]
      BY <2>1, <2>5 DEF PublishTypes, Local
    <3>2. PublishTypes'
      BY <2>2, <2>3, <2>4, <3>1, PublishingType DEF PublishTypes
    <3>3. OnePullRequest'
      BY <2>4 DEF OnePullRequest
    <3>4. BranchesOwned'
      BY <2>1, <2>2, <2>m, <2>n, <2>4, <3>1 DEF BranchesOwned, Owner
    <3>5. ~met' => WorkCarried'
      BY <2>1, <2>2, <2>m, <2>n, <2>4, <2>5, <3>1 DEF WorkCarried, AtCheckout
    <3> QED BY <3>2, <3>3, <3>4, <3>5 DEF PublishInv
  <2>6. CASE Publishing(p, "failed") /\ UNCHANGED <<head, branches>>
    <3>1. "failed" \in PublishStep
      BY DEF PublishStep
    <3>2. PublishTypes'
      BY <2>4, <2>6, <3>1, PublishingType DEF PublishTypes
    <3>3. OnePullRequest' /\ BranchesOwned'
      BY <2>4, <2>6, <3>1, PublishingType DEF OnePullRequest, BranchesOwned, Owner
    <3>4. ~met' => WorkCarried'
      BY <2>4, <2>6, <3>1, PublishingType DEF WorkCarried, AtCheckout
    <3> QED BY <3>2, <3>3, <3>4 DEF PublishInv
  <2> QED BY <1>4, <2>5, <2>6 DEF CreateBranch
<1>5. ASSUME NEW p \in Publications, Commit(p) PROVE PublishInv'
  <2>1. UNCHANGED <<head, remote, pulls, results, met>> /\ publication[p].at = "commit"
    BY <1>5 DEF Commit
  <2>2. PICK label \in {"push", "failed"} : Publishing(p, label)
    BY <1>5 DEF Commit
  <2>3. label \in PublishStep
    BY DEF PublishStep
  <2>m. /\ publication'[p].at = label
        /\ publication'[p].branch = publication[p].branch /\ publication'[p].found = publication[p].found
        /\ \A q \in Publications \ {p} : publication'[q] = publication[q]
    BY <2>2, <2>3, PublishingType
  <2>n. \A q \in Publications : publication[q].branch \in Branches /\ publication[q].found \in SUBSET Work
    BY DEF PublishTypes
  <2>4. CASE branches' = [branches EXCEPT ![head].work = @ \cup changes] /\ changes' = {}
    <3>1. /\ branches' \in [Branches -> [known : BOOLEAN, work : SUBSET Work]]
          /\ \A c \in Branches : branches'[c].known = branches[c].known
          /\ head \in Branches => branches'[head].work = branches[head].work \cup changes
      BY <2>4 DEF PublishTypes
    <3>2. PublishTypes'
      BY <2>1, <2>2, <2>3, <2>4, <3>1, PublishingType DEF PublishTypes
    <3>3. OnePullRequest' /\ BranchesOwned'
      BY <2>1, <2>2, <2>m, <2>n, <3>1 DEF OnePullRequest, BranchesOwned, Owner
    <3>4. ~met' => WorkCarried'
      BY <2>1, <2>2, <2>m, <2>n, <2>4, <3>1 DEF WorkCarried, AtCheckout
    <3> QED BY <3>2, <3>3, <3>4 DEF PublishInv
  <2>5. CASE Publishing(p, "failed") /\ UNCHANGED <<changes, branches>>
    <3>1. "failed" \in PublishStep
      BY DEF PublishStep
    <3>2. PublishTypes'
      BY <2>1, <2>5, <3>1, PublishingType DEF PublishTypes
    <3>3. OnePullRequest' /\ BranchesOwned'
      BY <2>1, <2>5, <3>1, PublishingType DEF OnePullRequest, BranchesOwned, Owner
    <3>4. ~met' => WorkCarried'
      BY <2>1, <2>5, <3>1, PublishingType DEF WorkCarried, AtCheckout
    <3> QED BY <3>2, <3>3, <3>4 DEF PublishInv
  <2> QED BY <1>5, <2>4, <2>5 DEF Commit
<1>6. ASSUME NEW p \in Publications, PushBranch(p) PROVE PublishInv'
  <2>1. UNCHANGED <<changes, head, branches, pulls, results, met>> /\ publication[p].at = "push"
    BY <1>6 DEF PushBranch
  <2>2. PICK label \in {"pull", "failed"} : Publishing(p, label)
    BY <1>6 DEF PushBranch
  <2>3. label \in PublishStep
    BY DEF PublishStep
  <2>m. /\ publication'[p].at = label
        /\ publication'[p].branch = publication[p].branch /\ publication'[p].found = publication[p].found
        /\ \A q \in Publications \ {p} : publication'[q] = publication[q]
    BY <2>2, <2>3, PublishingType
  <2>n. \A q \in Publications : publication[q].branch \in Branches /\ publication[q].found \in SUBSET Work
    BY DEF PublishTypes
  <2>4. OnePullRequest' /\ BranchesOwned'
    BY <2>1, <2>2, <2>3, PublishingType DEF OnePullRequest, BranchesOwned, Owner
  <2>5. publication[p].branch \in Branches /\ branches[publication[p].branch].work \in SUBSET Work
    BY DEF PublishTypes
  <2>6. CASE remote' = [remote EXCEPT ![publication[p].branch] = branches[publication[p].branch].work]
    <3> /\ remote'[publication[p].branch] = branches[publication[p].branch].work
        /\ \A c \in Branches \ {publication[p].branch} : remote'[c] = remote[c]
      BY <2>5, <2>6 DEF PublishTypes
    <3>1. PublishTypes'
      BY <2>1, <2>2, <2>3, <2>5, <2>6, PublishingType DEF PublishTypes
    <3>2. ~met' => WorkCarried'
      BY <2>1, <2>2, <2>m, <2>n DEF WorkCarried, AtCheckout
    <3> QED BY <2>4, <3>1, <3>2 DEF PublishInv
  <2>7. CASE Publishing(p, "failed") /\ UNCHANGED remote
    <3>1. "failed" \in PublishStep
      BY DEF PublishStep
    <3>2. PublishTypes'
      BY <2>1, <2>7, <3>1, PublishingType DEF PublishTypes
    <3>3. ~met' => WorkCarried'
      BY <2>1, <2>7, <3>1, PublishingType DEF WorkCarried, AtCheckout
    <3> QED BY <2>4, <3>2, <3>3 DEF PublishInv
  <2> QED BY <1>6, <2>6, <2>7 DEF PushBranch
<1>7. ASSUME NEW p \in Publications, OpenPullRequest(p) PROVE PublishInv'
  <2>1. UNCHANGED <<changes, head, branches, remote, results, met>> /\ publication[p].at = "pull"
    BY <1>7 DEF OpenPullRequest
  <2>2. PICK label \in {"store", "failed"} : Publishing(p, label)
    BY <1>7 DEF OpenPullRequest
  <2>3. label \in PublishStep
    BY DEF PublishStep
  <2>m. /\ publication'[p].at = label
        /\ publication'[p].branch = publication[p].branch /\ publication'[p].found = publication[p].found
        /\ \A q \in Publications \ {p} : publication'[q] = publication[q]
    BY <2>2, <2>3, PublishingType
  <2>n. \A q \in Publications : publication[q].branch \in Branches /\ publication[q].found \in SUBSET Work
    BY DEF PublishTypes
  <2>4. publication[p].branch \in Branches /\ pulls[publication[p].branch] = 0 /\ branches[publication[p].branch].known
    BY <2>1 DEF PublishTypes, BranchesOwned, Owner
  <2>5. /\ pulls' \in [Branches -> Nat]
        /\ \A c \in Branches \ {publication[p].branch} : pulls'[c] = pulls[c]
        /\ pulls'[publication[p].branch] <= 1
    BY <1>7, <2>4 DEF OpenPullRequest, PublishTypes
  <2>6. PublishTypes' /\ OnePullRequest'
    BY <2>1, <2>2, <2>3, <2>5, PublishingType DEF PublishTypes, OnePullRequest
  <2>7. BranchesOwned'
    BY <2>1, <2>2, <2>m, <2>n, <2>4, <2>5 DEF BranchesOwned, Owner
  <2>8. ~met' => WorkCarried'
    BY <2>1, <2>2, <2>3, PublishingType DEF WorkCarried, AtCheckout
  <2> QED BY <2>6, <2>7, <2>8 DEF PublishInv
<1>8. ASSUME NEW p \in Publications, StoreResult(p) PROVE PublishInv'
  <2>1. "answered" \in PublishStep
    BY DEF PublishStep
  <2>2. PublishTypes'
    BY <1>8, <2>1, PublishingType DEF StoreResult, PublishTypes
  <2>3. OnePullRequest' /\ BranchesOwned'
    BY <1>8, <2>1, PublishingType DEF StoreResult, OnePullRequest, BranchesOwned, Owner
  <2>4. ~met' => WorkCarried'
    BY <1>8, <2>1, PublishingType DEF StoreResult, WorkCarried, AtCheckout
  <2> QED BY <2>2, <2>3, <2>4 DEF PublishInv
<1>9. CASE PublisherRestarts
  <2>1. /\ publication' \in [Publications -> [at : PublishStep, run : RunIds, branch : Branches, found : SUBSET Work]]
        /\ \A p \in Publications : publication'[p].at \in {"idle", "failed"}
    BY <1>9 DEF PublisherRestarts, PublishTypes, PublishStep
  <2> QED BY <1>9, <2>1 DEF PublisherRestarts, PublishInv, PublishTypes, OnePullRequest, BranchesOwned, Owner, WorkCarried, AtCheckout
<1> QED BY <1>1, <1>2, <1>3, <1>4, <1>5, <1>6, <1>7, <1>8, <1>9 DEF PublishNext

-----------------------------------------------------------------------------
(* The checkout.                                                           *)

CloneStep == {"idle", "stat", "clear", "rmdir", "git", "cloning", "own", "answered", "failed"}
RootState == [dir : BOOLEAN, git : {"none", "init", "cloned"}, files : {"none", "some", "all"}]

\* The directory and the requests, as long as nothing was cut short and no request
\* took a clone under way for something else.
CheckoutOrder ==
    /\ root.files # "none" => root.git = "cloned"
    /\ root.git # "none" => root.dir
    /\ \A q, r \in CloneRequests : clone[q] = "cloning" /\ clone[r] = "cloning" => q = r
    /\ \A r \in CloneRequests : clone[r] = "cloning" => root.git # "none"
    /\ root.files = "some" => \E r \in CloneRequests : clone[r] = "cloning"
    /\ root.dir /\ root.git = "none" => \E r \in CloneRequests : clone[r] = "rmdir"
    /\ (watching # 0 \/ \E r \in CloneRequests : clone[r] \in {"own", "answered"}) =>
        /\ root.files = "all" /\ \A r \in CloneRequests : clone[r] # "cloning"
    /\ watching # 0 => watching = births
    /\ \A r \in CloneRequests : clone[r] = "answered" => watching = births

CheckoutInv ==
    /\ root \in RootState /\ clone \in [CloneRequests -> CloneStep]
    /\ births \in Nat /\ watching \in Nat /\ cutShort \in BOOLEAN /\ raced \in BOOLEAN
    /\ ~cutShort /\ ~raced => CheckoutOrder

\* There is no directory, or a placeholder, when the requests start.
LEMMA CheckoutStarts == CheckoutInit => CheckoutInv
<1> SUFFICES ASSUME CheckoutInit PROVE CheckoutInv
  OBVIOUS
<1>1. /\ root \in RootState /\ root.files = "none" /\ (root.git # "none" => root.dir)
      /\ (root.git = "none" => ~root.dir)
  <2>1. root = Absent \/ root = Bare("init")
    BY DEF CheckoutInit
  <2>2. CASE root = Absent
    BY <2>2 DEF Absent, RootState
  <2>3. CASE root = Bare("init")
    BY <2>3 DEF Bare, RootState
  <2> QED BY <2>1, <2>2, <2>3
<1>2. /\ clone \in [CloneRequests -> CloneStep] /\ \A r \in CloneRequests : clone[r] = "idle"
      /\ births \in Nat /\ watching = 0 /\ cutShort = FALSE /\ raced = FALSE
  BY DEF CheckoutInit, CloneStep
<1>3. CheckoutOrder
  BY <1>1, <1>2 DEF CheckoutOrder
<1> QED BY <1>1, <1>2, <1>3 DEF CheckoutInv

\* A step of request r leaves the other requests where they are.
LEMMA StepsType ==
    ASSUME clone \in [CloneRequests -> CloneStep], NEW r \in CloneRequests, NEW from, NEW to \in CloneStep,
           Steps(r, from, to)
    PROVE  /\ clone' \in [CloneRequests -> CloneStep] /\ clone[r] = from /\ clone'[r] = to
           /\ \A q \in CloneRequests \ {r} : clone'[q] = clone[q]
BY DEF Steps

\* Every step of the clones keeps the order of directory and requests.
LEMMA CheckoutKept == ASSUME CheckoutInv, CheckoutNext PROVE CheckoutInv'
<1> /\ root \in RootState /\ clone \in [CloneRequests -> CloneStep]
    /\ births \in Nat /\ watching \in Nat /\ cutShort \in BOOLEAN /\ raced \in BOOLEAN
    /\ ~cutShort /\ ~raced => CheckoutOrder
  BY DEF CheckoutInv
<1>0. {"idle", "stat", "clear", "rmdir", "git", "cloning", "own", "answered", "failed"} = CloneStep
  BY DEF CloneStep
<1>1. ASSUME NEW r \in CloneRequests, LookAtCheckout(r) PROVE CheckoutInv'
  <2>1. PICK to \in {"stat", "clear", "own"} :
            /\ Steps(r, "idle", to)
            /\ to = "own" => root.dir /\ (root.git = "none" \/ root.files # "none")
    BY <1>1 DEF LookAtCheckout, IsPlaceholder
  <2>2. to \in CloneStep
    BY <1>0
  <2>3. /\ clone' \in [CloneRequests -> CloneStep] /\ clone[r] = "idle" /\ clone'[r] = to
        /\ \A q \in CloneRequests \ {r} : clone'[q] = clone[q]
    BY <2>1, <2>2, StepsType
  <2>4. UNCHANGED <<root, births, watching, kills, cutShort>> /\ raced' \in BOOLEAN
    BY <1>1 DEF LookAtCheckout
  <2>5. ASSUME ~cutShort', ~raced' PROVE CheckoutOrder'
    <3>1. CheckoutOrder /\ (to = "own" => \A q \in CloneRequests \ {r} : clone[q] \notin {"rmdir", "cloning"})
      <4>1. raced' = (raced \/ (clone'[r] = "own" /\ Another(r, {"rmdir", "cloning"})))
        BY <1>1 DEF LookAtCheckout
      <4>2. ~raced /\ ~(clone'[r] = "own" /\ Another(r, {"rmdir", "cloning"}))
        BY <2>5, <4>1
      <4>3. CheckoutOrder
        BY <2>4, <2>5, <4>2
      <4> QED BY <2>3, <4>2, <4>3 DEF Another
    <3>2. to = "own" => root.files = "all"
      BY <2>1, <2>3, <3>1 DEF CheckoutOrder, RootState
    <3> QED BY <2>3, <2>4, <3>1, <3>2 DEF CheckoutOrder
  <2> QED BY <2>3, <2>4, <2>5 DEF CheckoutInv
<1>2. ASSUME NEW r \in CloneRequests, ClearPlaceholder(r) PROVE CheckoutInv'
  <2>1. PICK to \in {"rmdir", "failed"}, g \in {"none", "init"} :
            /\ Steps(r, "clear", to) /\ root' = [root EXCEPT !.git = g]
            /\ to = "failed" => Another(r, {"cloning"})
            /\ to = "rmdir" => g = "none"
    BY <1>2 DEF ClearPlaceholder
  <2>2. to \in CloneStep
    BY <1>0
  <2>3. /\ clone' \in [CloneRequests -> CloneStep] /\ clone[r] = "clear" /\ clone'[r] = to
        /\ \A q \in CloneRequests \ {r} : clone'[q] = clone[q]
    BY <2>1, <2>2, StepsType
  <2>4. UNCHANGED <<births, watching, kills, cutShort>> /\ raced' \in BOOLEAN
    BY <1>2 DEF ClearPlaceholder
  <2>5. root' \in RootState /\ root'.dir = root.dir /\ root'.files = root.files /\ root'.git = g
    BY <2>1 DEF RootState
  <2>6. ASSUME ~cutShort', ~raced' PROVE CheckoutOrder'
    <3>1. CheckoutOrder /\ root.files = "none" /\ ~Another(r, {"cloning"})
      <4>1. raced' = (raced \/ root.files # "none" \/ Another(r, {"cloning"}))
        BY <1>2 DEF ClearPlaceholder
      <4>2. ~raced /\ root.files = "none" /\ ~Another(r, {"cloning"})
        BY <2>6, <4>1
      <4> QED BY <2>4, <2>6, <4>2
    <3>2. to = "rmdir" /\ \A q \in CloneRequests : clone[q] # "cloning"
      BY <2>1, <2>3, <3>1 DEF Another
    <3> QED BY <2>1, <2>3, <2>4, <2>5, <3>1, <3>2 DEF CheckoutOrder
  <2> QED BY <2>3, <2>4, <2>5, <2>6 DEF CheckoutInv
<1>3. ASSUME NEW r \in CloneRequests, RemoveCheckout(r) PROVE CheckoutInv'
  <2>1. UNCHANGED <<births, watching, kills, cutShort, raced>>
    BY <1>3 DEF RemoveCheckout
  <2>2. CASE Steps(r, "rmdir", "stat") /\ root = Bare("none") /\ root' = Absent
    <3>1. /\ clone' \in [CloneRequests -> CloneStep] /\ clone'[r] = "stat"
          /\ \A q \in CloneRequests \ {r} : clone'[q] = clone[q]
      BY <1>0, <2>2, StepsType
    <3>2. /\ root' \in RootState /\ ~root'.dir /\ root'.git = "none" /\ root'.files = "none"
          /\ root.git = "none" /\ root.files = "none"
      BY <2>2 DEF Absent, Bare, RootState
    <3>3. CheckoutOrder => CheckoutOrder'
      BY <2>1, <3>1, <3>2 DEF CheckoutOrder
    <3> QED BY <2>1, <3>1, <3>2, <3>3 DEF CheckoutInv
  <2>3. CASE Steps(r, "rmdir", "failed") /\ root # Bare("none") /\ UNCHANGED root
    <3>1. /\ clone' \in [CloneRequests -> CloneStep] /\ clone'[r] = "failed" /\ clone[r] = "rmdir"
          /\ \A q \in CloneRequests \ {r} : clone'[q] = clone[q]
      BY <1>0, <2>3, StepsType
    <3>2. ~(root.dir /\ root.git = "none" /\ root.files = "none")
      BY <2>3 DEF Bare, RootState
    <3>3. CheckoutOrder => CheckoutOrder'
      BY <2>1, <2>3, <3>1, <3>2 DEF CheckoutOrder, RootState
    <3> QED BY <2>1, <2>3, <3>1, <3>3 DEF CheckoutInv
  <2> QED BY <1>3, <2>2, <2>3 DEF RemoveCheckout
<1>4. ASSUME NEW r \in CloneRequests, StartClone(r) PROVE CheckoutInv'
  <2>1. UNCHANGED <<watching, kills, cutShort, raced>>
    BY <1>4 DEF StartClone
  <2>2. ASSUME NEW from \in {"stat", "git"}, NEW to \in {"failed", "git"}, Steps(r, from, to), UNCHANGED <<root, births>>
        PROVE  CheckoutInv'
    <3>1. to \in CloneStep
      BY <1>0
    <3>2. /\ clone' \in [CloneRequests -> CloneStep] /\ clone'[r] = to /\ clone[r] = from
          /\ \A q \in CloneRequests \ {r} : clone'[q] = clone[q]
      BY <2>2, <3>1, StepsType
    <3>3. CheckoutOrder => CheckoutOrder'
      BY <2>1, <2>2, <3>2 DEF CheckoutOrder
    <3> QED BY <2>1, <2>2, <3>2, <3>3 DEF CheckoutInv
  <2>3. CASE /\ Steps(r, "git", "cloning") /\ root \in {Absent, Bare("none")}
             /\ root' = Bare("init") /\ births' = IF root.dir THEN births ELSE births + 1
    <3>1. /\ clone' \in [CloneRequests -> CloneStep] /\ clone'[r] = "cloning" /\ clone[r] = "git"
          /\ \A q \in CloneRequests \ {r} : clone'[q] = clone[q]
      BY <1>0, <2>3, StepsType
    <3>2. /\ root.git = "none" /\ root.files = "none"
          /\ root' \in RootState /\ root'.dir /\ root'.git = "init" /\ root'.files = "none"
      BY <2>3 DEF Absent, Bare, RootState
    <3>3. births' \in Nat
      BY <2>3
    <3>4. CheckoutOrder => CheckoutOrder'
      BY <2>1, <3>1, <3>2 DEF CheckoutOrder
    <3> QED BY <2>1, <3>1, <3>2, <3>3, <3>4 DEF CheckoutInv
  <2> QED BY <1>4, <2>2, <2>3 DEF StartClone
<1>5. ASSUME NEW r \in CloneRequests, GitClones(r) PROVE CheckoutInv'
  <2>1. UNCHANGED <<births, watching, kills, cutShort, raced>> /\ clone[r] = "cloning"
    BY <1>5 DEF GitClones
  <2>2. CASE root = Bare("init") /\ root' = Bare("cloned") /\ UNCHANGED clone
    <3>1. /\ root' \in RootState /\ root'.dir /\ root'.git = "cloned" /\ root'.files = "none"
          /\ root.files = "none"
      BY <2>2 DEF Bare, RootState
    <3>2. CheckoutOrder => CheckoutOrder'
      BY <2>1, <2>2, <3>1 DEF CheckoutOrder
    <3> QED BY <2>1, <2>2, <3>1, <3>2 DEF CheckoutInv
  <2>3. CASE /\ root.git = "cloned" /\ root.files # "all" /\ UNCHANGED clone
             /\ root' = [root EXCEPT !.files = IF @ = "none" THEN "some" ELSE "all"]
    <3>1. root' \in RootState /\ root'.dir = root.dir /\ root'.git = "cloned" /\ root'.files \in {"some", "all"}
      BY <2>3 DEF RootState
    <3>2. CheckoutOrder => CheckoutOrder'
      BY <2>1, <2>3, <3>1 DEF CheckoutOrder
    <3> QED BY <2>1, <2>3, <3>1, <3>2 DEF CheckoutInv
  <2>4. CASE root = WholeCheckout /\ Steps(r, "cloning", "own") /\ UNCHANGED root
    <3>1. /\ clone' \in [CloneRequests -> CloneStep] /\ clone'[r] = "own"
          /\ \A q \in CloneRequests \ {r} : clone'[q] = clone[q]
      BY <1>0, <2>4, StepsType
    <3>2. root.dir /\ root.git = "cloned" /\ root.files = "all"
      BY <2>4 DEF WholeCheckout
    <3>3. CheckoutOrder => CheckoutOrder'
      BY <2>1, <2>4, <3>1, <3>2 DEF CheckoutOrder
    <3> QED BY <2>1, <2>4, <3>1, <3>3 DEF CheckoutInv
  <2>5. CASE Steps(r, "cloning", "failed") /\ root' = Absent
    <3>1. /\ clone' \in [CloneRequests -> CloneStep] /\ clone'[r] = "failed"
          /\ \A q \in CloneRequests \ {r} : clone'[q] = clone[q]
      BY <1>0, <2>5, StepsType
    <3>2. root' \in RootState /\ ~root'.dir /\ root'.git = "none" /\ root'.files = "none"
      BY <2>5 DEF Absent, RootState
    <3>3. CheckoutOrder => CheckoutOrder'
      BY <2>1, <3>1, <3>2 DEF CheckoutOrder
    <3> QED BY <2>1, <3>1, <3>2, <3>3 DEF CheckoutInv
  <2> QED BY <1>5, <2>2, <2>3, <2>4, <2>5 DEF GitClones
<1>6. ASSUME NEW r \in CloneRequests, ClientGivesUp(r) PROVE CheckoutInv'
  <2>1. UNCHANGED <<root, births, watching, raced>>
    BY <1>6 DEF ClientGivesUp
  <2>0. cutShort' \in BOOLEAN /\ (~cutShort' => ~cutShort /\ root.files # "some")
    BY <1>6 DEF ClientGivesUp
  <2>2. /\ clone' \in [CloneRequests -> CloneStep] /\ clone'[r] = "failed"
        /\ \A q \in CloneRequests \ {r} : clone'[q] = clone[q]
    BY <1>0, <1>6, StepsType DEF ClientGivesUp
  <2>3. ASSUME CheckoutOrder, root.files # "some" PROVE CheckoutOrder'
    <3>1. watching # 0 \/ (\E q \in CloneRequests : clone'[q] \in {"own", "answered"}) =>
            watching # 0 \/ \E q \in CloneRequests : clone[q] \in {"own", "answered"}
      BY <2>2
    <3>2. \A q \in CloneRequests : clone'[q] = "cloning" => clone[q] = "cloning"
      BY <2>2
    <3>3. root.dir /\ root.git = "none" => \E q \in CloneRequests : clone'[q] = "rmdir"
      BY <1>6, <2>2, <2>3 DEF CheckoutOrder, ClientGivesUp, Steps
    <3> QED BY <2>1, <2>2, <2>3, <3>1, <3>2, <3>3 DEF CheckoutOrder
  <2>4. ~cutShort' /\ ~raced' => CheckoutOrder'
    BY <2>0, <2>1, <2>3
  <2> QED BY <2>0, <2>1, <2>2, <2>4 DEF CheckoutInv
<1>7. ASSUME NEW r \in CloneRequests, OwnCheckout(r) PROVE CheckoutInv'
  <2>1. UNCHANGED <<root, births, kills, cutShort, raced>> /\ watching' \in {watching, births}
    BY <1>7 DEF OwnCheckout, StartWatcher
  <2>2. PICK to \in {"answered", "failed"} :
          /\ Steps(r, "own", to)
          /\ to = "answered" => watching' = IF watching = 0 THEN births ELSE watching
          /\ to = "failed" => watching' = watching
    BY <1>7 DEF OwnCheckout, StartWatcher
  <2>3. /\ clone' \in [CloneRequests -> CloneStep] /\ clone'[r] = to /\ clone[r] = "own"
        /\ \A q \in CloneRequests \ {r} : clone'[q] = clone[q]
    BY <1>0, <2>2, StepsType
  <2>4. CheckoutOrder => CheckoutOrder'
    BY <2>1, <2>2, <2>3 DEF CheckoutOrder
  <2> QED BY <2>1, <2>3, <2>4 DEF CheckoutInv
<1>8. CASE PreparePlaceholder
  <2>1. /\ root.git = "none" /\ root.files = "none"
        /\ root' \in RootState /\ root'.dir /\ root'.git = "init" /\ root'.files = "none"
        /\ births' \in Nat /\ UNCHANGED <<clone, watching, kills, cutShort, raced>>
    BY <1>8 DEF PreparePlaceholder, Absent, Bare, RootState
  <2>2. CheckoutOrder => CheckoutOrder'
    BY <2>1 DEF CheckoutOrder
  <2> QED BY <2>1, <2>2 DEF CheckoutInv
<1> QED BY <1>1, <1>2, <1>3, <1>4, <1>5, <1>6, <1>7, <1>8 DEF CheckoutNext

\* The order is enough for the promise of an answer.
LEMMA CheckoutPromise == CheckoutInv => CheckoutAnswered
<1> SUFFICES ASSUME CheckoutInv, NEW r \in CloneRequests, clone[r] = "answered", ~cutShort, ~raced
             PROVE  root = WholeCheckout /\ watching = births
  BY DEF CheckoutAnswered
<1>1. CheckoutOrder /\ root \in RootState
  BY DEF CheckoutInv
<1>2. watching = births /\ root.files = "all" /\ root.git = "cloned" /\ root.dir
  BY <1>1 DEF CheckoutOrder
<1> QED BY <1>1, <1>2 DEF WholeCheckout, RootState

-----------------------------------------------------------------------------
(* What holds in every behaviour of the tools.                             *)

\* Register of internal/filesync and of internal/hostagent: whatever fails or is
\* repeated, the host shares no folder before the gateway has made the rules that
\* keep its .git at home.
THEOREM GitStays == ToolSpec => []GitStaysPut
<1>1. ToolInit => MirrorTypes /\ ProtectedFirst /\ ApprovalInv
  BY MirrorStarts, ApprovalStarts DEF ToolInit
<1>2. MirrorTypes /\ ProtectedFirst /\ ApprovalInv /\ [ToolNext]_toolVars =>
        MirrorTypes' /\ ProtectedFirst' /\ ApprovalInv'
  BY MirrorKept, ApprovalKept, MirrorFrame DEF ToolNext, toolVars
<1>3. MirrorTypes /\ ProtectedFirst => GitStaysPut
  BY DEF ProtectedFirst, GitStaysPut, MirrorTypes, GatewayFolders, HostFolders
<1> QED BY <1>1, <1>2, <1>3, PTL DEF ToolSpec

\* approveMirror and the configuration file: an approval whose request was answered
\* is served, after restarts too, unless an import has replaced it or a save that had
\* marshalled before it has overwritten it.
THEOREM ApprovalStays == ToolSpec => []ApprovalSurvives
<1>1. ToolInit => MirrorTypes /\ ProtectedFirst /\ ApprovalInv
  BY MirrorStarts, ApprovalStarts DEF ToolInit
<1>2. MirrorTypes /\ ProtectedFirst /\ ApprovalInv /\ [ToolNext]_toolVars =>
        MirrorTypes' /\ ProtectedFirst' /\ ApprovalInv'
  BY MirrorKept, ApprovalKept, MirrorFrame DEF ToolNext, toolVars
<1>3. ApprovalInv => ApprovalSurvives
  BY DEF ApprovalInv, ApprovalSurvives
<1> QED BY <1>1, <1>2, <1>3, PTL DEF ToolSpec

\* internal/terminal and hostagent/terminal.go: of each stream the client sees the
\* chunks in order without a gap, and no reader sends on the closed channel.
LEMMA TerminalSafe == ToolSpec => [](ShownIsPrefix /\ NoSendOnClosed)
<1>1. ToolInit => TerminalInv /\ NoSendOnClosed
  BY TerminalStarts DEF ToolInit
<1>2. TerminalInv /\ NoSendOnClosed /\ [ToolNext]_toolVars => TerminalInv' /\ NoSendOnClosed'
  <2>1. ASSUME TerminalInv, NoSendOnClosed, UNCHANGED termVars PROVE TerminalInv' /\ NoSendOnClosed'
    <3>1. UNCHANGED <<kind, pipe, written, copier, output, closed, cancelled, handler, gone, shown>>
      BY <2>1 DEF termVars, termCommand, termOutput, termClient
    <3>2. TerminalTypes' /\ ShownIsPrefix' /\ NoSendOnClosed'
      BY <2>1, <3>1 DEF TerminalInv, TerminalTypes, ShownIsPrefix, NoSendOnClosed
    <3>3. ASSUME Live', NEW s \in Streams PROVE Flow(s)'
      BY <2>1, <3>1, <3>3, FlowFrame DEF TerminalInv, Writing, Live
    <3> QED BY <2>1, <3>1, <3>2, <3>3 DEF TerminalInv, Live
  <2>2. ASSUME TerminalInv, NoSendOnClosed, TerminalNext PROVE TerminalInv' /\ NoSendOnClosed'
    BY <2>2, TerminalKept, ClosedKept DEF TerminalInv, TerminalTypes
  <2> QED BY <2>1, <2>2 DEF ToolNext, toolVars
<1>3. TerminalInv => ShownIsPrefix
  BY DEF TerminalInv
<1> QED BY <1>1, <1>2, <1>3, PTL DEF ToolSpec

\* What the client of a terminal sees, whatever is lost when the session ends.
THEOREM OutputInOrder == ToolSpec => []ShownIsPrefix
BY TerminalSafe, PTL

\* A send on the closed channel, which would end the gateway, never comes.
THEOREM NoLateSend == ToolSpec => []NoSendOnClosed
BY TerminalSafe, PTL

\* internal/publish: a branch gets one pull request however often and however many
\* at once publish, and it holds the work unless requests met in the checkout.
LEMMA PublishSafe == ToolSpec => [](OnePullRequest /\ PullRequestHasWork)
<1>1. ToolInit => PublishInv
  BY PublishStarts DEF ToolInit
<1>2. PublishInv /\ [ToolNext]_toolVars => PublishInv'
  <2>1. ASSUME PublishInv, UNCHANGED publishVars PROVE PublishInv'
    BY <2>1 DEF publishVars, gitVars, PublishInv, PublishTypes, OnePullRequest, BranchesOwned, Owner, WorkCarried, AtCheckout
  <2> QED BY <2>1, PublishKept DEF ToolNext, toolVars
<1>3. PublishInv => OnePullRequest /\ PullRequestHasWork
  BY DEF PublishInv, WorkCarried, PullRequestHasWork
<1> QED BY <1>1, <1>2, <1>3, PTL DEF ToolSpec

\* A publication that is repeated, after an error, a restart or twice at once, opens no
\* second pull request.
THEOREM PullRequestOnce == ToolSpec => []OnePullRequest
BY PublishSafe, PTL

\* The branch a publication answers with has all the work it had found.
THEOREM PullRequestWhole == ToolSpec => []PullRequestHasWork
BY PublishSafe, PTL

\* internal/repository: a successful clone leaves the whole repository, and the
\* watcher watches the directory there is.
THEOREM CheckoutSafe == ToolSpec => []CheckoutAnswered
<1>1. ToolInit => CheckoutInv
  BY CheckoutStarts DEF ToolInit
<1>2. CheckoutInv /\ [ToolNext]_toolVars => CheckoutInv'
  <2>1. ASSUME CheckoutInv, UNCHANGED checkoutVars PROVE CheckoutInv'
    BY <2>1 DEF checkoutVars, CheckoutInv, CheckoutOrder
  <2> QED BY <2>1, CheckoutKept DEF ToolNext, toolVars
<1> QED BY <1>1, <1>2, CheckoutPromise, PTL DEF ToolSpec
=============================================================================
