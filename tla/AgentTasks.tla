----------------------------- MODULE AgentTasks -----------------------------
(***************************************************************************)
(* One agent task, in thread 1 of Home: its row, the grants its owner has  *)
(* given, and its node in the graph.  Every write goes through persist:    *)
(* the row (an upsert that only the owner's own conflicts update, and      *)
(* which is answered as done either way), then the node and its two edges. *)
(* InputTask does so before and after the prompt, from the copy of the     *)
(* task it read at first, and ignores errors.  With a database the maps of *)
(* the service are not read.  The activity messages, whose outcome is      *)
(* ignored too, are messages of Collaboration; they are left out.          *)
(***************************************************************************)
EXTENDS Collaboration

\* What a client upserts: a status with work under way or one without.  Of the
\* roles "viewer" and "approver" permit the same here.
Statuses == {"ready", "running"}
TaskRoles == {"viewer", "contributor", "operator"}
TaskPermissions(role) ==
    CASE role = "contributor" -> {"task.contribute", "artifact.share"}
      [] role = "operator" -> {"task.contribute", "task.control", "artifact.share"}
      [] OTHER -> {}

TaskStatuses == {"ready", "running", "completed", "failed", "cancelled"}
TaskEntry == [owner : Users, status : TaskStatuses]
TaskRequest ==
    [op : {"task"}, at : {"upsert", "start", "startNode", "prompt", "end", "node"},
     user : Users, owner : Users, status : TaskStatuses]

ASSUME TaskAssumption ==
    /\ Nothing \notin TaskEntry /\ Nothing \notin TaskRequest
    /\ Nothing \notin TaskRoles \cup {"expired"}

VARIABLES
    agentRow,       \* the users who registered the task's agent
    taskRow,        \* [owner, status], or Nothing
    grantRow,       \* grantRow[u]: the role u was granted, "expired", or Nothing
    granted,        \* history: <<u, role>> the owner was told to have granted
    excused,        \* history: why the row may say running without work
    disturbed       \* history: the node may differ from the row

taskVars == <<agentRow, taskRow, grantRow, granted, excused, disturbed>>

TaskNode == <<"task">>

\* The database has no task, or one that an earlier process has left.
TaskInit ==
    /\ agentRow \in SUBSET Users
    /\ taskRow \in {Nothing} \cup (IF 1 \in threadRow THEN [owner : agentRow, status : {"ready"}] ELSE {})
    /\ nodeRow = [id \in {<<"discussion", i>> : i \in threadRow} \cup (IF taskRow = Nothing THEN {} ELSE {TaskNode})
                    |-> IF id = TaskNode THEN "ready" ELSE "none"]
    /\ grantRow = [u \in Users |-> Nothing]
    /\ granted = {} /\ excused = FALSE /\ disturbed = FALSE

---------------------------------------------------------------------------
Task(step, user, owner, status) ==
    [op |-> "task", at |-> step, user |-> user, owner |-> owner, status |-> status]

\* Requests that have read the task and will still write it.
Writers == {p \in Callers : call[p] # Nothing /\ call[p].op = "task"}
Prompts == {p \in Writers : call[p].at \in {"start", "startNode", "prompt", "end"}}

\* Upsert of the agent's metadata.
UpsertAgentRow(u) == agentRow' = agentRow \cup {u}
Owns(u) == u \in agentRow

UpsertAgent(p, u) ==
    /\ Answers(p)
    /\ UpsertAgentRow(u) \/ UNCHANGED agentRow
    /\ UNCHANGED <<taskRow, grantRow, granted, excused, disturbed>>

\* The owner posts what the agent said.
RecordOutput(p, u) ==
    /\ Owns(u)
    /\ CreateMessage(p, u, 1)
    /\ UNCHANGED taskVars

\* A request that will write: not alone, it may leave row and node apart.
BeginsTask(p, request) ==
    /\ Begins(p, request)
    /\ disturbed' = (disturbed \/ Writers # {})

UpsertTask(p, u, status) ==
    /\ Owns(u) /\ CanRead(Home, u)
    /\ BeginsTask(p, Task("upsert", u, u, status))
    /\ UNCHANGED <<agentRow, taskRow, grantRow, granted, excused>>

\* GetAgentTaskAccess: the owner's permissions, or those of a live grant.
Permitted(u, permission) ==
    taskRow # Nothing /\ (u = taskRow.owner \/ permission \in TaskPermissions(grantRow[u]))

InputTask(p, u) ==
    /\ Permitted(u, "task.contribute")
    /\ BeginsTask(p, Task("start", u, taskRow.owner, "running"))
    /\ UNCHANGED <<agentRow, taskRow, grantRow, granted, excused>>

\* CancelTask asks the host first, and ends here when that fails.
CancelTask(p, u) ==
    /\ Permitted(u, "task.control")
    /\ \/ BeginsTask(p, Task("end", u, taskRow.owner, "cancelled"))
       \/ Answers(p) /\ UNCHANGED disturbed
    /\ UNCHANGED <<agentRow, taskRow, grantRow, granted, excused>>

---------------------------------------------------------------------------
\* UpsertAgentTask; the thread is a foreign key.
TaskStatementOfAnyone(c) == taskRow' = [owner |-> c.owner, status |-> c.status]

TaskStatement(c) ==
    IF taskRow = Nothing
    THEN 1 \in threadRow /\ taskRow' = [owner |-> c.owner, status |-> c.status]
    ELSE taskRow' = IF taskRow.owner = c.owner THEN [taskRow EXCEPT !.status = c.status] ELSE taskRow

TaskWritten(c) ==
    /\ TaskStatement(c)
    /\ disturbed' = (disturbed \/ (taskRow # Nothing /\ taskRow.owner # c.owner))
    /\ excused' = IF taskRow' # taskRow THEN c.at = "upsert" /\ c.status = "running" ELSE excused

\* UpsertTask returns the error of its statement, ...
UpsertRow(p) ==
    /\ At(p, "task", "upsert")
    /\ \/ TaskWritten(call[p]) /\ GoesTo(p, "node")
       \/ Returns(p) /\ UNCHANGED <<taskRow, excused, disturbed>>
    /\ UNCHANGED <<agentRow, grantRow, granted>>

\* ... persistTaskStatus goes on.
TaskRow(p) ==
    /\ \/ At(p, "task", "start") /\ GoesTo(p, "startNode")
       \/ At(p, "task", "end") /\ GoesTo(p, "node")
    /\ \/ TaskWritten(call[p])
       \/ disturbed' = TRUE /\ excused' = (excused \/ call[p].at = "end") /\ UNCHANGED taskRow
    /\ UNCHANGED <<agentRow, grantRow, granted>>

\* ProjectAgentTask: the node, and then its edge, if that works.  (The edge to
\* the resource goes the same way.)
ProjectTask(p) ==
    /\ \/ At(p, "task", "startNode") /\ GoesTo(p, "prompt")
       \/ At(p, "task", "node") /\ Returns(p)
    /\ \/ /\ nodeRow' = WithNode(TaskNode, call[p].status)
          /\ edgeRow' \in {edgeRow} \cup
                Linked(DOMAIN nodeRow', <<"taskDiscussion">>, TaskNode, <<"discussion", 1>>)
          /\ UNCHANGED <<unprojected, disturbed>>
       \/ /\ unprojected' = unprojected \cup {TaskNode}
          /\ disturbed' = TRUE
          /\ UNCHANGED <<nodeRow, edgeRow>>
    /\ UNCHANGED <<edgeSeq, agentRow, taskRow, grantRow, granted, excused>>

\* The host works, and answers; or the request's context ends, or two minutes.
PromptTaskEarly(p) == At(p, "task", "prompt") /\ Returns(p) /\ UNCHANGED taskVars

PromptTask(p) ==
    /\ At(p, "task", "prompt")
    /\ \E status \in {"completed", "failed"} : Goes(p, [call[p] EXCEPT !.at = "end", !.status = status])
    /\ UNCHANGED taskVars

---------------------------------------------------------------------------
\* GrantTaskAccess to a member: the row, or an error.
UpsertGrant(u, role) == grantRow' = [grantRow EXCEPT ![u] = role]

GrantTaskAccess(p, u, v, role) ==
    /\ Owns(u)
    /\ taskRow # Nothing /\ taskRow.owner = u
    /\ CanRead(Home, u) /\ CanRead(Home, v)
    /\ Answers(p)
    /\ \/ /\ UpsertGrant(v, role)
          /\ granted' = granted \cup {<<v, role>>}
       \/ UNCHANGED <<grantRow, granted>>
    /\ UNCHANGED <<agentRow, taskRow, excused, disturbed>>

GrantExpires(u) ==
    /\ grantRow[u] \in TaskRoles
    /\ grantRow' = [grantRow EXCEPT ![u] = "expired"]
    /\ UNCHANGED <<agentRow, taskRow, granted, excused, disturbed>>

\* ShareTaskArtifact posts an agent's message, which ends in ProjectTaskArtifact.
ShareTaskArtifact(p, u) ==
    /\ Permitted(u, "artifact.share")
    /\ CanWrite(Home, u)
    /\ Begins(p, [Chat("artifact") EXCEPT !.thread = 1])
    /\ UNCHANGED taskVars

ProjectTaskArtifact(p) ==
    /\ At(p, "chat", "project") /\ call[p].kind = "artifact"
    /\ Returns(p)
    /\ LET node == <<"artifact", call[p].item>>
           edge == <<"artifactTask", call[p].item>>
       IN \/ /\ nodeRow' = WithNode(node, "none")
             /\ edgeRow' \in {edgeRow} \cup Linked(DOMAIN nodeRow', edge, node, TaskNode)
          \/ UNCHANGED <<nodeRow, edgeRow>>
    /\ UNCHANGED <<edgeSeq, unprojected, taskVars>>

TaskRestart ==
    /\ excused' = (excused \/ Prompts # {})
    /\ disturbed' = (disturbed \/ Writers # {})
    /\ UNCHANGED <<agentRow, taskRow, grantRow, granted>>

TaskNext ==
    \/ \E p \in Callers :
        \/ /\ UNCHANGED chatVars
           /\ \/ ProjectTask(p) \/ ProjectTaskArtifact(p)
              \/ /\ UNCHANGED graphVars
                 /\ \/ UpsertRow(p) \/ TaskRow(p) \/ PromptTask(p)
                    \/ \E u \in Users :
                        \/ UpsertAgent(p, u) \/ RecordOutput(p, u) \/ InputTask(p, u) \/ CancelTask(p, u) \/ ShareTaskArtifact(p, u)
                        \/ \E s \in Statuses : UpsertTask(p, u, s)
                        \/ \E v \in Users, role \in TaskRoles : GrantTaskAccess(p, u, v, role)
        \/ ChatSteps(p) /\ UNCHANGED taskVars
    \/ \E u \in Users : GrantExpires(u) /\ UNCHANGED <<gatewayVars, chatVars, graphVars>>

---------------------------------------------------------------------------
\* ListAgentTasks: whoever owns the task or has a live grant.
Lists(u) == taskRow # Nothing /\ (u = taskRow.owner \/ grantRow[u] \in TaskRoles)

\* A prompt works for the owner of the task, on the owner's host, and for
\* somebody the owner was told to have granted the right; whoever else upserts
\* the same ID, and whatever is granted or expires meanwhile.  Until then they
\* have the task in their list.
OwnersDecide ==
    /\ \A p \in Prompts :
        /\ call[p].owner = taskRow.owner
        /\ \/ call[p].user = taskRow.owner
           \/ \E role \in TaskRoles :
                <<call[p].user, role>> \in granted /\ "task.contribute" \in TaskPermissions(role)
    /\ \A g \in granted : Lists(g[1]) \/ grantRow[g[1]] = "expired"

\* The row says running only while a prompt is under way, unless the owner's
\* client said so, the final statement failed, or the gateway was restarted.
RunningMeansWork ==
    taskRow # Nothing /\ taskRow.status = "running" => Prompts # {} \/ excused

\* Between requests the node shows the status of the row, as long as no
\* statement failed, no two writes overlapped and nobody else used the ID.
GraphFollowsTask ==
    Writers = {} /\ ~disturbed /\ taskRow # Nothing =>
        HasNode(TaskNode) /\ nodeRow[TaskNode] = taskRow.status
=============================================================================
