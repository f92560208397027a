---------------------------- MODULE ResourceGraph ----------------------------
(***************************************************************************)
(* The requests of the resource graph: nodes that clients upsert, edges    *)
(* they send, the tools of the MCP endpoint (a new node, then perhaps an   *)
(* edge from it, whose error answers the call though the node stays), and  *)
(* what the schema adds at every start: the node, and the edges, of each   *)
(* resource, thread and task that lacks them.                              *)
(***************************************************************************)
EXTENDS AgentTasks

Relations == {"discussed_in", "produced_by"}

VARIABLES linked    \* history: [id, ends, start] of the edges answered with success

GraphInit == edgeRow = NoRows /\ edgeSeq = 0 /\ unprojected = {} /\ linked = {}

\* The nodes clients and tools make, by number.
ClientNode(i) == <<"node", i>>
Fresh == {i \in Items : ~HasNode(ClientNode(i))}

\* The statement may fail, here and in the tools below.
UpsertNode(p, u, i) ==
    /\ CanWrite(Home, u)
    /\ Answers(p)
    /\ nodeRow' \in {nodeRow, WithNode(ClientNode(i), "none")}
    /\ UNCHANGED <<edgeRow, edgeSeq, unprojected, linked>>

\* An agent changes the UI document of a node it finds.
UpdateUIArtifact(p, u, i) == HasNode(ClientNode(i)) /\ UpsertNode(p, u, i)

\* A tool names its node after the clock: new, unless two do so at once.  With
\* the node there, it answers, goes on to link it, or tells the thread of it.
NewNode(u, i) ==
    /\ CanWrite(Home, u)
    /\ i \in Fresh
    /\ nodeRow' = WithNode(ClientNode(i), "none")
    /\ UNCHANGED <<edgeRow, edgeSeq, unprojected, linked>>

RequestUIAction(p, u, i) == NewNode(u, i) /\ Answers(p)

LinkOptional(p, from, target, relation) ==
    Begins(p, [op |-> "graph", at |-> "edge", from |-> from, to |-> target, relation |-> relation])

\* create_task and publish_artifact.
CreateByTool(p, u, i, relation, target) ==
    NewNode(u, i) /\ LinkOptional(p, ClientNode(i), target, relation)

CreateUIArtifact(p, u, i) ==
    /\ NewNode(u, i)
    /\ IF Owns(u) THEN Begins(p, [Chat("message") EXCEPT !.thread = 1]) ELSE Answers(p)

CreateEdge(p, u, from, to, relation) ==
    /\ CanWrite(Home, u)
    /\ from # to
    /\ Begins(p, [op |-> "graph", at |-> "edge", from |-> from, to |-> to, relation |-> relation])
    /\ UNCHANGED <<graphVars, linked>>

\* The edge takes its number and is inserted, in one statement or not at all.
EdgeIDOfRelation(relation) == <<relation, 1>>
EdgeID(relation) == <<relation, edgeSeq + 1>>

InsertEdge(p) ==
    /\ At(p, "graph", "edge")
    /\ Returns(p)
    /\ edgeSeq' = edgeSeq + 1
    /\ LET c == call[p]
           id == EdgeID(c.relation)
       IN \/ /\ edgeRow' \in Linked(DOMAIN nodeRow, id, c.from, c.to)
             /\ linked' = linked \cup {[id |-> id, ends |-> <<c.from, c.to>>, start |-> restarts]}
          \/ UNCHANGED <<edgeRow, linked>>
    /\ UNCHANGED <<nodeRow, unprojected>>

\* The schema of the database, at every start.
StoredTask == IF taskRow = Nothing THEN {} ELSE {TaskNode}

Stored ==
    {<<"discussion", i>> : i \in threadRow} \cup StoredTask
    \cup UNION {{<<"resource", w, x>> : x \in resRow[w]} : w \in Workspaces}

Backfilled(id) == IF id = TaskNode THEN taskRow.status ELSE "none"

GraphRestart ==
    /\ nodeRow' = [id \in DOMAIN nodeRow \cup Stored |-> IF HasNode(id) THEN nodeRow[id] ELSE Backfilled(id)]
    /\ edgeRow' = IF taskRow = Nothing \/ HasEdge(<<"taskDiscussion">>) THEN edgeRow
                  ELSE With(edgeRow, <<"taskDiscussion">>, <<TaskNode, <<"discussion", 1>>>>)
    /\ edgeSeq' = 0
    /\ unprojected' = {}
    /\ UNCHANGED linked

CallTool(p, u, i) ==
    \/ \E relation \in Relations, to \in DOMAIN nodeRow \cup {ClientNode(1)} : CreateByTool(p, u, i, relation, to)
    \/ UpdateUIArtifact(p, u, i) \/ RequestUIAction(p, u, i) \/ CreateUIArtifact(p, u, i)

GraphNext ==
    \E p \in Callers :
        \/ /\ UNCHANGED chatVars
           /\ \/ InsertEdge(p)
              \/ \E u \in Users, i \in Items : UpsertNode(p, u, i) \/ CallTool(p, u, i)
              \/ \E u \in Users, relation \in Relations, from, to \in DOMAIN nodeRow \cup {ClientNode(1)} :
                    CreateEdge(p, u, from, to, relation)
        \/ ChatSteps(p) /\ UNCHANGED linked

---------------------------------------------------------------------------
\* Whatever a client was told it has stored is in the graph, as the services
\* project it, unless its projection failed since the gateway started; after a
\* start it is there, also when the process had died before projecting it.
GraphCovers ==
    LET Covered(id) == HasNode(id) \/ id \in unprojected IN
    /\ \A a \in memberAcked : Len(a) = 2 => Covered(<<"resource", a[1], a[2]>>)
    /\ \A i \in Items : <<"thread", i>> \in published =>
            \/ Covered(<<"discussion", i>>)
            \/ \E p \in Callers : At(p, "chat", "project") /\ call[p].kind = "thread" /\ call[p].item = i
    /\ taskRow # Nothing /\ Writers = {} => Covered(TaskNode)

\* Nothing is in the graph that is not stored, except what clients put there.
GraphHonest ==
    \A id \in DOMAIN nodeRow :
        /\ id[1] \in {"resource", "discussion", "task"} => id \in Stored
        /\ id[1] = "artifact" => \E m \in messageRow : m[2] = id[2]

\* The graph shows what the services have stored, and the status they show.
GraphMatchesRows == GraphCovers /\ GraphHonest /\ GraphFollowsTask

\* GetContext of a node: its edges.
ContextOf(id) == {e \in DOMAIN edgeRow : id \in {edgeRow[e][1], edgeRow[e][2]}}

\* An edge a client was told of is in the context of both its ends, for ever,
\* unless its number had been used by a process before a restart.
EdgesComplete ==
    \A e \in linked :
        \/ edgeRow[e.id] = e.ends /\ \A i \in 1 .. 2 : e.id \in ContextOf(e.ends[i])
        \/ \E f \in linked : f.id = e.id /\ f.start < e.start
=============================================================================
