----------------------------- MODULE GraphRows -----------------------------
(***************************************************************************)
(* The rows of the resource graph and the two statements that change them. *)
(* With a database every read of the graph goes to the rows; the maps of   *)
(* the service only refuse an ID that another workspace uses, which the    *)
(* IDs here never are.  The other services project what they store: they   *)
(* upsert a node, and edges, and ignore an error.                          *)
(***************************************************************************)
EXTENDS Gateway

VARIABLES
    nodeRow,        \* nodeRow[id]: the status in the node's metadata, or "none"
    edgeRow,        \* edgeRow[id]: the <<from, to>> of the edge
    edgeSeq,        \* s.sequence, which numbers the edges sent without an ID
    unprojected     \* history: nodes whose projection failed since the last start

graphVars == <<nodeRow, edgeRow, edgeSeq, unprojected>>

NoRows == [id \in {} |-> Nothing]

HasNode(id) == id \in DOMAIN nodeRow
HasEdge(id) == id \in DOMAIN edgeRow

\* Rows with one more, or another one in its place.
With(rows, id, row) == [x \in DOMAIN rows \cup {id} |-> IF x = id THEN row ELSE rows[x]]

\* INSERT ... ON CONFLICT (id) DO UPDATE.
WithNode(id, status) == With(nodeRow, id, status)

\* CreateGraphEdge, given the nodes there are: both ends are foreign keys, and a
\* conflict leaves the ends of the first edge.  The rows after it, if it works.
Linked(nodes, id, from, to) ==
    {rows \in {IF HasEdge(id) THEN edgeRow ELSE With(edgeRow, id, <<from, to>>)} :
        HasEdge(id) \/ {from, to} \subseteq nodes}

\* A projection: the node is upserted, or the statement fails.
Projects(id, status) ==
    \/ nodeRow' = WithNode(id, status) /\ UNCHANGED unprojected
    \/ unprojected' = unprojected \cup {id} /\ UNCHANGED nodeRow
=============================================================================
