-------------------------- MODULE WorkspaceMembers --------------------------
(***************************************************************************)
(* The workspace service: maps in memory over rows.  Create, invite and    *)
(* connect hold s.mu across their statement, so each is one step, in which *)
(* the statement succeeds or not (the request context may be done).  The   *)
(* map changes before the statement and is not changed back.               *)
(* The other requests read rows first and fill the maps later (hydrate).   *)
(***************************************************************************)
EXTENDS GraphRows

CONSTANTS
    Users,
    Names,          \* of workspaces, as their slugs
    Resources       \* what a workspace can connect, as its clone URL

Roles == {"owner", "admin", "member", "viewer"}

\* Allows for the actions the service asks about: both need a manager.
Allows(role) == role \in {"owner", "admin"}

\* Workspaces are named after s.seq, which also numbers the repositories.
Workspaces == 1 .. MaxRequests + 1

WorkspaceEntry == [slug : Names, by : Users]

ASSUME MembersAssumption == Nothing \notin Roles /\ Nothing \notin WorkspaceEntry

VARIABLES
    wsSeq,          \* s.seq
    wsMem, wsRow,           \* the workspace: its slug and who created it, or Nothing
    roleMem, roleRow,       \* the role of each user in each workspace, or Nothing
    resMem, resRow,         \* the connected resources of each workspace
    memberAcked,            \* history: <<w, u, role>> and <<w, x>> answered with success
    memberRefused           \* history: <<w, u>> whose request ended with an error

memberVars == <<wsSeq, wsMem, wsRow, roleMem, roleRow, resMem, resRow, memberAcked, memberRefused>>
memberRows == <<wsRow, roleRow, resRow>>
memberHistory == <<memberAcked, memberRefused>>

NoWorkspace == [w \in Workspaces |-> Nothing]
NoRoles == [w \in Workspaces |-> [u \in Users |-> Nothing]]
NoResources == [w \in Workspaces |-> {}]

\* A gateway starts over a database: an empty one, or one an earlier process
\* has left with a workspace and its members.
MembersInit ==
    /\ wsSeq = 0
    /\ wsMem = NoWorkspace /\ roleMem = NoRoles
    /\ resMem = NoResources /\ resRow = NoResources
    /\ memberAcked = {} /\ memberRefused = {}
    /\ \/ wsRow = NoWorkspace /\ roleRow = NoRoles
       \/ \E n \in Names, u \in Users, roles \in [Users -> Roles \cup {Nothing}] :
            /\ \A v \in Users : roles[v] = "owner" <=> v = u
            /\ wsRow = [NoWorkspace EXCEPT ![1] = [slug |-> n, by |-> u]]
            /\ roleRow = [NoRoles EXCEPT ![1] = roles]

---------------------------------------------------------------------------
\* checkMembership asks the rows only when memory does not know the user.
RoleOf(w, u) == IF roleMem[w][u] # Nothing THEN roleMem[w][u] ELSE roleRow[w][u]
CanRead(w, u) == RoleOf(w, u) # Nothing
CanWrite(w, u) == RoleOf(w, u) \notin {Nothing, "viewer"}

\* The statements: each refuses a row that is there already, and a foreign key
\* the workspace that is not.
SlugTaken(n) == \E v \in Workspaces : wsRow[v] # Nothing /\ wsRow[v].slug = n

InsertWorkspaceOnly(w, new) ==
    /\ wsRow[w] = Nothing /\ ~SlugTaken(new.slug)
    /\ wsRow' = [wsRow EXCEPT ![w] = new]
    /\ UNCHANGED roleRow

InsertWorkspace(w, new) ==
    /\ wsRow[w] = Nothing /\ ~SlugTaken(new.slug)
    /\ wsRow' = [wsRow EXCEPT ![w] = new]
    /\ roleRow' = [roleRow EXCEPT ![w][new.by] = "owner"]

InsertMember(w, u, role) ==
    /\ wsRow[w] # Nothing /\ roleRow[w][u] = Nothing
    /\ roleRow' = [roleRow EXCEPT ![w][u] = role]

InsertResource(w, x) ==
    /\ wsRow[w] # Nothing /\ x \notin resRow[w]
    /\ resRow' = [resRow EXCEPT ![w] = @ \cup {x}]

\* The slug is compared with the workspaces in memory.
CreateWorkspace(p, u, n) ==
    LET w == wsSeq + 1
        new == [slug |-> n, by |-> u]
    IN
    /\ Answers(p)
    /\ w \in Workspaces
    /\ ~ \E v \in Workspaces : wsMem[v] # Nothing /\ wsMem[v].slug = n
    /\ wsSeq' = w
    /\ wsMem' = [wsMem EXCEPT ![w] = new]
    /\ roleMem' = [roleMem EXCEPT ![w] = [v \in Users |-> IF v = u THEN "owner" ELSE Nothing]]
    /\ \/ /\ InsertWorkspace(w, new)
          /\ memberAcked' = memberAcked \cup {<<w, u, "owner">>}
          /\ UNCHANGED memberRefused
       \/ /\ memberRefused' = memberRefused \cup {<<w, u>>}
          /\ UNCHANGED <<wsRow, roleRow, memberAcked>>
    /\ UNCHANGED <<resMem, resRow>>

\* The workspaces of a user, as the rows join them.
RowsOf(u) == {w \in Workspaces : wsRow[w] # Nothing /\ roleRow[w][u] # Nothing}

\* ListWorkspaces and a GetWorkspace that misses memory read the rows, ...
ReadRows(p, u, op, wanted, next) ==
    /\ wanted # {}
    /\ Begins(p, [op |-> op, at |-> "hydrate", user |-> u, found |-> wanted, next |-> next])
    /\ UNCHANGED memberVars

ListWorkspaces(p, u) == ReadRows(p, u, "workspace", RowsOf(u), Nothing)
GetWorkspace(p, u, w) ==
    /\ wsMem[w] = Nothing
    /\ ReadRows(p, u, "workspace", {w} \cap RowsOf(u), Nothing)

\* ... and install what they found: the role is the creator's or a member's.
HydratedOwner(w, u) == "owner"
HydratedRole(w, u) == IF wsRow[w].by = u THEN "owner" ELSE "member"

Hydrate(p) ==
    /\ At(p, "workspace", "hydrate")
    /\ LET c == call[p]
           found == c.found
           top == CHOOSE s \in found \cup {wsSeq} : \A v \in found \cup {wsSeq} : v <= s
       IN /\ wsSeq' = top
          /\ wsMem' = [w \in Workspaces |-> IF w \in found THEN wsRow[w] ELSE wsMem[w]]
          /\ roleMem' = [w \in Workspaces |-> IF w \notin found THEN roleMem[w]
                ELSE [roleMem[w] EXCEPT ![c.user] = HydratedRole(w, c.user)]]
          /\ IF c.next = Nothing THEN Returns(p)
             ELSE Goes(p, [op |-> "workspace", at |-> "connect", user |-> c.user,
                           ws |-> CHOOSE w \in found : TRUE, resource |-> c.next])
    /\ UNCHANGED <<resMem, memberRows, memberHistory>>

---------------------------------------------------------------------------
\* AddMember of a workspace that memory has, and of one it reads first: the
\* workspace, if the inviter is a member of it, with all its members.
InviteAt(step, u, w, target, role, item, found) ==
    [op |-> "workspace", at |-> step, user |-> u, ws |-> w, target |-> target, role |-> role,
     item |-> item, found |-> found]
InviteNow(u, w, target, role) == InviteAt("invite", u, w, target, role, Nothing, NoRoles[w])

Invite(p, u, w, target, role) ==
    /\ role \in Roles \ {"owner"}
    /\ \/ wsMem[w] # Nothing /\ Begins(p, InviteNow(u, w, target, role))
       \/ /\ wsMem[w] = Nothing /\ w \in RowsOf(u)
          /\ Begins(p, InviteAt("load", u, w, target, role, wsRow[w], roleRow[w]))
    /\ UNCHANGED memberVars

InviteLoad(p) ==
    /\ At(p, "workspace", "load")
    /\ LET c == call[p] IN
       /\ IF wsMem[c.ws] # Nothing THEN UNCHANGED <<wsMem, roleMem>>
          ELSE /\ wsMem' = [wsMem EXCEPT ![c.ws] = c.item]
               /\ roleMem' = [roleMem EXCEPT ![c.ws] = c.found]
       /\ Goes(p, InviteNow(c.user, c.ws, c.target, c.role))
    /\ UNCHANGED <<wsSeq, resMem, memberRows, memberHistory>>

\* The member is in the map whether or not the row could be inserted.
InviteDecide(p) ==
    /\ At(p, "workspace", "invite")
    /\ Returns(p)
    /\ LET c == call[p] IN
       IF ~Allows(roleMem[c.ws][c.user]) \/ roleMem[c.ws][c.target] # Nothing
       THEN UNCHANGED <<roleMem, roleRow, memberHistory>>
       ELSE /\ roleMem' = [roleMem EXCEPT ![c.ws][c.target] = c.role]
            /\ \/ /\ InsertMember(c.ws, c.target, c.role)
                  /\ memberAcked' = memberAcked \cup {<<c.ws, c.target, c.role>>}
                  /\ UNCHANGED memberRefused
               \/ /\ memberRefused' = memberRefused \cup {<<c.ws, c.target>>}
                  /\ UNCHANGED <<roleRow, memberAcked>>
    /\ UNCHANGED <<wsSeq, wsMem, wsRow, resMem, resRow>>

---------------------------------------------------------------------------
\* ConnectResource goes through GetWorkspace first.
Connect(p, u, w, x) ==
    \/ /\ wsMem[w] # Nothing /\ roleMem[w][u] # Nothing
       /\ Begins(p, [op |-> "workspace", at |-> "connect", user |-> u, ws |-> w, resource |-> x])
       /\ UNCHANGED memberVars
    \/ wsMem[w] = Nothing /\ ReadRows(p, u, "workspace", {w} \cap RowsOf(u), x)

\* It then lists the rows into memory, if it can read them (rows are only ever
\* added, and those of this process are in memory already, so it does not matter
\* when), and decides, inserts and projects under s.mu.
ConnectDecide(p) ==
    /\ At(p, "workspace", "connect")
    /\ Returns(p)
    /\ UNCHANGED <<edgeRow, edgeSeq>>
    /\ \E read \in BOOLEAN :
       LET c == call[p]
           listed == resMem[c.ws] \cup
               (IF read /\ roleRow[c.ws][c.user] # Nothing THEN resRow[c.ws] ELSE {})
       IN IF ~Allows(roleMem[c.ws][c.user]) \/ c.resource \in listed
          THEN /\ resMem' = [resMem EXCEPT ![c.ws] = listed]
               /\ UNCHANGED <<wsSeq, resRow, memberAcked, nodeRow, unprojected>>
          ELSE /\ resMem' = [resMem EXCEPT ![c.ws] = listed \cup {c.resource}]
               /\ wsSeq' = wsSeq + 1
               /\ \/ /\ InsertResource(c.ws, c.resource)
                     /\ memberAcked' = memberAcked \cup {<<c.ws, c.resource>>}
                     /\ Projects(<<"resource", c.ws, c.resource>>, "none")
                  \/ UNCHANGED <<resRow, memberAcked, nodeRow, unprojected>>
    /\ UNCHANGED <<wsMem, roleMem, wsRow, roleRow, memberRefused>>

MembersRestart ==
    /\ wsSeq' = 0
    /\ wsMem' = NoWorkspace /\ roleMem' = NoRoles /\ resMem' = NoResources
    /\ UNCHANGED <<memberRows, memberHistory>>

MembersNext ==
    \E p \in Callers :
        \/ ConnectDecide(p)
        \/ /\ UNCHANGED graphVars
           /\ \/ Hydrate(p) \/ InviteLoad(p) \/ InviteDecide(p)
              \/ \E u \in Users :
                    \/ ListWorkspaces(p, u)
                    \/ \E n \in Names : CreateWorkspace(p, u, n)
                    \/ \E w \in Workspaces :
                        \/ GetWorkspace(p, u, w)
                        \/ \E target \in Users, role \in Roles : Invite(p, u, w, target, role)
                        \/ \E x \in Resources : Connect(p, u, w, x)

---------------------------------------------------------------------------
\* The lists show the rows, or memory when there is none.
ListMembers(w) == IF roleRow[w] # NoRoles[w] THEN roleRow[w] ELSE roleMem[w]
ListResources(w) == IF resRow[w] # {} THEN resRow[w] ELSE resMem[w]

\* What was answered with success is listed, as it was answered, and the member
\* reads, also after a restart.
AckedIsDurable ==
    \A a \in memberAcked :
        IF Len(a) = 3 THEN ListMembers(a[1])[a[2]] = a[3] /\ CanRead(a[1], a[2])
        ELSE a[2] \in ListResources(a[1])

\* Whoever manages a workspace in memory does so in the rows, unless an error
\* answered the request that made them manager.
ManagersRecorded ==
    \A w \in Workspaces, u \in Users :
        Allows(roleMem[w][u]) => Allows(roleRow[w][u]) \/ <<w, u>> \in memberRefused

\* A member who was told to have the right to write has it whatever is asked
\* and whenever the gateway restarts, as long as no request about the workspace
\* ended with an error.
WritersKeepWriting ==
    \A a \in memberAcked :
        Len(a) = 3 /\ a[3] # "viewer" =>
            CanWrite(a[1], a[2]) \/ \E u \in Users : <<a[1], u>> \in memberRefused

\* Memory, which decides what a user may do, neither gives nor takes rights that
\* the rows and the answers have not.
RightsKept == ManagersRecorded /\ WritersKeepWriting
=============================================================================
