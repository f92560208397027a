------------------------- MODULE GatewayServicesProofs -------------------------
(***************************************************************************)
(* What the services of a gateway keep, for any number of users, requests  *)
(* and restarts, whatever writes fail, and whichever service the clients   *)
(* of a behaviour ask.                                                     *)
(*                                                                         *)
(* Each service has an inductive invariant of its own (MembersInv,         *)
(* ChannelsInv, PostsInv, SecretsInv, TasksInv, EdgesInv), which says      *)
(* what a request that is under way has found or decided on and is still   *)
(* so, and what the rows hold meanwhile; and a form for behaviours whose   *)
(* clients do not ask it (MembersStill, ...).  The graph is related to the *)
(* rows of all of them (GraphHonest, ResourcesCovered, ThreadsCovered).    *)
(* ServicesInv puts them together.                                         *)
(***************************************************************************)
EXTENDS GatewayServices, TLAPS, WellFoundedInduction, NaturalsInduction

-----------------------------------------------------------------------------
(* Workspaces and members.                                                 *)

\* One request goes on, the others stay where they are.
LEMMA CallMoves ==
    ASSUME DOMAIN call = Callers, NEW p \in Callers, NEW r, call' = [call EXCEPT ![p] = r]
    PROVE  DOMAIN call' = Callers /\ call'[p] = r /\ \A q \in Callers : q # p => call'[q] = call[q]
OBVIOUS

\* The roles of one workspace.
EntryRoles == [Users -> Roles \cup {Nothing}]

\* The workspaces, roles and resources in memory and in the rows, and what clients were told.
MemberTypes ==
    /\ wsMem \in [Workspaces -> WorkspaceEntry \cup {Nothing}]
    /\ wsRow \in [Workspaces -> WorkspaceEntry \cup {Nothing}]
    /\ roleMem \in [Workspaces -> EntryRoles]
    /\ roleRow \in [Workspaces -> EntryRoles]
    /\ resMem \in [Workspaces -> SUBSET Resources]
    /\ resRow \in [Workspaces -> SUBSET Resources]
    /\ memberAcked \subseteq (Workspaces \X Users \X Roles) \cup (Workspaces \X Resources)

\* A row of a workspace comes with the owner's row, and nobody has a role without it.
MemberRows ==
    \A w \in Workspaces :
        IF wsRow[w] = Nothing THEN \A u \in Users : roleRow[w][u] = Nothing
        ELSE roleRow[w][wsRow[w].by] = "owner"

\* What a client was told of is in the rows.
MemberAcks ==
    /\ \A w \in Workspaces, u \in Users, r \in Roles : <<w, u, r>> \in memberAcked => roleRow[w][u] = r
    /\ \A w \in Workspaces, x \in Resources : <<w, x>> \in memberAcked => x \in resRow[w]

\* A viewer in memory is one in the rows, unless an invitation in that workspace had failed.
ViewersRecorded ==
    \A w \in Workspaces, u \in Users :
        roleMem[w][u] = "viewer" =>
            roleRow[w][u] = "viewer" \/ \E v \in Users : <<w, v>> \in memberRefused

\* A request of the members: what it has found in the rows, or decided on, is still so.
MemberCall(c) ==
    /\ c.op = "workspace"
    /\ c.at \in {"hydrate", "load", "invite", "connect"}
    /\ c.user \in Users
    /\ c.at = "hydrate" =>
        /\ c.found \in SUBSET Workspaces /\ c.found # {}
        /\ \A w \in c.found : wsRow[w] # Nothing /\ roleRow[w][c.user] # Nothing
        /\ c.next \in Resources \cup {Nothing}
    /\ c.at # "hydrate" => c.ws \in Workspaces
    /\ c.at \in {"load", "invite"} => c.target \in Users /\ c.role \in Roles \ {"owner"}
    /\ c.at = "load" =>
        /\ c.item \in WorkspaceEntry /\ c.found \in EntryRoles
        /\ \A v \in Users : c.found[v] \in {Nothing, roleRow[c.ws][v]}
    /\ c.at = "connect" => c.resource \in Resources

\* So every request.
MemberCalls == \A p \in Callers : call[p] # Nothing => MemberCall(call[p])

\* What the services of workspaces and members keep.
MembersInv ==
    /\ DOMAIN call = Callers
    /\ MemberTypes /\ MemberRows /\ MemberAcks
    /\ ManagersRecorded /\ ViewersRecorded /\ MemberCalls

\* Rows are only ever added.
MemberRowsGrow ==
    /\ \A w \in Workspaces : wsRow[w] # Nothing => wsRow'[w] = wsRow[w]
    /\ \A w \in Workspaces, u \in Users : roleRow[w][u] # Nothing => roleRow'[w][u] = roleRow[w][u]
    /\ \A w \in Workspaces : resRow[w] \subseteq resRow'[w]

\* What a request has found stays true when rows are added.
LEMMA MemberCallStays ==
    ASSUME NEW CONSTANT c, MemberCall(c), MemberRowsGrow
    PROVE  MemberCall(c)'
<1>1. c.at = "hydrate" => \A w \in c.found : wsRow'[w] # Nothing /\ roleRow'[w][c.user] # Nothing
    BY DEF MemberCall, MemberRowsGrow
<1>2. c.at = "load" => \A v \in Users : c.found[v] \in {Nothing, roleRow'[c.ws][v]}
    BY DEF MemberCall, MemberRowsGrow
<1> QED BY <1>1, <1>2 DEF MemberCall

\* A request goes on with what is true of it; the others are as true as before.
LEMMA MemberCallsMove ==
    ASSUME MemberCalls, MemberRowsGrow, DOMAIN call = Callers,
           NEW p \in Callers, NEW CONSTANT r, call' = [call EXCEPT ![p] = r],
           r = Nothing \/ MemberCall(r)'
    PROVE  MemberCalls' /\ DOMAIN call' = Callers
<1>1. DOMAIN call' = Callers /\ call'[p] = r /\ \A q \in Callers : q # p => call'[q] = call[q]
    BY CallMoves
<1>2. SUFFICES ASSUME NEW q \in Callers, call'[q] # Nothing PROVE MemberCall(call[q])'
    BY <1>1 DEF MemberCalls
<1>3. CASE q = p
    BY <1>1, <1>2, <1>3 DEF MemberCall
<1>4. CASE q # p
    <2> PICK c : c = call[q] OBVIOUS
    <2>1. MemberCall(c) BY <1>1, <1>2, <1>4 DEF MemberCalls
    <2>2. MemberCall(c)' BY <2>1, MemberCallStays
    <2>3. call'[q] = c BY <1>1, <1>4
    <2> QED BY <2>2, <2>3
<1> QED BY <1>3, <1>4

\* The invariant says what the runs check of the members.
LEMMA MembersSafe ==
    ASSUME MembersInv PROVE AckedIsDurable /\ RightsKept
<1> USE MembersAssumption DEF MembersInv
<1>1. AckedIsDurable
    <2> SUFFICES ASSUME NEW a \in memberAcked
                 PROVE  IF Len(a) = 3 THEN ListMembers(a[1])[a[2]] = a[3] /\ CanRead(a[1], a[2])
                        ELSE a[2] \in ListResources(a[1])
        BY DEF AckedIsDurable
    <2>1. CASE a \in Workspaces \X Users \X Roles
        <3>1. PICK w \in Workspaces, u \in Users, r \in Roles : a = <<w, u, r>> BY <2>1
        <3>2. Len(a) = 3 /\ a[1] = w /\ a[2] = u /\ a[3] = r BY <3>1
        <3>3. roleRow[w][u] = r BY <3>1 DEF MemberAcks
        <3>4. r # Nothing OBVIOUS
        <3>5. NoRoles[w][u] = Nothing BY DEF NoRoles
        <3>6. ListMembers(w)[u] = r BY <3>3, <3>4, <3>5 DEF ListMembers
        <3>7. CanRead(w, u) BY <3>3, <3>4 DEF CanRead, RoleOf
        <3> QED BY <3>2, <3>6, <3>7
    <2>2. CASE a \in Workspaces \X Resources
        <3>1. PICK w \in Workspaces, x \in Resources : a = <<w, x>> BY <2>2
        <3>2. Len(a) = 2 /\ a[1] = w /\ a[2] = x BY <3>1
        <3>3. x \in resRow[w] BY <3>1 DEF MemberAcks
        <3> QED BY <3>2, <3>3 DEF ListResources
    <2> QED BY <2>1, <2>2 DEF MemberTypes
<1>2. WritersKeepWriting
    <2> SUFFICES ASSUME NEW a \in memberAcked, Len(a) = 3, a[3] # "viewer"
                 PROVE  CanWrite(a[1], a[2]) \/ \E u \in Users : <<a[1], u>> \in memberRefused
        BY DEF WritersKeepWriting
    <2>1. a \notin Workspaces \X Resources
        <3>1. \A w \in Workspaces, x \in Resources : Len(<<w, x>>) = 2 OBVIOUS
        <3> QED BY <3>1
    <2>2. PICK w \in Workspaces, u \in Users, r \in Roles : a = <<w, u, r>> BY <2>1 DEF MemberTypes
    <2>3. a[1] = w /\ a[2] = u /\ a[3] = r BY <2>2
    <2>4. roleRow[w][u] = r /\ r # Nothing BY <2>2 DEF MemberAcks
    <2>5. roleMem[w][u] = "viewer" => \E v \in Users : <<w, v>> \in memberRefused
        BY <2>3, <2>4 DEF ViewersRecorded
    <2>6. roleMem[w][u] # "viewer" => CanWrite(w, u) BY <2>3, <2>4 DEF CanWrite, RoleOf
    <2> QED BY <2>3, <2>5, <2>6
<1> QED BY <1>1, <1>2 DEF RightsKept

\* However a request begins, goes on or ends, only its own place changes.
LEMMA GatewayMoves ==
    ASSUME NEW p, NEW r
    PROVE  /\ Begins(p, r) => call' = [call EXCEPT ![p] = r]
           /\ Goes(p, r) => call' = [call EXCEPT ![p] = r]
           /\ Returns(p) => call' = [call EXCEPT ![p] = Nothing]
           /\ Answers(p) => call' = call
BY DEF Begins, Goes, Returns, Answers

\* The roles of one workspace change.
LEMMA RolesRecorded ==
    ASSUME ManagersRecorded, ViewersRecorded, memberRefused \subseteq memberRefused',
           NEW w \in Workspaces, \A x \in Workspaces \ {w} : roleMem'[x] = roleMem[x],
           \A x \in Workspaces, v \in Users : roleRow[x][v] # Nothing => roleRow'[x][v] = roleRow[x][v],
           \A v \in Users :
              /\ Allows(roleMem'[w][v]) => Allows(roleRow'[w][v]) \/ <<w, v>> \in memberRefused'
              /\ roleMem'[w][v] = "viewer" =>
                    roleRow'[w][v] = "viewer" \/ \E x \in Users : <<w, x>> \in memberRefused'
    PROVE  ManagersRecorded' /\ ViewersRecorded'
<1> USE MembersAssumption DEF Allows, Roles
<1>1. ASSUME NEW x \in Workspaces \ {w}, NEW v \in Users
      PROVE  /\ Allows(roleMem'[x][v]) => Allows(roleRow'[x][v]) \/ <<x, v>> \in memberRefused'
             /\ roleMem'[x][v] = "viewer" =>
                   roleRow'[x][v] = "viewer" \/ \E y \in Users : <<x, y>> \in memberRefused'
  <2>1. roleMem'[x][v] = roleMem[x][v] OBVIOUS
  <2>2. roleRow[x][v] # Nothing => roleRow'[x][v] = roleRow[x][v] OBVIOUS
  <2>3. Allows(roleMem[x][v]) => Allows(roleRow[x][v]) \/ <<x, v>> \in memberRefused
    BY DEF ManagersRecorded
  <2>4. roleMem[x][v] = "viewer" => roleRow[x][v] = "viewer" \/ \E y \in Users : <<x, y>> \in memberRefused
    BY DEF ViewersRecorded
  <2> QED BY <2>1, <2>2, <2>3, <2>4
<1>2. ManagersRecorded'
  BY <1>1 DEF ManagersRecorded
<1>3. ViewersRecorded'
  BY <1>1 DEF ViewersRecorded
<1> QED BY <1>2, <1>3

\* Create
LEMMA CreateWorkspaceKeeps ==
    ASSUME MembersInv, NEW p \in Callers, NEW u \in Users, NEW n \in Names, CreateWorkspace(p, u, n)
    PROVE  MembersInv'
<1> DEFINE w == wsSeq + 1
           new == [slug |-> n, by |-> u]
           roles == [v \in Users |-> IF v = u THEN "owner" ELSE Nothing]
<1> USE MembersAssumption
<1>1. /\ w \in Workspaces /\ call' = call
      /\ wsMem' = [wsMem EXCEPT ![w] = new] /\ roleMem' = [roleMem EXCEPT ![w] = roles]
      /\ UNCHANGED <<resMem, resRow>>
    BY DEF CreateWorkspace, Answers
<1>2. new \in WorkspaceEntry /\ new.by = u /\ new # Nothing
    BY DEF WorkspaceEntry
<1>3. roles \in EntryRoles
    BY DEF EntryRoles, Roles
<1>4. \/ /\ wsRow[w] = Nothing
         /\ wsRow' = [wsRow EXCEPT ![w] = new] /\ roleRow' = [roleRow EXCEPT ![w][u] = "owner"]
         /\ memberAcked' = memberAcked \cup {<<w, u, "owner">>} /\ memberRefused' = memberRefused
      \/ /\ memberRefused' = memberRefused \cup {<<w, u>>}
         /\ UNCHANGED <<wsRow, roleRow, memberAcked>>
    BY <1>2 DEF CreateWorkspace, InsertWorkspace
<1> HIDE DEF w, new, roles
<1>5. MemberTypes /\ MemberRows /\ MemberAcks /\ ManagersRecorded /\ ViewersRecorded
      /\ MemberCalls /\ DOMAIN call = Callers
    BY DEF MembersInv
<1>6. /\ wsMem' \in [Workspaces -> WorkspaceEntry \cup {Nothing}]
      /\ roleMem' \in [Workspaces -> EntryRoles]
      /\ \A v \in Users : roleMem'[w][v] = IF v = u THEN "owner" ELSE Nothing
      /\ \A x \in Workspaces \ {w} : roleMem'[x] = roleMem[x]
    <2>1. \A v \in Users : roles[v] = IF v = u THEN "owner" ELSE Nothing BY DEF roles
    <2> QED BY <1>1, <1>2, <1>3, <1>5, <2>1 DEF MemberTypes
<1>7. CASE /\ wsRow[w] = Nothing
           /\ wsRow' = [wsRow EXCEPT ![w] = new] /\ roleRow' = [roleRow EXCEPT ![w][u] = "owner"]
           /\ memberAcked' = memberAcked \cup {<<w, u, "owner">>} /\ memberRefused' = memberRefused
    <2>1. /\ wsRow' \in [Workspaces -> WorkspaceEntry \cup {Nothing}]
          /\ wsRow'[w] = new /\ \A x \in Workspaces \ {w} : wsRow'[x] = wsRow[x]
        BY <1>1, <1>2, <1>5, <1>7 DEF MemberTypes
    <2>2. /\ roleRow' \in [Workspaces -> EntryRoles]
          /\ roleRow'[w][u] = "owner" /\ \A v \in Users \ {u} : roleRow'[w][v] = roleRow[w][v]
          /\ \A x \in Workspaces \ {w} : roleRow'[x] = roleRow[x]
        BY <1>1, <1>5, <1>7 DEF MemberTypes, EntryRoles, Roles
    <2>3. MemberTypes'
        BY <1>1, <1>5, <1>6, <1>7, <2>1, <2>2 DEF MemberTypes, Roles
    <2>4. MemberRows'
        BY <1>2, <1>5, <2>1, <2>2 DEF MemberRows
    <2>5. \A v \in Users : roleRow[w][v] = Nothing
        BY <1>1, <1>5, <1>7 DEF MemberRows
    <2>6. MemberAcks'
        <3>1. ASSUME NEW x \in Workspaces, NEW v \in Users, NEW r \in Roles, <<x, v, r>> \in memberAcked'
              PROVE roleRow'[x][v] = r
            <4>1. CASE <<x, v, r>> = <<w, u, "owner">>
                BY <2>2, <4>1
            <4>2. CASE <<x, v, r>> \in memberAcked
                <5>1. roleRow[x][v] = r /\ r # Nothing BY <1>5, <4>2 DEF MemberAcks
                <5> QED BY <2>2, <2>5, <5>1
            <4> QED BY <1>7, <3>1, <4>1, <4>2
        <3>2. ASSUME NEW x \in Workspaces, NEW y \in Resources, <<x, y>> \in memberAcked'
              PROVE y \in resRow'[x]
            <4>1. <<x, y>> # <<w, u, "owner">> OBVIOUS
            <4> QED BY <1>1, <1>5, <1>7, <3>2, <4>1 DEF MemberAcks
        <3> QED BY <3>1, <3>2 DEF MemberAcks
    <2>7. ManagersRecorded' /\ ViewersRecorded'
        <3>1. \A v \in Users : Allows(roleMem'[w][v]) => v = u
            BY <1>6 DEF Allows, Roles
        <3>2. \A v \in Users : roleMem'[w][v] # "viewer"
            BY <1>6 DEF Roles
        <3>3. \A x \in Workspaces, v \in Users : roleRow[x][v] # Nothing => roleRow'[x][v] = roleRow[x][v]
            BY <2>2, <2>5
        <3>4. Allows(roleRow'[w][u]) BY <2>2 DEF Allows
        <3> QED BY <1>1, <1>5, <1>6, <1>7, <3>1, <3>2, <3>3, <3>4, RolesRecorded
    <2>8. MemberRowsGrow
        BY <1>1, <1>7, <2>1, <2>2, <2>5 DEF MemberRowsGrow
    <2>9. MemberCalls'
        <3> SUFFICES ASSUME NEW q \in Callers, call[q] # Nothing PROVE MemberCall(call[q])'
            BY <1>1 DEF MemberCalls
        <3> PICK c : c = call[q] OBVIOUS
        <3>1. MemberCall(c)' BY <1>5, <2>8, MemberCallStays DEF MemberCalls
        <3> QED BY <1>1, <3>1
    <2> QED BY <1>1, <1>5, <2>3, <2>4, <2>6, <2>7, <2>9 DEF MembersInv
<1>8. CASE /\ memberRefused' = memberRefused \cup {<<w, u>>}
           /\ UNCHANGED <<wsRow, roleRow, memberAcked>>
    <2>1. MemberTypes'
        BY <1>1, <1>5, <1>6, <1>8 DEF MemberTypes
    <2>2. MemberRows' /\ MemberAcks' /\ MemberCalls'
        BY <1>1, <1>5, <1>8 DEF MemberRows, MemberAcks, MemberCalls, MemberCall
    <2>3. ManagersRecorded' /\ ViewersRecorded'
        <3>1. \A v \in Users : Allows(roleMem'[w][v]) => v = u
            BY <1>6 DEF Allows, Roles
        <3>2. \A v \in Users : roleMem'[w][v] # "viewer"
            BY <1>6 DEF Roles
        <3>3. <<w, u>> \in memberRefused' BY <1>8
        <3> QED BY <1>1, <1>5, <1>6, <1>8, <3>1, <3>2, <3>3, RolesRecorded
    <2> QED BY <1>1, <1>5, <2>1, <2>2, <2>3 DEF MembersInv
<1> QED BY <1>4, <1>7, <1>8

\* A request begins or goes on, and changes nothing else of the members.
LEMMA MemberRequestKeeps ==
    ASSUME MembersInv, NEW p \in Callers, NEW CONSTANT r,
           call' = [call EXCEPT ![p] = r], r = Nothing \/ MemberCall(r), UNCHANGED memberVars
    PROVE  MembersInv'
<1> USE DEF memberVars
<1>1. MemberRowsGrow BY DEF MemberRowsGrow
<1>2. r = Nothing \/ MemberCall(r)' BY <1>1, MemberCallStays
<1>3. MemberCalls' /\ DOMAIN call' = Callers
    BY <1>1, <1>2, MemberCallsMove DEF MembersInv
<1> QED
    BY <1>3 DEF MembersInv, MemberTypes, MemberRows, MemberAcks, ManagersRecorded, ViewersRecorded

\* A read of the rows begins.
LEMMA ReadRowsKeeps ==
    ASSUME MembersInv, NEW p \in Callers, NEW u \in Users,
           NEW wanted \in SUBSET RowsOf(u), NEW next \in Resources \cup {Nothing},
           ReadRows(p, u, "workspace", wanted, next)
    PROVE  MembersInv'
<1> DEFINE r == [op |-> "workspace", at |-> "hydrate", user |-> u, found |-> wanted, next |-> next]
<1>1. MemberCall(r)
    BY DEF MemberCall, ReadRows, RowsOf
<1>2. call' = [call EXCEPT ![p] = r] /\ UNCHANGED memberVars
    BY DEF ReadRows, Begins
<1> HIDE DEF r
<1> QED BY <1>1, <1>2, MemberRequestKeeps

\* ListWorkspaces and GetWorkspace begin.
LEMMA MemberReadsKeep ==
    ASSUME MembersInv, NEW p \in Callers, NEW u \in Users, NEW w \in Workspaces,
           ListWorkspaces(p, u) \/ GetWorkspace(p, u, w)
    PROVE  MembersInv'
<1>1. CASE ListWorkspaces(p, u)
    BY <1>1, ReadRowsKeeps DEF ListWorkspaces
<1>2. {w} \cap RowsOf(u) \in SUBSET RowsOf(u) OBVIOUS
<1>3. CASE GetWorkspace(p, u, w)
    BY <1>2, <1>3, ReadRowsKeeps DEF GetWorkspace
<1> QED BY <1>1, <1>3

\* Connecting a resource begins.
LEMMA ConnectKeeps ==
    ASSUME MembersInv, NEW p \in Callers, NEW u \in Users, NEW w \in Workspaces, NEW x \in Resources,
           Connect(p, u, w, x)
    PROVE  MembersInv'
<1>1. {w} \cap RowsOf(u) \in SUBSET RowsOf(u) OBVIOUS
<1>2. CASE ReadRows(p, u, "workspace", {w} \cap RowsOf(u), x)
    BY <1>1, <1>2, ReadRowsKeeps
<1>3. CASE /\ Begins(p, [op |-> "workspace", at |-> "connect", user |-> u, ws |-> w, resource |-> x])
           /\ UNCHANGED memberVars
    <2> DEFINE r == [op |-> "workspace", at |-> "connect", user |-> u, ws |-> w, resource |-> x]
    <2>1. MemberCall(r) BY DEF MemberCall
    <2>2. call' = [call EXCEPT ![p] = r] BY <1>3 DEF Begins
    <2> HIDE DEF r
    <2> QED BY <1>3, <2>1, <2>2, MemberRequestKeeps
<1> QED BY <1>2, <1>3 DEF Connect

\* An invitation that needs no rows is a request of the members.
LEMMA InviteNowCall ==
    ASSUME NEW u \in Users, NEW w \in Workspaces, NEW target \in Users, NEW role \in Roles \ {"owner"}
    PROVE  MemberCall(InviteNow(u, w, target, role))
BY DEF MemberCall, InviteNow, InviteAt

\* An invitation begins.
LEMMA InviteKeeps ==
    ASSUME MembersInv, NEW p \in Callers, NEW u \in Users, NEW w \in Workspaces, NEW target \in Users,
           NEW role \in Roles, Invite(p, u, w, target, role)
    PROVE  MembersInv'
<1>0. role \in Roles \ {"owner"} /\ UNCHANGED memberVars BY DEF Invite
<1>1. CASE Begins(p, InviteNow(u, w, target, role))
    <2>1. call' = [call EXCEPT ![p] = InviteNow(u, w, target, role)] BY <1>1 DEF Begins
    <2> QED BY <1>0, <2>1, InviteNowCall, MemberRequestKeeps
<1>2. CASE w \in RowsOf(u) /\ Begins(p, InviteAt("load", u, w, target, role, wsRow[w], roleRow[w]))
    <2> PICK r : r = InviteAt("load", u, w, target, role, wsRow[w], roleRow[w]) OBVIOUS
    <2>1. call' = [call EXCEPT ![p] = r] BY <1>2 DEF Begins
    <2>2. wsRow[w] \in WorkspaceEntry /\ roleRow[w] \in EntryRoles
        BY <1>2 DEF RowsOf, MembersInv, MemberTypes
    <2>3. MemberCall(r)
        BY <1>0, <2>2 DEF MemberCall, InviteAt
    <2> QED BY <1>0, <2>1, <2>3, MemberRequestKeeps
<1> QED BY <1>1, <1>2 DEF Invite

\* What a read has found goes into memory: the workspaces, their owner or the reader as member.
LEMMA HydrateKeeps ==
    ASSUME MembersInv, NEW p \in Callers, Hydrate(p)
    PROVE  MembersInv'
<1> USE MembersAssumption
<1> PICK c : c = call[p] OBVIOUS
<1>0. /\ DOMAIN call = Callers /\ MemberTypes /\ MemberRows /\ MemberAcks
      /\ ManagersRecorded /\ ViewersRecorded /\ MemberCalls
    BY DEF MembersInv
<1>1. MemberCall(c) /\ c.at = "hydrate"
    BY <1>0 DEF Hydrate, At, MemberCalls
<1>2. /\ c.user \in Users /\ c.found \in SUBSET Workspaces /\ c.found # {}
      /\ \A w \in c.found : wsRow[w] # Nothing /\ roleRow[w][c.user] # Nothing
      /\ c.next \in Resources \cup {Nothing}
    BY <1>1 DEF MemberCall
<1>3. /\ wsMem' = [w \in Workspaces |-> IF w \in c.found THEN wsRow[w] ELSE wsMem[w]]
      /\ roleMem' = [w \in Workspaces |-> IF w \notin c.found THEN roleMem[w]
            ELSE [roleMem[w] EXCEPT ![c.user] = HydratedRole(w, c.user)]]
      /\ UNCHANGED <<resMem, wsRow, roleRow, resRow, memberAcked, memberRefused>>
    BY DEF Hydrate, memberRows, memberHistory
<1>4. \A w \in Workspaces : HydratedRole(w, c.user) \in {"owner", "member"}
    BY DEF HydratedRole
<1>5. wsMem' \in [Workspaces -> WorkspaceEntry \cup {Nothing}]
    BY <1>0, <1>3 DEF MemberTypes
<1>6. roleMem' \in [Workspaces -> EntryRoles]
    <2>1. \A w \in Workspaces : [roleMem[w] EXCEPT ![c.user] = HydratedRole(w, c.user)] \in EntryRoles
        BY <1>0, <1>4 DEF MemberTypes, EntryRoles, Roles
    <2> QED BY <1>0, <1>3, <2>1 DEF MemberTypes
<1>7. MemberTypes'
    BY <1>0, <1>3, <1>5, <1>6 DEF MemberTypes
<1>8. MemberRows' /\ MemberAcks'
    BY <1>0, <1>3 DEF MemberRows, MemberAcks
<1>9. \A w \in Workspaces, u \in Users :
        roleMem'[w][u] = IF w \in c.found /\ u = c.user THEN HydratedRole(w, u) ELSE roleMem[w][u]
    BY <1>0, <1>2, <1>3 DEF MemberTypes, EntryRoles
<1>10. \A w \in c.found : HydratedRole(w, c.user) = "owner" => roleRow[w][c.user] = "owner"
    BY <1>0, <1>2 DEF MemberRows, HydratedRole
<1>11. ManagersRecorded'
    <2> SUFFICES ASSUME NEW w \in Workspaces, NEW u \in Users, Allows(roleMem'[w][u])
                 PROVE  Allows(roleRow[w][u]) \/ <<w, u>> \in memberRefused
        BY <1>3 DEF ManagersRecorded, Allows
    <2>1. CASE w \in c.found /\ u = c.user
        BY <1>4, <1>9, <1>10, <2>1 DEF Allows
    <2>2. CASE ~(w \in c.found /\ u = c.user)
        <3>1. roleMem'[w][u] = roleMem[w][u] BY <1>9, <2>2
        <3>2. Allows(roleMem[w][u]) => Allows(roleRow[w][u]) \/ <<w, u>> \in memberRefused
            BY <1>0 DEF ManagersRecorded
        <3> QED BY <3>1, <3>2
    <2> QED BY <2>1, <2>2
<1>12. ViewersRecorded'
    <2> SUFFICES ASSUME NEW w \in Workspaces, NEW u \in Users, roleMem'[w][u] = "viewer"
                 PROVE  roleRow[w][u] = "viewer" \/ \E v \in Users : <<w, v>> \in memberRefused
        BY <1>3 DEF ViewersRecorded
    <2>1. ~(w \in c.found /\ u = c.user) BY <1>4, <1>9
    <2>2. roleMem'[w][u] = roleMem[w][u] BY <1>9, <2>1
    <2> QED BY <1>0, <2>2 DEF ViewersRecorded
<1>13. MemberRowsGrow BY <1>3 DEF MemberRowsGrow
<1>14. MemberCalls' /\ DOMAIN call' = Callers
    <2>1. CASE c.next = Nothing
        <3>1. call' = [call EXCEPT ![p] = Nothing] BY <2>1 DEF Hydrate, Returns, Goes
        <3> QED BY <1>0, <1>13, <3>1, MemberCallsMove
    <2>2. CASE c.next # Nothing
        <3> DEFINE next == [op |-> "workspace", at |-> "connect", user |-> c.user,
                            ws |-> CHOOSE w \in c.found : TRUE, resource |-> c.next]
        <3>1. call' = [call EXCEPT ![p] = next] BY <2>2 DEF Hydrate, Goes
        <3>2. (CHOOSE w \in c.found : TRUE) \in Workspaces BY <1>2
        <3>3. MemberCall(next) BY <1>2, <2>2, <3>2 DEF MemberCall
        <3> PICK r : r = next OBVIOUS
        <3>4. MemberCall(r)' BY <1>13, <3>3, MemberCallStays
        <3>5. call' = [call EXCEPT ![p] = r] BY <3>1
        <3> HIDE DEF next
        <3> QED BY <1>0, <1>13, <3>4, <3>5, MemberCallsMove
    <2> QED BY <2>1, <2>2
<1> QED BY <1>7, <1>8, <1>11, <1>12, <1>14 DEF MembersInv

\* An invitation goes on with the roles it has loaded.
LEMMA InviteLoadKeeps ==
    ASSUME MembersInv, NEW p \in Callers, InviteLoad(p)
    PROVE  MembersInv'
<1> USE MembersAssumption
<1> PICK c : c = call[p] OBVIOUS
<1>0. /\ DOMAIN call = Callers /\ MemberTypes /\ MemberRows /\ MemberAcks
      /\ ManagersRecorded /\ ViewersRecorded /\ MemberCalls
    BY DEF MembersInv
<1>1. MemberCall(c) /\ c.at = "load"
    BY <1>0 DEF InviteLoad, At, MemberCalls
<1>2. /\ c.user \in Users /\ c.ws \in Workspaces /\ c.target \in Users /\ c.role \in Roles \ {"owner"}
      /\ c.item \in WorkspaceEntry /\ c.found \in EntryRoles
      /\ \A v \in Users : c.found[v] \in {Nothing, roleRow[c.ws][v]}
    BY <1>1 DEF MemberCall
<1>3. /\ UNCHANGED <<resMem, wsRow, roleRow, resRow, memberAcked, memberRefused>>
      /\ \/ wsMem' = wsMem /\ roleMem' = roleMem
         \/ /\ wsMem' = [wsMem EXCEPT ![c.ws] = c.item]
            /\ roleMem' = [roleMem EXCEPT ![c.ws] = c.found]
    BY DEF InviteLoad, memberRows, memberHistory
<1>4. MemberTypes'
    BY <1>0, <1>2, <1>3 DEF MemberTypes
<1>5. MemberRows' /\ MemberAcks'
    BY <1>0, <1>3 DEF MemberRows, MemberAcks
<1>6. ManagersRecorded' /\ ViewersRecorded'
    <2>1. CASE roleMem' = roleMem
        BY <1>0, <1>3, <2>1 DEF ManagersRecorded, ViewersRecorded
    <2>2. CASE roleMem' = [roleMem EXCEPT ![c.ws] = c.found]
        <3>1. roleMem'[c.ws] = c.found /\ \A x \in Workspaces \ {c.ws} : roleMem'[x] = roleMem[x]
            BY <1>0, <1>2, <2>2 DEF MemberTypes
        <3>2. \A v \in Users : /\ Allows(roleMem'[c.ws][v]) => Allows(roleRow'[c.ws][v])
                               /\ roleMem'[c.ws][v] = "viewer" => roleRow'[c.ws][v] = "viewer"
            BY <1>2, <1>3, <3>1 DEF Allows, Roles
        <3> QED BY <1>0, <1>2, <1>3, <3>1, <3>2, RolesRecorded
    <2> QED BY <1>3, <2>1, <2>2
<1>7. MemberCalls' /\ DOMAIN call' = Callers
    <2> PICK r : r = InviteNow(c.user, c.ws, c.target, c.role) OBVIOUS
    <2>1. call' = [call EXCEPT ![p] = r] BY DEF InviteLoad, Goes
    <2>2. MemberRowsGrow BY <1>3 DEF MemberRowsGrow
    <2>3. MemberCall(r) BY <1>2, InviteNowCall
    <2>4. MemberCall(r)' BY <2>2, <2>3, MemberCallStays
    <2> QED BY <1>0, <2>1, <2>2, <2>4, MemberCallsMove
<1> QED BY <1>4, <1>5, <1>6, <1>7 DEF MembersInv

\* An invitation writes the role, or fails to.
LEMMA InviteDecideKeeps ==
    ASSUME MembersInv, NEW p \in Callers, InviteDecide(p)
    PROVE  MembersInv'
<1> USE MembersAssumption
<1> PICK c : c = call[p] OBVIOUS
<1>0. /\ DOMAIN call = Callers /\ MemberTypes /\ MemberRows /\ MemberAcks
      /\ ManagersRecorded /\ ViewersRecorded /\ MemberCalls
    BY DEF MembersInv
<1>1. MemberCall(c) /\ c.at = "invite"
    BY <1>0 DEF InviteDecide, At, MemberCalls
<1>2. c.user \in Users /\ c.ws \in Workspaces /\ c.target \in Users /\ c.role \in Roles \ {"owner"}
    BY <1>1 DEF MemberCall
<1> PICK w \in Workspaces : w = c.ws BY <1>2
<1> PICK u \in Users : u = c.target BY <1>2
<1> PICK role \in Roles \ {"owner"} : role = c.role BY <1>2
<1>3. UNCHANGED <<wsMem, wsRow, resMem, resRow>> /\ call' = [call EXCEPT ![p] = Nothing]
    BY DEF InviteDecide, Returns, Goes
<1>4. CASE UNCHANGED <<roleMem, roleRow, memberHistory>>
    <2>1. MemberRowsGrow BY <1>3, <1>4 DEF MemberRowsGrow
    <2>2. MemberCalls' /\ DOMAIN call' = Callers BY <1>0, <1>3, <2>1, MemberCallsMove
    <2> QED BY <1>0, <1>3, <1>4, <2>2
            DEF MembersInv, MemberTypes, MemberRows, MemberAcks, ManagersRecorded, ViewersRecorded, memberHistory
<1>5. CASE /\ roleMem' = [roleMem EXCEPT ![w][u] = role]
           /\ \/ /\ InsertMember(w, u, role)
                 /\ memberAcked' = memberAcked \cup {<<w, u, role>>}
                 /\ memberRefused' = memberRefused
              \/ /\ memberRefused' = memberRefused \cup {<<w, u>>}
                 /\ UNCHANGED <<roleRow, memberAcked>>
    <2>1. /\ roleMem' \in [Workspaces -> EntryRoles]
          /\ \A x \in Workspaces \ {w} : roleMem'[x] = roleMem[x]
          /\ roleMem'[w][u] = role /\ \A v \in Users \ {u} : roleMem'[w][v] = roleMem[w][v]
        BY <1>0, <1>5 DEF MemberTypes, EntryRoles
    <2>2. CASE /\ InsertMember(w, u, role)
               /\ memberAcked' = memberAcked \cup {<<w, u, role>>} /\ memberRefused' = memberRefused
        <3>1. /\ roleRow' \in [Workspaces -> EntryRoles]
              /\ \A x \in Workspaces \ {w} : roleRow'[x] = roleRow[x]
              /\ roleRow'[w][u] = role /\ \A v \in Users \ {u} : roleRow'[w][v] = roleRow[w][v]
              /\ wsRow[w] # Nothing /\ roleRow[w][u] = Nothing
            BY <1>0, <2>2 DEF MemberTypes, EntryRoles, InsertMember
        <3>2. MemberTypes'
            BY <1>0, <1>3, <2>1, <2>2, <3>1 DEF MemberTypes
        <3>3. MemberRows'
            <4>1. Nothing # "owner" BY DEF Roles
            <4>2. wsRow[w] \in WorkspaceEntry BY <1>0, <3>1 DEF MemberTypes
            <4>3. wsRow[w].by \in Users BY <4>2 DEF WorkspaceEntry
            <4>4. wsRow[w].by # u /\ roleRow[w][wsRow[w].by] = "owner" BY <1>0, <3>1, <4>1 DEF MemberRows
            <4>5. roleRow'[w][wsRow[w].by] = "owner" BY <3>1, <4>3, <4>4
            <4> QED BY <1>0, <1>3, <3>1, <4>5 DEF MemberRows
        <3>4. MemberAcks'
            <4>1. ASSUME NEW x \in Workspaces, NEW v \in Users, NEW r \in Roles, <<x, v, r>> \in memberAcked'
                  PROVE roleRow'[x][v] = r
                <5>1. CASE <<x, v, r>> = <<w, u, role>>
                    BY <3>1, <5>1
                <5>2. CASE <<x, v, r>> \in memberAcked
                    <6>1. roleRow[x][v] = r /\ r # Nothing BY <1>0, <5>2 DEF MemberAcks
                    <6> QED BY <3>1, <6>1
                <5> QED BY <2>2, <4>1, <5>1, <5>2
            <4>2. ASSUME NEW x \in Workspaces, NEW y \in Resources, <<x, y>> \in memberAcked'
                  PROVE y \in resRow'[x]
                <5>1. <<x, y>> # <<w, u, role>> OBVIOUS
                <5> QED BY <1>0, <1>3, <2>2, <4>2, <5>1 DEF MemberAcks
            <4> QED BY <4>1, <4>2 DEF MemberAcks
        <3>5. \A x \in Workspaces, v \in Users : roleRow[x][v] # Nothing => roleRow'[x][v] = roleRow[x][v]
            BY <3>1
        <3>6. ManagersRecorded' /\ ViewersRecorded'
            <4>1. ASSUME NEW v \in Users
                  PROVE  /\ Allows(roleMem'[w][v]) => Allows(roleRow'[w][v]) \/ <<w, v>> \in memberRefused'
                         /\ roleMem'[w][v] = "viewer" =>
                              roleRow'[w][v] = "viewer" \/ \E x \in Users : <<w, x>> \in memberRefused'
                <5>1. CASE v = u BY <2>1, <3>1, <5>1
                <5>2. CASE v # u
                    BY <1>0, <2>1, <2>2, <3>1, <5>2 DEF ManagersRecorded, ViewersRecorded
                <5> QED BY <5>1, <5>2
            <4> QED BY <1>0, <2>1, <2>2, <3>5, <4>1, RolesRecorded
        <3>7. MemberRowsGrow BY <1>3, <3>5 DEF MemberRowsGrow
        <3>8. MemberCalls' /\ DOMAIN call' = Callers BY <1>0, <1>3, <3>7, MemberCallsMove
        <3> QED BY <3>2, <3>3, <3>4, <3>6, <3>8 DEF MembersInv
    <2>3. CASE memberRefused' = memberRefused \cup {<<w, u>>} /\ UNCHANGED <<roleRow, memberAcked>>
        <3>1. MemberTypes'
            BY <1>0, <1>3, <2>1, <2>3 DEF MemberTypes
        <3>2. MemberRows' /\ MemberAcks'
            BY <1>0, <1>3, <2>3 DEF MemberRows, MemberAcks
        <3>3. ManagersRecorded' /\ ViewersRecorded'
            <4>1. ASSUME NEW v \in Users
                  PROVE  /\ Allows(roleMem'[w][v]) => Allows(roleRow'[w][v]) \/ <<w, v>> \in memberRefused'
                         /\ roleMem'[w][v] = "viewer" =>
                              roleRow'[w][v] = "viewer" \/ \E x \in Users : <<w, x>> \in memberRefused'
                <5>0. <<w, u>> \in memberRefused' BY <2>3
                <5>1. CASE v = u BY <5>0, <5>1
                <5>2. CASE v # u
                    BY <1>0, <2>1, <2>3, <5>2 DEF ManagersRecorded, ViewersRecorded
                <5> QED BY <5>1, <5>2
            <4> QED BY <1>0, <2>1, <2>3, <4>1, RolesRecorded
        <3>4. MemberRowsGrow BY <1>3, <2>3 DEF MemberRowsGrow
        <3>5. MemberCalls' /\ DOMAIN call' = Callers BY <1>0, <1>3, <3>4, MemberCallsMove
        <3> QED BY <3>1, <3>2, <3>3, <3>5 DEF MembersInv
    <2> QED BY <1>5, <2>2, <2>3
<1> QED BY <1>4, <1>5 DEF InviteDecide

\* A resource is connected, or not.
LEMMA ConnectDecideKeeps ==
    ASSUME MembersInv, NEW p \in Callers, ConnectDecide(p)
    PROVE  MembersInv'
<1> USE MembersAssumption
<1> PICK c : c = call[p] OBVIOUS
<1>0. /\ DOMAIN call = Callers /\ MemberTypes /\ MemberRows /\ MemberAcks
      /\ ManagersRecorded /\ ViewersRecorded /\ MemberCalls
    BY DEF MembersInv
<1>1. MemberCall(c) /\ c.at = "connect"
    BY <1>0 DEF ConnectDecide, At, MemberCalls
<1>2. c.user \in Users /\ c.ws \in Workspaces /\ c.resource \in Resources
    BY <1>1 DEF MemberCall
<1> PICK w \in Workspaces : w = c.ws BY <1>2
<1> PICK x \in Resources : x = c.resource BY <1>2
<1>3. /\ UNCHANGED <<wsMem, roleMem, wsRow, roleRow, memberRefused>>
      /\ call' = [call EXCEPT ![p] = Nothing]
    BY DEF ConnectDecide, Returns, Goes
<1>4. \E listed \in SUBSET Resources :
        /\ resMem' = [resMem EXCEPT ![w] = listed]
        /\ \/ UNCHANGED <<resRow, memberAcked>>
           \/ InsertResource(w, x) /\ memberAcked' = memberAcked \cup {<<w, x>>}
    <2>1. resMem[w] \in SUBSET Resources /\ resRow[w] \in SUBSET Resources
        BY <1>0 DEF MemberTypes
    <2>2. PICK read \in BOOLEAN :
            LET listed == resMem[w] \cup (IF read /\ roleRow[w][c.user] # Nothing THEN resRow[w] ELSE {})
            IN IF ~Allows(roleMem[w][c.user]) \/ x \in listed
               THEN resMem' = [resMem EXCEPT ![w] = listed] /\ UNCHANGED <<resRow, memberAcked>>
               ELSE /\ resMem' = [resMem EXCEPT ![w] = listed \cup {x}]
                    /\ \/ InsertResource(w, x) /\ memberAcked' = memberAcked \cup {<<w, x>>}
                       \/ UNCHANGED <<resRow, memberAcked>>
        BY DEF ConnectDecide
    <2> DEFINE listed == resMem[w] \cup (IF read /\ roleRow[w][c.user] # Nothing THEN resRow[w] ELSE {})
    <2>3. listed \in SUBSET Resources /\ listed \cup {x} \in SUBSET Resources BY <2>1
    <2> QED BY <2>2, <2>3
<1>5. PICK listed \in SUBSET Resources :
        /\ resMem' = [resMem EXCEPT ![w] = listed]
        /\ \/ UNCHANGED <<resRow, memberAcked>>
           \/ InsertResource(w, x) /\ memberAcked' = memberAcked \cup {<<w, x>>}
    BY <1>4
<1>6. resMem' \in [Workspaces -> SUBSET Resources]
    BY <1>0, <1>5 DEF MemberTypes
<1>7. /\ resRow' \in [Workspaces -> SUBSET Resources]
      /\ \A v \in Workspaces : resRow[v] \subseteq resRow'[v]
      /\ memberAcked' = memberAcked \/ (memberAcked' = memberAcked \cup {<<w, x>>} /\ x \in resRow'[w])
    <2>1. CASE UNCHANGED <<resRow, memberAcked>> BY <1>0, <2>1 DEF MemberTypes
    <2>2. CASE InsertResource(w, x) /\ memberAcked' = memberAcked \cup {<<w, x>>}
        <3>1. resRow' = [resRow EXCEPT ![w] = resRow[w] \cup {x}] BY <2>2 DEF InsertResource
        <3> QED BY <1>0, <2>2, <3>1 DEF MemberTypes
    <2> QED BY <1>5, <2>1, <2>2
<1>8. MemberTypes' /\ MemberRows'
    BY <1>0, <1>3, <1>6, <1>7 DEF MemberTypes, MemberRows
<1>9. MemberAcks'
    <2>1. ASSUME NEW v \in Workspaces, NEW u \in Users, NEW r \in Roles, <<v, u, r>> \in memberAcked'
          PROVE roleRow'[v][u] = r
        <3>1. <<v, u, r>> # <<w, x>> OBVIOUS
        <3> QED BY <1>0, <1>3, <1>7, <2>1, <3>1 DEF MemberAcks
    <2>2. ASSUME NEW v \in Workspaces, NEW y \in Resources, <<v, y>> \in memberAcked'
          PROVE y \in resRow'[v]
        <3>1. CASE <<v, y>> \in memberAcked BY <1>0, <1>7, <3>1 DEF MemberAcks
        <3>2. CASE <<v, y>> = <<w, x>> BY <1>7, <2>2, <3>2, <3>1
        <3> QED BY <1>7, <2>2, <3>1, <3>2
    <2> QED BY <2>1, <2>2 DEF MemberAcks
<1>10. ManagersRecorded' /\ ViewersRecorded'
    BY <1>0, <1>3 DEF ManagersRecorded, ViewersRecorded
<1>11. MemberCalls' /\ DOMAIN call' = Callers
    <2>1. MemberRowsGrow BY <1>3, <1>7 DEF MemberRowsGrow
    <2> QED BY <1>0, <1>3, <2>1, MemberCallsMove
<1> QED BY <1>8, <1>9, <1>10, <1>11 DEF MembersInv

\* A restart empties the memory and leaves the rows.
LEMMA MembersRestartKeeps ==
    ASSUME MembersInv, MembersRestart, GatewayRestart
    PROVE  MembersInv'
<1> USE MembersAssumption DEF memberRows, memberHistory
<1>1. /\ UNCHANGED <<wsRow, roleRow, resRow, memberAcked, memberRefused>>
      /\ wsMem' = NoWorkspace /\ roleMem' = NoRoles /\ resMem' = NoResources
      /\ call' = [p \in Callers |-> Nothing]
    BY DEF MembersRestart, GatewayRestart
<1>2. NoWorkspace \in [Workspaces -> WorkspaceEntry \cup {Nothing}] BY DEF NoWorkspace
<1>3. NoRoles \in [Workspaces -> EntryRoles] BY DEF NoRoles, EntryRoles
<1>4. NoResources \in [Workspaces -> SUBSET Resources] BY DEF NoResources
<1>5. \A w \in Workspaces, u \in Users : NoRoles[w][u] = Nothing BY DEF NoRoles
<1>6. MemberTypes'
    BY <1>1, <1>2, <1>3, <1>4 DEF MembersInv, MemberTypes
<1>7. MemberRows' /\ MemberAcks'
    BY <1>1 DEF MembersInv, MemberRows, MemberAcks
<1>8. ManagersRecorded' /\ ViewersRecorded'
    BY <1>1, <1>5 DEF ManagersRecorded, ViewersRecorded, Allows, Roles
<1>9. MemberCalls' /\ DOMAIN call' = Callers
    BY <1>1 DEF MemberCalls
<1> QED BY <1>6, <1>7, <1>8, <1>9 DEF MembersInv

\* Every step of the members' services.
LEMMA MembersNextKeeps ==
    ASSUME MembersInv, MembersNext
    PROVE  MembersInv'
<1>1. PICK p \in Callers :
        \/ ConnectDecide(p) \/ Hydrate(p) \/ InviteLoad(p) \/ InviteDecide(p)
        \/ \E u \in Users : 
              \/ ListWorkspaces(p, u)
              \/ \E n \in Names : CreateWorkspace(p, u, n)
              \/ \E w \in Workspaces :
                    \/ GetWorkspace(p, u, w)
                    \/ \E target \in Users, role \in Roles : Invite(p, u, w, target, role)
                    \/ \E x \in Resources : Connect(p, u, w, x)
  BY DEF MembersNext
<1>2. CASE ConnectDecide(p) \/ Hydrate(p) \/ InviteLoad(p) \/ InviteDecide(p)
  BY <1>2, ConnectDecideKeeps, HydrateKeeps, InviteLoadKeeps, InviteDecideKeeps
<1>3. ASSUME NEW u \in Users, NEW n \in Names, CreateWorkspace(p, u, n) PROVE MembersInv'
  BY <1>3, CreateWorkspaceKeeps
<1>4. ASSUME NEW u \in Users, NEW w \in Workspaces, ListWorkspaces(p, u) \/ GetWorkspace(p, u, w)
      PROVE  MembersInv'
  BY <1>4, MemberReadsKeep
<1>6. ASSUME NEW u \in Users, NEW w \in Workspaces, NEW x \in Resources, Connect(p, u, w, x)
      PROVE  MembersInv'
  BY <1>6, ConnectKeeps
<1>5. ASSUME NEW u \in Users, NEW w \in Workspaces, NEW target \in Users, NEW role \in Roles,
             Invite(p, u, w, target, role) PROVE MembersInv'
  BY <1>5, InviteKeeps
<1>7. Workspaces # {}
  BY GatewayAssumption DEF Workspaces
<1>8. ASSUME NEW u \in Users, ListWorkspaces(p, u) PROVE MembersInv'
  BY <1>4, <1>7, <1>8
<1> QED BY <1>1, <1>2, <1>3, <1>4, <1>5, <1>6, <1>8

\* The database that a gateway starts over.
LEMMA MembersInitHolds ==
    ASSUME MembersInit, call = [p \in Callers |-> Nothing]
    PROVE  MembersInv
<1> USE MembersAssumption
<1>1. /\ wsMem = NoWorkspace /\ roleMem = NoRoles /\ resMem = NoResources /\ resRow = NoResources
      /\ memberAcked = {} /\ memberRefused = {}
  BY DEF MembersInit
<1>2. /\ NoWorkspace \in [Workspaces -> WorkspaceEntry \cup {Nothing}]
      /\ NoRoles \in [Workspaces -> EntryRoles]
      /\ NoResources \in [Workspaces -> SUBSET Resources]
      /\ \A w \in Workspaces : NoWorkspace[w] = Nothing
      /\ \A w \in Workspaces, u \in Users : NoRoles[w][u] = Nothing
  BY DEF NoWorkspace, NoRoles, NoResources, EntryRoles
<1>3. /\ wsRow \in [Workspaces -> WorkspaceEntry \cup {Nothing}]
      /\ roleRow \in [Workspaces -> EntryRoles]
      /\ MemberRows
  <2>1. CASE wsRow = NoWorkspace /\ roleRow = NoRoles
    BY <1>2, <2>1 DEF MemberRows
  <2>2. ASSUME NEW n \in Names, NEW u \in Users, NEW roles \in [Users -> Roles \cup {Nothing}],
               \A v \in Users : roles[v] = "owner" <=> v = u,
               wsRow = [NoWorkspace EXCEPT ![1] = [slug |-> n, by |-> u]],
               roleRow = [NoRoles EXCEPT ![1] = roles]
        PROVE  /\ wsRow \in [Workspaces -> WorkspaceEntry \cup {Nothing}]
               /\ roleRow \in [Workspaces -> EntryRoles]
               /\ MemberRows
    <3>1. 1 \in Workspaces BY GatewayAssumption DEF Workspaces
    <3> PICK new : new = [slug |-> n, by |-> u] OBVIOUS
    <3>2. new \in WorkspaceEntry /\ new.by = u /\ new # Nothing BY DEF WorkspaceEntry
    <3>3. /\ wsRow \in [Workspaces -> WorkspaceEntry \cup {Nothing}]
          /\ wsRow[1] = new /\ \A w \in Workspaces \ {1} : wsRow[w] = Nothing
      BY <1>2, <2>2, <3>1, <3>2
    <3>4. /\ roleRow \in [Workspaces -> EntryRoles]
          /\ roleRow[1] = roles /\ \A w \in Workspaces \ {1} : roleRow[w] = NoRoles[w]
      BY <1>2, <2>2, <3>1 DEF EntryRoles
    <3> QED BY <1>2, <2>2, <3>1, <3>2, <3>3, <3>4 DEF MemberRows
  <2> QED BY <2>1, <2>2 DEF MembersInit
<1>4. MemberTypes
  BY <1>1, <1>2, <1>3 DEF MemberTypes
<1>5. MemberAcks /\ ManagersRecorded /\ ViewersRecorded
  BY <1>1, <1>2 DEF MemberAcks, ManagersRecorded, ViewersRecorded, Allows, Roles
<1> QED BY <1>3, <1>4, <1>5 DEF MembersInv, MemberCalls

\* Where the clients do something else, the workspace stays as it was found.
MembersStill ==
    /\ roleMem = NoRoles
    /\ memberAcked = {} /\ memberRefused = {}

\* Where nobody was told anything, nothing told is lost.
LEMMA MembersStillSafe ==
    ASSUME MembersStill PROVE AckedIsDurable /\ RightsKept
<1>1. \A w \in Workspaces, u \in Users : ~Allows(roleMem[w][u])
  BY MembersAssumption DEF MembersStill, NoRoles, Allows, Roles
<1> QED BY <1>1 DEF MembersStill, AckedIsDurable, RightsKept, ManagersRecorded, WritersKeepWriting

-----------------------------------------------------------------------------
(* Channels.                                                               *)

\* The channels in memory and in the rows.
ChannelTypes ==
    /\ chanMem \in [Items -> ChannelValue \cup {Nothing}]
    /\ chanRow \in [Items -> ChannelValue \cup {Nothing}]

\* Request c writes channel i.
Changes(c, i) ==
    c # Nothing /\ c.op = "chat" /\ c.kind \in {"channel", "patch"} /\ c.at # "put" /\ c.item = i

\* A request of the channels; the row of a channel that is changed, or an event is about, is there,
\* or the channel is muddled.
ChannelCall(c) ==
    /\ c \in ChatRequest
    /\ c.kind \in {"channel", "patch"} /\ c.at # "project" /\ c.value \in ChannelValue
    /\ c.at = "put" => c.kind = "channel"
    /\ c.at # "put" => c.item \in Items
    /\ c.at = "change" => c.kind = "patch"
    /\ c.at = "publish" /\ c.kind = "channel" => chanRow[c.item] # Nothing
    /\ c.kind = "patch" => chanRow[c.item] # Nothing \/ c.item \in muddled

\* So every request.
ChannelCalls == \A p \in Callers : call[p] # Nothing => ChannelCall(call[p])

\* Until a channel is muddled one request writes it, and memory and row differ only as its step says.
ChannelSynced(i) ==
    i \notin muddled =>
        /\ \A p, q \in Updating(i) : p = q
        /\ \A p \in Updating(i) :
              CASE call[p].at = "change" -> chanMem[i] \in {Nothing, chanRow[i]}
                [] call[p].at = "insert" -> chanMem[i] = call[p].value
                [] OTHER -> chanMem[i] = chanRow[i]
        /\ Updating(i) = {} => chanMem[i] \in {Nothing, chanRow[i]}

\* An event is about a channel that has its row, unless its update had failed.
ChannelEvents ==
    \A e \in published :
        \E kind \in {"channel", "patch"}, i \in Items :
            e = <<kind, i>> /\ (chanRow[i] # Nothing \/ (kind = "patch" /\ i \in muddled))

\* What the service of channels keeps.
ChannelsInv ==
    /\ DOMAIN call = Callers
    /\ ChannelTypes /\ ChannelCalls /\ ChannelEvents
    /\ \A i \in Items : ChannelSynced(i)

\* Who updates a channel, ...
LEMMA UpdatingIs ==
    ASSUME NEW i, NEW p \in Callers
    PROVE  p \in Updating(i) <=> Changes(call[p], i)
BY DEF Updating, Changes

\* ... after the step too.
LEMMA UpdatingIsPrimed ==
    ASSUME NEW i, NEW p \in Callers
    PROVE  p \in Updating(i)' <=> Changes(call'[p], i)
BY DEF Updating, Changes

\* The invariant says what the runs check of the channels.
LEMMA ChannelsSafe ==
    ASSUME ChannelsInv PROVE PublishedIsDurable /\ ChannelsAgree
<1>1. PublishedIsDurable
    <2> SUFFICES ASSUME NEW e \in published
                 PROVE  Listed(e[1], e[2]) \/ (e[1] = "patch" /\ e[2] \in muddled)
        BY DEF PublishedIsDurable
    <2>1. PICK kind \in {"channel", "patch"}, i \in Items :
            e = <<kind, i>> /\ (chanRow[i] # Nothing \/ (kind = "patch" /\ i \in muddled))
        BY DEF ChannelsInv, ChannelEvents
    <2>2. e[1] = kind /\ e[2] = i BY <2>1
    <2>3. chanRow[i] # Nothing => i \in ListChannels BY DEF ListChannels, Drawn
    <2>4. i \in ListChannels => Listed(kind, i) BY DEF Listed
    <2> QED BY <2>1, <2>2, <2>3, <2>4
<1>2. ChannelsAgree
    BY DEF ChannelsInv, ChannelsAgree, ChannelSynced
<1> QED BY <1>1, <1>2

\* What a step leaves alone of a channel that its request does not write.
LEMMA ChannelOther ==
    ASSUME NEW p \in Callers, NEW r, DOMAIN call = Callers, call' = [call EXCEPT ![p] = r], NEW i \in Items,
           ChannelSynced(i), ~Changes(call[p], i), ~Changes(r, i),
           chanMem'[i] = chanMem[i], chanRow'[i] = chanRow[i], muddled \subseteq muddled'
    PROVE  ChannelSynced(i)'
<1>1. DOMAIN call' = Callers /\ call'[p] = r /\ \A q \in Callers : q # p => call'[q] = call[q]
    BY CallMoves
<1>2. \A q \in Callers : q \in Updating(i)' => q \in Updating(i) /\ call'[q] = call[q]
    BY <1>1, UpdatingIs, UpdatingIsPrimed
<1>3. \A q \in Callers : q \in Updating(i) => q \in Updating(i)'
    BY <1>1, UpdatingIs, UpdatingIsPrimed
<1>4. Updating(i)' = Updating(i)
    BY <1>2, <1>3 DEF Updating
<1>5. \A q \in Updating(i)' : call'[q] = call[q]
    BY <1>2 DEF Updating
<1> QED BY <1>4, <1>5 DEF ChannelSynced

\* A request that writes channel j, alone unless the channel is muddled.
LEMMA ChannelOnly ==
    ASSUME NEW p \in Callers, NEW r, DOMAIN call = Callers, call' = [call EXCEPT ![p] = r], NEW j \in Items,
           muddled \subseteq muddled', j \notin muddled' => Updating(j) \subseteq {p}
    PROVE  j \notin muddled' => Updating(j)' = IF Changes(r, j) THEN {p} ELSE {}
<1>1. DOMAIN call' = Callers /\ call'[p] = r /\ \A q \in Callers : q # p => call'[q] = call[q]
    BY CallMoves
<1>2. ASSUME j \notin muddled', NEW q \in Callers, q # p PROVE q \notin Updating(j)'
    BY <1>1, <1>2, UpdatingIs, UpdatingIsPrimed
<1>3. p \in Updating(j)' <=> Changes(r, j)
    BY <1>1, UpdatingIsPrimed
<1>4. Updating(j)' \subseteq Callers BY DEF Updating
<1> QED BY <1>2, <1>3, <1>4

\* A request goes on with what is true of it; the others are as true as before.
LEMMA ChannelCallsMove ==
    ASSUME ChannelCalls, DOMAIN call = Callers, NEW p \in Callers, NEW CONSTANT r, call' = [call EXCEPT ![p] = r],
           r = Nothing \/ ChannelCall(r)', muddled \subseteq muddled',
           \A i \in Items : chanRow[i] # Nothing => chanRow'[i] # Nothing
    PROVE  ChannelCalls' /\ DOMAIN call' = Callers
<1>1. DOMAIN call' = Callers /\ call'[p] = r /\ \A q \in Callers : q # p => call'[q] = call[q]
    BY CallMoves
<1>2. SUFFICES ASSUME NEW q \in Callers, call'[q] # Nothing PROVE ChannelCall(call[q])'
    BY <1>1 DEF ChannelCalls
<1>3. CASE q = p
    BY <1>1, <1>2, <1>3 DEF ChannelCall
<1>4. CASE q # p
    <2> PICK c : c = call[q] OBVIOUS
    <2>1. ChannelCall(c) BY <1>1, <1>2, <1>4 DEF ChannelCalls
    <2>2. ChannelCall(c)' BY <2>1 DEF ChannelCall, ChatRequest
    <2>3. call'[q] = c BY <1>1, <1>4
    <2> QED BY <2>2, <2>3
<1> QED BY <1>3, <1>4

\* A lookup finds a channel, or none.
LEMMA ChannelValueOf ==
    ASSUME ChannelTypes, NEW i \in Items \cup {Nothing}
    PROVE  Channel(i) \in ChannelValue \cup {Nothing}
BY DEF Channel, ChannelTypes

\* What a request makes of the parent's value.
LEMMA ResolvedValue ==
    ASSUME NEW parent \in ChannelValue \cup {Nothing}, NEW repos \in SUBSET Resources,
           NEW config \in SUBSET Keys
    PROVE  Layered(config, parent) \in SUBSET Keys /\ Inherited(repos, parent) \in SUBSET Resources
BY DEF Layered, Inherited, ChannelValue

\* An update makes a channel of a channel.
LEMMA PatchedValue ==
    ASSUME ChannelTypes, NEW i \in Items, Channel(i) # Nothing,
           NEW repos \in (SUBSET Resources) \cup {Nothing}, NEW config \in (SUBSET Keys) \cup {Nothing},
           NEW value,
           value = [config |-> IF config = Nothing THEN Channel(i).config
                               ELSE Layered(config, Channel(Channel(i).parent)),
                    repos |-> Inherited(Patched(Channel(i), repos), Channel(Channel(i).parent)),
                    parent |-> Channel(i).parent]
    PROVE  value \in ChannelValue
<1> PICK old : old = Channel(i) OBVIOUS
<1>1. old \in ChannelValue BY ChannelValueOf
<1>2. old.config \in SUBSET Keys /\ old.repos \in SUBSET Resources /\ old.parent \in Items \cup {Nothing}
    BY <1>1 DEF ChannelValue
<1>3. Channel(old.parent) \in ChannelValue \cup {Nothing} BY <1>2, ChannelValueOf
<1>4. Patched(old, repos) \in SUBSET Resources BY <1>2 DEF Patched
<1>5. Inherited(Patched(old, repos), Channel(old.parent)) \in SUBSET Resources
    BY <1>3, <1>4 DEF Inherited, ChannelValue
<1>6. config # Nothing => Layered(config, Channel(old.parent)) \in SUBSET Keys
    BY <1>3 DEF Layered, ChannelValue
<1> QED BY <1>2, <1>5, <1>6 DEF ChannelValue

\* A new channel
LEMMA CreateChannelKeeps ==
    ASSUME ChannelsInv, NEW p \in Callers, NEW u, NEW parent \in Items \cup {Nothing},
           NEW repos \in SUBSET Resources, NEW config \in SUBSET Keys,
           CreateChannel(p, u, parent, repos, config)
    PROVE  ChannelsInv'
<1>0. /\ DOMAIN call = Callers /\ ChannelTypes /\ ChannelCalls /\ ChannelEvents
      /\ \A i \in Items : ChannelSynced(i)
    BY DEF ChannelsInv
<1> PICK value : value = [config |-> Layered(config, Channel(parent)),
                          repos |-> Inherited(repos, Channel(parent)), parent |-> parent] OBVIOUS
<1> PICK r : r = [Chat("channel") EXCEPT !.value = value] OBVIOUS
<1>1. value \in ChannelValue
    BY <1>0, ChannelValueOf, ResolvedValue DEF ChannelValue
<1>2. /\ r \in ChatRequest /\ r.kind = "channel" /\ r.at = "put" /\ r.value = value
    BY <1>1 DEF Chat, ChatRequest, Kinds
<1>3. ChannelCall(r)' BY <1>1, <1>2 DEF ChannelCall
<1>4. call' = [call EXCEPT ![p] = r] /\ UNCHANGED chatVars /\ call[p] = Nothing
    BY DEF CreateChannel, Begins, Asks
<1>5. ChannelCalls' /\ DOMAIN call' = Callers
    BY <1>0, <1>3, <1>4, ChannelCallsMove DEF chatVars
<1>6. ASSUME NEW i \in Items PROVE ChannelSynced(i)'
    <2>1. ~Changes(r, i) /\ ~Changes(call[p], i) BY <1>2, <1>4 DEF Changes
    <2> QED BY <1>0, <1>4, <2>1, ChannelOther DEF chatVars
<1>7. ChannelTypes' /\ ChannelEvents'
    BY <1>0, <1>4 DEF ChannelTypes, ChannelEvents, chatVars
<1> QED BY <1>5, <1>6, <1>7 DEF ChannelsInv

\* An update begins: in memory first, or with its row.
LEMMA UpdateChannelKeeps ==
    ASSUME ChannelsInv, NEW p \in Callers, NEW u, NEW i \in Items,
           NEW repos \in (SUBSET Resources) \cup {Nothing}, NEW config \in (SUBSET Keys) \cup {Nothing},
           UpdateChannel(p, u, i, repos, config)
    PROVE  ChannelsInv'
<1> USE ChatAssumption
<1>0. /\ DOMAIN call = Callers /\ ChannelTypes /\ ChannelCalls /\ ChannelEvents
      /\ \A j \in Items : ChannelSynced(j)
    BY DEF ChannelsInv
<1> PICK value :
        value = [config |-> IF config = Nothing THEN Channel(i).config
                            ELSE Layered(config, Channel(Channel(i).parent)),
                 repos |-> Inherited(Patched(Channel(i), repos), Channel(Channel(i).parent)),
                 parent |-> Channel(i).parent] OBVIOUS
<1> PICK r : r = [Chat("patch") EXCEPT !.at = "change", !.item = i, !.value = value] OBVIOUS
<1>1. /\ Channel(i) # Nothing /\ call[p] = Nothing /\ call' = [call EXCEPT ![p] = r]
      /\ muddled' = IF Updating(i) = {} THEN muddled ELSE muddled \cup {i}
      /\ UNCHANGED <<chanMem, chanRow, published>>
    BY DEF UpdateChannel, Begins, Asks, chatMemory, chatRows
<1>2. value \in ChannelValue BY <1>0, <1>1, PatchedValue
<1>3. r \in ChatRequest /\ r.op = "chat" /\ r.kind = "patch" /\ r.at = "change" /\ r.item = i /\ r.value = value
    BY <1>2 DEF Chat, ChatRequest, Kinds
<1>4. chanRow[i] # Nothing \/ i \in muddled'
    BY <1>0, <1>1 DEF ChannelSynced, Channel
<1>5. ChannelCall(r)' BY <1>1, <1>2, <1>3, <1>4 DEF ChannelCall
<1>6. ChannelCalls' /\ DOMAIN call' = Callers
    BY <1>0, <1>1, <1>5, ChannelCallsMove
<1>7. ASSUME NEW j \in Items PROVE ChannelSynced(j)'
    <2>1. CASE j # i
        <3>1. ~Changes(r, j) /\ ~Changes(call[p], j) BY <1>1, <1>3, <2>1 DEF Changes
        <3> QED BY <1>0, <1>1, <3>1, ChannelOther
    <2>2. CASE j = i
        <3>0. SUFFICES ASSUME i \notin muddled' PROVE ChannelSynced(i)' BY <2>2 DEF ChannelSynced
        <3>1. i \notin muddled /\ Updating(i) = {} BY <1>1, <3>0
        <3>2. Changes(r, i) BY <1>3 DEF Changes, ChatRequest
        <3>3. Updating(i)' = {p} BY <1>0, <1>1, <3>0, <3>1, <3>2, ChannelOnly
        <3>4. call'[p] = r BY <1>0, <1>1
        <3>5. chanMem'[i] \in {Nothing, chanRow'[i]} BY <1>0, <1>1, <3>1 DEF ChannelSynced
        <3> QED BY <1>3, <3>3, <3>4, <3>5 DEF ChannelSynced
    <2> QED BY <2>1, <2>2
<1>8. ChannelTypes' /\ ChannelEvents'
    BY <1>0, <1>1 DEF ChannelTypes, ChannelEvents
<1> QED BY <1>6, <1>7, <1>8 DEF ChannelsInv

\* A new channel goes into memory.
LEMMA PutChannelKeeps ==
    ASSUME ChannelsInv, NEW p \in Callers, PutChannel(p)
    PROVE  ChannelsInv'
<1> USE ChatAssumption
<1>0. /\ DOMAIN call = Callers /\ ChannelTypes /\ ChannelCalls /\ ChannelEvents
      /\ \A j \in Items : ChannelSynced(j)
    BY DEF ChannelsInv
<1> PICK c : c = call[p] OBVIOUS
<1>1. c # Nothing /\ c.at = "put" /\ c.kind = "channel" /\ c.op = "chat" BY DEF PutChannel, At
<1>2. ChannelCall(c) /\ c \in ChatRequest /\ c.value \in ChannelValue BY <1>0, <1>1 DEF ChannelCalls, ChannelCall
<1>3. PICK i \in Items :
        /\ chanMem' = [chanMem EXCEPT ![i] = c.value]
        /\ call' = [call EXCEPT ![p] = [c EXCEPT !.at = "insert", !.item = i]]
        /\ muddled' = IF Channel(i) = Nothing THEN muddled ELSE muddled \cup {i}
    BY DEF PutChannel, Goes
<1> PICK r : r = [c EXCEPT !.at = "insert", !.item = i] OBVIOUS
<1>4. UNCHANGED <<chanRow, published>> /\ call' = [call EXCEPT ![p] = r]
    BY <1>3 DEF PutChannel, chatRows
<1>5. /\ r \in ChatRequest /\ r.op = "chat" /\ r.kind = "channel" /\ r.at = "insert" /\ r.item = i /\ r.value = c.value
    BY <1>1, <1>2 DEF ChatRequest
<1>6. ChannelCall(r)' BY <1>2, <1>5 DEF ChannelCall
<1>7. ChannelCalls' /\ DOMAIN call' = Callers
    BY <1>0, <1>3, <1>4, <1>6, ChannelCallsMove
<1>8. chanMem' \in [Items -> ChannelValue \cup {Nothing}] /\ chanMem'[i] = c.value
      /\ \A j \in Items \ {i} : chanMem'[j] = chanMem[j]
    BY <1>0, <1>2, <1>3 DEF ChannelTypes
<1>9. ASSUME NEW j \in Items PROVE ChannelSynced(j)'
    <2>1. CASE j # i
        <3>1. ~Changes(r, j) /\ ~Changes(c, j) BY <1>1, <1>5, <2>1 DEF Changes
        <3> QED BY <1>0, <1>3, <1>4, <1>8, <2>1, <3>1, ChannelOther
    <2>2. CASE j = i
        <3>0. SUFFICES ASSUME i \notin muddled' PROVE ChannelSynced(i)' BY <2>2 DEF ChannelSynced
        <3>1. i \notin muddled /\ Channel(i) = Nothing BY <1>3, <3>0
        <3>2. chanMem[i] = Nothing /\ chanRow[i] = Nothing BY <3>1 DEF Channel
        <3>3. Updating(i) = {}
            <4> SUFFICES ASSUME NEW q \in Updating(i) PROVE FALSE OBVIOUS
            <4> PICK d : d = call[q] OBVIOUS
            <4>1. q \in Callers /\ d # Nothing /\ d.kind \in {"channel", "patch"} /\ d.at # "put" /\ d.item = i
                BY DEF Updating
            <4>2. ChannelCall(d) BY <1>0, <4>1 DEF ChannelCalls
            <4>3. d.kind # "patch" BY <3>1, <3>2, <4>1, <4>2 DEF ChannelCall
            <4>4. d.at \notin {"change", "publish", "project"} BY <3>2, <4>1, <4>2, <4>3 DEF ChannelCall
            <4>5. d.at = "insert" BY <4>1, <4>2, <4>4 DEF ChannelCall, ChatRequest
            <4>6. chanMem[i] = d.value BY <1>0, <3>1, <4>5 DEF ChannelSynced
            <4> QED BY <3>2, <4>2, <4>6 DEF ChannelCall
        <3>4. Changes(r, i) BY <1>5 DEF Changes, ChatRequest
        <3>5. muddled \subseteq muddled' BY <1>3
        <3>6. Updating(i)' = {p} BY <1>0, <1>4, <3>0, <3>3, <3>4, <3>5, ChannelOnly
        <3>7. call'[p] = r BY <1>0, <1>4
        <3> QED BY <1>5, <1>8, <3>6, <3>7 DEF ChannelSynced
    <2> QED BY <2>1, <2>2
<1>10. ChannelTypes' /\ ChannelEvents'
    BY <1>0, <1>3, <1>4, <1>8 DEF ChannelTypes, ChannelEvents
<1> QED BY <1>7, <1>9, <1>10 DEF ChannelsInv

\* The channel in memory is changed.
LEMMA ChangeChannelKeeps ==
    ASSUME ChannelsInv, NEW p \in Callers, ChangeChannel(p)
    PROVE  ChannelsInv'
<1> USE ChatAssumption
<1>0. /\ DOMAIN call = Callers /\ ChannelTypes /\ ChannelCalls /\ ChannelEvents
      /\ \A j \in Items : ChannelSynced(j)
    BY DEF ChannelsInv
<1> PICK c : c = call[p] OBVIOUS
<1> PICK r : r = [c EXCEPT !.at = "insert"] OBVIOUS
<1>1. c # Nothing /\ c.at = "change" /\ c.op = "chat" BY DEF ChangeChannel, At
<1>2. /\ ChannelCall(c) /\ c \in ChatRequest /\ c.value \in ChannelValue /\ c.kind = "patch"
      /\ c.item \in Items
    BY <1>0, <1>1 DEF ChannelCalls, ChannelCall
<1> PICK i \in Items : i = c.item BY <1>2
<1>3. /\ chanMem' = [chanMem EXCEPT ![i] = c.value] /\ call' = [call EXCEPT ![p] = r]
      /\ UNCHANGED <<chanRow, published, muddled>>
    BY DEF ChangeChannel, GoesTo, Goes, chatRows
<1>4. r \in ChatRequest /\ r.op = "chat" /\ r.kind = "patch" /\ r.at = "insert" /\ r.item = i /\ r.value = c.value
    BY <1>1, <1>2 DEF ChatRequest
<1>5. ChannelCall(r)' BY <1>2, <1>3, <1>4 DEF ChannelCall
<1>6. ChannelCalls' /\ DOMAIN call' = Callers
    BY <1>0, <1>3, <1>5, ChannelCallsMove
<1>7. chanMem' \in [Items -> ChannelValue \cup {Nothing}] /\ chanMem'[i] = c.value
      /\ \A j \in Items \ {i} : chanMem'[j] = chanMem[j]
    BY <1>0, <1>2, <1>3 DEF ChannelTypes
<1>8. ASSUME NEW j \in Items PROVE ChannelSynced(j)'
    <2>1. CASE j # i
        <3>1. ~Changes(r, j) /\ ~Changes(c, j) BY <1>1, <1>4, <2>1 DEF Changes
        <3> QED BY <1>0, <1>3, <1>7, <2>1, <3>1, ChannelOther
    <2>2. CASE j = i
        <3>0. SUFFICES ASSUME i \notin muddled' PROVE ChannelSynced(i)' BY <2>2 DEF ChannelSynced
        <3>1. p \in Updating(i) BY <1>1, <1>2, UpdatingIs DEF Changes
        <3>2. Updating(i) \subseteq {p} BY <1>0, <1>3, <3>0, <3>1 DEF ChannelSynced
        <3>3. Changes(r, i) BY <1>4 DEF Changes, ChatRequest
        <3>4. Updating(i)' = {p} BY <1>0, <1>3, <3>0, <3>2, <3>3, ChannelOnly
        <3>5. call'[p] = r BY <1>0, <1>3
        <3> QED BY <1>4, <1>7, <3>4, <3>5 DEF ChannelSynced
    <2> QED BY <2>1, <2>2
<1>9. ChannelTypes' /\ ChannelEvents'
    BY <1>0, <1>3, <1>7 DEF ChannelTypes, ChannelEvents
<1> QED BY <1>6, <1>8, <1>9 DEF ChannelsInv

\* The row is written, or the write fails.
LEMMA PersistChannelKeeps ==
    ASSUME ChannelsInv, NEW p \in Callers, Persist(p)
    PROVE  ChannelsInv'
<1> USE ChatAssumption
<1>0. /\ DOMAIN call = Callers /\ ChannelTypes /\ ChannelCalls /\ ChannelEvents
      /\ \A j \in Items : ChannelSynced(j)
    BY DEF ChannelsInv
<1> PICK c : c = call[p] OBVIOUS
<1>1. c # Nothing /\ c.at = "insert" /\ c.op = "chat" BY DEF Persist, At
<1>2. /\ ChannelCall(c) /\ c \in ChatRequest /\ c.value \in ChannelValue /\ c.kind \in {"channel", "patch"}
      /\ c.item \in Items
    BY <1>0, <1>1 DEF ChannelCalls, ChannelCall
<1> PICK i \in Items : i = c.item BY <1>2
<1>3. chanMem' = chanMem /\ published' = published BY DEF Persist, chatMemory
<1>4. p \in Updating(i) BY <1>1, <1>2, UpdatingIs DEF Changes
<1>5. i \notin muddled => Updating(i) \subseteq {p} /\ chanMem[i] = c.value
    BY <1>0, <1>1, <1>4 DEF ChannelSynced
<1>6. ASSUME NEW r, call' = [call EXCEPT ![p] = r], r = Nothing \/ r.item = i,
             \A j \in Items \ {i} : chanRow'[j] = chanRow[j], muddled \subseteq muddled',
             NEW j \in Items \ {i}
      PROVE  ChannelSynced(j)'
    <2>1. ~Changes(r, j) /\ ~Changes(c, j) BY <1>6 DEF Changes
    <2> QED BY <1>0, <1>3, <1>6, <2>1, ChannelOther
<1>7. ASSUME muddled \subseteq muddled', \A j \in Items : chanRow[j] # Nothing => chanRow'[j] # Nothing
      PROVE  ChannelEvents'
    BY <1>0, <1>3, <1>7 DEF ChannelEvents
<1>8. CASE Insert(c) /\ GoesTo(p, "publish") /\ UNCHANGED muddled
    <2> PICK r : r = [c EXCEPT !.at = "publish"] OBVIOUS
    <2>1. /\ r \in ChatRequest /\ r.op = "chat" /\ r.kind = c.kind /\ r.at = "publish" /\ r.item = i
          /\ r.value = c.value
        BY <1>1, <1>2 DEF ChatRequest
    <2>2. call' = [call EXCEPT ![p] = r] BY <1>8 DEF GoesTo, Goes
    <2>3. InsertChannel(c) \/ ChangeRow(c) BY <1>2, <1>8 DEF Insert, InsertThread, InsertMessage
    <2>4. /\ chanRow' \in [Items -> ChannelValue \cup {Nothing}]
          /\ \A j \in Items \ {i} : chanRow'[j] = chanRow[j]
          /\ chanRow'[i] = c.value \/ (c.kind = "patch" /\ chanRow[i] = Nothing /\ chanRow' = chanRow)
        BY <1>0, <1>2, <2>3 DEF ChannelTypes, InsertChannel, ChangeRow
    <2>5. \A j \in Items : chanRow[j] # Nothing => chanRow'[j] # Nothing
        BY <1>2, <2>4
    <2>6. ChannelCall(r)'
        BY <1>2, <1>8, <2>1, <2>4 DEF ChannelCall
    <2>7. ChannelCalls' /\ DOMAIN call' = Callers
        BY <1>0, <1>8, <2>2, <2>5, <2>6, ChannelCallsMove
    <2>8. ChannelSynced(i)'
        <3>0. SUFFICES ASSUME i \notin muddled' PROVE ChannelSynced(i)' BY DEF ChannelSynced
        <3>1. Changes(r, i) BY <1>2, <2>1 DEF Changes, ChatRequest
        <3>2. Updating(i)' = {p} BY <1>0, <1>5, <1>8, <2>2, <3>0, <3>1, ChannelOnly
        <3>3. call'[p] = r BY <1>0, <2>2
        <3>4. chanRow'[i] = c.value BY <1>2, <1>8, <2>4, <3>0 DEF ChannelCall
        <3> QED BY <1>3, <1>5, <1>8, <2>1, <3>0, <3>2, <3>3, <3>4 DEF ChannelSynced
    <2>9. ChannelTypes' /\ ChannelEvents'
        BY <1>0, <1>3, <1>7, <1>8, <2>4, <2>5 DEF ChannelTypes
    <2> QED BY <1>6, <1>8, <2>1, <2>2, <2>4, <2>7, <2>8, <2>9 DEF ChannelsInv
<1>9. CASE /\ Returns(p)
           /\ muddled' = IF c.kind \in {"channel", "patch"} THEN muddled \cup {c.item} ELSE muddled
           /\ UNCHANGED chatRows
    <2>1. call' = [call EXCEPT ![p] = Nothing] BY <1>9 DEF Returns, Goes
    <2>2. muddled' = muddled \cup {i} /\ chanRow' = chanRow BY <1>2, <1>9 DEF chatRows
    <2>3. ChannelCalls' /\ DOMAIN call' = Callers
        BY <1>0, <2>1, <2>2, ChannelCallsMove
    <2>4. ChannelSynced(i)' BY <2>2 DEF ChannelSynced
    <2>5. ChannelTypes' /\ ChannelEvents'
        BY <1>0, <1>3, <1>7, <2>2 DEF ChannelTypes
    <2> QED BY <1>6, <2>1, <2>2, <2>3, <2>4, <2>5 DEF ChannelsInv
<1> QED BY <1>8, <1>9 DEF Persist

\* The event is published.
LEMMA PublishChannelKeeps ==
    ASSUME ChannelsInv, NEW p \in Callers, PublishChat(p)
    PROVE  ChannelsInv'
<1> USE ChatAssumption
<1>0. /\ DOMAIN call = Callers /\ ChannelTypes /\ ChannelCalls /\ ChannelEvents
      /\ \A j \in Items : ChannelSynced(j)
    BY DEF ChannelsInv
<1> PICK c : c = call[p] OBVIOUS
<1>1. c # Nothing /\ c.at = "publish" /\ c.op = "chat" BY DEF PublishChat, At
<1>2. /\ ChannelCall(c) /\ c \in ChatRequest /\ c.kind \in {"channel", "patch"}
      /\ c.item \in Items
    BY <1>0, <1>1 DEF ChannelCalls, ChannelCall
<1> PICK i \in Items : i = c.item BY <1>2
<1> PICK kind \in {"channel", "patch"} : kind = c.kind BY <1>2
<1>3. UNCHANGED <<chanMem, chanRow, muddled>> BY DEF PublishChat, chatMemory, chatRows
<1>4. /\ call' = [call EXCEPT ![p] = Nothing]
      /\ published' \in {published, published \cup {<<kind, i>>}}
    BY <1>2 DEF PublishChat, Returns, Goes
<1>5. ChannelCalls' /\ DOMAIN call' = Callers
    BY <1>0, <1>3, <1>4, ChannelCallsMove
<1>6. ASSUME NEW j \in Items PROVE ChannelSynced(j)'
    <2>0. ~Changes(Nothing, j) BY DEF Changes
    <2>1. CASE j # i
        <3>1. ~Changes(c, j) BY <2>1 DEF Changes
        <3> QED BY <1>0, <1>3, <1>4, <2>0, <3>1, ChannelOther
    <2>2. CASE j = i
        <3>0. SUFFICES ASSUME i \notin muddled' PROVE ChannelSynced(i)' BY <2>2 DEF ChannelSynced
        <3>1. p \in Updating(i) BY <1>1, <1>2, UpdatingIs DEF Changes
        <3>2. Updating(i) \subseteq {p} /\ chanMem[i] = chanRow[i]
            BY <1>0, <1>1, <1>3, <3>0, <3>1 DEF ChannelSynced
        <3>3. Updating(i)' = {} BY <1>0, <1>3, <1>4, <2>0, <2>2, <3>0, <3>2, ChannelOnly
        <3> QED BY <1>3, <3>2, <3>3 DEF ChannelSynced
    <2> QED BY <2>1, <2>2
<1>7. chanRow[i] # Nothing \/ (kind = "patch" /\ i \in muddled)
    BY <1>1, <1>2 DEF ChannelCall
<1>8. ChannelTypes' BY <1>0, <1>3 DEF ChannelTypes
<1>9. ChannelEvents' BY <1>0, <1>3, <1>4, <1>7 DEF ChannelEvents
<1> QED BY <1>5, <1>6, <1>8, <1>9 DEF ChannelsInv

\* A restart empties the memory, and muddles the channels that were being written.
LEMMA ChannelRestartKeeps ==
    ASSUME ChannelsInv, ChatRestart, GatewayRestart
    PROVE  ChannelsInv'
<1>1. /\ chanMem' = NoItems /\ muddled \subseteq muddled' /\ UNCHANGED <<chanRow, published>>
      /\ call' = [p \in Callers |-> Nothing]
    BY DEF ChatRestart, GatewayRestart, chatRows
<1>2. ChannelCalls' /\ DOMAIN call' = Callers BY <1>1 DEF ChannelCalls
<1>3. ChannelTypes' /\ ChannelEvents'
    BY <1>1 DEF ChannelsInv, ChannelTypes, ChannelEvents, NoItems
<1>4. ASSUME NEW i \in Items PROVE ChannelSynced(i)'
    <2>1. Updating(i)' = {} BY <1>1 DEF Updating
    <2>2. chanMem'[i] = Nothing BY <1>1 DEF NoItems
    <2> QED BY <2>1, <2>2 DEF ChannelSynced
<1> QED BY <1>2, <1>3, <1>4 DEF ChannelsInv

\* Every step of the service of channels.
LEMMA ChannelNextKeeps ==
    ASSUME ChannelsInv, ChannelNext
    PROVE  ChannelsInv'
<1>1. PICK p \in Callers :
        \/ PutChannel(p) \/ ChangeChannel(p) \/ Persist(p) \/ PublishChat(p)
        \/ \E u \in Users :
            \/ \E parent \in Items \cup {Nothing}, repos \in SUBSET Resources, config \in SUBSET Keys :
                CreateChannel(p, u, parent, repos, config)
            \/ \E i \in Items, repos \in (SUBSET Resources) \cup {Nothing},
                    config \in (SUBSET Keys) \cup {Nothing} :
                UpdateChannel(p, u, i, repos, config)
    BY DEF ChannelNext
<1>2. CASE PutChannel(p) \/ ChangeChannel(p) \/ Persist(p) \/ PublishChat(p)
    BY <1>2, PutChannelKeeps, ChangeChannelKeeps, PersistChannelKeeps, PublishChannelKeeps
<1>3. ASSUME NEW u \in Users, NEW parent \in Items \cup {Nothing}, NEW repos \in SUBSET Resources,
             NEW config \in SUBSET Keys, CreateChannel(p, u, parent, repos, config)
      PROVE  ChannelsInv'
    BY <1>3, CreateChannelKeeps
<1>4. ASSUME NEW u \in Users, NEW i \in Items, NEW repos \in (SUBSET Resources) \cup {Nothing},
             NEW config \in (SUBSET Keys) \cup {Nothing}, UpdateChannel(p, u, i, repos, config)
      PROVE  ChannelsInv'
    BY <1>4, UpdateChannelKeeps
<1> QED BY <1>1, <1>2, <1>3, <1>4

\* The channels a database may hold when the gateway starts.
ChannelRows ==
    \/ chanRow = NoItems
    \/ chanRow = [i \in Items |-> IF i > 2 THEN Nothing ELSE
                [config |-> {}, repos |-> {}, parent |-> IF i = 1 THEN Nothing ELSE 1]]

\* They are channels.
LEMMA ChannelRowsTyped ==
    ASSUME ChannelRows
    PROVE  chanRow \in [Items -> ChannelValue \cup {Nothing}]
<1>1. CASE chanRow = NoItems BY <1>1 DEF NoItems
<1>2. CASE chanRow = [i \in Items |-> IF i > 2 THEN Nothing ELSE
                [config |-> {}, repos |-> {}, parent |-> IF i = 1 THEN Nothing ELSE 1]]
    <2>1. ASSUME NEW i \in Items, ~(i > 2)
          PROVE  [config |-> {}, repos |-> {}, parent |-> IF i = 1 THEN Nothing ELSE 1] \in ChannelValue
        <3>1. 1 \in Items BY <2>1, GatewayAssumption DEF Items
        <3> QED BY <3>1 DEF ChannelValue
    <2> QED BY <1>2, <2>1
<1> QED BY <1>1, <1>2 DEF ChannelRows

\* The database that a gateway starts over.
LEMMA ChannelsInitHolds ==
    ASSUME ChatInit, call = [p \in Callers |-> Nothing]
    PROVE  ChannelsInv /\ ChannelRows
<1>1. ChannelRows /\ chanMem = NoItems /\ published = {} BY DEF ChatInit, ChannelRows
<1>2. ChannelTypes BY <1>1, ChannelRowsTyped DEF ChannelTypes, NoItems
<1>3. ASSUME NEW i \in Items PROVE ChannelSynced(i)
    <2>1. Updating(i) = {} BY DEF Updating
    <2>2. chanMem[i] = Nothing BY <1>1 DEF NoItems
    <2> QED BY <2>1, <2>2 DEF ChannelSynced
<1> QED BY <1>1, <1>2, <1>3 DEF ChannelsInv, ChannelCalls, ChannelEvents

\* Where the clients do nothing with channels, they stay as they were found.
ChannelsStill == chanMem = NoItems /\ ChannelRows

\* With no channel in memory none disagrees with its row.
LEMMA ChannelsStillSafe ==
    ASSUME ChannelsStill PROVE ChannelsAgree
BY DEF ChannelsStill, ChannelsAgree, NoItems

-----------------------------------------------------------------------------
(* Threads and messages.                                                   *)

\* A request that posts a thread or a message; what it publishes or projects has its row.
PostCall(c) ==
    /\ c \in ChatRequest
    /\ c.kind \in {"thread", "message", "artifact"} /\ c.at # "change"
    /\ c.at # "put" => c.item \in Items
    /\ c.kind # "thread" => c.thread \in Nat
    /\ c.at = "project" => c.kind # "message"
    /\ c.at \in {"publish", "project"} =>
        IF c.kind = "thread" THEN c.item \in threadRow ELSE <<c.thread, c.item>> \in messageRow

\* A request of the chat.
Posting(c) == c # Nothing /\ c.op = "chat"

\* So every request.
PostCalls == \A p \in Callers : Posting(call[p]) => PostCall(call[p])

\* An event is about a row.
PostEvent(e) ==
    \E i \in Items :
        \/ e = <<"thread", i>> /\ i \in threadRow
        \/ /\ e \in {<<"message", i>>, <<"artifact", i>>}
           /\ \E t \in threadRow : <<t, i>> \in messageRow

\* What the service of threads and messages keeps.
PostsInv ==
    /\ DOMAIN call = Callers
    /\ threadMem \subseteq Nat /\ threadRow \subseteq Nat
    /\ \A m \in messageRow : \E t \in threadRow, i \in Items : m = <<t, i>>
    /\ PostCalls
    /\ \A e \in published : PostEvent(e)

\* Whatever was published is listed.
LEMMA PostsSafe ==
    ASSUME PostsInv PROVE PublishedIsDurable
<1> SUFFICES ASSUME NEW e \in published PROVE Listed(e[1], e[2])
    BY DEF PublishedIsDurable
<1>1. PostEvent(e) BY DEF PostsInv
<1>2. threadRow # {} => ListThreads = threadRow BY DEF ListThreads
<1>3. PICK i \in Items :
        \/ e = <<"thread", i>> /\ i \in threadRow
        \/ /\ e \in {<<"message", i>>, <<"artifact", i>>}
           /\ \E t \in threadRow : <<t, i>> \in messageRow
    BY <1>1 DEF PostEvent
<1>4. CASE e = <<"thread", i>> /\ i \in threadRow
    <2>1. e[1] = "thread" /\ e[2] = i /\ i \in ListThreads BY <1>2, <1>4
    <2> QED BY <2>1 DEF Listed
<1>5. CASE /\ e \in {<<"message", i>>, <<"artifact", i>>}
           /\ \E t \in threadRow : <<t, i>> \in messageRow
    <2>1. PICK t \in threadRow : <<t, i>> \in messageRow BY <1>5
    <2>2. e[1] \in {"message", "artifact"} /\ e[2] = i BY <1>5
    <2>3. i \in ListMessages(t)
        <3>1. <<t, i>>[1] = t /\ <<t, i>>[2] = i OBVIOUS
        <3> QED BY <2>1, <3>1 DEF ListMessages
    <2>4. \E s \in ListThreads : i \in ListMessages(s) BY <1>2, <2>3
    <2> QED BY <2>2, <2>4 DEF Listed
<1> QED BY <1>3, <1>4, <1>5

\* A request begins, goes on or ends, over rows that only grow.
LEMMA PostCallsMove ==
    ASSUME PostCalls, DOMAIN call = Callers, NEW p \in Callers, NEW CONSTANT r, call' = [call EXCEPT ![p] = r],
           Posting(r) => PostCall(r)', threadRow \subseteq threadRow', messageRow \subseteq messageRow'
    PROVE  PostCalls' /\ DOMAIN call' = Callers
<1>1. DOMAIN call' = Callers /\ call'[p] = r /\ \A q \in Callers : q # p => call'[q] = call[q]
    BY CallMoves
<1>2. SUFFICES ASSUME NEW q \in Callers, Posting(call'[q]) PROVE PostCall(call[q])'
    BY <1>1 DEF PostCalls, Posting
<1>3. CASE q = p
    BY <1>1, <1>2, <1>3 DEF PostCall
<1>4. CASE q # p
    <2> PICK c : c = call[q] OBVIOUS
    <2>1. PostCall(c) BY <1>1, <1>2, <1>4 DEF PostCalls
    <2>2. PostCall(c)' BY <2>1 DEF PostCall
    <2>3. call'[q] = c BY <1>1, <1>4
    <2> QED BY <2>2, <2>3
<1> QED BY <1>3, <1>4

\* An event stays about its row.
LEMMA PostEventStays ==
    ASSUME NEW CONSTANT e, PostEvent(e), threadRow \subseteq threadRow', messageRow \subseteq messageRow'
    PROVE  PostEvent(e)'
BY DEF PostEvent

\* A step that writes no row and publishes nothing.
LEMMA PostsMove ==
    ASSUME PostsInv, NEW p \in Callers, NEW CONSTANT r, call' = [call EXCEPT ![p] = r],
           Posting(r) => PostCall(r)', threadMem' \subseteq Nat, UNCHANGED <<threadRow, messageRow, published>>
    PROVE  PostsInv'
<1>1. PostCalls' /\ DOMAIN call' = Callers
    BY PostCallsMove DEF PostsInv
<1>2. \A e \in published' : PostEvent(e)'
    BY PostEventStays DEF PostsInv
<1> QED BY <1>1, <1>2 DEF PostsInv

\* The rest of the gateway makes a step: nothing of the posts changes, or a request that is not
\* a post begins, goes on or ends.
LEMMA PostsFrame ==
    ASSUME PostsInv, NEW p \in Callers, NEW CONSTANT r, call' = [call EXCEPT ![p] = r],
           ~Posting(r), UNCHANGED <<threadMem, threadRow, messageRow, published>>
    PROVE  PostsInv'
BY PostsMove DEF PostsInv

\* Nothing of the posts changes.
LEMMA PostsStay ==
    ASSUME PostsInv, UNCHANGED <<call, threadMem, threadRow, messageRow, published>>
    PROVE  PostsInv'
BY DEF PostsInv, PostCalls, PostCall, PostEvent

\* A thread begins.
LEMMA CreateThreadKeeps ==
    ASSUME PostsInv, NEW p \in Callers, NEW u, NEW channel, CreateThread(p, u, channel)
    PROVE  PostsInv'
<1> PICK r : r = Chat("thread") OBVIOUS
<1>1. r \in ChatRequest /\ r.kind = "thread" /\ r.at = "put" BY DEF Chat, ChatRequest, Kinds
<1>2. PostCall(r)' BY <1>1 DEF PostCall
<1>3. call' = [call EXCEPT ![p] = r] /\ UNCHANGED chatVars BY DEF CreateThread, Begins
<1> QED BY <1>2, <1>3, PostsMove DEF chatVars, PostsInv

\* A message or an artifact begins.
LEMMA BeginPostKeeps ==
    ASSUME PostsInv, NEW p \in Callers, NEW kind \in {"message", "artifact"}, NEW thread \in Nat,
           Begins(p, [Chat(kind) EXCEPT !.thread = thread]), UNCHANGED chatVars
    PROVE  PostsInv'
<1> PICK r : r = [Chat(kind) EXCEPT !.thread = thread] OBVIOUS
<1>1. r \in ChatRequest /\ r.kind = kind /\ r.at = "put" /\ r.thread = thread
    BY DEF Chat, ChatRequest, Kinds
<1>2. PostCall(r)' BY <1>1 DEF PostCall
<1>3. call' = [call EXCEPT ![p] = r] BY DEF Begins
<1> QED BY <1>2, <1>3, PostsMove DEF chatVars, PostsInv

\* A client's message begins.
LEMMA CreateMessageKeeps ==
    ASSUME PostsInv, NEW p \in Callers, NEW u, NEW thread, CreateMessage(p, u, thread)
    PROVE  PostsInv'
<1>1. thread \in Nat BY DEF CreateMessage, PostsInv
<1> QED BY <1>1, BeginPostKeeps DEF CreateMessage

\* The thread, or the message, goes into memory.
LEMMA PutPostKeeps ==
    ASSUME PostsInv, NEW p \in Callers, PutThread(p) \/ PutMessage(p)
    PROVE  PostsInv'
<1> PICK c : c = call[p] OBVIOUS
<1>1. c # Nothing /\ c.at = "put" /\ c.op = "chat" BY DEF PutThread, PutMessage, At
<1>2. PostCall(c) BY <1>1 DEF PostsInv, PostCalls, Posting
<1>3. PICK i \in Items :
        /\ call' = [call EXCEPT ![p] = [c EXCEPT !.at = "insert", !.item = i]]
        /\ threadMem' \in {threadMem, threadMem \cup {i}}
    BY DEF PutThread, PutMessage, Goes
<1> PICK r : r = [c EXCEPT !.at = "insert", !.item = i] OBVIOUS
<1>4. r \in ChatRequest /\ r.kind = c.kind /\ r.at = "insert" /\ r.item = i /\ r.thread = c.thread
    BY <1>2 DEF PostCall, ChatRequest
<1>5. PostCall(r)' BY <1>2, <1>4 DEF PostCall
<1>6. UNCHANGED <<threadRow, messageRow, published>> BY DEF PutThread, PutMessage, chatRows
<1>7. i \in Nat BY DEF Items
<1> QED BY <1>3, <1>5, <1>6, <1>7, PostsMove DEF PostsInv

\* The row is inserted, or the insert fails.
LEMMA PersistPostKeeps ==
    ASSUME PostsInv, NEW p \in Callers, Persist(p)
    PROVE  PostsInv'
<1> PICK c : c = call[p] OBVIOUS
<1>1. c # Nothing /\ c.at = "insert" /\ c.op = "chat" BY DEF Persist, At
<1>2. PostCall(c) BY <1>1 DEF PostsInv, PostCalls, Posting
<1>3. c \in ChatRequest /\ c.item \in Items /\ c.kind \in {"thread", "message", "artifact"}
    BY <1>1, <1>2 DEF PostCall
<1>4. threadMem' = threadMem /\ published' = published BY DEF Persist, chatMemory
<1>5. CASE Returns(p) /\ UNCHANGED chatRows
    BY <1>4, <1>5, PostsFrame DEF chatRows, Returns, Goes, Posting
<1>6. CASE Insert(c) /\ GoesTo(p, "publish")
    <2> PICK r : r = [c EXCEPT !.at = "publish"] OBVIOUS
    <2>1. r \in ChatRequest /\ r.kind = c.kind /\ r.at = "publish" /\ r.item = c.item /\ r.thread = c.thread
        BY <1>3 DEF ChatRequest
    <2>2. call' = [call EXCEPT ![p] = r] BY <1>6 DEF GoesTo, Goes
    <2>3. \/ /\ c.kind = "thread" /\ threadRow' = threadRow \cup {c.item} /\ messageRow' = messageRow
          \/ /\ c.kind # "thread" /\ c.thread \in threadRow /\ threadRow' = threadRow
             /\ messageRow' = messageRow \cup {<<c.thread, c.item>>}
        BY <1>3, <1>6 DEF Insert, InsertChannel, ChangeRow, InsertThread, InsertMessage
    <2>4. threadRow \subseteq threadRow' /\ messageRow \subseteq messageRow' BY <2>3
    <2>5. PostCall(r)' BY <1>2, <1>3, <2>1, <2>3 DEF PostCall
    <2>6. PostCalls' /\ DOMAIN call' = Callers
        BY <2>2, <2>4, <2>5, PostCallsMove DEF PostsInv
    <2>7. \A e \in published' : PostEvent(e)'
        BY <1>4, <2>4, PostEventStays DEF PostsInv
    <2>8. threadRow' \subseteq Nat BY <1>3, <2>3 DEF PostsInv, Items
    <2>9. \A m \in messageRow' : \E t \in threadRow', i \in Items : m = <<t, i>>
        BY <1>3, <2>3 DEF PostsInv
    <2> QED BY <1>4, <2>6, <2>7, <2>8, <2>9 DEF PostsInv
<1> QED BY <1>5, <1>6 DEF Persist

\* The event is published.
LEMMA PublishPostKeeps ==
    ASSUME PostsInv, NEW p \in Callers, PublishChat(p)
    PROVE  PostsInv'
<1> PICK c : c = call[p] OBVIOUS
<1>1. c # Nothing /\ c.at = "publish" /\ c.op = "chat" BY DEF PublishChat, At
<1>2. PostCall(c) BY <1>1 DEF PostsInv, PostCalls, Posting
<1>3. /\ c \in ChatRequest /\ c.item \in Items /\ c.kind \in {"thread", "message", "artifact"}
      /\ IF c.kind = "thread" THEN c.item \in threadRow ELSE <<c.thread, c.item>> \in messageRow
    BY <1>1, <1>2 DEF PostCall
<1>4. UNCHANGED <<threadMem, threadRow, messageRow>> BY DEF PublishChat, chatMemory, chatRows
<1>5. published' \in {published, published \cup {<<c.kind, c.item>>}} BY DEF PublishChat
<1>6. PostEvent(<<c.kind, c.item>>)
    <2>1. CASE c.kind = "thread" BY <1>3, <2>1 DEF PostEvent
    <2>2. CASE c.kind # "thread"
        <3>1. PICK t \in threadRow, i \in Items : <<c.thread, c.item>> = <<t, i>>
            BY <1>3, <2>2 DEF PostsInv
        <3>2. c.thread \in threadRow BY <3>1
        <3> QED BY <1>3, <2>2, <3>2 DEF PostEvent
    <2> QED BY <2>1, <2>2
<1>7. \A e \in published' : PostEvent(e)'
    <2>1. PostEvent(<<c.kind, c.item>>)' BY <1>4, <1>6, PostEventStays
    <2>2. \A e \in published : PostEvent(e)' BY <1>4, PostEventStays DEF PostsInv
    <2> QED BY <1>5, <2>1, <2>2
<1>8. PostCalls' /\ DOMAIN call' = Callers
    <2>1. CASE Returns(p)
        BY <1>4, <2>1, PostCallsMove DEF PostsInv, Returns, Goes, Posting
    <2>2. CASE c.kind \in {"thread", "artifact"} /\ GoesTo(p, "project")
        <3> PICK r : r = [c EXCEPT !.at = "project"] OBVIOUS
        <3>1. r \in ChatRequest /\ r.kind = c.kind /\ r.at = "project" /\ r.item = c.item /\ r.thread = c.thread
            BY <1>3 DEF ChatRequest
        <3>2. call' = [call EXCEPT ![p] = r] BY <2>2 DEF GoesTo, Goes
        <3>3. PostCall(r)' BY <1>2, <1>3, <1>4, <2>2, <3>1 DEF PostCall
        <3> QED BY <1>4, <3>2, <3>3, PostCallsMove DEF PostsInv
    <2> QED BY <2>1, <2>2 DEF PublishChat
<1> QED BY <1>4, <1>7, <1>8 DEF PostsInv

\* The steps that agents' messages go through too.
LEMMA ChatStepsKeep ==
    ASSUME PostsInv, NEW p \in Callers, ChatSteps(p)
    PROVE  PostsInv'
<1>1. CASE ProjectDiscussion(p)
    <2>1. call' = [call EXCEPT ![p] = Nothing] /\ UNCHANGED chatVars
        BY <1>1 DEF ProjectDiscussion, Returns, Goes
    <2> QED BY <2>1, PostsFrame DEF chatVars, Posting
<1>2. CASE PutMessage(p) \/ Persist(p) \/ PublishChat(p)
    BY <1>2, PutPostKeeps, PersistPostKeeps, PublishPostKeeps
<1> QED BY <1>1, <1>2 DEF ChatSteps

\* Every step of the service of threads and messages.
LEMMA MessageNextKeeps ==
    ASSUME PostsInv, MessageNext
    PROVE  PostsInv'
<1>1. PICK p \in Callers :
        \/ ChatSteps(p) \/ PutThread(p)
        \/ \E u \in Users, i \in Items \cup {Nothing} : CreateThread(p, u, i)
        \/ \E u \in Users, i \in Items : CreateMessage(p, u, i)
    BY DEF MessageNext
<1>2. ASSUME NEW u \in Users, NEW i \in Items \cup {Nothing}, CreateThread(p, u, i) PROVE PostsInv'
    BY <1>2, CreateThreadKeeps
<1>3. ASSUME NEW u \in Users, NEW i \in Items, CreateMessage(p, u, i) PROVE PostsInv'
    BY <1>3, CreateMessageKeeps
<1> QED BY <1>1, <1>2, <1>3, ChatStepsKeep, PutPostKeeps

\* A restart leaves rows and events.
LEMMA PostsRestartKeeps ==
    ASSUME PostsInv, ChatRestart, GatewayRestart
    PROVE  PostsInv'
<1>1. /\ call' = [p \in Callers |-> Nothing] /\ threadMem' = {}
      /\ UNCHANGED <<threadRow, messageRow, published>>
    BY DEF ChatRestart, GatewayRestart, chatRows
<1>2. \A e \in published' : PostEvent(e)' BY <1>1, PostEventStays DEF PostsInv
<1> QED BY <1>1, <1>2 DEF PostsInv, PostCalls, Posting

\* The database that a gateway starts over.
LEMMA PostsInitHolds ==
    ASSUME ChatInit, call = [p \in Callers |-> Nothing]
    PROVE  PostsInv
<1>1. threadMem = {} /\ threadRow \subseteq Nat /\ messageRow = {} /\ published = {}
    BY DEF ChatInit
<1> QED BY <1>1 DEF PostsInv, PostCalls, Posting

-----------------------------------------------------------------------------
(* Secrets, looked up along the parents of a channel.                      *)

\* The order of the naturals, as a relation.
LEMMA Below == \A x \in Nat : \A y \in Nat : y < x => /\ <<y, x>> \in Nat \X Nat /\ <<y, x>>[1] < <<y, x>>[2]
OBVIOUS

\* A set of naturals that is not empty has a least element.
LEMMA LeastElement == ASSUME NEW T \in SUBSET Nat, T # {} PROVE \E x \in T : \A y \in T : x <= y
<1> SUFFICES ASSUME \A x \in T : \E y \in T : y < x PROVE FALSE
  OBVIOUS
<1>1. IsWellFoundedOn(OpToRel(<, Nat), Nat)
  BY NatLessThanWellFounded
<1>2. \A x \in Nat : \A y \in Nat : y < x => <<y, x>> \in OpToRel(<, Nat)
  BY Below, Zenon DEF OpToRel
<1>3. PICK x \in T : \A y \in T : ~ (<<y, x>> \in OpToRel(<, Nat))
  BY <1>1, WFMin
<1>4. PICK y \in T : y < x
  BY <1>3
<1> QED BY <1>2, <1>3, <1>4, Zenon

\* One step after the other: what a line of parents is.
LEMMA LineExists ==
    ASSUME NEW S, NEW P \in [S -> S], NEW c \in S
    PROVE  \E f \in [0 .. MaxRequests -> S] : f[0] = c /\ \A d \in 1 .. MaxRequests : f[d] = P[f[d - 1]]
<1> DEFINE Good(n) == \E f \in [0 .. n -> S] : f[0] = c /\ \A d \in 1 .. n : f[d] = P[f[d - 1]]
           Bad == {n \in Nat : ~Good(n)}
<1>1. SUFFICES ASSUME Bad # {} PROVE FALSE
    <2>1. MaxRequests \in Nat BY GatewayAssumption
    <2> QED BY <2>1
<1>2. PICK n \in Bad : \A k \in Bad : n <= k
    BY <1>1, LeastElement
<1>3. Good(0)
    <2> DEFINE z == [d \in 0 .. 0 |-> c]
    <2>1. z \in [0 .. 0 -> S] /\ z[0] = c OBVIOUS
    <2>2. \A d \in 1 .. 0 : FALSE OBVIOUS
    <2> HIDE DEF z
    <2> QED BY <2>1, <2>2
<1>4. n \in Nat /\ n # 0 /\ n - 1 \in Nat /\ Good(n - 1)
    <2> HIDE DEF Good
    <2>1. n \in Nat /\ n # 0 BY <1>2, <1>3
    <2>2. n - 1 \in Nat /\ ~(n <= n - 1) BY <2>1
    <2> QED BY <1>2, <2>1, <2>2
<1>5. PICK f \in [0 .. n - 1 -> S] : f[0] = c /\ \A d \in 1 .. n - 1 : f[d] = P[f[d - 1]]
    BY <1>4
<1> DEFINE g == [d \in 0 .. n |-> IF d = n THEN P[f[n - 1]] ELSE f[d]]
<1>6. \A d \in 0 .. n : d = n \/ d \in 0 .. n - 1
    BY <1>4
<1>7. f[n - 1] \in S /\ P[f[n - 1]] \in S
    BY <1>4, <1>5
<1>8. g \in [0 .. n -> S]
    BY <1>5, <1>6, <1>7
<1>9. g[0] = c /\ g[n] = P[f[n - 1]] /\ \A d \in 0 .. n - 1 : g[d] = f[d]
    BY <1>4, <1>5
<1>10. \A d \in 1 .. n : g[d] = P[g[d - 1]]
    <2> SUFFICES ASSUME NEW d \in 1 .. n PROVE g[d] = P[g[d - 1]] OBVIOUS
    <2> HIDE DEF g
    <2>1. CASE d = n BY <1>4, <1>9, <2>1
    <2>2. CASE d # n
        <3>1. d \in 0 .. n - 1 /\ d - 1 \in 0 .. n - 1 /\ d \in 1 .. n - 1 BY <1>4, <2>2
        <3> QED BY <1>5, <1>9, <3>1
    <2> QED BY <2>1, <2>2
<1> HIDE DEF g
<1>11. Good(n) BY <1>8, <1>9, <1>10
<1> QED BY <1>2, <1>11

\* A channel, its parent, the parent's parent and so on.
LEMMA LineIs ==
    ASSUME NEW c \in Items, \A i \in Items : Parent(i) \in Items \cup {Nothing}
    PROVE  /\ Line(c) \in [0 .. MaxRequests -> Items \cup {Nothing}]
           /\ Line(c)[0] = c
           /\ \A d \in 1 .. MaxRequests : Line(c)[d] = Parent(Line(c)[d - 1])
<1> DEFINE S == Items \cup {Nothing}
           P == [i \in S |-> Parent(i)]
           N == 0 .. MaxRequests
<1>1. Parent(Nothing) = Nothing BY DEF Parent
<1>2. P \in [S -> S] BY <1>1
<1>3. MaxRequests \in Nat BY GatewayAssumption
<1>4. PICK f \in [0 .. MaxRequests -> S] :
        f[0] = c /\ \A d \in 1 .. MaxRequests : f[d] = P[f[d - 1]]
    <2>1. c \in S OBVIOUS
    <2> HIDE DEF P, S
    <2> PICK R : R = S OBVIOUS
    <2> PICK Q \in [R -> R] : Q = P BY <1>2
    <2> PICK k \in R : k = c BY <2>1
    <2>3. \E f \in [0 .. MaxRequests -> R] : f[0] = k /\ \A d \in 1 .. MaxRequests : f[d] = Q[f[d - 1]]
        BY ONLY LineExists
    <2> QED BY <2>3
<1>5. \A d \in N : d # 0 => d \in 1 .. MaxRequests /\ d - 1 \in N
    BY <1>3
<1>6. f = [d \in N |-> IF d = 0 THEN c ELSE Parent(f[d - 1])]
    BY <1>4, <1>5
<1>7. Line(c) = CHOOSE line : line = [d \in N |-> IF d = 0 THEN c ELSE Parent(line[d - 1])]
    BY DEF Line
<1> PICK line : line = Line(c) OBVIOUS
<1>8. line = [d \in N |-> IF d = 0 THEN c ELSE Parent(line[d - 1])]
    BY <1>6, <1>7
<1>9. \A d \in N : line[d] \in S
    <2> DEFINE Bad == {d \in N : line[d] \notin S}
    <2>1. SUFFICES ASSUME Bad # {} PROVE FALSE OBVIOUS
    <2>2. Bad \in SUBSET Nat BY <1>3
    <2>3. PICK d \in Bad : \A e \in Bad : d <= e BY <2>1, <2>2, LeastElement
    <2>4. d # 0 /\ d \in N BY <1>3, <1>8, <2>3
    <2>5. d - 1 \in N /\ d - 1 \notin Bad BY <1>3, <2>3, <2>4
    <2>6. line[d] = Parent(line[d - 1]) BY <1>8, <2>4
    <2> QED BY <1>1, <2>3, <2>5, <2>6
<1>10. \A d \in 1 .. MaxRequests : d \in N /\ d # 0 BY <1>3
<1>11. 0 \in N BY <1>3
<1> QED BY <1>8, <1>9, <1>10, <1>11

\* A line that has ended has no more channels.
LEMMA LineEnds ==
    ASSUME NEW c \in Items, \A i \in Items : Parent(i) \in Items \cup {Nothing},
           NEW k \in 0 .. MaxRequests, Line(c)[k] = Nothing, NEW d \in 0 .. MaxRequests, k <= d
    PROVE  Line(c)[d] = Nothing
<1> DEFINE N == 0 .. MaxRequests
           Bad == {e \in N : k <= e /\ Line(c)[e] # Nothing}
<1>1. SUFFICES ASSUME Bad # {} PROVE FALSE OBVIOUS
<1>2. MaxRequests \in Nat BY GatewayAssumption
<1>3. Bad \in SUBSET Nat BY <1>2
<1>4. PICK e \in Bad : \A b \in Bad : e <= b BY <1>1, <1>3, LeastElement
<1>5. e \in N /\ e # k /\ k <= e /\ e - 1 \in N /\ k <= e - 1 /\ e \in 1 .. MaxRequests BY <1>2, <1>4
<1>6. e - 1 \notin Bad BY <1>4, <1>5
<1>7. Line(c)[e - 1] = Nothing BY <1>5, <1>6
<1>8. Line(c)[e] = Parent(Line(c)[e - 1]) BY <1>5, LineIs
<1>9. Parent(Nothing) = Nothing BY DEF Parent
<1> QED BY <1>4, <1>7, <1>8, <1>9

\* The secrets in memory, in the rows, and those that writes were answered for.
SecretTypes ==
    /\ secretMem \in [Items -> Secrets \cup {Nothing}]
    /\ secretRow \in [Items -> Secrets \cup {Nothing}]
    /\ settled \in [Items -> Secrets \cup {Nothing}]

\* Every request is one of the secrets.
SecretCalls == \A p \in Callers : call[p] # Nothing => call[p] \in SecretRequest

\* An answered write is in the row; until a channel is doubtful one request writes it, ahead of its row.
SecretSettled(c) ==
    /\ settled[c] # Nothing => secretRow[c] = settled[c]
    /\ c \notin doubtful =>
        /\ \A p, q \in Writing(c) : p = q
        /\ \A p \in Writing(c) : secretMem[c] = call[p].value
        /\ Writing(c) = {} => settled[c] = secretRow[c] /\ secretMem[c] \in {Nothing, secretRow[c]}

\* What the service of secrets keeps.
SecretsInv ==
    /\ DOMAIN call = Callers
    /\ SecretTypes /\ SecretCalls
    /\ \A c \in Items : SecretSettled(c)

\* The channels a secret is looked up in: one with a child, or none.
Parents ==
    \A c \in Items : Parent(c) = IF c = 2 /\ chanRow[2] # Nothing THEN 1 ELSE Nothing

\* A channel with a child, or none: where the lookup through parents may go.
LEMMA StillParents ==
    ASSUME ChannelsStill
    PROVE  Parents /\ \A c \in Items : Parent(c) \in Items \cup {Nothing}
<1> USE ChatAssumption
<1>1. \A c \in Items : Channel(c) = chanRow[c]
    BY DEF Channel, ChannelsStill, NoItems
<1>2. CASE chanRow = NoItems
    <2>1. \A c \in Items : Parent(c) = Nothing BY <1>1, <1>2 DEF Parent, NoItems
    <2>2. 2 \in Items => chanRow[2] = Nothing BY <1>2 DEF NoItems
    <2> QED BY <2>1, <2>2 DEF Parents
<1>3. CASE chanRow = [i \in Items |-> IF i > 2 THEN Nothing ELSE
                [config |-> {}, repos |-> {}, parent |-> IF i = 1 THEN Nothing ELSE 1]]
    <2> DEFINE value(i) == [config |-> {}, repos |-> {}, parent |-> IF i = 1 THEN Nothing ELSE 1]
    <2>1. ASSUME NEW c \in Items
          PROVE  /\ Parent(c) = IF c = 2 /\ chanRow[2] # Nothing THEN 1 ELSE Nothing
                 /\ Parent(c) \in Items \cup {Nothing}
        <3>1. c \in Nat /\ c >= 1 /\ 1 \in Items BY GatewayAssumption DEF Items
        <3>2. c # Nothing OBVIOUS
        <3>3. CASE c > 2 BY <1>1, <1>3, <3>1, <3>2, <3>3 DEF Parent
        <3>4. CASE c = 1
            <4>1. chanRow[1] = value(1) BY <1>3, <3>4
            <4>2. value(1).parent = Nothing OBVIOUS
            <4> QED BY <1>1, <3>2, <3>4, <4>1, <4>2 DEF Parent
        <3>5. CASE c = 2
            <4>1. chanRow[2] = value(2) BY <1>3, <3>5
            <4>2. value(2).parent = 1 OBVIOUS
            <4>3. value(2) \in ChannelValue BY <3>1 DEF ChannelValue
            <4>4. value(2) # Nothing BY <4>3
            <4> QED BY <1>1, <3>1, <3>2, <3>5, <4>1, <4>2, <4>4 DEF Parent
        <3> QED BY <3>1, <3>3, <3>4, <3>5
    <2> QED BY <2>1 DEF Parents
<1> QED BY <1>2, <1>3 DEF ChannelsStill, ChannelRows

\* A parent is a channel.
LEMMA TypedParents ==
    ASSUME ChannelTypes
    PROVE  \A c \in Items : Parent(c) \in Items \cup {Nothing}
BY ChannelValueOf DEF Parent, ChannelValue

\* Nothing to look up, nothing found.
LEMMA NothingHeld ==
    ASSUME \A c \in Items : Parent(c) \in Items \cup {Nothing},
           secretMem = NoItems, secretRow = NoItems, settled = NoItems
    PROVE  SecretsSettle
<1>1. \A c \in Items : Held(c) = Nothing /\ settled[c] = Nothing BY DEF Held, NoItems
<1>2. ASSUME NEW c \in Items PROVE Resolve(c) = Nothing
    <2>1. \A d \in 0 .. MaxRequests : Line(c)[d] \in Items \cup {Nothing} BY LineIs
    <2>2. {d \in 0 .. MaxRequests : Line(c)[d] # Nothing /\ Held(Line(c)[d]) # Nothing} = {}
        BY <1>1, <2>1
    <2>3. Source(c) = Nothing BY <2>2 DEF Source
    <2> QED BY <2>3 DEF Resolve
<1>3. OwnSecretsSettle BY <1>1 DEF OwnSecretsSettle
<1>4. ChildrenInherit BY <1>2 DEF ChildrenInherit
<1> QED BY <1>3, <1>4 DEF SecretsSettle

\* The source of a channel that holds the secret, and of one whose parents end.
LEMMA SourceOfLine ==
    ASSUME NEW c \in Items, \A i \in Items : Parent(i) \in Items \cup {Nothing},
           NEW k \in 0 .. MaxRequests,
           \A d \in 0 .. MaxRequests : d # k => Line(c)[d] = Nothing \/ Held(Line(c)[d]) = Nothing
    PROVE  Source(c) = IF Line(c)[k] # Nothing /\ Held(Line(c)[k]) # Nothing THEN Line(c)[k] ELSE Nothing
<1> DEFINE holders == {d \in 0 .. MaxRequests : Line(c)[d] # Nothing /\ Held(Line(c)[d]) # Nothing}
<1>1. holders \subseteq {k} OBVIOUS
<1>2. CASE k \in holders
    <2>1. holders = {k} BY <1>1, <1>2
    <2>2. k <= k OBVIOUS
    <2>3. (CHOOSE d \in holders : \A e \in holders : d <= e) = k BY <2>1, <2>2
    <2> QED BY <1>2, <2>1, <2>3 DEF Source
<1>3. CASE k \notin holders
    <2>1. holders = {} BY <1>1, <1>3
    <2>2. ~(Line(c)[k] # Nothing /\ Held(Line(c)[k]) # Nothing) BY <1>3
    <2> HIDE DEF holders
    <2>3. Source(c) = Nothing BY <2>1 DEF Source, holders
    <2> QED BY <2>2, <2>3
<1> QED BY <1>2, <1>3

\* The invariant says what the runs check of the secrets.
LEMMA SecretsSafe ==
    ASSUME SecretsInv, ChannelsStill PROVE SecretsSettle
<1>1. OwnSecretsSettle
    BY DEF OwnSecretsSettle, Certain, SecretsInv, SecretSettled, Held
<1>2. ChildrenInherit
    <2> SUFFICES ASSUME NEW c \in Items, Parent(c) # Nothing, Certain(c), settled[c] = Nothing
                 PROVE  Resolve(c) = Resolve(Parent(c))
        BY DEF ChildrenInherit
    <2>1. Parents /\ \A i \in Items : Parent(i) \in Items \cup {Nothing} BY StillParents
    <2>2. c = 2 /\ Parent(2) = 1 /\ 1 \in Items /\ 2 \in Items BY <2>1 DEF Parents
    <2>3. Parent(1) = Nothing BY <2>1, <2>2 DEF Parents
    <2>4. MaxRequests \in Nat /\ 2 <= MaxRequests BY <2>2, GatewayAssumption DEF Items
    <2>5. Held(2) = Nothing BY <1>1, <2>2 DEF OwnSecretsSettle
    <2>6. Line(2)[0] = 2 /\ Line(2)[1] = Parent(Line(2)[0]) /\ Line(2)[2] = Parent(Line(2)[1])
        <3>1. 1 \in 1 .. MaxRequests /\ 2 \in 1 .. MaxRequests /\ 1 - 1 = 0 /\ 2 - 1 = 1 BY <2>4
        <3>2. \A d \in 1 .. MaxRequests : Line(2)[d] = Parent(Line(2)[d - 1]) BY <2>1, <2>2, LineIs
        <3>3. Line(2)[0] = 2 BY <2>1, <2>2, LineIs
        <3>4. Line(2)[1] = Parent(Line(2)[1 - 1]) /\ Line(2)[2] = Parent(Line(2)[2 - 1]) BY <3>1, <3>2
        <3> QED BY <3>1, <3>3, <3>4
    <2>7. Line(2)[1] = 1 /\ Line(2)[2] = Nothing BY <2>2, <2>3, <2>6
    <2>8. Line(1)[0] = 1 /\ Line(1)[1] = Nothing
        <3>1. 1 \in 1 .. MaxRequests /\ 1 - 1 = 0 BY <2>4
        <3>2. Line(1)[0] = 1 BY <2>1, <2>2, LineIs
        <3>3. Line(1)[1] = Parent(Line(1)[1 - 1]) BY <2>1, <2>2, <3>1, LineIs
        <3> QED BY <2>3, <3>1, <3>2, <3>3
    <2>9. 0 \in 0 .. MaxRequests /\ 1 \in 0 .. MaxRequests /\ 2 \in 0 .. MaxRequests BY <2>4
    <2>10. \A d \in 0 .. MaxRequests : 2 <= d => Line(2)[d] = Nothing
        BY <2>1, <2>2, <2>7, <2>9, LineEnds
    <2>11. \A d \in 0 .. MaxRequests : 1 <= d => Line(1)[d] = Nothing
        BY <2>1, <2>2, <2>8, <2>9, LineEnds
    <2>12. \A d \in 0 .. MaxRequests : d # 1 => Line(2)[d] = Nothing \/ Held(Line(2)[d]) = Nothing
        <3>1. \A d \in 0 .. MaxRequests : d # 1 => d = 0 \/ 2 <= d BY <2>4
        <3> QED BY <2>5, <2>6, <2>10, <3>1
    <2>13. \A d \in 0 .. MaxRequests : d # 0 => Line(1)[d] = Nothing \/ Held(Line(1)[d]) = Nothing
        <3>1. \A d \in 0 .. MaxRequests : d # 0 => 1 <= d BY <2>4
        <3> QED BY <2>11, <3>1
    <2>14. Source(2) = IF Line(2)[1] # Nothing /\ Held(Line(2)[1]) # Nothing THEN Line(2)[1] ELSE Nothing
        BY <2>1, <2>2, <2>9, <2>12, SourceOfLine
    <2>15. Source(1) = IF Line(1)[0] # Nothing /\ Held(Line(1)[0]) # Nothing THEN Line(1)[0] ELSE Nothing
        BY <2>1, <2>2, <2>9, <2>13, SourceOfLine
    <2>16. Source(2) = Source(1) BY <2>7, <2>8, <2>14, <2>15
    <2> QED BY <2>2, <2>16 DEF Resolve
<1> QED BY <1>1, <1>2 DEF SecretsSettle

\* Who writes a channel's secret.
LEMMA WritingIs ==
    ASSUME NEW c, NEW p \in Callers
    PROVE  /\ p \in Writing(c) <=> call[p] # Nothing /\ call[p].op = "secret" /\ call[p].channel = c
           /\ p \in Writing(c)' <=> call'[p] # Nothing /\ call'[p].op = "secret" /\ call'[p].channel = c
BY DEF Writing

\* Request p of channel c begins or ends; the other channels keep what they have.
LEMMA SecretOther ==
    ASSUME SecretCalls, NEW p \in Callers, NEW r, DOMAIN call = Callers, call' = [call EXCEPT ![p] = r],
           NEW c \in Items, r = Nothing \/ r.channel # c, call[p] = Nothing \/ call[p].channel # c,
           SecretSettled(c), secretMem'[c] = secretMem[c], secretRow'[c] = secretRow[c],
           settled'[c] = settled[c], c \notin doubtful' => c \notin doubtful
    PROVE  SecretSettled(c)'
<1>1. DOMAIN call' = Callers /\ call'[p] = r /\ \A q \in Callers : q # p => call'[q] = call[q]
    BY CallMoves
<1>2. ASSUME NEW q \in Callers PROVE q \in Writing(c)' <=> q \in Writing(c)
    <2>1. CASE q = p BY <1>1, <2>1, WritingIs
    <2>2. CASE q # p
        <3>1. call'[q] = call[q] BY <1>1, <2>2
        <3> QED BY <3>1, WritingIs
    <2> QED BY <2>1, <2>2
<1>3. Writing(c)' = Writing(c) BY <1>2 DEF Writing
<1>4. \A q \in Writing(c) : q # p /\ call'[q] = call[q] BY <1>1 DEF Writing
<1> QED BY <1>3, <1>4 DEF SecretSettled

\* Who writes channel c next, where nobody else does.
LEMMA SecretOnly ==
    ASSUME NEW p \in Callers, NEW r, DOMAIN call = Callers, call' = [call EXCEPT ![p] = r],
           NEW c \in Items, Writing(c) \subseteq {p}
    PROVE  Writing(c)' = IF r # Nothing /\ r.op = "secret" /\ r.channel = c THEN {p} ELSE {}
<1>1. DOMAIN call' = Callers /\ call'[p] = r /\ \A q \in Callers : q # p => call'[q] = call[q]
    BY CallMoves
<1>2. ASSUME NEW q \in Callers, q # p PROVE q \notin Writing(c)'
    <2>1. call'[q] = call[q] /\ q \notin Writing(c) BY <1>1, <1>2
    <2> QED BY <2>1, WritingIs
<1>3. p \in Writing(c)' <=> r # Nothing /\ r.op = "secret" /\ r.channel = c
    BY <1>1, WritingIs
<1>4. Writing(c)' \subseteq Callers BY DEF Writing
<1> QED BY <1>2, <1>3, <1>4

\* A secret is set or deleted in memory.
LEMMA WriteSecretKeeps ==
    ASSUME SecretsInv, NEW p \in Callers, NEW u, NEW c \in Items, NEW value \in Secrets \cup {Nothing},
           WriteSecret(p, u, c, value)
    PROVE  SecretsInv'
<1> USE SecretAssumption
<1>0. DOMAIN call = Callers /\ SecretTypes /\ SecretCalls /\ \A d \in Items : SecretSettled(d)
    BY DEF SecretsInv
<1> PICK r : r = [op |-> "secret", at |-> "row", channel |-> c, value |-> value,
                  found |-> secretMem[c] # Nothing] OBVIOUS
<1>1. /\ call[p] = Nothing /\ call' = [call EXCEPT ![p] = r]
      /\ secretMem' = [secretMem EXCEPT ![c] = value]
      /\ doubtful' = IF Writing(c) = {} THEN doubtful \ {c} ELSE doubtful \cup {c}
      /\ UNCHANGED <<secretRow, settled>>
    BY DEF WriteSecret, Begins, Asks
<1>2. r \in SecretRequest /\ r.op = "secret" /\ r.channel = c /\ r.value = value
    <2>1. (secretMem[c] # Nothing) \in BOOLEAN OBVIOUS
    <2> QED BY <2>1 DEF SecretRequest
<1>3. r # Nothing BY <1>2
<1>4. DOMAIN call' = Callers /\ call'[p] = r /\ \A q \in Callers : q # p => call'[q] = call[q]
    BY <1>0, <1>1, CallMoves
<1>5. SecretCalls' BY <1>0, <1>2, <1>4 DEF SecretCalls
<1>6. /\ secretMem' \in [Items -> Secrets \cup {Nothing}] /\ secretMem'[c] = value
      /\ \A d \in Items \ {c} : secretMem'[d] = secretMem[d]
    BY <1>0, <1>1 DEF SecretTypes
<1>7. SecretTypes' BY <1>0, <1>1, <1>6 DEF SecretTypes
<1>8. ASSUME NEW d \in Items PROVE SecretSettled(d)'
    <2>1. CASE d # c
        <3>1. d \notin doubtful' => d \notin doubtful BY <1>1, <2>1
        <3> QED BY <1>0, <1>1, <1>2, <1>6, <2>1, <3>1, SecretOther
    <2>2. CASE d = c
        <3>1. settled'[c] # Nothing => secretRow'[c] = settled'[c] BY <1>0, <1>1 DEF SecretSettled
        <3>2. ASSUME c \notin doubtful' PROVE Writing(c)' = {p}
            <4>1. Writing(c) = {} BY <1>1, <3>2
            <4> QED BY <1>0, <1>1, <1>2, <1>3, <4>1, SecretOnly
        <3> QED BY <1>2, <1>4, <1>6, <2>2, <3>1, <3>2 DEF SecretSettled
    <2> QED BY <2>1, <2>2
<1> QED BY <1>4, <1>5, <1>7, <1>8 DEF SecretsInv

\* Its row is written or deleted, or that fails.
LEMMA SecretRowKeeps ==
    ASSUME SecretsInv, NEW p \in Callers, SetRow(p) \/ DeleteRow(p)
    PROVE  SecretsInv'
<1> USE SecretAssumption
<1>0. DOMAIN call = Callers /\ SecretTypes /\ SecretCalls /\ \A d \in Items : SecretSettled(d)
    BY DEF SecretsInv
<1> PICK k : k = call[p] OBVIOUS
<1>1. k # Nothing /\ k.op = "secret" BY DEF SetRow, DeleteRow, At
<1>2. k \in SecretRequest /\ k.channel \in Items /\ k.value \in Secrets \cup {Nothing}
    BY <1>0, <1>1 DEF SecretCalls, SecretRequest
<1> PICK c \in Items : c = k.channel BY <1>2
<1> PICK value \in Secrets \cup {Nothing} : value = k.value BY <1>2
<1>3. call' = [call EXCEPT ![p] = Nothing] /\ secretMem' = secretMem
    BY DEF SetRow, DeleteRow, Returns, Goes
<1>4. \/ /\ secretRow' = [secretRow EXCEPT ![c] = value] /\ settled' = [settled EXCEPT ![c] = value]
         /\ doubtful' = doubtful
      \/ doubtful' = doubtful \cup {c} /\ UNCHANGED <<secretRow, settled>>
      \/ settled' = [settled EXCEPT ![c] = Nothing] /\ doubtful' = doubtful \cup {c} /\ secretRow' = secretRow
      \/ value = Nothing /\ secretRow[c] = Nothing /\ UNCHANGED <<secretRow, settled, doubtful>>
    <2>1. CASE SetRow(p) BY <2>1 DEF SetRow, Writes
    <2>2. CASE DeleteRow(p)
        <3>1. value = Nothing BY <2>2 DEF DeleteRow
        <3> QED BY <2>2, <3>1 DEF DeleteRow, Writes
    <2> QED BY <2>1, <2>2
<1>5. DOMAIN call' = Callers /\ call'[p] = Nothing /\ \A q \in Callers : q # p => call'[q] = call[q]
    BY <1>0, <1>3, CallMoves
<1>6. SecretCalls' BY <1>0, <1>5 DEF SecretCalls
<1>7. SecretTypes' BY <1>0, <1>3, <1>4 DEF SecretTypes
<1>8. p \in Writing(c) BY <1>1, WritingIs
<1>9. ASSUME NEW d \in Items, d # c PROVE SecretSettled(d)'
    <2>1. secretRow'[d] = secretRow[d] /\ settled'[d] = settled[d] BY <1>0, <1>4, <1>9 DEF SecretTypes
    <2>2. d \notin doubtful' => d \notin doubtful BY <1>4, <1>9
    <2> QED BY <1>0, <1>3, <1>9, <2>1, <2>2, SecretOther
<1>10. ASSUME c \notin doubtful
       PROVE  Writing(c)' = {} /\ secretMem[c] = value
    <2>1. Writing(c) \subseteq {p} /\ secretMem[c] = value BY <1>0, <1>8, <1>10 DEF SecretSettled
    <2> QED BY <1>0, <1>3, <2>1, SecretOnly
<1>11. SecretSettled(c)'
    <2>1. CASE /\ secretRow' = [secretRow EXCEPT ![c] = value] /\ settled' = [settled EXCEPT ![c] = value]
               /\ doubtful' = doubtful
        <3>1. secretRow'[c] = value /\ settled'[c] = value BY <1>0, <2>1 DEF SecretTypes
        <3> QED BY <1>3, <1>10, <2>1, <3>1 DEF SecretSettled
    <2>2. CASE doubtful' = doubtful \cup {c} /\ UNCHANGED <<secretRow, settled>>
        BY <1>0, <2>2 DEF SecretSettled
    <2>3. CASE settled' = [settled EXCEPT ![c] = Nothing] /\ doubtful' = doubtful \cup {c} /\ secretRow' = secretRow
        <3>1. settled'[c] = Nothing BY <1>0, <2>3 DEF SecretTypes
        <3> QED BY <2>3, <3>1 DEF SecretSettled
    <2>4. CASE value = Nothing /\ secretRow[c] = Nothing /\ UNCHANGED <<secretRow, settled, doubtful>>
        <3>1. settled[c] = Nothing BY <1>0, <2>4 DEF SecretSettled
        <3> QED BY <1>3, <1>10, <2>4, <3>1 DEF SecretSettled
    <2> QED BY <1>4, <2>1, <2>2, <2>3, <2>4
<1> QED BY <1>5, <1>6, <1>7, <1>9, <1>11 DEF SecretsInv

\* Every step of the service of secrets.
LEMMA SecretNextKeeps ==
    ASSUME SecretsInv, SecretNext
    PROVE  SecretsInv'
<1>1. ASSUME NEW p \in Callers, NEW u, NEW c \in Items, SetSecret(p, u, c) PROVE SecretsInv'
    BY <1>1, WriteSecretKeeps DEF SetSecret
<1>2. ASSUME NEW p \in Callers, NEW u, NEW c \in Items, DeleteSecret(p, u, c) PROVE SecretsInv'
    BY <1>2, WriteSecretKeeps DEF DeleteSecret
<1>3. ASSUME NEW p \in Callers, SetRow(p) \/ DeleteRow(p) PROVE SecretsInv'
    BY <1>3, SecretRowKeeps
<1> QED BY <1>1, <1>2, <1>3 DEF SecretNext

\* A restart empties the memory, and leaves in doubt what was being written.
LEMMA SecretRestartKeeps ==
    ASSUME SecretsInv, SecretRestart, GatewayRestart
    PROVE  SecretsInv'
<1>1. /\ secretMem' = NoItems /\ UNCHANGED <<secretRow, settled>>
      /\ doubtful' = doubtful \cup {c \in Items : Writing(c) # {}}
      /\ call' = [p \in Callers |-> Nothing]
    BY DEF SecretRestart, GatewayRestart
<1>2. SecretTypes' BY <1>1 DEF SecretsInv, SecretTypes, NoItems
<1>3. ASSUME NEW c \in Items PROVE SecretSettled(c)'
    <2>1. Writing(c)' = {} BY <1>1 DEF Writing
    <2>2. secretMem'[c] = Nothing BY <1>1 DEF NoItems
    <2>3. c \notin doubtful' => c \notin doubtful /\ Writing(c) = {} BY <1>1
    <2> QED BY <1>1, <2>1, <2>2, <2>3 DEF SecretsInv, SecretSettled
<1> QED BY <1>1, <1>2, <1>3 DEF SecretsInv, SecretCalls

\* A gateway starts without secrets.
LEMMA SecretsInitHolds ==
    ASSUME SecretInit, call = [p \in Callers |-> Nothing]
    PROVE  SecretsInv
<1>1. secretMem = NoItems /\ secretRow = NoItems /\ settled = NoItems /\ doubtful = {} BY DEF SecretInit
<1>2. ASSUME NEW c \in Items PROVE SecretSettled(c)
    <2>1. Writing(c) = {} BY DEF Writing
    <2>2. secretMem[c] = Nothing /\ secretRow[c] = Nothing /\ settled[c] = Nothing BY <1>1 DEF NoItems
    <2> QED BY <2>1, <2>2 DEF SecretSettled
<1> QED BY <1>1, <1>2 DEF SecretsInv, SecretTypes, SecretCalls, NoItems

-----------------------------------------------------------------------------
(* What is left alone by the clients of threads and messages.              *)

\* What a step of a post does to the rest of the gateway: its request goes on as a post or ends,
\* the channels stay, and rows are only added.
LEMMA ChatStepIs ==
    ASSUME PostsInv, NEW p \in Callers, ChatSteps(p)
    PROVE  /\ Posting(call[p])
           /\ \E r : call' = [call EXCEPT ![p] = r] /\ (r = Nothing \/ Posting(r))
           /\ UNCHANGED <<chanMem, chanRow, requests, restarts, edgeRow, edgeSeq>>
           /\ threadRow \subseteq threadRow' /\ messageRow \subseteq messageRow'
<1> PICK c : c = call[p] OBVIOUS
<1>1. Posting(c)
    BY DEF ChatSteps, ProjectDiscussion, PutMessage, Persist, PublishChat, At, Posting
<1>2. PostCall(c) BY <1>1 DEF PostsInv, PostCalls
<1>3. c \in ChatRequest /\ c.kind \in {"thread", "message", "artifact"} BY <1>2 DEF PostCall
<1>4. ASSUME NEW step PROVE Posting([c EXCEPT !.at = step]) \/ [c EXCEPT !.at = step] = Nothing
    BY <1>3 DEF Posting, ChatRequest
<1>5. ASSUME NEW step, NEW i PROVE Posting([c EXCEPT !.at = step, !.item = i])
                                    \/ [c EXCEPT !.at = step, !.item = i] = Nothing
    BY <1>3 DEF Posting, ChatRequest
<1>6. CASE ProjectDiscussion(p)
    BY <1>1, <1>6 DEF ProjectDiscussion, Returns, Goes, chatVars
<1>7. CASE PutMessage(p) /\ UNCHANGED graphVars
    <2>1. PICK i : call' = [call EXCEPT ![p] = [c EXCEPT !.at = "insert", !.item = i]]
        BY <1>7 DEF PutMessage, Goes
    <2>2. UNCHANGED <<chanMem, chanRow, requests, restarts, edgeRow, edgeSeq, threadRow, messageRow>>
        BY <1>7 DEF PutMessage, Goes, chatRows, graphVars
    <2> QED BY <1>1, <1>5, <2>1, <2>2
<1>8. CASE Persist(p) /\ UNCHANGED graphVars
    <2>1. UNCHANGED <<chanMem, requests, restarts, edgeRow, edgeSeq>>
        BY <1>8 DEF Persist, chatMemory, graphVars, GoesTo, Returns, Goes
    <2>2. CASE Returns(p) /\ UNCHANGED chatRows
        BY <1>1, <2>1, <2>2 DEF Returns, Goes, chatRows
    <2>3. CASE Insert(c) /\ GoesTo(p, "publish")
        <3>1. chanRow' = chanRow /\ threadRow \subseteq threadRow' /\ messageRow \subseteq messageRow'
            BY <1>3, <2>3 DEF Insert, InsertChannel, ChangeRow, InsertThread, InsertMessage
        <3>2. call' = [call EXCEPT ![p] = [c EXCEPT !.at = "publish"]] BY <2>3 DEF GoesTo, Goes
        <3> QED BY <1>1, <1>4, <2>1, <3>1, <3>2
    <2> QED BY <1>8, <2>2, <2>3 DEF Persist
<1>9. CASE PublishChat(p) /\ UNCHANGED graphVars
    <2>1. UNCHANGED <<chanMem, chanRow, requests, restarts, edgeRow, edgeSeq, threadRow, messageRow>>
        BY <1>9 DEF PublishChat, chatMemory, chatRows, graphVars, GoesTo, Returns, Goes
    <2>2. \/ call' = [call EXCEPT ![p] = Nothing]
          \/ call' = [call EXCEPT ![p] = [c EXCEPT !.at = "project"]]
        BY <1>9 DEF PublishChat, GoesTo, Returns, Goes
    <2> QED BY <1>1, <1>4, <2>1, <2>2
<1> QED BY <1>6, <1>7, <1>8, <1>9 DEF ChatSteps

\* They stay so when no row changes and memory is left or emptied.
LEMMA ChannelsStillKeep ==
    ASSUME ChannelsStill, UNCHANGED chanRow, chanMem' \in {chanMem, NoItems} PROVE ChannelsStill'
BY DEF ChannelsStill, ChannelRows, NoItems

\* What a client of threads and messages does to the rest.
LEMMA MessageStepIs ==
    ASSUME PostsInv, MessageNext
    PROVE  /\ \E p \in Callers : \E r : call' = [call EXCEPT ![p] = r] /\ (r = Nothing \/ Posting(r))
           /\ UNCHANGED <<chanMem, chanRow, restarts, edgeRow, edgeSeq>>
           /\ threadRow \subseteq threadRow' /\ messageRow \subseteq messageRow'
<1>1. PICK p \in Callers :
        \/ ChatSteps(p)
        \/ PutThread(p) /\ UNCHANGED graphVars
        \/ (\E u \in Users, i \in Items \cup {Nothing} : CreateThread(p, u, i)) /\ UNCHANGED graphVars
        \/ (\E u \in Users, i \in Items : CreateMessage(p, u, i)) /\ UNCHANGED graphVars
    BY DEF MessageNext
<1>2. CASE ChatSteps(p) BY <1>2, ChatStepIs
<1>3. CASE PutThread(p) /\ UNCHANGED graphVars
    <2> PICK c : c = call[p] OBVIOUS
    <2>1. Posting(c) BY <1>3 DEF PutThread, At, Posting
    <2>2. c \in ChatRequest BY <2>1 DEF PostsInv, PostCalls, PostCall
    <2>3. PICK i : call' = [call EXCEPT ![p] = [c EXCEPT !.at = "insert", !.item = i]]
        BY <1>3 DEF PutThread, Goes
    <2>4. Posting([c EXCEPT !.at = "insert", !.item = i]) \/ [c EXCEPT !.at = "insert", !.item = i] = Nothing
        BY <2>1, <2>2 DEF Posting, ChatRequest
    <2>5. UNCHANGED <<chanMem, chanRow, restarts, edgeRow, edgeSeq, threadRow, messageRow>>
        BY <1>3 DEF PutThread, Goes, chatRows, graphVars
    <2> QED BY <2>3, <2>4, <2>5
<1>4. ASSUME NEW r, Begins(p, r), r = Nothing \/ Posting(r), UNCHANGED <<chatVars, graphVars>>
      PROVE  /\ \E s : call' = [call EXCEPT ![p] = s] /\ (s = Nothing \/ Posting(s))
             /\ UNCHANGED <<chanMem, chanRow, restarts, edgeRow, edgeSeq>>
             /\ threadRow \subseteq threadRow' /\ messageRow \subseteq messageRow'
    BY <1>4 DEF Begins, Asks, chatVars, graphVars
<1>5. Posting(Chat("thread")) \/ Chat("thread") = Nothing BY DEF Posting, Chat
<1>6. ASSUME NEW t PROVE Posting([Chat("message") EXCEPT !.thread = t]) \/ [Chat("message") EXCEPT !.thread = t] = Nothing
    BY DEF Posting, Chat
<1>7. CASE (\E u \in Users, i \in Items \cup {Nothing} : CreateThread(p, u, i)) /\ UNCHANGED graphVars
    <2>1. Begins(p, Chat("thread")) /\ UNCHANGED <<chatVars, graphVars>> BY <1>7 DEF CreateThread
    <2> QED BY <1>4, <1>5, <2>1
<1>8. CASE (\E u \in Users, i \in Items : CreateMessage(p, u, i)) /\ UNCHANGED graphVars
    <2>1. PICK i : Begins(p, [Chat("message") EXCEPT !.thread = i]) /\ UNCHANGED <<chatVars, graphVars>>
        BY <1>8 DEF CreateMessage
    <2> QED BY <1>4, <1>6, <2>1
<1> QED BY <1>1, <1>2, <1>3, <1>7, <1>8

-----------------------------------------------------------------------------
(* The nodes of the graph.                                                 *)

\* Rows are only ever added.
RowsGrow ==
    /\ \A w \in Workspaces : resRow[w] \subseteq resRow'[w]
    /\ threadRow \subseteq threadRow' /\ messageRow \subseteq messageRow'
    /\ taskRow # Nothing => taskRow' # Nothing

\* The nodes of the connected resources.
LEMMA ResourceNodes ==
    ASSUME NEW W, NEW R, NEW id
    PROVE  id \in UNION {{<<"resource", w, x>> : x \in R[w]} : w \in W} <=>
            \E w \in W : \E x \in R[w] : id = <<"resource", w, x>>
<1>1. \A w \in W : id \in {<<"resource", w, x>> : x \in R[w]} <=> \E x \in R[w] : id = <<"resource", w, x>>
    OBVIOUS
<1> QED BY <1>1

\* What is stored: resources, threads and the task.
LEMMA StoredIs ==
    ASSUME NEW id
    PROVE  /\ id \in Stored <=>
                \/ \E w \in Workspaces : \E x \in resRow[w] : id = <<"resource", w, x>>
                \/ \E i \in threadRow : id = <<"discussion", i>>
                \/ taskRow # Nothing /\ id = TaskNode
           /\ id \in Stored' <=>
                \/ \E w \in Workspaces : \E x \in resRow'[w] : id = <<"resource", w, x>>
                \/ \E i \in threadRow' : id = <<"discussion", i>>
                \/ taskRow' # Nothing /\ id = TaskNode
<1>1. /\ id \in StoredTask <=> taskRow # Nothing /\ id = TaskNode
      /\ id \in StoredTask' <=> taskRow' # Nothing /\ id = TaskNode
    BY DEF StoredTask, TaskNode
<1> QED BY <1>1, ResourceNodes DEF Stored

\* With the rows grows what is stored.
LEMMA StoredGrows ==
    ASSUME RowsGrow PROVE Stored \subseteq Stored'
<1> SUFFICES ASSUME NEW CONSTANT id, id \in Stored PROVE id \in Stored' OBVIOUS
<1>1. \/ \E w \in Workspaces : \E x \in resRow'[w] : id = <<"resource", w, x>>
      \/ \E i \in threadRow' : id = <<"discussion", i>>
      \/ taskRow' # Nothing /\ id = TaskNode
    BY StoredIs DEF RowsGrow
<1> QED BY <1>1, StoredIs

\* A node that is projected is stored, and one that is shared has its message.
HonestNode(id) ==
    /\ id[1] \in {"resource", "discussion", "task"} => id \in Stored
    /\ id[1] = "artifact" => \E m \in messageRow : m[2] = id[2]

\* An honest graph without a new node stays honest.
LEMMA HonestStays ==
    ASSUME GraphHonest, RowsGrow, DOMAIN nodeRow' \subseteq DOMAIN nodeRow
    PROVE  GraphHonest'
<1> SUFFICES ASSUME NEW id \in DOMAIN nodeRow' PROVE HonestNode(id)'
    BY DEF GraphHonest, HonestNode
<1>1. HonestNode(id) BY DEF GraphHonest, HonestNode
<1>2. Stored \subseteq Stored' BY StoredGrows
<1>3. messageRow \subseteq messageRow' BY DEF RowsGrow
<1> QED BY <1>1, <1>2, <1>3 DEF HonestNode

\* So does one with a new node that is stored.
LEMMA HonestNew ==
    ASSUME GraphHonest, RowsGrow, NEW CONSTANT new, DOMAIN nodeRow' \subseteq DOMAIN nodeRow \cup {new},
           HonestNode(new)'
    PROVE  GraphHonest'
<1> SUFFICES ASSUME NEW id \in DOMAIN nodeRow' PROVE HonestNode(id)'
    BY DEF GraphHonest, HonestNode
<1>1. CASE id \in DOMAIN nodeRow
    <2>1. HonestNode(id) BY <1>1 DEF GraphHonest, HonestNode
    <2>2. Stored \subseteq Stored' BY StoredGrows
    <2>3. messageRow \subseteq messageRow' BY DEF RowsGrow
    <2> QED BY <2>1, <2>2, <2>3 DEF HonestNode
<1> QED BY <1>1

\* The nodes stay, or one is upserted.
LEMMA WithNodeIs ==
    ASSUME NEW id, NEW status, nodeRow' = WithNode(id, status)
    PROVE  /\ DOMAIN nodeRow' = DOMAIN nodeRow \cup {id} /\ nodeRow'[id] = status
           /\ \A x \in DOMAIN nodeRow : x # id => nodeRow'[x] = nodeRow[x]
BY DEF WithNode, With

\* A projection upserts its node, or the graph admits that it lacks it.
LEMMA ProjectsIs ==
    ASSUME NEW id, NEW status, Projects(id, status)
    PROVE  /\ DOMAIN nodeRow \subseteq DOMAIN nodeRow' /\ DOMAIN nodeRow' \subseteq DOMAIN nodeRow \cup {id}
           /\ unprojected \subseteq unprojected' /\ id \in DOMAIN nodeRow' \cup unprojected'
           /\ \A x \in DOMAIN nodeRow : x # id => nodeRow'[x] = nodeRow[x]
<1>1. CASE nodeRow' = WithNode(id, status) /\ UNCHANGED unprojected
    BY <1>1, WithNodeIs
<1>2. CASE unprojected' = unprojected \cup {id} /\ UNCHANGED nodeRow BY <1>2
<1> QED BY <1>1, <1>2 DEF Projects

\* A start of the gateway leaves a node for whatever is stored, and nothing else that is new.
LEMMA GraphRestartIs ==
    ASSUME GraphRestart
    PROVE  /\ DOMAIN nodeRow' = DOMAIN nodeRow \cup Stored
           /\ \A id \in DOMAIN nodeRow : nodeRow'[id] = nodeRow[id]
           /\ \A id \in Stored \ DOMAIN nodeRow : nodeRow'[id] = Backfilled(id)
BY DEF GraphRestart, HasNode

\* What a start of the gateway adds to the graph is stored.
LEMMA HonestRestart ==
    ASSUME GraphHonest, GraphRestart, UNCHANGED <<resRow, threadRow, messageRow, taskRow>>
    PROVE  GraphHonest'
<1>1. Stored' = Stored BY DEF Stored, StoredTask
<1> SUFFICES ASSUME NEW id \in DOMAIN nodeRow' PROVE HonestNode(id)'
    BY DEF GraphHonest, HonestNode
<1>2. CASE id \in DOMAIN nodeRow
    <2>1. HonestNode(id) BY <1>2 DEF GraphHonest, HonestNode
    <2> QED BY <1>1, <2>1 DEF HonestNode
<1>3. CASE id \in Stored
    <2>1. id[1] # "artifact" BY <1>3, StoredIs DEF TaskNode
    <2> QED BY <1>1, <1>3, <2>1 DEF HonestNode
<1> QED BY <1>2, <1>3, GraphRestartIs

\* What the graph has of a node, or admits to lack.
Covered(id) == HasNode(id) \/ id \in unprojected

\* The graph has every resource a client was told is connected, ...
ResourcesCovered ==
    \A w \in Workspaces, x \in Resources : <<w, x>> \in memberAcked => Covered(<<"resource", w, x>>)

\* Request p is about to project thread i.
Projecting(p, i) == At(p, "chat", "project") /\ call[p].kind = "thread" /\ call[p].item = i

\* The graph has thread i, or is about to.
ThreadCovered(i) == Covered(<<"discussion", i>>) \/ \E p \in Callers : Projecting(p, i)

\* ... and every thread that was published.
ThreadsCovered == \A i \in Items : <<"thread", i>> \in published => ThreadCovered(i)

\* Nodes are only ever added, and what is missing stays known.
GraphGrows == DOMAIN nodeRow \subseteq DOMAIN nodeRow' /\ unprojected \subseteq unprojected'

\* What is covered stays covered.
LEMMA CoveredStays ==
    ASSUME GraphGrows, NEW id, Covered(id) PROVE Covered(id)'
BY DEF GraphGrows, Covered, HasNode

\* A graph that is left alone grows.
LEMMA GraphStays ==
    ASSUME UNCHANGED graphVars PROVE GraphGrows
BY DEF graphVars, GraphGrows

\* A projection covers its node.
LEMMA ProjectsGrow ==
    ASSUME NEW id, NEW status, Projects(id, status) PROVE GraphGrows /\ Covered(id)'
BY ProjectsIs DEF GraphGrows, Covered, HasNode

\* A resource that is acknowledged is no role that is.
LEMMA PairIsNoTriple ==
    ASSUME NEW a, NEW b, NEW c, NEW d, NEW e PROVE <<a, b>> # <<c, d, e>>
<1> SUFFICES ASSUME <<a, b>> = <<c, d, e>> PROVE FALSE OBVIOUS
<1>1. Len(<<a, b>>) = 2 /\ Len(<<c, d, e>>) = 3 OBVIOUS
<1> QED BY <1>1

\* A request of the members that connects nothing.
LEMMA MemberStepIs ==
    ASSUME NEW p \in Callers,
           \/ Hydrate(p) \/ InviteLoad(p) \/ InviteDecide(p)
           \/ \E u \in Users :
                \/ ListWorkspaces(p, u)
                \/ \E n \in Names : CreateWorkspace(p, u, n)
                \/ \E w \in Workspaces :
                    \/ GetWorkspace(p, u, w)
                    \/ \E target \in Users, role \in Roles : Invite(p, u, w, target, role)
                    \/ \E x \in Resources : Connect(p, u, w, x)
    PROVE  resRow' = resRow /\ \A w, x : <<w, x>> \in memberAcked' => <<w, x>> \in memberAcked
<1>1. CASE Hydrate(p) BY <1>1 DEF Hydrate, memberRows, memberHistory
<1>2. CASE InviteLoad(p) BY <1>2 DEF InviteLoad, memberRows, memberHistory
<1>3. CASE InviteDecide(p)
    <2>1. resRow' = resRow BY <1>3 DEF InviteDecide
    <2>2. \E w, u, r : memberAcked' \in {memberAcked, memberAcked \cup {<<w, u, r>>}}
        <3> PICK c : c = call[p] OBVIOUS
        <3>1. \/ UNCHANGED memberHistory
              \/ memberAcked' = memberAcked \cup {<<c.ws, c.target, c.role>>}
              \/ UNCHANGED memberAcked
            BY <1>3 DEF InviteDecide
        <3> QED BY <3>1 DEF memberHistory
    <2> QED BY <2>1, <2>2, PairIsNoTriple
<1>4. ASSUME NEW u \in Users, NEW n \in Names, CreateWorkspace(p, u, n)
      PROVE  resRow' = resRow /\ \A w, x : <<w, x>> \in memberAcked' => <<w, x>> \in memberAcked
    <2>1. resRow' = resRow BY <1>4 DEF CreateWorkspace
    <2>2. \E w, v, r : memberAcked' \in {memberAcked, memberAcked \cup {<<w, v, r>>}}
        BY <1>4 DEF CreateWorkspace
    <2> QED BY <2>1, <2>2, PairIsNoTriple
<1>5. CASE UNCHANGED memberVars BY <1>5 DEF memberVars
<1>6. ASSUME NEW u \in Users, NEW w \in Workspaces,
             ListWorkspaces(p, u) \/ GetWorkspace(p, u, w)
      PROVE  UNCHANGED memberVars
    BY <1>6 DEF ListWorkspaces, GetWorkspace, ReadRows
<1>7. ASSUME NEW u \in Users, ListWorkspaces(p, u) PROVE UNCHANGED memberVars
    BY <1>7 DEF ListWorkspaces, ReadRows
<1>8. ASSUME NEW u \in Users, NEW w \in Workspaces, NEW target \in Users, NEW role \in Roles,
             Invite(p, u, w, target, role)
      PROVE  UNCHANGED memberVars
    BY <1>8 DEF Invite
<1>9. ASSUME NEW u \in Users, NEW w \in Workspaces, NEW x \in Resources, Connect(p, u, w, x)
      PROVE  UNCHANGED memberVars
    BY <1>9 DEF Connect, ReadRows
<1> QED BY <1>1, <1>2, <1>3, <1>4, <1>5, <1>6, <1>7, <1>8, <1>9

\* A resource is projected with its row.
LEMMA MembersGraphKeeps ==
    ASSUME MembersInv, GraphHonest, ResourcesCovered, MembersNext, UNCHANGED <<chatVars, taskVars>>
    PROVE  GraphHonest' /\ ResourcesCovered'
<1>0. UNCHANGED <<threadRow, messageRow, taskRow>> BY DEF chatVars, taskVars
<1>1. ASSUME UNCHANGED <<graphVars, resRow>>, \A w, x : <<w, x>> \in memberAcked' => <<w, x>> \in memberAcked
      PROVE  GraphHonest' /\ ResourcesCovered'
    <2>1. RowsGrow /\ DOMAIN nodeRow' \subseteq DOMAIN nodeRow BY <1>0, <1>1 DEF RowsGrow, graphVars
    <2>2. GraphHonest' BY <2>1, HonestStays
    <2>3. ResourcesCovered' BY <1>1, GraphStays, CoveredStays DEF ResourcesCovered
    <2> QED BY <2>2, <2>3
<1>2. ASSUME NEW p \in Callers, ConnectDecide(p)
      PROVE  GraphHonest' /\ ResourcesCovered'
    <2> PICK c : c = call[p] OBVIOUS
    <2>1. MemberCall(c) /\ c.at = "connect"
        BY <1>2 DEF MembersInv, MemberCalls, ConnectDecide, At
    <2>2. c.ws \in Workspaces /\ c.resource \in Resources BY <2>1 DEF MemberCall
    <2> PICK w \in Workspaces, x \in Resources : w = c.ws /\ x = c.resource BY <2>2
    <2>3. \/ UNCHANGED <<resRow, memberAcked, nodeRow, unprojected>>
          \/ /\ InsertResource(w, x)
             /\ memberAcked' = memberAcked \cup {<<w, x>>}
             /\ Projects(<<"resource", w, x>>, "none")
        BY <1>2 DEF ConnectDecide
    <2>4. UNCHANGED <<edgeRow, edgeSeq>> BY <1>2 DEF ConnectDecide
    <2>5. CASE UNCHANGED <<resRow, memberAcked, nodeRow, unprojected>>
        BY <1>1, <2>4, <2>5 DEF graphVars
    <2>6. CASE /\ InsertResource(w, x)
               /\ memberAcked' = memberAcked \cup {<<w, x>>}
               /\ Projects(<<"resource", w, x>>, "none")
        <3>1. resRow \in [Workspaces -> SUBSET Resources] BY DEF MembersInv, MemberTypes
        <3>2. x \in resRow'[w] /\ \A v \in Workspaces : resRow[v] \subseteq resRow'[v]
            BY <2>6, <3>1 DEF InsertResource
        <3>3. RowsGrow BY <1>0, <3>2 DEF RowsGrow
        <3>4. <<"resource", w, x>> \in Stored' BY <3>2, StoredIs
        <3>5. HonestNode(<<"resource", w, x>>)' BY <3>4 DEF HonestNode
        <3>6. DOMAIN nodeRow' \subseteq DOMAIN nodeRow \cup {<<"resource", w, x>>}
            BY <2>6, ProjectsIs
        <3>7. GraphHonest' BY <3>3, <3>5, <3>6, HonestNew
        <3>8. GraphGrows /\ Covered(<<"resource", w, x>>)' BY <2>6, ProjectsGrow
        <3>9. ASSUME NEW v \in Workspaces, NEW y \in Resources, <<v, y>> \in memberAcked'
              PROVE  Covered(<<"resource", v, y>>)'
            <4>1. CASE <<v, y>> \in memberAcked
                BY <3>8, <4>1, CoveredStays DEF ResourcesCovered
            <4>2. CASE <<v, y>> = <<w, x>>
                <5>1. v = w /\ y = x BY <4>2
                <5> QED BY <3>8, <5>1
            <4> QED BY <2>6, <3>9, <4>1, <4>2
        <3> QED BY <3>7, <3>9 DEF ResourcesCovered
    <2> QED BY <2>3, <2>5, <2>6
<1>3. PICK p \in Callers :
        \/ ConnectDecide(p)
        \/ /\ UNCHANGED graphVars
           /\ \/ Hydrate(p) \/ InviteLoad(p) \/ InviteDecide(p)
              \/ \E u \in Users :
                    \/ ListWorkspaces(p, u)
                    \/ \E n \in Names : CreateWorkspace(p, u, n)
                    \/ \E w \in Workspaces :
                        \/ GetWorkspace(p, u, w)
                        \/ \E target \in Users, role \in Roles : Invite(p, u, w, target, role)
                        \/ \E x \in Resources : Connect(p, u, w, x)
    BY DEF MembersNext
<1> QED BY <1>1, <1>2, <1>3, MemberStepIs

\* A restart leaves a node for every row, so also for what had not been projected.
LEMMA MembersGraphRestart ==
    ASSUME MembersInv, GraphHonest, ResourcesCovered, MembersRestart, GraphRestart,
           UNCHANGED <<threadRow, messageRow, taskRow>>
    PROVE  GraphHonest' /\ ResourcesCovered'
<1>1. UNCHANGED <<resRow, memberAcked>> BY DEF MembersRestart, memberRows, memberHistory
<1>2. GraphHonest' BY <1>1, HonestRestart
<1>3. ASSUME NEW w \in Workspaces, NEW x \in Resources, <<w, x>> \in memberAcked
      PROVE  Covered(<<"resource", w, x>>)'
    <2>1. x \in resRow[w] BY <1>3 DEF MembersInv, MemberAcks
    <2>2. <<"resource", w, x>> \in Stored BY <2>1, StoredIs
    <2> QED BY <2>2, GraphRestartIs DEF Covered, HasNode
<1> QED BY <1>1, <1>2, <1>3 DEF ResourcesCovered

\* A request that does not project the thread moves on.
LEMMA ThreadMove ==
    ASSUME ThreadsCovered, DOMAIN call = Callers, NEW p \in Callers, NEW r, call' = [call EXCEPT ![p] = r],
           GraphGrows, NEW i \in Items, <<"thread", i>> \in published, ~Projecting(p, i)
    PROVE  ThreadCovered(i)'
<1>1. DOMAIN call' = Callers /\ call'[p] = r /\ \A q \in Callers : q # p => call'[q] = call[q]
    BY CallMoves
<1>2. ThreadCovered(i) BY DEF ThreadsCovered
<1>3. CASE Covered(<<"discussion", i>>)
    BY <1>3, CoveredStays DEF ThreadCovered
<1>4. ASSUME NEW q \in Callers, Projecting(q, i) PROVE ThreadCovered(i)'
    <2>1. q # p BY <1>4
    <2>2. call'[q] = call[q] BY <1>1, <2>1
    <2>3. Projecting(q, i)' BY <1>4, <2>2 DEF Projecting, At
    <2> QED BY <2>3 DEF ThreadCovered
<1> QED BY <1>2, <1>3, <1>4 DEF ThreadCovered

\* A step that publishes nothing and projects no thread.
LEMMA ThreadsFrame ==
    ASSUME ThreadsCovered, DOMAIN call = Callers, NEW p \in Callers, NEW r, call' = [call EXCEPT ![p] = r],
           GraphGrows, published' = published, ~(Posting(call[p]) /\ call[p].at = "project" /\ call[p].kind = "thread")
    PROVE  ThreadsCovered'
<1>1. ASSUME NEW i \in Items PROVE ~Projecting(p, i) BY DEF Projecting, At, Posting
<1> QED BY <1>1, ThreadMove DEF ThreadsCovered

\* A thread is projected.
LEMMA ProjectDiscussionKeeps ==
    ASSUME PostsInv, GraphHonest, ThreadsCovered, NEW p \in Callers, ProjectDiscussion(p),
           UNCHANGED <<resRow, taskRow>>
    PROVE  GraphHonest' /\ ThreadsCovered'
<1> PICK c : c = call[p] OBVIOUS
<1>1. Posting(c) /\ c.at = "project" /\ c.kind = "thread" BY DEF ProjectDiscussion, At, Posting
<1>2. c.item \in Items /\ c.item \in threadRow
    BY <1>1 DEF PostsInv, PostCalls, PostCall
<1> PICK j \in Items : j = c.item BY <1>2
<1>3. Projects(<<"discussion", j>>, "none") /\ UNCHANGED chatVars /\ call' = [call EXCEPT ![p] = Nothing]
    BY DEF ProjectDiscussion, Returns, Goes
<1>4. UNCHANGED <<threadRow, messageRow, published>> BY <1>3 DEF chatVars
<1>5. RowsGrow BY <1>4 DEF RowsGrow
<1>6. <<"discussion", j>> \in Stored' BY <1>2, <1>4, StoredIs
<1>7. HonestNode(<<"discussion", j>>)' BY <1>6 DEF HonestNode
<1>8. GraphHonest' BY <1>3, <1>5, <1>7, ProjectsIs, HonestNew
<1>9. GraphGrows /\ Covered(<<"discussion", j>>)' BY <1>3, ProjectsGrow
<1>10. ASSUME NEW i \in Items, <<"thread", i>> \in published' PROVE ThreadCovered(i)'
    <2>1. CASE i = j BY <1>9, <2>1 DEF ThreadCovered
    <2>2. CASE i # j
        <3>1. ~Projecting(p, i) BY <2>2 DEF Projecting
        <3>2. DOMAIN call = Callers BY DEF PostsInv
        <3> QED BY <1>3, <1>4, <1>9, <1>10, <3>1, <3>2, ThreadMove
    <2> QED BY <2>1, <2>2
<1> QED BY <1>8, <1>10 DEF ThreadsCovered

\* A thread is published, and about to be projected.
LEMMA PublishGraphKeeps ==
    ASSUME PostsInv, ThreadsCovered, NEW p \in Callers, PublishChat(p), UNCHANGED graphVars
    PROVE  ThreadsCovered'
<1> PICK c : c = call[p] OBVIOUS
<1>1. Posting(c) /\ c.at = "publish" BY DEF PublishChat, At, Posting
<1>2. c \in ChatRequest /\ c.item \in Items
    BY <1>1 DEF PostsInv, PostCalls, PostCall
<1>3. DOMAIN call = Callers BY DEF PostsInv
<1>4. GraphGrows BY GraphStays
<1>5. CASE published' = published
    <2>1. \E r : call' = [call EXCEPT ![p] = r] BY DEF PublishChat, Returns, GoesTo, Goes
    <2> QED BY <1>1, <1>3, <1>4, <1>5, <2>1, ThreadsFrame
<1>6. CASE /\ published' = published \cup {<<c.kind, c.item>>}
           /\ IF c.kind \in {"thread", "artifact"} THEN GoesTo(p, "project") ELSE Returns(p)
    <2> SUFFICES ASSUME NEW i \in Items, <<"thread", i>> \in published' PROVE ThreadCovered(i)'
        BY DEF ThreadsCovered
    <2>1. CASE <<"thread", i>> \in published
        <3>1. ~Projecting(p, i) BY <1>1 DEF Projecting, At
        <3>2. \E r : call' = [call EXCEPT ![p] = r] BY DEF PublishChat, Returns, GoesTo, Goes
        <3> QED BY <1>3, <1>4, <2>1, <3>1, <3>2, ThreadMove
    <2>2. CASE c.kind = "thread" /\ c.item = i
        <3> PICK r : r = [c EXCEPT !.at = "project"] OBVIOUS
        <3>1. r \in ChatRequest /\ r.at = "project" /\ r.kind = "thread" /\ r.item = i /\ r.op = "chat"
            BY <1>2, <2>2 DEF ChatRequest
        <3>2. r # Nothing BY <3>1, ChatAssumption
        <3>3. call' = [call EXCEPT ![p] = r] BY <1>6, <2>2 DEF GoesTo, Goes
        <3>4. call'[p] = r BY <1>3, <3>3
        <3>5. Projecting(p, i)' BY <3>1, <3>2, <3>4 DEF Projecting, At
        <3> QED BY <3>5 DEF ThreadCovered
    <2>3. <<"thread", i>> \in published \/ <<"thread", i>> = <<c.kind, c.item>> BY <1>6
    <2> QED BY <2>1, <2>2, <2>3
<1> QED BY <1>5, <1>6 DEF PublishChat

\* The steps of posts over the graph.
LEMMA PostsGraphKeep ==
    ASSUME PostsInv, GraphHonest, ThreadsCovered, NEW p \in Callers, ChatSteps(p), UNCHANGED <<resRow, taskRow>>
    PROVE  GraphHonest' /\ ThreadsCovered'
<1>1. CASE ProjectDiscussion(p) BY <1>1, ProjectDiscussionKeeps
<1>2. CASE UNCHANGED graphVars /\ (PutMessage(p) \/ Persist(p) \/ PublishChat(p))
    <2>1. RowsGrow BY ChatStepIs DEF RowsGrow
    <2>2. GraphHonest' BY <1>2, <2>1, HonestStays DEF graphVars
    <2>3. DOMAIN call = Callers BY DEF PostsInv
    <2>4. CASE PutMessage(p) \/ Persist(p)
        <3>1. call[p].at \in {"put", "insert"} /\ published' = published
            BY <2>4 DEF PutMessage, Persist, At
        <3>2. \E r : call' = [call EXCEPT ![p] = r] BY ChatStepIs
        <3> QED BY <1>2, <2>2, <2>3, <3>1, <3>2, GraphStays, ThreadsFrame
    <2>5. CASE PublishChat(p) BY <1>2, <2>2, <2>5, PublishGraphKeeps
    <2> QED BY <1>2, <2>4, <2>5
<1> QED BY <1>1, <1>2 DEF ChatSteps

\* Threads and messages over the graph.
LEMMA MessagesGraphKeep ==
    ASSUME PostsInv, GraphHonest, ThreadsCovered, MessageNext, UNCHANGED <<resRow, taskRow>>
    PROVE  GraphHonest' /\ ThreadsCovered'
<1>1. RowsGrow BY MessageStepIs DEF RowsGrow
<1>2. DOMAIN call = Callers BY DEF PostsInv
<1>3. ASSUME NEW p \in Callers, NEW r, call' = [call EXCEPT ![p] = r], UNCHANGED graphVars,
             published' = published, call[p] = Nothing \/ call[p].at = "put"
      PROVE  GraphHonest' /\ ThreadsCovered'
    <2>1. GraphHonest' BY <1>1, <1>3, HonestStays DEF graphVars
    <2>2. ThreadsCovered' BY <1>2, <1>3, GraphStays, ThreadsFrame DEF Posting
    <2> QED BY <2>1, <2>2
<1>4. PICK p \in Callers :
        \/ ChatSteps(p)
        \/ PutThread(p) /\ UNCHANGED graphVars
        \/ (\E u \in Users, i \in Items \cup {Nothing} : CreateThread(p, u, i)) /\ UNCHANGED graphVars
        \/ (\E u \in Users, i \in Items : CreateMessage(p, u, i)) /\ UNCHANGED graphVars
    BY DEF MessageNext
<1>5. CASE ChatSteps(p) BY <1>5, PostsGraphKeep
<1>6. CASE PutThread(p) /\ UNCHANGED graphVars
    <2>1. \E r : call' = [call EXCEPT ![p] = r] BY <1>6 DEF PutThread, Goes
    <2> QED BY <1>3, <1>6, <2>1 DEF PutThread, At
<1>7. CASE (\E u \in Users, i \in Items \cup {Nothing} : CreateThread(p, u, i)) /\ UNCHANGED graphVars
    <2>1. \E r : call' = [call EXCEPT ![p] = r] BY <1>7 DEF CreateThread, Begins
    <2>2. call[p] = Nothing /\ published' = published BY <1>7 DEF CreateThread, Begins, Asks, chatVars
    <2> QED BY <1>3, <1>7, <2>1, <2>2
<1>8. CASE (\E u \in Users, i \in Items : CreateMessage(p, u, i)) /\ UNCHANGED graphVars
    <2>1. \E r : call' = [call EXCEPT ![p] = r] BY <1>8 DEF CreateMessage, Begins
    <2>2. call[p] = Nothing /\ published' = published BY <1>8 DEF CreateMessage, Begins, Asks, chatVars
    <2> QED BY <1>3, <1>8, <2>1, <2>2
<1> QED BY <1>4, <1>5, <1>6, <1>7, <1>8

\* A restart leaves a node for every thread.
LEMMA PostsGraphRestart ==
    ASSUME PostsInv, GraphHonest, ThreadsCovered, ChatRestart, GraphRestart, UNCHANGED <<resRow, taskRow>>
    PROVE  GraphHonest' /\ ThreadsCovered'
<1>1. UNCHANGED <<threadRow, messageRow, published>> BY DEF ChatRestart, chatRows
<1>2. GraphHonest' BY <1>1, HonestRestart
<1>3. ASSUME NEW i \in Items, <<"thread", i>> \in published
      PROVE  ThreadCovered(i)'
    <2>1. PostEvent(<<"thread", i>>) BY <1>3 DEF PostsInv
    <2>2. i \in threadRow BY <2>1 DEF PostEvent
    <2>3. <<"discussion", i>> \in Stored BY <2>2, StoredIs
    <2> QED BY <2>3, GraphRestartIs DEF ThreadCovered, Covered, HasNode
<1> QED BY <1>1, <1>2, <1>3 DEF ThreadsCovered

-----------------------------------------------------------------------------
(* The agents' shared task.                                                *)

\* What a client of channels does to the other rows.
LEMMA ChannelRowsGrow ==
    ASSUME ChannelNext PROVE threadRow \subseteq threadRow' /\ messageRow \subseteq messageRow'
<1>1. PICK p \in Callers :
        \/ PutChannel(p) \/ ChangeChannel(p) \/ Persist(p) \/ PublishChat(p)
        \/ \E u \in Users :
            \/ \E parent \in Items \cup {Nothing}, repos \in SUBSET Resources, config \in SUBSET Keys :
                CreateChannel(p, u, parent, repos, config)
            \/ \E i \in Items, repos \in (SUBSET Resources) \cup {Nothing},
                    config \in (SUBSET Keys) \cup {Nothing} :
                UpdateChannel(p, u, i, repos, config)
    BY DEF ChannelNext
<1>2. CASE UNCHANGED chatRows BY <1>2 DEF chatRows
<1>3. CASE PutChannel(p) \/ ChangeChannel(p) \/ PublishChat(p)
    BY <1>2, <1>3 DEF PutChannel, ChangeChannel, PublishChat
<1>4. CASE Persist(p)
    BY <1>4 DEF Persist, Insert, InsertChannel, ChangeRow, InsertThread, InsertMessage, chatRows
<1>5. ASSUME NEW u, NEW parent, NEW repos, NEW config, CreateChannel(p, u, parent, repos, config)
      PROVE  threadRow \subseteq threadRow' /\ messageRow \subseteq messageRow'
    BY <1>5 DEF CreateChannel, chatVars
<1>6. ASSUME NEW u, NEW i, NEW repos, NEW config, UpdateChannel(p, u, i, repos, config)
      PROVE  threadRow \subseteq threadRow' /\ messageRow \subseteq messageRow'
    BY <1>6 DEF UpdateChannel, chatRows
<1> QED BY <1>1, <1>3, <1>4, <1>5, <1>6

\* The task's row, and the grants in rows and answers.
TaskTypes ==
    /\ taskRow \in TaskEntry \cup {Nothing}
    /\ grantRow \in [Users -> TaskRoles \cup {"expired", Nothing}]
    /\ granted \subseteq Users \X TaskRoles

\* A request that writes the task.
Tasking(c) == c # Nothing /\ c.op = "task"

\* One that prompts the agent.
Prompting(c) == Tasking(c) /\ c.at \in {"start", "startNode", "prompt", "end"}

\* One that has written the row and not yet the node.
Projected(c) == c.at \in {"startNode", "node"}

\* Who may prompt: the owner, or somebody who was told to have the right.
Entitled(u) ==
    \/ u = taskRow.owner
    \/ \E role \in TaskRoles : <<u, role>> \in granted /\ "task.contribute" \in TaskPermissions(role)

\* A request of the task: its status, and that it has the task's owner and the right to prompt.
TaskCall(c) ==
    /\ c \in TaskRequest
    /\ c.at \in {"start", "startNode", "prompt"} => c.status = "running"
    /\ c.at = "end" => c.status # "running"
    /\ c.at # "upsert" => taskRow # Nothing
    /\ c.at \in {"start", "startNode", "prompt", "end"} => c.owner = taskRow.owner /\ Entitled(c.user)

\* So every request.
TaskCalls == \A p \in Callers : Tasking(call[p]) => TaskCall(call[p])

\* A grant in the rows was answered; an answered one is there until it expires.
GrantsKept ==
    /\ \A u \in Users : grantRow[u] \in TaskRoles => <<u, grantRow[u]>> \in granted
    /\ \A u \in Users, role \in TaskRoles :
        <<u, role>> \in granted => grantRow[u] \in TaskRoles \cup {"expired"} /\ taskRow # Nothing

\* The node has the status of the row.
NodeShows == HasNode(TaskNode) /\ nodeRow[TaskNode] = taskRow.status

\* What is true of the row, the node and the one request that writes them, until something disturbs it.
TaskSynced ==
    ~disturbed =>
        /\ \A p, q \in Writers : p = q
        /\ \A p \in Writers : Projected(call[p]) => taskRow.status = call[p].status
        /\ taskRow # Nothing /\ (\A p \in Writers : ~Projected(call[p])) => NodeShows

\* The graph has the task, or is about to.
TaskCovered == taskRow # Nothing => Covered(TaskNode) \/ \E p \in Writers : Projected(call[p])

\* What the service of agent tasks keeps.
TasksInv ==
    /\ DOMAIN call = Callers
    /\ TaskTypes /\ TaskCalls /\ GrantsKept
    /\ RunningMeansWork /\ TaskSynced /\ TaskCovered

\* Who writes the task and who prompts.
LEMMA WritersAre ==
    /\ Writers \subseteq Callers /\ Prompts \subseteq Callers
    /\ Writers' \subseteq Callers /\ Prompts' \subseteq Callers
    /\ \A p \in Callers : /\ p \in Writers <=> Tasking(call[p])
                          /\ p \in Prompts <=> Prompting(call[p])
                          /\ p \in Writers' <=> Tasking(call'[p])
                          /\ p \in Prompts' <=> Prompting(call'[p])
BY DEF Writers, Prompts, Tasking, Prompting

\* The invariant says what the runs check of the task.
LEMMA TasksSafe ==
    ASSUME TasksInv
    PROVE  /\ OwnersDecide /\ RunningMeansWork /\ GraphFollowsTask
           /\ taskRow # Nothing /\ Writers = {} => Covered(TaskNode)
<1>1. ASSUME NEW p \in Prompts
      PROVE  /\ call[p].owner = taskRow.owner
             /\ \/ call[p].user = taskRow.owner
                \/ \E role \in TaskRoles :
                    <<call[p].user, role>> \in granted /\ "task.contribute" \in TaskPermissions(role)
    <2> PICK c : c = call[p] OBVIOUS
    <2>1. TaskCall(c) /\ c.at \in {"start", "startNode", "prompt", "end"}
        BY WritersAre DEF TasksInv, TaskCalls, Prompting
    <2> QED BY <2>1 DEF TaskCall, Entitled
<1>2. ASSUME NEW g \in granted PROVE Lists(g[1]) \/ grantRow[g[1]] = "expired"
    <2>1. PICK u \in Users, role \in TaskRoles : g = <<u, role>> BY DEF TasksInv, TaskTypes
    <2>2. g[1] = u BY <2>1
    <2>3. grantRow[u] \in TaskRoles \cup {"expired"} /\ taskRow # Nothing
        BY <2>1 DEF TasksInv, GrantsKept
    <2> QED BY <2>2, <2>3 DEF Lists
<1>3. OwnersDecide BY <1>1, <1>2 DEF OwnersDecide
<1>4. GraphFollowsTask BY DEF TasksInv, TaskSynced, GraphFollowsTask, NodeShows
<1>5. taskRow # Nothing /\ Writers = {} => Covered(TaskNode) BY DEF TasksInv, TaskCovered
<1> QED BY <1>3, <1>4, <1>5 DEF TasksInv

\* Whatever happens to the task, its owner stays, and grants are only added.
TaskKeeps ==
    /\ taskRow # Nothing => taskRow' # Nothing /\ taskRow'.owner = taskRow.owner
    /\ granted \subseteq granted'

\* What is true of a request stays true.
LEMMA TaskCallStays ==
    ASSUME NEW CONSTANT c, TaskCall(c), TaskKeeps PROVE TaskCall(c)'
<1>1. taskRow # Nothing => (Entitled(c.user) => Entitled(c.user)') BY DEF Entitled, TaskKeeps
<1> QED BY <1>1 DEF TaskCall, TaskKeeps

\* A request goes on with what is true of it; the others are as true as before.
LEMMA TaskCallsMove ==
    ASSUME TaskCalls, TaskKeeps, DOMAIN call = Callers, NEW p \in Callers, NEW CONSTANT r,
           call' = [call EXCEPT ![p] = r], Tasking(r) => TaskCall(r)'
    PROVE  TaskCalls' /\ DOMAIN call' = Callers
<1>1. DOMAIN call' = Callers /\ call'[p] = r /\ \A q \in Callers : q # p => call'[q] = call[q]
    BY CallMoves
<1>2. SUFFICES ASSUME NEW q \in Callers, Tasking(call'[q]) PROVE TaskCall(call[q])'
    BY <1>1 DEF TaskCalls, Tasking
<1>3. CASE q = p BY <1>1, <1>2, <1>3 DEF TaskCall, Entitled
<1>4. CASE q # p
    <2> PICK c : c = call[q] OBVIOUS
    <2>1. TaskCall(c) BY <1>1, <1>2, <1>4 DEF TaskCalls
    <2>2. TaskCall(c)' BY <2>1, TaskCallStays
    <2>3. call'[q] = c BY <1>1, <1>4
    <2> QED BY <2>2, <2>3
<1> QED BY <1>3, <1>4

\* The request of p begins, goes on or ends: who writes and who prompts then.
LEMMA WritersMove ==
    ASSUME DOMAIN call = Callers, NEW p \in Callers, NEW r, call' = [call EXCEPT ![p] = r]
    PROVE  /\ call'[p] = r /\ \A q \in Callers : q # p => call'[q] = call[q]
           /\ p \in Writers' <=> Tasking(r)
           /\ p \in Prompts' <=> Prompting(r)
           /\ \A q \in Callers : q # p => /\ q \in Writers' <=> q \in Writers
                                          /\ q \in Prompts' <=> q \in Prompts
<1>1. DOMAIN call' = Callers /\ call'[p] = r /\ \A q \in Callers : q # p => call'[q] = call[q]
    BY CallMoves
<1>2. p \in Writers' <=> Tasking(r) BY <1>1, WritersAre
<1>3. p \in Prompts' <=> Prompting(r) BY <1>1, WritersAre
<1>4. ASSUME NEW q \in Callers, q # p
      PROVE  /\ q \in Writers' <=> q \in Writers
             /\ q \in Prompts' <=> q \in Prompts
    <2>1. call'[q] = call[q] BY <1>1, <1>4
    <2> QED BY <2>1, WritersAre
<1> QED BY <1>1, <1>2, <1>3, <1>4

\* The requests that write the task stay, with the task and its node.
LEMMA TaskFrame ==
    ASSUME TasksInv, DOMAIN call' = Callers, TaskCalls', Writers' = Writers, Prompts' = Prompts,
           \A q \in Writers : call'[q] = call[q],
           UNCHANGED <<taskRow, excused, disturbed>>, TaskTypes', GrantsKept',
           GraphGrows, HasNode(TaskNode) => nodeRow'[TaskNode] = nodeRow[TaskNode]
    PROVE  TasksInv'
<1>0. TaskSynced /\ TaskCovered /\ RunningMeansWork BY DEF TasksInv
<1>7. NodeShows => NodeShows' BY DEF NodeShows, GraphGrows, HasNode
<1>8. \A q \in Writers : Projected(call'[q]) <=> Projected(call[q]) BY DEF Projected
<1>9. TaskSynced' BY <1>0, <1>7, <1>8 DEF TaskSynced, Projected
<1>10. Covered(TaskNode) => Covered(TaskNode)' BY CoveredStays DEF Covered, HasNode, TaskNode
<1>11. TaskCovered' BY <1>0, <1>8, <1>10 DEF TaskCovered, Projected
<1>12. RunningMeansWork' BY <1>0 DEF RunningMeansWork
<1> QED BY <1>9, <1>11, <1>12 DEF TasksInv

\* A request of another service moves on.
LEMMA OtherRequest ==
    ASSUME TasksInv, NEW p \in Callers, NEW CONSTANT r, call' = [call EXCEPT ![p] = r],
           ~Tasking(call[p]), ~Tasking(r),
           UNCHANGED <<taskVars>>,
           GraphGrows, HasNode(TaskNode) => nodeRow'[TaskNode] = nodeRow[TaskNode]
    PROVE  TasksInv'
<1>0. DOMAIN call = Callers /\ TaskCalls /\ TaskTypes /\ GrantsKept BY DEF TasksInv
<1>1. TaskKeeps BY DEF TaskKeeps, taskVars
<1>2. TaskCalls' /\ DOMAIN call' = Callers BY <1>0, <1>1, TaskCallsMove
<1>3. /\ p \notin Writers /\ p \notin Writers' /\ p \notin Prompts /\ p \notin Prompts'
    BY <1>0, WritersMove, WritersAre DEF Prompting
<1>4. Writers' = Writers /\ Prompts' = Prompts /\ \A q \in Writers : call'[q] = call[q]
    BY <1>0, <1>3, WritersMove, WritersAre
<1>5. TaskTypes' BY <1>0 DEF TaskTypes, taskVars
<1>6. GrantsKept' BY <1>0 DEF GrantsKept, taskVars
<1> QED BY <1>2, <1>4, <1>5, <1>6, TaskFrame DEF taskVars

\* No request moves.
LEMMA SameRequests ==
    ASSUME TasksInv, call' = call, UNCHANGED <<taskRow, excused, disturbed>>, granted \subseteq granted',
           TaskTypes', GrantsKept', UNCHANGED nodeRow, GraphGrows
    PROVE  TasksInv'
<1>0. DOMAIN call = Callers /\ TaskCalls BY DEF TasksInv
<1>1. TaskKeeps BY DEF TaskKeeps
<1>2. ASSUME NEW p \in Callers, Tasking(call'[p]) PROVE TaskCall(call[p])'
    <2> PICK c : c = call[p] OBVIOUS
    <2>1. TaskCall(c)' BY <1>0, <1>1, <1>2, TaskCallStays DEF TaskCalls
    <2> QED BY <2>1
<1>3. TaskCalls' BY <1>2 DEF TaskCalls, Tasking
<1>4. Writers' = Writers /\ Prompts' = Prompts BY DEF Writers, Prompts
<1> QED BY <1>0, <1>3, <1>4, TaskFrame

\* A request of the task begins.
LEMMA BeginsTaskKeeps ==
    ASSUME TasksInv, NEW p \in Callers, NEW CONSTANT r, BeginsTask(p, r), Tasking(r), TaskCall(r), ~Projected(r),
           UNCHANGED <<agentRow, taskRow, grantRow, granted, excused, graphVars>>
    PROVE  TasksInv'
<1>0. /\ DOMAIN call = Callers /\ TaskCalls /\ TaskTypes /\ GrantsKept
      /\ TaskSynced /\ TaskCovered /\ RunningMeansWork
    BY DEF TasksInv
<1>1. call' = [call EXCEPT ![p] = r] /\ call[p] = Nothing /\ disturbed' = (disturbed \/ Writers # {})
    BY DEF BeginsTask, Begins, Asks
<1>2. TaskKeeps BY DEF TaskKeeps
<1>3. TaskCall(r)' BY <1>2, TaskCallStays
<1>4. TaskCalls' /\ DOMAIN call' = Callers BY <1>0, <1>1, <1>2, <1>3, TaskCallsMove
<1>5. p \notin Writers /\ p \in Writers' /\ p \notin Prompts BY <1>0, <1>1, WritersMove, WritersAre DEF Tasking, Prompting
<1>6. /\ Writers' = Writers \cup {p} /\ Prompts \subseteq Prompts' /\ call'[p] = r
      /\ \A q \in Writers : call'[q] = call[q]
    BY <1>0, <1>1, <1>5, WritersMove, WritersAre
<1>7. NodeShows => NodeShows' BY DEF NodeShows, graphVars, HasNode
<1>8. TaskSynced'
    <2> SUFFICES ASSUME ~disturbed' PROVE /\ \A q, s \in Writers' : q = s
                                          /\ \A q \in Writers' : Projected(call'[q]) => taskRow'.status = call'[q].status
                                          /\ taskRow' # Nothing => NodeShows'
        BY DEF TaskSynced, Projected
    <2>1. ~disturbed /\ Writers = {} BY <1>1
    <2>2. Writers' = {p} BY <1>6, <2>1
    <2>3. taskRow # Nothing => NodeShows BY <1>0, <2>1 DEF TaskSynced
    <2> QED BY <1>6, <1>7, <2>2, <2>3
<1>9. TaskCovered'
    <2>1. Covered(TaskNode) => Covered(TaskNode)' BY DEF Covered, HasNode, TaskNode, graphVars
    <2> QED BY <1>0, <1>6, <2>1 DEF TaskCovered, Projected
<1>10. RunningMeansWork' BY <1>0, <1>6 DEF RunningMeansWork
<1>11. TaskTypes' /\ GrantsKept' BY <1>0 DEF TaskTypes, GrantsKept
<1> QED BY <1>4, <1>8, <1>9, <1>10, <1>11 DEF TasksInv

\* Who may contribute or control has a grant with which he may contribute.
LEMMA TaskPermissionFacts ==
    ASSUME NEW g \in TaskRoles \cup {"expired", Nothing}, NEW x \in {"task.contribute", "task.control"},
           x \in TaskPermissions(g)
    PROVE  g \in TaskRoles /\ "task.contribute" \in TaskPermissions(g)
BY TaskAssumption DEF TaskPermissions, TaskRoles

\* Who is permitted to prompt is the owner, or was told to have the right.
LEMMA PermittedAreEntitled ==
    ASSUME TaskTypes, GrantsKept, NEW u \in Users, NEW x \in {"task.contribute", "task.control"}, Permitted(u, x)
    PROVE  taskRow \in TaskEntry /\ taskRow # Nothing /\ Entitled(u)
<1>1. taskRow \in TaskEntry /\ taskRow # Nothing BY DEF TaskTypes, Permitted
<1>2. CASE u = taskRow.owner BY <1>1, <1>2 DEF Entitled
<1>3. CASE x \in TaskPermissions(grantRow[u])
    <2>1. grantRow[u] \in TaskRoles \cup {"expired", Nothing} BY DEF TaskTypes
    <2>2. grantRow[u] \in TaskRoles /\ "task.contribute" \in TaskPermissions(grantRow[u])
        BY <1>3, <2>1, TaskPermissionFacts
    <2>3. <<u, grantRow[u]>> \in granted BY <2>2 DEF GrantsKept
    <2> QED BY <1>1, <2>2, <2>3 DEF Entitled
<1> QED BY <1>2, <1>3 DEF Permitted

\* The service's own requests begin.
LEMMA BeginTasksKeep ==
    ASSUME TasksInv, NEW p \in Callers, NEW u \in Users, UNCHANGED graphVars,
           \/ \E s \in Statuses : UpsertTask(p, u, s)
           \/ InputTask(p, u)
           \/ CancelTask(p, u)
    PROVE  TasksInv'
<1> USE TaskAssumption
<1>0. TaskTypes /\ GrantsKept BY DEF TasksInv
<1>1. ASSUME NEW s \in Statuses, UpsertTask(p, u, s) PROVE TasksInv'
    <2> PICK r : r = Task("upsert", u, u, s) OBVIOUS
    <2>1. r \in TaskRequest /\ r.at = "upsert" /\ r.op = "task" BY DEF Task, TaskRequest, Statuses, TaskStatuses
    <2>2. TaskCall(r) /\ Tasking(r) /\ ~Projected(r) BY <2>1 DEF TaskCall, Tasking, Projected
    <2>3. BeginsTask(p, r) /\ UNCHANGED <<agentRow, taskRow, grantRow, granted, excused, graphVars>>
        BY <1>1 DEF UpsertTask
    <2> QED BY <2>2, <2>3, BeginsTaskKeeps
<1>2. CASE InputTask(p, u)
    <2>1. taskRow \in TaskEntry /\ taskRow # Nothing /\ Entitled(u)
        BY <1>0, <1>2, PermittedAreEntitled DEF InputTask
    <2> PICK r : r = Task("start", u, taskRow.owner, "running") OBVIOUS
    <2>2. /\ r \in TaskRequest /\ r.at = "start" /\ r.op = "task" /\ r.status = "running"
          /\ r.owner = taskRow.owner /\ r.user = u
        BY <2>1 DEF Task, TaskRequest, TaskStatuses, TaskEntry
    <2>3. TaskCall(r) /\ Tasking(r) /\ ~Projected(r) BY <2>1, <2>2 DEF TaskCall, Tasking, Projected
    <2>4. BeginsTask(p, r) /\ UNCHANGED <<agentRow, taskRow, grantRow, granted, excused, graphVars>>
        BY <1>2 DEF InputTask
    <2> QED BY <2>3, <2>4, BeginsTaskKeeps
<1>3. CASE CancelTask(p, u)
    <2>1. taskRow \in TaskEntry /\ taskRow # Nothing /\ Entitled(u)
        BY <1>0, <1>3, PermittedAreEntitled DEF CancelTask
    <2> PICK r : r = Task("end", u, taskRow.owner, "cancelled") OBVIOUS
    <2>2. /\ r \in TaskRequest /\ r.at = "end" /\ r.op = "task" /\ r.status = "cancelled"
          /\ r.owner = taskRow.owner /\ r.user = u
        BY <2>1 DEF Task, TaskRequest, TaskStatuses, TaskEntry
    <2>3. TaskCall(r) /\ Tasking(r) /\ ~Projected(r) BY <2>1, <2>2 DEF TaskCall, Tasking, Projected
    <2>4. CASE BeginsTask(p, r)
        <3>1. UNCHANGED <<agentRow, taskRow, grantRow, granted, excused, graphVars>> BY <1>3 DEF CancelTask
        <3> QED BY <2>3, <2>4, <3>1, BeginsTaskKeeps
    <2>5. CASE Answers(p) /\ UNCHANGED disturbed
        <3>1. UNCHANGED <<call, taskRow, grantRow, granted, excused, disturbed, graphVars>>
            BY <1>3, <2>5 DEF CancelTask, Answers
        <3>2. TaskTypes' /\ GrantsKept' BY <1>0, <3>1 DEF TaskTypes, GrantsKept
        <3> QED BY <3>1, <3>2, SameRequests, GraphStays DEF graphVars
    <2> QED BY <1>3, <2>4, <2>5 DEF CancelTask
<1> QED BY <1>1, <1>2, <1>3

\* The statement that upserts the row: it keeps the owner, and only the owner's status goes in.
LEMMA TaskStatementIs ==
    ASSUME TaskTypes, NEW c \in TaskRequest, TaskStatement(c)
    PROVE  /\ taskRow' \in TaskEntry /\ taskRow' # Nothing
           /\ taskRow # Nothing => taskRow'.owner = taskRow.owner
           /\ taskRow = Nothing \/ taskRow.owner = c.owner => taskRow'.status = c.status
           /\ taskRow' # taskRow => taskRow'.status = c.status
<1> USE TaskAssumption
<1>1. c.owner \in Users /\ c.status \in TaskStatuses BY DEF TaskRequest
<1>2. CASE taskRow = Nothing BY <1>1, <1>2 DEF TaskStatement, TaskEntry
<1>3. CASE taskRow # Nothing
    <2>1. taskRow \in TaskEntry BY <1>3 DEF TaskTypes
    <2>2. taskRow' = IF taskRow.owner = c.owner THEN [taskRow EXCEPT !.status = c.status] ELSE taskRow
        BY <1>3 DEF TaskStatement
    <2>3. taskRow' \in TaskEntry /\ taskRow'.owner = taskRow.owner
        BY <1>1, <2>1, <2>2 DEF TaskEntry
    <2>4. taskRow.owner = c.owner => taskRow'.status = c.status BY <2>1, <2>2 DEF TaskEntry
    <2> QED BY <1>3, <2>2, <2>3, <2>4
<1> QED BY <1>2, <1>3

\* A request has written the row, or failed to, and goes on to its node.
LEMMA RowStepKeeps ==
    ASSUME TasksInv, NEW p \in Callers, NEW CONSTANT r, call' = [call EXCEPT ![p] = r],
           Tasking(call[p]), Tasking(r), Projected(r), TaskKeeps, taskRow' \in TaskEntry, taskRow' # Nothing,
           UNCHANGED <<grantRow, granted, graphVars>>, TaskCall(r)', RunningMeansWork',
           ~disturbed' => ~disturbed /\ taskRow'.status = r.status
    PROVE  TasksInv'
<1>0. /\ DOMAIN call = Callers /\ TaskCalls /\ TaskTypes /\ GrantsKept
      /\ TaskSynced /\ TaskCovered
    BY DEF TasksInv
<1>1. TaskCalls' /\ DOMAIN call' = Callers BY <1>0, TaskCallsMove
<1>2. p \in Writers /\ p \in Writers' /\ call'[p] = r BY <1>0, WritersMove, WritersAre
<1>3. Writers' = Writers BY <1>0, <1>2, WritersMove, WritersAre
<1>4. TaskSynced'
    <2> SUFFICES ASSUME ~disturbed'
                 PROVE  /\ \A q, s \in Writers' : q = s
                        /\ \A q \in Writers' : Projected(call'[q]) => taskRow'.status = call'[q].status
                        /\ ~ \A q \in Writers' : ~Projected(call'[q])
        BY DEF TaskSynced, Projected
    <2>1. \A q, s \in Writers : q = s BY <1>0 DEF TaskSynced
    <2>2. Writers' = {p} BY <1>2, <1>3, <2>1
    <2> QED BY <1>2, <2>2
<1>5. TaskCovered' BY <1>2 DEF TaskCovered, Projected
<1>6. TaskTypes' /\ GrantsKept' BY <1>0 DEF TaskTypes, GrantsKept
<1> QED BY <1>1, <1>4, <1>5, <1>6 DEF TasksInv

\* The row of an upsert is written, or refused, or fails.
LEMMA UpsertRowKeeps ==
    ASSUME TasksInv, NEW p \in Callers, UpsertRow(p), UNCHANGED graphVars
    PROVE  TasksInv'
<1> USE TaskAssumption
<1>0. /\ DOMAIN call = Callers /\ TaskCalls /\ TaskTypes /\ GrantsKept
      /\ TaskSynced /\ TaskCovered /\ RunningMeansWork
    BY DEF TasksInv
<1> PICK c : c = call[p] OBVIOUS
<1>1. Tasking(c) /\ c.at = "upsert" BY DEF UpsertRow, At, Tasking
<1>2. TaskCall(c) /\ c \in TaskRequest BY <1>0, <1>1 DEF TaskCalls, TaskCall
<1>3. UNCHANGED <<grantRow, granted>> BY DEF UpsertRow
<1>4. CASE TaskWritten(c) /\ GoesTo(p, "node")
    <2> PICK r : r = [c EXCEPT !.at = "node"] OBVIOUS
    <2>1. r \in TaskRequest /\ r.at = "node" /\ r.op = "task" /\ r.status = c.status BY <1>2 DEF TaskRequest
    <2>2. call' = [call EXCEPT ![p] = r] BY <1>4 DEF GoesTo, Goes
    <2>3. /\ TaskStatement(c)
          /\ disturbed' = (disturbed \/ (taskRow # Nothing /\ taskRow.owner # c.owner))
          /\ excused' = IF taskRow' # taskRow THEN c.at = "upsert" /\ c.status = "running" ELSE excused
        BY <1>4 DEF TaskWritten
    <2>4. /\ taskRow' \in TaskEntry /\ taskRow' # Nothing
          /\ taskRow # Nothing => taskRow'.owner = taskRow.owner
          /\ taskRow = Nothing \/ taskRow.owner = c.owner => taskRow'.status = c.status
          /\ taskRow' # taskRow => taskRow'.status = c.status
        BY <1>0, <1>2, <2>3, TaskStatementIs
    <2>5. TaskKeeps BY <1>3, <2>4 DEF TaskKeeps
    <2>6. TaskCall(r)' BY <2>1, <2>4 DEF TaskCall
    <2>7. Tasking(r) /\ Projected(r) BY <2>1 DEF Tasking, Projected
    <2>8. p \notin Prompts /\ p \notin Prompts'
        BY <1>0, <1>1, <2>1, <2>2, WritersMove, WritersAre DEF Prompting
    <2>9. Prompts' = Prompts BY <1>0, <2>2, <2>8, WritersMove, WritersAre
    <2>10. RunningMeansWork'
        <3> SUFFICES ASSUME taskRow'.status = "running" PROVE Prompts # {} \/ excused'
            BY <2>9 DEF RunningMeansWork
        <3>1. CASE taskRow' = taskRow BY <1>0, <2>3, <2>4, <3>1 DEF RunningMeansWork
        <3>2. CASE taskRow' # taskRow BY <1>1, <2>3, <2>4, <3>2
        <3> QED BY <3>1, <3>2
    <2> QED BY <1>1, <1>3, <2>1, <2>2, <2>3, <2>4, <2>5, <2>6, <2>7, <2>10, RowStepKeeps
<1>5. CASE Returns(p) /\ UNCHANGED <<taskRow, excused, disturbed>>
    <2>1. call' = [call EXCEPT ![p] = Nothing] BY <1>5 DEF Returns, Goes
    <2>2. ~Tasking(Nothing) /\ ~Prompting(Nothing) BY DEF Tasking, Prompting
    <2>3. TaskKeeps BY <1>3, <1>5 DEF TaskKeeps
    <2>4. TaskCalls' /\ DOMAIN call' = Callers BY <1>0, <2>1, <2>2, <2>3, TaskCallsMove
    <2>5. /\ p \in Writers /\ p \notin Writers' /\ p \notin Prompts /\ p \notin Prompts'
        BY <1>0, <1>1, <2>1, <2>2, WritersMove, WritersAre DEF Prompting
    <2>6. Writers' = Writers \ {p} /\ Prompts' = Prompts /\ \A q \in Writers' : call'[q] = call[q]
        BY <1>0, <2>1, <2>5, WritersMove, WritersAre
    <2>7. ~Projected(call[p]) BY <1>1 DEF Projected
    <2>8. NodeShows => NodeShows' BY <1>5 DEF NodeShows, graphVars, HasNode
    <2>9. TaskSynced'
        <3> SUFFICES ASSUME ~disturbed' PROVE Writers' = {} /\ (taskRow' # Nothing => NodeShows')
            BY DEF TaskSynced
        <3>1. Writers = {p} BY <1>0, <1>5, <2>5 DEF TaskSynced
        <3> QED BY <1>0, <1>5, <2>6, <2>7, <2>8, <3>1 DEF TaskSynced
    <2>10. TaskCovered'
        <3>1. Covered(TaskNode) => Covered(TaskNode)' BY DEF Covered, HasNode, TaskNode, graphVars
        <3>2. \A q \in Writers : Projected(call[q]) => q \in Writers' /\ call'[q] = call[q] BY <2>6, <2>7
        <3> QED BY <1>0, <1>5, <3>1, <3>2 DEF TaskCovered, Projected
    <2>11. TaskTypes' /\ GrantsKept' BY <1>0, <1>3, <1>5 DEF TaskTypes, GrantsKept
    <2>12. RunningMeansWork' BY <1>0, <1>5, <2>6 DEF RunningMeansWork
    <2> QED BY <2>4, <2>9, <2>10, <2>11, <2>12 DEF TasksInv
<1> QED BY <1>4, <1>5 DEF UpsertRow

\* The row of a prompt or a cancel is written, or fails.
LEMMA TaskRowKeeps ==
    ASSUME TasksInv, NEW p \in Callers, TaskRow(p), UNCHANGED graphVars
    PROVE  TasksInv'
<1> USE TaskAssumption
<1>0. /\ DOMAIN call = Callers /\ TaskCalls /\ TaskTypes /\ GrantsKept /\ RunningMeansWork
    BY DEF TasksInv
<1> PICK c : c = call[p] OBVIOUS
<1>1. Tasking(c) /\ c.at \in {"start", "end"} BY DEF TaskRow, At, Tasking
<1>2. /\ TaskCall(c) /\ c \in TaskRequest /\ taskRow # Nothing /\ c.owner = taskRow.owner /\ Entitled(c.user)
      /\ c.at = "start" => c.status = "running"
      /\ c.at = "end" => c.status # "running"
    BY <1>0, <1>1 DEF TaskCalls, TaskCall
<1>3. UNCHANGED <<grantRow, granted>> BY DEF TaskRow
<1> PICK r : r = [c EXCEPT !.at = IF c.at = "start" THEN "startNode" ELSE "node"] OBVIOUS
<1>4. call' = [call EXCEPT ![p] = r]
    BY <1>1 DEF TaskRow, At, GoesTo, Goes
<1>5. /\ r \in TaskRequest /\ r.at = (IF c.at = "start" THEN "startNode" ELSE "node") /\ r.op = "task"
      /\ r.status = c.status /\ r.owner = c.owner /\ r.user = c.user
    BY <1>1, <1>2 DEF TaskRequest
<1>6. Tasking(r) /\ Projected(r) BY <1>5 DEF Tasking, Projected
<1>7. \/ TaskWritten(c)
      \/ disturbed' = TRUE /\ excused' = (excused \/ c.at = "end") /\ taskRow' = taskRow
    BY DEF TaskRow
<1>8. TaskWritten(c) => TaskStatement(c) BY DEF TaskWritten
<1>9. taskRow' \in TaskEntry /\ taskRow' # Nothing /\ taskRow'.owner = taskRow.owner
    BY <1>0, <1>2, <1>7, <1>8, TaskStatementIs DEF TaskTypes
<1>10. TaskKeeps BY <1>3, <1>9 DEF TaskKeeps
<1>11. Entitled(c.user)' BY <1>2, <1>3, <1>9 DEF Entitled
<1>12. TaskCall(r)' BY <1>2, <1>5, <1>9, <1>11 DEF TaskCall
<1>13. p \in Prompts /\ (p \in Prompts' <=> c.at = "start")
    <2>1. p \in Prompts BY <1>1, WritersAre DEF Prompting
    <2>2. Prompting(r) <=> c.at = "start" BY <1>1, <1>5, <1>6 DEF Prompting
    <2> QED BY <1>0, <1>4, <2>1, <2>2, WritersMove
<1>14. RunningMeansWork'
    <2> SUFFICES ASSUME taskRow'.status = "running" PROVE Prompts' # {} \/ excused'
        BY DEF RunningMeansWork
    <2>1. CASE c.at = "start" BY <1>13, <2>1
    <2>2. CASE c.at = "end"
        <3>1. ~TaskWritten(c) BY <1>0, <1>2, <1>8, <2>2, TaskStatementIs
        <3> QED BY <1>7, <2>2, <3>1
    <2> QED BY <1>1, <2>1, <2>2
<1>15. ~disturbed' => ~disturbed /\ taskRow'.status = r.status
    <2> SUFFICES ASSUME ~disturbed' PROVE ~disturbed /\ taskRow'.status = r.status OBVIOUS
    <2>1. TaskWritten(c) BY <1>7
    <2>2. taskRow'.status = c.status BY <1>0, <1>2, <1>8, <2>1, TaskStatementIs
    <2>3. ~disturbed BY <2>1 DEF TaskWritten
    <2> QED BY <1>5, <2>2, <2>3
<1> QED BY <1>1, <1>3, <1>4, <1>6, <1>9, <1>10, <1>12, <1>14, <1>15, RowStepKeeps

\* The node gets the request's status, or the graph admits that it lacks it.
LEMMA ProjectTaskKeeps ==
    ASSUME TasksInv, NEW p \in Callers, ProjectTask(p)
    PROVE  TasksInv'
<1> USE TaskAssumption
<1>0. /\ DOMAIN call = Callers /\ TaskCalls /\ TaskTypes /\ GrantsKept
      /\ TaskSynced /\ TaskCovered /\ RunningMeansWork
    BY DEF TasksInv
<1> PICK c : c = call[p] OBVIOUS
<1>1. Tasking(c) /\ Projected(c) BY DEF ProjectTask, At, Tasking, Projected
<1>2. TaskCall(c) /\ c \in TaskRequest /\ taskRow # Nothing BY <1>0, <1>1 DEF TaskCalls, TaskCall, Projected
<1>3. UNCHANGED <<taskRow, grantRow, granted, excused>> BY DEF ProjectTask
<1>4. TaskKeeps BY <1>3 DEF TaskKeeps
<1>5. PICK r : /\ call' = [call EXCEPT ![p] = r] /\ (Tasking(r) => TaskCall(r) /\ ~Projected(r))
               /\ Prompting(r) <=> Prompting(c)
    <2>1. CASE c.at = "startNode" /\ GoesTo(p, "prompt")
        <3> PICK r : r = [c EXCEPT !.at = "prompt"] OBVIOUS
        <3>1. /\ r \in TaskRequest /\ r.at = "prompt" /\ r.op = "task"
              /\ r.status = c.status /\ r.owner = c.owner /\ r.user = c.user
            BY <1>2 DEF TaskRequest
        <3>2. TaskCall(r) BY <1>2, <2>1, <3>1 DEF TaskCall
        <3>3. Prompting(r) /\ Prompting(c) BY <1>1, <2>1, <3>1 DEF Prompting, Tasking
        <3> QED BY <2>1, <3>1, <3>2, <3>3 DEF GoesTo, Goes, Projected
    <2>2. CASE c.at = "node" /\ Returns(p)
        <3>1. ~Tasking(Nothing) /\ ~Prompting(Nothing) /\ ~Prompting(c) BY <2>2 DEF Tasking, Prompting
        <3> QED BY <2>2, <3>1 DEF Returns, Goes
    <2> QED BY <2>1, <2>2 DEF ProjectTask, At
<1>6. TaskCall(r) => TaskCall(r)' BY <1>4, TaskCallStays
<1>7. TaskCalls' /\ DOMAIN call' = Callers BY <1>0, <1>4, <1>5, <1>6, TaskCallsMove
<1>8. p \in Writers /\ (p \in Prompts' <=> p \in Prompts) /\ call'[p] = r /\ (p \in Writers' => Tasking(r))
    BY <1>0, <1>1, <1>5, WritersMove, WritersAre
<1>9. Prompts' = Prompts /\ Writers' \subseteq Writers BY <1>0, <1>5, <1>8, WritersMove, WritersAre
<1>10. \/ nodeRow' = WithNode(TaskNode, c.status) /\ UNCHANGED <<unprojected, disturbed>>
       \/ unprojected' = unprojected \cup {TaskNode} /\ disturbed' = TRUE /\ nodeRow' = nodeRow
    BY DEF ProjectTask
<1> PICK node : node = TaskNode OBVIOUS
<1>11. nodeRow' = WithNode(TaskNode, c.status) => HasNode(TaskNode)' /\ nodeRow'[TaskNode] = c.status
    <2> SUFFICES ASSUME nodeRow' = WithNode(node, c.status)
                 PROVE  node \in DOMAIN nodeRow' /\ nodeRow'[node] = c.status
        BY DEF HasNode, TaskNode
    <2> QED BY WithNodeIs
<1>12. TaskSynced'
    <2> SUFFICES ASSUME ~disturbed'
                 PROVE  /\ \A q, s \in Writers' : q = s
                        /\ \A q \in Writers' : ~Projected(call'[q])
                        /\ NodeShows'
        BY DEF TaskSynced, Projected
    <2>1. Writers = {p} /\ taskRow.status = c.status BY <1>0, <1>1, <1>8, <1>10 DEF TaskSynced
    <2>2. Writers' \subseteq {p} BY <1>9, <2>1
    <2>3. NodeShows' BY <1>3, <1>10, <1>11, <2>1 DEF NodeShows, TaskNode
    <2> QED BY <1>5, <1>8, <2>2, <2>3
<1>13. TaskCovered' BY <1>10, <1>11 DEF TaskCovered, Covered, HasNode, TaskNode
<1>14. TaskTypes' /\ GrantsKept' BY <1>0, <1>3 DEF TaskTypes, GrantsKept
<1>15. RunningMeansWork' BY <1>0, <1>3, <1>9 DEF RunningMeansWork
<1> QED BY <1>7, <1>12, <1>13, <1>14, <1>15 DEF TasksInv

\* The agent is prompted.
LEMMA PromptTaskKeeps ==
    ASSUME TasksInv, NEW p \in Callers, PromptTask(p), UNCHANGED graphVars
    PROVE  TasksInv'
<1> USE TaskAssumption
<1>0. DOMAIN call = Callers /\ TaskCalls /\ TaskTypes /\ GrantsKept /\ TaskSynced /\ TaskCovered /\ RunningMeansWork
    BY DEF TasksInv
<1> PICK c : c = call[p] OBVIOUS
<1>1. Tasking(c) /\ c.at = "prompt" BY DEF PromptTask, At, Tasking
<1>2. TaskCall(c) /\ c \in TaskRequest BY <1>0, <1>1 DEF TaskCalls, TaskCall
<1>3. PICK status \in {"completed", "failed"} : call' = [call EXCEPT ![p] = [c EXCEPT !.at = "end", !.status = status]]
    BY DEF PromptTask, Goes
<1> PICK r : r = [c EXCEPT !.at = "end", !.status = status] OBVIOUS
<1>4. /\ r \in TaskRequest /\ r.at = "end" /\ r.op = "task"
      /\ r.status = status /\ r.owner = c.owner /\ r.user = c.user
    BY <1>2 DEF TaskRequest, TaskStatuses
<1>5. TaskCall(r) BY <1>1, <1>2, <1>4 DEF TaskCall
<1>6. UNCHANGED taskVars BY DEF PromptTask
<1>7. TaskKeeps BY <1>6 DEF TaskKeeps, taskVars
<1>8. TaskCalls' /\ DOMAIN call' = Callers BY <1>0, <1>3, <1>5, <1>7, TaskCallStays, TaskCallsMove
<1>9. p \in Writers /\ p \in Writers' /\ p \in Prompts /\ p \in Prompts' /\ call'[p] = r
    BY <1>0, <1>1, <1>3, <1>4, WritersMove, WritersAre DEF Tasking, Prompting
<1>10. /\ Writers' = Writers /\ Prompts' = Prompts
       /\ \A q \in Writers : q # p => call'[q] = call[q]
    BY <1>0, <1>3, <1>9, WritersMove, WritersAre
<1>11. ~Projected(call[p]) /\ ~Projected(call'[p]) BY <1>1, <1>4, <1>9 DEF Projected
<1>12. \A q \in Writers : /\ Projected(call'[q]) <=> Projected(call[q])
                          /\ Projected(call[q]) => call'[q] = call[q]
    BY <1>10, <1>11
<1>13. NodeShows => NodeShows' BY <1>6 DEF NodeShows, graphVars, HasNode, taskVars
<1>14. TaskSynced' BY <1>0, <1>6, <1>10, <1>12, <1>13 DEF TaskSynced, Projected, taskVars
<1>15. TaskCovered'
    <2>1. Covered(TaskNode) => Covered(TaskNode)' BY DEF Covered, HasNode, TaskNode, graphVars
    <2> QED BY <1>0, <1>6, <1>10, <1>12, <2>1 DEF TaskCovered, Projected, taskVars
<1>16. TaskTypes' /\ GrantsKept' /\ RunningMeansWork'
    BY <1>0, <1>6, <1>10 DEF TaskTypes, GrantsKept, RunningMeansWork, taskVars
<1> QED BY <1>8, <1>14, <1>15, <1>16 DEF TasksInv

\* The owner grants access.
LEMMA GrantKeeps ==
    ASSUME TasksInv, NEW p \in Callers, NEW u \in Users, NEW v \in Users, NEW role \in TaskRoles,
           GrantTaskAccess(p, u, v, role), UNCHANGED graphVars
    PROVE  TasksInv'
<1>0. TaskTypes /\ GrantsKept BY DEF TasksInv
<1>1. call' = call /\ taskRow # Nothing /\ UNCHANGED <<taskRow, excused, disturbed>>
    BY DEF GrantTaskAccess, Answers
<1>2. \/ grantRow' = [grantRow EXCEPT ![v] = role] /\ granted' = granted \cup {<<v, role>>}
      \/ UNCHANGED <<grantRow, granted>>
    BY DEF GrantTaskAccess, UpsertGrant
<1>3. TaskTypes' BY <1>0, <1>1, <1>2 DEF TaskTypes
<1>4. CASE grantRow' = [grantRow EXCEPT ![v] = role] /\ granted' = granted \cup {<<v, role>>}
    <2>1. grantRow'[v] = role /\ \A x \in Users : x # v => grantRow'[x] = grantRow[x]
        BY <1>0, <1>4 DEF TaskTypes
    <2>2. GrantsKept' BY <1>0, <1>1, <1>4, <2>1 DEF GrantsKept
    <2> QED BY <1>1, <1>3, <1>4, <2>2, SameRequests, GraphStays DEF graphVars
<1>5. CASE UNCHANGED <<grantRow, granted>>
    <2>1. GrantsKept' BY <1>0, <1>1, <1>5 DEF GrantsKept
    <2> QED BY <1>1, <1>3, <1>5, <2>1, SameRequests, GraphStays DEF graphVars
<1> QED BY <1>2, <1>4, <1>5

\* A grant expires.
LEMMA ExpiryKeeps ==
    ASSUME TasksInv, NEW u \in Users, GrantExpires(u), UNCHANGED <<gatewayVars, graphVars>>
    PROVE  TasksInv'
<1>0. TaskTypes /\ GrantsKept BY DEF TasksInv
<1>1. /\ call' = call /\ UNCHANGED <<taskRow, granted, excused, disturbed>>
      /\ grantRow[u] \in TaskRoles /\ grantRow' = [grantRow EXCEPT ![u] = "expired"]
    BY DEF GrantExpires, gatewayVars
<1>2. TaskTypes' BY <1>0, <1>1 DEF TaskTypes
<1>3. grantRow'[u] = "expired" /\ \A x \in Users : x # u => grantRow'[x] = grantRow[x]
    BY <1>0, <1>1 DEF TaskTypes
<1>4. "expired" \notin TaskRoles BY DEF TaskRoles
<1>5. GrantsKept' BY <1>0, <1>1, <1>3, <1>4 DEF GrantsKept
<1> QED BY <1>1, <1>2, <1>5, SameRequests, GraphStays DEF graphVars

\* Nothing is published or projected.
LEMMA ThreadsStay ==
    ASSUME ThreadsCovered, UNCHANGED <<call, published>>, GraphGrows
    PROVE  ThreadsCovered'
<1> SUFFICES ASSUME NEW i \in Items, <<"thread", i>> \in published PROVE ThreadCovered(i)'
    BY DEF ThreadsCovered
<1>1. ThreadCovered(i) BY DEF ThreadsCovered
<1>2. Covered(<<"discussion", i>>) => Covered(<<"discussion", i>>)' BY CoveredStays
<1>3. \A q \in Callers : Projecting(q, i) => Projecting(q, i)' BY DEF Projecting, At
<1> QED BY <1>1, <1>2, <1>3 DEF ThreadCovered

\* A step of the agent's services that leaves threads, messages and graph alone.
LEMMA TaskStepElsewhere ==
    ASSUME PostsInv, GraphHonest, ThreadsCovered, NEW p \in Callers, NEW CONSTANT r,
           \/ call' = call
           \/ call' = [call EXCEPT ![p] = r] /\ ~Posting(call[p]) /\ ~Posting(r),
           UNCHANGED <<chatVars, graphVars, resRow>>, taskRow # Nothing => taskRow' # Nothing
    PROVE  PostsInv' /\ GraphHonest' /\ ThreadsCovered'
<1>0. UNCHANGED <<threadMem, threadRow, messageRow, published>> BY DEF chatVars
<1>1. RowsGrow BY <1>0 DEF RowsGrow
<1>2. GraphHonest' BY <1>1, HonestStays DEF graphVars
<1>3. GraphGrows BY GraphStays
<1>4. CASE call' = call BY <1>0, <1>2, <1>3, <1>4, PostsStay, ThreadsStay
<1>5. CASE call' = [call EXCEPT ![p] = r] /\ ~Posting(call[p]) /\ ~Posting(r)
    <2>1. DOMAIN call = Callers BY DEF PostsInv
    <2> QED BY <1>0, <1>2, <1>3, <1>5, <2>1, PostsFrame, ThreadsFrame
<1> QED BY <1>4, <1>5

\* The requests of the task go on, ...
LEMMA TaskActionsKeep ==
    ASSUME TasksInv, PostsInv, GraphHonest, ThreadsCovered, NEW p \in Callers,
           UNCHANGED <<chatVars, graphVars, resRow>>, UpsertRow(p) \/ TaskRow(p) \/ PromptTask(p)
    PROVE  TasksInv' /\ PostsInv' /\ GraphHonest' /\ ThreadsCovered'
<1>1. TasksInv' BY UpsertRowKeeps, TaskRowKeeps, PromptTaskKeeps
<1> PICK c : c = call[p] OBVIOUS
<1>2. Tasking(c) BY DEF UpsertRow, TaskRow, PromptTask, At, Tasking
<1>3. c \in TaskRequest /\ c.op = "task" BY <1>2 DEF TasksInv, TaskCalls, TaskCall, Tasking
<1>4. ~Posting(c) /\ ~Posting(Nothing) BY <1>3 DEF Posting
<1>5. \E r : call' = [call EXCEPT ![p] = r] /\ ~Posting(r)
    <2>1. ASSUME NEW step PROVE ~Posting([c EXCEPT !.at = step])
        BY <1>3 DEF Posting, TaskRequest
    <2>2. ASSUME NEW step, NEW status PROVE ~Posting([c EXCEPT !.at = step, !.status = status])
        BY <1>3 DEF Posting, TaskRequest
    <2>3. CASE UpsertRow(p) BY <1>4, <2>1, <2>3 DEF UpsertRow, GoesTo, Goes, Returns
    <2>4. CASE TaskRow(p) BY <2>1, <2>4 DEF TaskRow, GoesTo, Goes
    <2>5. CASE PromptTask(p) BY <2>2, <2>5 DEF PromptTask, Goes
    <2> QED BY <2>3, <2>4, <2>5
<1>6. taskRow # Nothing => taskRow' # Nothing
    <2>1. TaskStatement(c) => taskRow' # Nothing BY <1>3, TaskStatementIs DEF TasksInv
    <2>2. TaskStatement(c) \/ taskRow' = taskRow
        BY DEF UpsertRow, TaskRow, PromptTask, TaskWritten, taskVars
    <2> QED BY <2>1, <2>2
<1> QED BY <1>1, <1>4, <1>5, <1>6, TaskStepElsewhere

\* ... begin, ...
LEMMA AgentAsksKeep ==
    ASSUME TasksInv, PostsInv, GraphHonest, ThreadsCovered, NEW p \in Callers, NEW u \in Users,
           UNCHANGED <<chatVars, graphVars, resRow>>,
           \/ \E s \in Statuses : UpsertTask(p, u, s)
           \/ InputTask(p, u)
           \/ CancelTask(p, u)
    PROVE  TasksInv' /\ PostsInv' /\ GraphHonest' /\ ThreadsCovered'
<1>1. TasksInv' BY BeginTasksKeep
<1>2. taskRow' = taskRow BY DEF UpsertTask, InputTask, CancelTask
<1>3. ASSUME NEW step, NEW user, NEW owner, NEW status PROVE ~Posting(Task(step, user, owner, status))
    BY DEF Posting, Task
<1>4. \/ call' = call
      \/ \E r : BeginsTask(p, r) /\ ~Posting(r)
    BY <1>3 DEF UpsertTask, InputTask, CancelTask, Answers
<1>5. CASE call' = call
    <2> PICK r : r = Nothing OBVIOUS
    <2> QED BY <1>1, <1>2, <1>5, TaskStepElsewhere
<1>6. ASSUME NEW r, BeginsTask(p, r), ~Posting(r) PROVE PostsInv' /\ GraphHonest' /\ ThreadsCovered'
    <2>1. call' = [call EXCEPT ![p] = r] /\ ~Posting(call[p]) BY <1>6 DEF BeginsTask, Begins, Asks, Posting
    <2> QED BY <1>2, <1>6, <2>1, TaskStepElsewhere
<1> QED BY <1>1, <1>4, <1>5, <1>6

\* ... or post an output or an artifact.
LEMMA AgentPostsKeep ==
    ASSUME TasksInv, PostsInv, GraphHonest, ThreadsCovered, NEW p \in Callers, NEW u,
           UNCHANGED <<chatVars, graphVars, resRow>>, RecordOutput(p, u) \/ ShareTaskArtifact(p, u)
    PROVE  TasksInv' /\ PostsInv' /\ GraphHonest' /\ ThreadsCovered'
<1>1. PICK kind \in {"message", "artifact"} : Begins(p, [Chat(kind) EXCEPT !.thread = 1])
    BY DEF RecordOutput, CreateMessage, ShareTaskArtifact
<1>2. UNCHANGED taskVars BY DEF RecordOutput, ShareTaskArtifact
<1>3. PostsInv' BY <1>1, BeginPostKeeps
<1> PICK r : r = [Chat(kind) EXCEPT !.thread = 1] OBVIOUS
<1>4. call' = [call EXCEPT ![p] = r] /\ call[p] = Nothing BY <1>1 DEF Begins, Asks
<1>5. r.op = "chat" BY DEF Chat
<1>6. ~Tasking(r) /\ ~Tasking(call[p]) BY <1>4, <1>5 DEF Tasking
<1>7. TasksInv' BY <1>2, <1>4, <1>6, OtherRequest, GraphStays DEF graphVars
<1>8. UNCHANGED <<threadRow, messageRow, published, taskRow>> BY <1>2 DEF chatVars, taskVars
<1>9. RowsGrow BY <1>8 DEF RowsGrow
<1>10. GraphHonest' BY <1>9, HonestStays DEF graphVars
<1>11. DOMAIN call = Callers BY DEF PostsInv
<1>12. ThreadsCovered' BY <1>4, <1>8, <1>11, GraphStays, ThreadsFrame DEF Posting
<1> QED BY <1>3, <1>7, <1>10, <1>12

\* Agents are registered and access is granted.
LEMMA GrantsKeepAll ==
    ASSUME TasksInv, PostsInv, GraphHonest, ThreadsCovered, NEW p \in Callers, NEW u \in Users,
           UNCHANGED <<chatVars, graphVars, resRow>>,
           \/ UpsertAgent(p, u)
           \/ \E v \in Users, role \in TaskRoles : GrantTaskAccess(p, u, v, role)
    PROVE  TasksInv' /\ PostsInv' /\ GraphHonest' /\ ThreadsCovered'
<1>1. call' = call /\ taskRow' = taskRow BY DEF UpsertAgent, GrantTaskAccess, Answers
<1>2. PostsInv' /\ GraphHonest' /\ ThreadsCovered'
    <2> PICK r : r = Nothing OBVIOUS
    <2> QED BY <1>1, TaskStepElsewhere
<1>3. CASE UpsertAgent(p, u)
    <2>1. UNCHANGED <<taskRow, grantRow, granted, excused, disturbed>> BY <1>3 DEF UpsertAgent
    <2>2. TaskTypes' /\ GrantsKept' BY <2>1 DEF TasksInv, TaskTypes, GrantsKept
    <2> QED BY <1>1, <1>2, <2>1, <2>2, SameRequests, GraphStays DEF graphVars
<1>4. ASSUME NEW v \in Users, NEW role \in TaskRoles, GrantTaskAccess(p, u, v, role) PROVE TasksInv'
    BY <1>4, GrantKeeps
<1> QED BY <1>2, <1>3, <1>4

\* The task's node is projected.
LEMMA ProjectTaskKeepsAll ==
    ASSUME TasksInv, PostsInv, GraphHonest, ThreadsCovered, NEW p \in Callers,
           UNCHANGED <<chatVars, resRow>>, ProjectTask(p)
    PROVE  TasksInv' /\ PostsInv' /\ GraphHonest' /\ ThreadsCovered'
<1>1. TasksInv' BY ProjectTaskKeeps
<1> PICK c : c = call[p] OBVIOUS
<1>2. Tasking(c) /\ c.at \in {"startNode", "node"} BY DEF ProjectTask, At, Tasking
<1>3. c \in TaskRequest /\ c.op = "task" /\ taskRow # Nothing
    BY <1>2 DEF TasksInv, TaskCalls, TaskCall, Tasking
<1>4. ~Posting(c) /\ ~Posting(Nothing) /\ ~Posting([c EXCEPT !.at = "prompt"])
    BY <1>3 DEF Posting, TaskRequest
<1>5. PICK r : call' = [call EXCEPT ![p] = r] /\ ~Posting(r)
    BY <1>4 DEF ProjectTask, GoesTo, Goes, Returns
<1>6. UNCHANGED <<threadMem, threadRow, messageRow, published>> BY DEF chatVars
<1>7. PostsInv' BY <1>5, <1>6, PostsFrame
<1>8. taskRow' = taskRow BY DEF ProjectTask
<1>9. RowsGrow BY <1>6, <1>8 DEF RowsGrow
<1> PICK node : node = TaskNode OBVIOUS
<1>10. \/ nodeRow' = WithNode(node, c.status) /\ UNCHANGED unprojected
       \/ unprojected' = unprojected \cup {node} /\ nodeRow' = nodeRow
    BY DEF ProjectTask
<1>11. DOMAIN nodeRow \subseteq DOMAIN nodeRow' /\ DOMAIN nodeRow' \subseteq DOMAIN nodeRow \cup {node}
    BY <1>10, WithNodeIs
<1>12. HonestNode(node)'
    <2>1. node \in Stored' BY <1>3, <1>8, StoredIs
    <2>2. node[1] = "task" BY DEF TaskNode
    <2> QED BY <2>1, <2>2 DEF HonestNode
<1>13. GraphHonest' BY <1>9, <1>11, <1>12, HonestNew
<1>14. GraphGrows BY <1>10, <1>11 DEF GraphGrows
<1>15. DOMAIN call = Callers BY DEF PostsInv
<1>16. ThreadsCovered' BY <1>4, <1>5, <1>6, <1>14, <1>15, ThreadsFrame
<1> QED BY <1>1, <1>7, <1>13, <1>16

\* The node of a shared artifact, and its edge to the task.
LEMMA ProjectArtifactKeepsAll ==
    ASSUME TasksInv, PostsInv, GraphHonest, ThreadsCovered, NEW p \in Callers,
           UNCHANGED <<chatVars, resRow>>, ProjectTaskArtifact(p)
    PROVE  TasksInv' /\ PostsInv' /\ GraphHonest' /\ ThreadsCovered'
<1> PICK c : c = call[p] OBVIOUS
<1>1. Posting(c) /\ c.at = "project" /\ c.kind = "artifact" BY DEF ProjectTaskArtifact, At, Posting
<1>2. c.item \in Items /\ <<c.thread, c.item>> \in messageRow
    BY <1>1 DEF PostsInv, PostCalls, PostCall
<1>3. call' = [call EXCEPT ![p] = Nothing] BY DEF ProjectTaskArtifact, Returns, Goes
<1>4. ~Posting(Nothing) /\ ~Tasking(Nothing) /\ ~Tasking(c) BY <1>1 DEF Posting, Tasking
<1>5. UNCHANGED <<threadMem, threadRow, messageRow, published>> /\ UNCHANGED <<taskVars, taskRow>>
    BY DEF chatVars, ProjectTaskArtifact, taskVars
<1>6. PostsInv' BY <1>3, <1>4, <1>5, PostsFrame
<1>7. RowsGrow BY <1>5 DEF RowsGrow
<1> PICK node : node = <<"artifact", c.item>> OBVIOUS
<1>8. nodeRow' = WithNode(node, "none") \/ nodeRow' = nodeRow
    BY DEF ProjectTaskArtifact
<1>9. unprojected' = unprojected BY DEF ProjectTaskArtifact
<1>10. /\ DOMAIN nodeRow \subseteq DOMAIN nodeRow' /\ DOMAIN nodeRow' \subseteq DOMAIN nodeRow \cup {node}
       /\ \A x \in DOMAIN nodeRow : x # node => nodeRow'[x] = nodeRow[x]
    BY <1>8, WithNodeIs
<1>11. HonestNode(node)'
    <2>1. node[1] = "artifact" /\ node[2] = c.item OBVIOUS
    <2>2. \E m \in messageRow' : m[2] = node[2]
        <3>1. <<c.thread, c.item>>[2] = c.item OBVIOUS
        <3> QED BY <1>2, <1>5, <2>1, <3>1
    <2> QED BY <2>1, <2>2 DEF HonestNode
<1>12. GraphHonest' BY <1>7, <1>10, <1>11, HonestNew
<1>13. GraphGrows BY <1>9, <1>10 DEF GraphGrows
<1>14. DOMAIN call = Callers BY DEF PostsInv
<1>15. ThreadsCovered' BY <1>1, <1>3, <1>5, <1>13, <1>14, ThreadsFrame
<1>16. TaskNode # node
    <2>1. TaskNode[1] = "task" /\ node[1] = "artifact" BY DEF TaskNode
    <2> QED BY <2>1
<1>17. TasksInv' BY <1>3, <1>4, <1>5, <1>10, <1>13, <1>16, OtherRequest DEF HasNode
<1> QED BY <1>6, <1>12, <1>15, <1>17

\* The posts project threads and nothing else.
LEMMA ChatGrows ==
    ASSUME NEW p, ChatSteps(p)
    PROVE  GraphGrows /\ \A x \in DOMAIN nodeRow : x[1] # "discussion" => nodeRow'[x] = nodeRow[x]
<1>1. CASE UNCHANGED graphVars BY <1>1, GraphStays DEF graphVars
<1>2. CASE ProjectDiscussion(p)
    <2> PICK node : node = <<"discussion", call[p].item>> OBVIOUS
    <2>1. Projects(node, "none") /\ node[1] = "discussion" BY <1>2 DEF ProjectDiscussion
    <2> QED BY <2>1, ProjectsGrow, ProjectsIs
<1> QED BY <1>1, <1>2 DEF ChatSteps

\* An agent's post goes on.
LEMMA TaskChatKeeps ==
    ASSUME TasksInv, PostsInv, GraphHonest, ThreadsCovered, NEW p \in Callers,
           UNCHANGED <<resRow, taskVars>>, ChatSteps(p)
    PROVE  TasksInv' /\ PostsInv' /\ GraphHonest' /\ ThreadsCovered'
<1>1. PostsInv' BY ChatStepsKeep
<1>2. GraphHonest' /\ ThreadsCovered' BY PostsGraphKeep DEF taskVars
<1>3. Posting(call[p]) /\ \E r : call' = [call EXCEPT ![p] = r] /\ (r = Nothing \/ Posting(r))
    BY ChatStepIs
<1>4. \A r : r = Nothing \/ Posting(r) => ~Tasking(r) BY DEF Posting, Tasking
<1>5. HasNode(TaskNode) => nodeRow'[TaskNode] = nodeRow[TaskNode]
    <2>1. TaskNode[1] = "task" BY DEF TaskNode
    <2> QED BY <2>1, ChatGrows DEF HasNode
<1>6. TasksInv' BY <1>3, <1>4, <1>5, ChatGrows, OtherRequest
<1> QED BY <1>1, <1>2, <1>6

\* Every step of the service of agent tasks.
LEMMA TaskNextKeeps ==
    ASSUME TasksInv, PostsInv, GraphHonest, ThreadsCovered, TaskNext, UNCHANGED resRow
    PROVE  /\ TasksInv' /\ PostsInv' /\ GraphHonest' /\ ThreadsCovered'
           /\ UNCHANGED <<chanMem, chanRow>>
<1>1. ASSUME NEW u \in Users, GrantExpires(u), UNCHANGED <<gatewayVars, chatVars, graphVars>>
      PROVE  TasksInv' /\ PostsInv' /\ GraphHonest' /\ ThreadsCovered'
    <2>1. TasksInv' BY <1>1, ExpiryKeeps
    <2>2. UNCHANGED <<call, taskRow, threadMem, threadRow, messageRow, published>>
        BY <1>1 DEF GrantExpires, gatewayVars, chatVars
    <2>3. PostsInv' BY <2>2, PostsStay
    <2>4. RowsGrow BY <2>2 DEF RowsGrow
    <2>5. GraphHonest' BY <1>1, <2>4, HonestStays DEF graphVars
    <2>6. ThreadsCovered' BY <1>1, <2>2, ThreadsStay, GraphStays
    <2> QED BY <2>1, <2>3, <2>5, <2>6
<1>2. ASSUME NEW p \in Callers, ChatSteps(p), UNCHANGED taskVars
      PROVE  /\ TasksInv' /\ PostsInv' /\ GraphHonest' /\ ThreadsCovered'
             /\ UNCHANGED <<chanMem, chanRow>>
    BY <1>2, TaskChatKeeps, ChatStepIs
<1>3. ASSUME NEW p \in Callers, UNCHANGED chatVars, ProjectTask(p) \/ ProjectTaskArtifact(p)
      PROVE  TasksInv' /\ PostsInv' /\ GraphHonest' /\ ThreadsCovered'
    BY <1>3, ProjectTaskKeepsAll, ProjectArtifactKeepsAll
<1>4. ASSUME NEW p \in Callers, UNCHANGED <<chatVars, graphVars>>, UpsertRow(p) \/ TaskRow(p) \/ PromptTask(p)
      PROVE  TasksInv' /\ PostsInv' /\ GraphHonest' /\ ThreadsCovered'
    BY <1>4, TaskActionsKeep
<1>5. ASSUME NEW p \in Callers, NEW u \in Users, UNCHANGED <<chatVars, graphVars>>,
             (\E s \in Statuses : UpsertTask(p, u, s)) \/ InputTask(p, u) \/ CancelTask(p, u)
      PROVE  TasksInv' /\ PostsInv' /\ GraphHonest' /\ ThreadsCovered'
    BY <1>5, AgentAsksKeep
<1>6. ASSUME NEW p \in Callers, NEW u \in Users, UNCHANGED <<chatVars, graphVars>>,
             RecordOutput(p, u) \/ ShareTaskArtifact(p, u)
      PROVE  TasksInv' /\ PostsInv' /\ GraphHonest' /\ ThreadsCovered'
    BY <1>6, AgentPostsKeep
<1>7. ASSUME NEW p \in Callers, NEW u \in Users, UNCHANGED <<chatVars, graphVars>>,
             UpsertAgent(p, u) \/ (\E v \in Users, role \in TaskRoles : GrantTaskAccess(p, u, v, role))
      PROVE  TasksInv' /\ PostsInv' /\ GraphHonest' /\ ThreadsCovered'
    BY <1>7, GrantsKeepAll
<1>8. \/ \E u \in Users : GrantExpires(u) /\ UNCHANGED <<gatewayVars, chatVars, graphVars>>
      \/ \E p \in Callers : ChatSteps(p) /\ UNCHANGED taskVars
      \/ \E p \in Callers : UNCHANGED chatVars /\ (ProjectTask(p) \/ ProjectTaskArtifact(p))
      \/ \E p \in Callers : UNCHANGED <<chatVars, graphVars>> /\ (UpsertRow(p) \/ TaskRow(p) \/ PromptTask(p))
      \/ \E p \in Callers, u \in Users :
            /\ UNCHANGED <<chatVars, graphVars>>
            /\ \/ UpsertAgent(p, u) \/ RecordOutput(p, u) \/ InputTask(p, u) \/ CancelTask(p, u) \/ ShareTaskArtifact(p, u)
               \/ \E s \in Statuses : UpsertTask(p, u, s)
               \/ \E v \in Users, role \in TaskRoles : GrantTaskAccess(p, u, v, role)
    BY DEF TaskNext
<1>9. TasksInv' /\ PostsInv' /\ GraphHonest' /\ ThreadsCovered'
    BY <1>1, <1>2, <1>3, <1>4, <1>5, <1>6, <1>7, <1>8
<1>10. UNCHANGED <<chanMem, chanRow>>
    <2>1. UNCHANGED chatVars => UNCHANGED <<chanMem, chanRow>> BY DEF chatVars
    <2> QED BY <1>2, <1>8, <2>1
<1> QED BY <1>9, <1>10

\* A restart leaves rows and grants; a prompt that it cuts off is excused.
LEMMA TaskRestartKeeps ==
    ASSUME TasksInv, TaskRestart, GraphRestart, GatewayRestart
    PROVE  TasksInv'
<1>0. TaskTypes /\ GrantsKept /\ TaskSynced /\ RunningMeansWork BY DEF TasksInv
<1>1. /\ UNCHANGED <<taskRow, grantRow, granted>>
      /\ excused' = (excused \/ Prompts # {}) /\ disturbed' = (disturbed \/ Writers # {})
      /\ call' = [p \in Callers |-> Nothing]
    BY DEF TaskRestart, GatewayRestart
<1>2. DOMAIN call' = Callers /\ Writers' = {} /\ Prompts' = {} BY <1>1 DEF Writers, Prompts
<1>3. TaskCalls' BY <1>1 DEF TaskCalls, Tasking
<1>4. TaskTypes' /\ GrantsKept' BY <1>0, <1>1 DEF TaskTypes, GrantsKept
<1>5. RunningMeansWork' BY <1>0, <1>1 DEF RunningMeansWork
<1> PICK node : node = TaskNode OBVIOUS
<1>6. NodeShows => NodeShows'
    <2>1. node \in DOMAIN nodeRow => node \in DOMAIN nodeRow' /\ nodeRow'[node] = nodeRow[node]
        BY GraphRestartIs
    <2> QED BY <1>1, <2>1 DEF NodeShows, HasNode, TaskNode
<1>7. TaskSynced'
    <2> SUFFICES ASSUME ~disturbed', taskRow' # Nothing PROVE NodeShows'
        BY <1>2 DEF TaskSynced
    <2> QED BY <1>0, <1>1, <1>6 DEF TaskSynced
<1>8. TaskCovered'
    <2>1. taskRow # Nothing => node \in Stored BY StoredIs
    <2>2. taskRow # Nothing => node \in DOMAIN nodeRow' BY <2>1, GraphRestartIs
    <2> QED BY <1>1, <2>2 DEF TaskCovered, Covered, HasNode, TaskNode
<1> QED BY <1>2, <1>3, <1>4, <1>5, <1>7, <1>8 DEF TasksInv

\* The database that a gateway starts over.
LEMMA TasksInitHold ==
    ASSUME TaskInit, call = [p \in Callers |-> Nothing], resRow = NoResources
    PROVE  TasksInv /\ GraphHonest
<1> USE TaskAssumption
<1>1. /\ agentRow \in SUBSET Users /\ grantRow = [u \in Users |-> Nothing]
      /\ granted = {} /\ excused = FALSE /\ disturbed = FALSE
      /\ taskRow \in {Nothing} \cup (IF 1 \in threadRow THEN [owner : agentRow, status : {"ready"}] ELSE {})
    BY DEF TaskInit
<1>2. taskRow = Nothing \/ (taskRow \in TaskEntry /\ taskRow.status = "ready")
    BY <1>1 DEF TaskEntry, TaskStatuses
<1>3. TaskTypes /\ GrantsKept BY <1>1, <1>2 DEF TaskTypes, GrantsKept
<1>4. DOMAIN call = Callers /\ Writers = {} /\ Prompts = {} BY DEF Writers, Prompts
<1>5. TaskCalls BY DEF TaskCalls, Tasking
<1>6. RunningMeansWork BY <1>2 DEF RunningMeansWork
<1> PICK node : node = TaskNode OBVIOUS
<1>7. /\ DOMAIN nodeRow = {<<"discussion", i>> : i \in threadRow} \cup (IF taskRow = Nothing THEN {} ELSE {node})
      /\ taskRow # Nothing => nodeRow[node] = "ready"
    BY DEF TaskInit
<1>8. taskRow # Nothing => NodeShows BY <1>2, <1>7 DEF NodeShows, HasNode
<1>9. TaskSynced /\ TaskCovered BY <1>4, <1>8 DEF TaskSynced, TaskCovered, NodeShows, Covered
<1>10. GraphHonest
    <2> SUFFICES ASSUME NEW id \in DOMAIN nodeRow PROVE HonestNode(id) BY DEF GraphHonest, HonestNode
    <2>1. (\E i \in threadRow : id = <<"discussion", i>>) \/ (taskRow # Nothing /\ id = node)
        BY <1>7
    <2>2. id \in Stored BY <2>1, StoredIs
    <2>3. id[1] # "artifact" BY <2>1 DEF TaskNode
    <2> QED BY <2>2, <2>3 DEF HonestNode
<1> QED BY <1>3, <1>4, <1>5, <1>6, <1>9, <1>10 DEF TasksInv

\* Where the clients do nothing with agents there is no task, and no request for one.
TasksStill == taskRow = Nothing /\ granted = {} /\ \A p \in Callers : ~Tasking(call[p])

\* Without a task nothing of it is wrong.
LEMMA TasksStillSafe ==
    ASSUME TasksStill PROVE OwnersDecide /\ RunningMeansWork /\ GraphFollowsTask
<1>1. Prompts = {} BY WritersAre DEF TasksStill, Prompting
<1> QED BY <1>1 DEF TasksStill, OwnersDecide, RunningMeansWork, GraphFollowsTask

-----------------------------------------------------------------------------
(* The edges that clients insert.                                          *)

\* A request that will insert an edge.
Linking(c) == c # Nothing /\ c.op = "graph"

\* Its relation is one of those that clients use.
EdgeRequest(r) == r.op = "graph" /\ r.relation \in Relations

\* What a request of the graph does that inserts no edge: perhaps a client's node, and it is answered
\* or goes on with an edge, or with a message about the node.
GraphAsks(p) ==
    /\ UNCHANGED <<chatVars, edgeRow, edgeSeq, unprojected, linked, restarts>>
    /\ nodeRow' = nodeRow \/ \E i \in Items : nodeRow' = WithNode(ClientNode(i), "none")
    /\ \/ Answers(p)
       \/ \E r : Begins(p, r) /\ EdgeRequest(r)
       \/ Begins(p, [Chat("message") EXCEPT !.thread = 1])

\* A step of the graph's clients, by what it changes.
LEMMA GraphNextIs ==
    ASSUME GraphNext
    PROVE  \E p \in Callers :
            \/ InsertEdge(p) /\ UNCHANGED chatVars
            \/ ChatSteps(p) /\ UNCHANGED linked
            \/ GraphAsks(p)
<1>1. PICK p \in Callers :
        \/ InsertEdge(p) /\ UNCHANGED chatVars
        \/ ChatSteps(p) /\ UNCHANGED linked
        \/ \E u \in Users, i \in Items : (UpsertNode(p, u, i) \/ CallTool(p, u, i)) /\ UNCHANGED chatVars
        \/ \E u \in Users, relation \in Relations, from, to \in DOMAIN nodeRow \cup {ClientNode(1)} :
                CreateEdge(p, u, from, to, relation) /\ UNCHANGED chatVars
    BY DEF GraphNext
<1>3. ASSUME NEW u, NEW i \in Items, UpsertNode(p, u, i), UNCHANGED chatVars PROVE GraphAsks(p)
    <2>1. Answers(p) /\ restarts' = restarts BY <1>3 DEF UpsertNode, Answers, Asks
    <2>2. UNCHANGED <<edgeRow, edgeSeq, unprojected, linked>> /\ nodeRow' \in {nodeRow, WithNode(ClientNode(i), "none")}
        BY <1>3 DEF UpsertNode
    <2> QED BY <1>3, <2>1, <2>2 DEF GraphAsks
<1>4. ASSUME NEW u, NEW i \in Items, NewNode(u, i), UNCHANGED chatVars,
             Answers(p) \/ (\E r : Begins(p, r) /\ EdgeRequest(r)) \/ Begins(p, [Chat("message") EXCEPT !.thread = 1])
      PROVE  GraphAsks(p)
    <2>1. restarts' = restarts BY <1>4 DEF Answers, Begins, Asks
    <2>2. UNCHANGED <<edgeRow, edgeSeq, unprojected, linked>> /\ nodeRow' \in {nodeRow, WithNode(ClientNode(i), "none")}
        BY <1>4 DEF NewNode
    <2> QED BY <1>4, <2>1, <2>2 DEF GraphAsks
<1>5. ASSUME NEW from, NEW to, NEW relation \in Relations
      PROVE  EdgeRequest([op |-> "graph", at |-> "edge", from |-> from, to |-> to, relation |-> relation])
    BY DEF EdgeRequest
<1>6. ASSUME NEW u, NEW i \in Items, CallTool(p, u, i), UNCHANGED chatVars PROVE GraphAsks(p)
    <2>1. CASE UpdateUIArtifact(p, u, i) BY <1>3, <1>6, <2>1 DEF UpdateUIArtifact
    <2>2. CASE RequestUIAction(p, u, i) BY <1>4, <1>6, <2>2 DEF RequestUIAction
    <2>3. CASE CreateUIArtifact(p, u, i) BY <1>4, <1>6, <2>3 DEF CreateUIArtifact
    <2>4. ASSUME NEW relation \in Relations, NEW to, CreateByTool(p, u, i, relation, to) PROVE GraphAsks(p)
        <3>1. NewNode(u, i)
              /\ Begins(p, [op |-> "graph", at |-> "edge", from |-> ClientNode(i), to |-> to, relation |-> relation])
            BY <2>4 DEF CreateByTool, LinkOptional
        <3> QED BY <1>4, <1>5, <1>6, <3>1
    <2> QED BY <1>6, <2>1, <2>2, <2>3, <2>4 DEF CallTool
<1>7. ASSUME NEW u, NEW relation \in Relations, NEW from, NEW to, CreateEdge(p, u, from, to, relation),
             UNCHANGED chatVars
      PROVE  GraphAsks(p)
    <2>1. Begins(p, [op |-> "graph", at |-> "edge", from |-> from, to |-> to, relation |-> relation])
          /\ UNCHANGED <<graphVars, linked>>
        BY <1>7 DEF CreateEdge
    <2>2. UNCHANGED <<chatVars, edgeRow, edgeSeq, unprojected, linked, restarts>> /\ nodeRow' = nodeRow
        BY <1>7, <2>1 DEF graphVars, Begins, Asks
    <2> QED BY <1>5, <2>1, <2>2 DEF GraphAsks
<1> QED BY <1>1, <1>3, <1>6, <1>7

\* An edge and the client that was told of it: the number it has was this process's, or an earlier
\* one's that the process has not reached again, and the row is the edge's or that of an earlier edge.
EdgeNumber(e) ==
    /\ e.start \in Nat /\ e.start <= restarts
    /\ \E relation \in Relations, n \in Nat :
        e.id = <<relation, n>> /\ (e.start = restarts => n <= edgeSeq)

\* The row of the edge, or that of an edge with the same number from before a restart.
EdgeKept(e) ==
    /\ e.id \in DOMAIN edgeRow
    /\ edgeRow[e.id] = e.ends \/ \E f \in linked : f.id = e.id /\ f.start < e.start

\* What the clients' edges keep.
EdgesInv ==
    /\ DOMAIN call = Callers
    /\ restarts \in Nat /\ edgeSeq \in Nat
    /\ \A p \in Callers : Linking(call[p]) => call[p].relation \in Relations
    /\ \A e \in linked : EdgeNumber(e) /\ EdgeKept(e)
    /\ \A id \in DOMAIN edgeRow : \E e \in linked : e.id = id

\* The invariant says what the run checks of the edges.
LEMMA EdgesSafe ==
    ASSUME EdgesInv PROVE EdgesComplete
<1> SUFFICES ASSUME NEW e \in linked, edgeRow[e.id] = e.ends
             PROVE  \A i \in 1 .. 2 : e.id \in ContextOf(e.ends[i])
    BY DEF EdgesInv, EdgeKept, EdgesComplete
<1>1. e.id \in DOMAIN edgeRow BY DEF EdgesInv, EdgeKept
<1>2. \A i \in 1 .. 2 : i = 1 \/ i = 2 OBVIOUS
<1> QED BY <1>1, <1>2 DEF ContextOf

\* A request moves that inserts no edge.
LEMMA EdgesFrame ==
    ASSUME EdgesInv, NEW p \in Callers, NEW r,
           call' = [call EXCEPT ![p] = r], Linking(r) => r.relation \in Relations,
           UNCHANGED <<edgeRow, edgeSeq, linked, restarts>>
    PROVE  EdgesInv'
<1>1. DOMAIN call' = Callers /\ call'[p] = r /\ \A q \in Callers : q # p => call'[q] = call[q]
    BY CallMoves DEF EdgesInv
<1>2. \A q \in Callers : Linking(call'[q]) => call'[q].relation \in Relations
    BY <1>1 DEF EdgesInv
<1>3. \A e \in linked : EdgeNumber(e)' /\ EdgeKept(e)'
    BY DEF EdgesInv, EdgeNumber, EdgeKept
<1> QED BY <1>1, <1>2, <1>3 DEF EdgesInv, Linking

\* Nothing of the edges changes.
LEMMA EdgesStay ==
    ASSUME EdgesInv, UNCHANGED <<call, edgeRow, edgeSeq, linked, restarts>>
    PROVE  EdgesInv'
BY DEF EdgesInv, EdgeNumber, EdgeKept, Linking

\* An edge is inserted under the next number.
LEMMA InsertEdgeKeeps ==
    ASSUME EdgesInv, NEW p \in Callers, InsertEdge(p)
    PROVE  EdgesInv'
<1> PICK c : c = call[p] OBVIOUS
<1>1. Linking(c) BY DEF InsertEdge, At, Linking
<1>2. c.relation \in Relations BY <1>1 DEF EdgesInv
<1> PICK relation \in Relations : relation = c.relation BY <1>2
<1>3. call' = [call EXCEPT ![p] = Nothing] /\ restarts' = restarts /\ edgeSeq' = edgeSeq + 1
    BY DEF InsertEdge, Returns, Goes
<1>4. restarts \in Nat /\ edgeSeq \in Nat /\ edgeSeq' \in Nat BY <1>3 DEF EdgesInv
<1>5. DOMAIN call' = Callers /\ call'[p] = Nothing /\ \A q \in Callers : q # p => call'[q] = call[q]
    BY <1>3, CallMoves DEF EdgesInv
<1>6. \A q \in Callers : Linking(call[q])' => call'[q].relation \in Relations
    BY <1>5 DEF EdgesInv, Linking
<1>7. ASSUME NEW e \in linked PROVE EdgeNumber(e)'
    <2>1. EdgeNumber(e) BY DEF EdgesInv
    <2>2. PICK rel \in Relations, n \in Nat : e.id = <<rel, n>> /\ (e.start = restarts => n <= edgeSeq)
        BY <2>1 DEF EdgeNumber
    <2>3. e.start = restarts => n <= edgeSeq' BY <1>3, <1>4, <2>2
    <2> QED BY <1>3, <2>1, <2>2, <2>3 DEF EdgeNumber
<1>8. CASE UNCHANGED <<edgeRow, linked>>
    <2>1. \A e \in linked' : EdgeNumber(e)' /\ EdgeKept(e)' BY <1>7, <1>8 DEF EdgesInv, EdgeKept
    <2> QED BY <1>3, <1>4, <1>5, <1>6, <1>8, <2>1 DEF EdgesInv
<1>9. CASE ~ UNCHANGED <<edgeRow, linked>>
    <2> PICK id : id = EdgeID(relation) OBVIOUS
    <2> PICK ends : ends = <<c.from, c.to>> OBVIOUS
    <2> PICK new : new = [id |-> id, ends |-> ends, start |-> restarts] OBVIOUS
    <2>1. edgeRow' \in Linked(DOMAIN nodeRow, id, c.from, c.to) /\ linked' = linked \cup {new}
        BY <1>9 DEF InsertEdge
    <2>2. edgeRow' = IF HasEdge(id) THEN edgeRow ELSE With(edgeRow, id, ends) BY <2>1 DEF Linked
    <2>3. /\ DOMAIN edgeRow' = DOMAIN edgeRow \cup {id}
          /\ \A x \in DOMAIN edgeRow : edgeRow'[x] = edgeRow[x]
          /\ id \notin DOMAIN edgeRow => edgeRow'[id] = ends
        BY <2>2 DEF HasEdge, With
    <2>4. id = <<relation, edgeSeq + 1>> BY DEF EdgeID
    <2>5. new.id = id /\ new.ends = ends /\ new.start = restarts OBVIOUS
    <2>6. EdgeNumber(new)'
        <3>1. restarts \in Nat /\ restarts <= restarts' BY <1>3, <1>4
        <3>2. edgeSeq + 1 \in Nat /\ edgeSeq + 1 <= edgeSeq' BY <1>3, <1>4
        <3> QED BY <2>4, <2>5, <3>1, <3>2 DEF EdgeNumber
    <2>7. EdgeKept(new)'
        <3>1. CASE id \notin DOMAIN edgeRow BY <2>3, <2>5, <3>1 DEF EdgeKept
        <3>2. CASE id \in DOMAIN edgeRow
            <4>1. PICK f \in linked : f.id = id BY <3>2 DEF EdgesInv
            <4>2. EdgeNumber(f) BY DEF EdgesInv
            <4>3. PICK rel \in Relations, n \in Nat : f.id = <<rel, n>> /\ (f.start = restarts => n <= edgeSeq)
                BY <4>2 DEF EdgeNumber
            <4>4. n = edgeSeq + 1 BY <2>4, <4>1, <4>3
            <4>5. f.start # restarts BY <1>4, <4>3, <4>4
            <4>6. f.start < new.start BY <1>4, <2>5, <4>2, <4>5 DEF EdgeNumber
            <4> QED BY <2>1, <2>3, <2>5, <4>1, <4>6 DEF EdgeKept
        <3> QED BY <3>1, <3>2
    <2>8. ASSUME NEW e \in linked PROVE EdgeKept(e)'
        <3>1. EdgeKept(e) BY DEF EdgesInv
        <3> QED BY <2>1, <2>3, <3>1 DEF EdgeKept
    <2>9. \A e \in linked' : EdgeNumber(e)' /\ EdgeKept(e)' BY <1>7, <2>1, <2>6, <2>7, <2>8
    <2>10. \A x \in DOMAIN edgeRow' : \E e \in linked' : e.id = x BY <2>1, <2>3, <2>5 DEF EdgesInv
    <2> QED BY <1>3, <1>4, <1>5, <1>6, <2>9, <2>10 DEF EdgesInv
<1> QED BY <1>8, <1>9

\* A restart begins to count again.
LEMMA EdgesRestartKeep ==
    ASSUME EdgesInv, GraphRestart, GatewayRestart, taskRow = Nothing
    PROVE  EdgesInv'
<1>1. /\ UNCHANGED <<edgeRow, linked>> /\ edgeSeq' = 0 /\ restarts' = restarts + 1
      /\ call' = [p \in Callers |-> Nothing]
    BY DEF GraphRestart, GatewayRestart
<1>2. restarts \in Nat /\ restarts' \in Nat /\ restarts < restarts' BY <1>1 DEF EdgesInv
<1>3. ASSUME NEW e \in linked PROVE EdgeNumber(e)' /\ EdgeKept(e)'
    <2>1. EdgeNumber(e) /\ EdgeKept(e) BY DEF EdgesInv
    <2>2. e.start \in Nat /\ e.start <= restarts BY <2>1 DEF EdgeNumber
    <2>3. e.start <= restarts' /\ e.start # restarts' BY <1>2, <2>2
    <2>4. EdgeNumber(e)' BY <2>1, <2>2, <2>3 DEF EdgeNumber
    <2>5. EdgeKept(e)' BY <1>1, <2>1 DEF EdgeKept
    <2> QED BY <2>4, <2>5
<1> QED BY <1>1, <1>2, <1>3 DEF EdgesInv, Linking

\* A gateway starts without edges.
LEMMA EdgesInitHold ==
    ASSUME GraphInit, restarts = 0, call = [p \in Callers |-> Nothing]
    PROVE  EdgesInv
<1>1. edgeRow = NoRows /\ edgeSeq = 0 /\ linked = {} BY DEF GraphInit
<1> QED BY <1>1 DEF EdgesInv, NoRows, Linking

\* They stay so when a request moves that is not of the task.
LEMMA TasksStillMove ==
    ASSUME TasksStill, DOMAIN call = Callers, NEW p \in Callers, NEW r, call' = [call EXCEPT ![p] = r], ~Tasking(r),
           UNCHANGED <<taskRow, granted>>
    PROVE  TasksStill'
<1>1. call'[p] = r /\ \A q \in Callers : q # p => call'[q] = call[q] BY CallMoves
<1> QED BY <1>1 DEF TasksStill, Tasking

\* The clients of the graph keep everything but the edges and their own nodes.
LEMMA GraphAsksKeep ==
    ASSUME EdgesInv, PostsInv, GraphHonest, ThreadsCovered, TasksStill, NEW p \in Callers, GraphAsks(p),
           UNCHANGED <<resRow, taskVars>>
    PROVE  EdgesInv' /\ PostsInv' /\ GraphHonest' /\ ThreadsCovered' /\ TasksStill'
<1>0. DOMAIN call = Callers BY DEF PostsInv
<1>1. UNCHANGED <<chatVars, edgeRow, edgeSeq, unprojected, linked, restarts>> BY DEF GraphAsks
<1>2. UNCHANGED <<threadMem, threadRow, messageRow, published, taskRow, granted>> BY <1>1 DEF chatVars, taskVars
<1>3. RowsGrow BY <1>2 DEF RowsGrow
<1>4. GraphHonest' /\ GraphGrows
    <2>1. CASE nodeRow' = nodeRow BY <1>1, <1>3, <2>1, HonestStays DEF GraphGrows
    <2>2. ASSUME NEW i \in Items, nodeRow' = WithNode(ClientNode(i), "none") PROVE GraphHonest' /\ GraphGrows
        <3> PICK node : node = <<"node", i>> OBVIOUS
        <3>1. nodeRow' = WithNode(node, "none") BY <2>2 DEF ClientNode
        <3>2. DOMAIN nodeRow' = DOMAIN nodeRow \cup {node} BY <3>1, WithNodeIs
        <3>3. HonestNode(node)'
            <4>1. node[1] = "node" OBVIOUS
            <4> QED BY <4>1 DEF HonestNode
        <3> QED BY <1>1, <1>3, <3>2, <3>3, HonestNew DEF GraphGrows
    <2> QED BY <2>1, <2>2 DEF GraphAsks
<1>5. ASSUME NEW CONSTANT r, Begins(p, r), ~Posting(r) \/ r = [Chat("message") EXCEPT !.thread = 1],
             EdgeRequest(r) \/ r.op = "chat"
      PROVE  EdgesInv' /\ PostsInv' /\ ThreadsCovered' /\ TasksStill'
    <2>1. call' = [call EXCEPT ![p] = r] /\ call[p] = Nothing BY <1>5 DEF Begins, Asks
    <2>2. Linking(r) => r.relation \in Relations BY <1>5 DEF Linking, EdgeRequest
    <2>3. EdgesInv' BY <1>1, <2>1, <2>2, EdgesFrame
    <2>4. ThreadsCovered' BY <1>0, <1>2, <1>4, <2>1, ThreadsFrame DEF Posting
    <2>5. ~Tasking(r) BY <1>5 DEF Tasking, EdgeRequest
    <2>6. TasksStill' BY <1>0, <1>2, <2>1, <2>5, TasksStillMove
    <2>7. ASSUME ~Posting(r) PROVE PostsInv' BY <1>2, <2>1, <2>7, PostsFrame
    <2>8. ASSUME r = [Chat("message") EXCEPT !.thread = 1] PROVE PostsInv'
        <3>1. PICK kind \in {"message", "artifact"}, thread \in Nat : kind = "message" /\ thread = 1 OBVIOUS
        <3>2. Begins(p, [Chat(kind) EXCEPT !.thread = thread]) BY <1>5, <2>8, <3>1
        <3> QED BY <1>1, <3>2, BeginPostKeeps
    <2> QED BY <1>5, <2>3, <2>4, <2>6, <2>7, <2>8
<1>6. CASE Answers(p)
    <2>1. call' = call BY <1>6 DEF Answers
    <2>2. EdgesInv' BY <1>1, <2>1, EdgesStay
    <2>3. PostsInv' BY <1>2, <2>1, PostsStay
    <2>4. ThreadsCovered' BY <1>2, <1>4, <2>1, ThreadsStay
    <2>5. TasksStill' BY <1>2, <2>1 DEF TasksStill, Tasking
    <2> QED BY <1>4, <2>2, <2>3, <2>4, <2>5
<1>7. ASSUME NEW r, Begins(p, r), EdgeRequest(r) PROVE EdgesInv' /\ PostsInv' /\ ThreadsCovered' /\ TasksStill'
    <2>1. ~Posting(r) BY <1>7 DEF Posting, EdgeRequest
    <2> QED BY <1>5, <1>7, <2>1
<1>8. CASE Begins(p, [Chat("message") EXCEPT !.thread = 1])
    <2> PICK r : r = [Chat("message") EXCEPT !.thread = 1] OBVIOUS
    <2>1. r.op = "chat" BY DEF Chat
    <2> QED BY <1>4, <1>5, <1>8, <2>1
<1> QED BY <1>4, <1>6, <1>7, <1>8 DEF GraphAsks

\* Every step of the graph's clients.
LEMMA GraphNextKeeps ==
    ASSUME EdgesInv, PostsInv, GraphHonest, ThreadsCovered, TasksStill, GraphNext, UNCHANGED <<resRow, taskVars>>
    PROVE  /\ EdgesInv' /\ PostsInv' /\ GraphHonest' /\ ThreadsCovered' /\ TasksStill'
           /\ UNCHANGED <<chanMem, chanRow>>
<1>0. DOMAIN call = Callers /\ UNCHANGED <<taskRow, granted>> BY DEF PostsInv, taskVars
<1>1. ASSUME NEW p \in Callers, InsertEdge(p), UNCHANGED chatVars
      PROVE  /\ EdgesInv' /\ PostsInv' /\ GraphHonest' /\ ThreadsCovered' /\ TasksStill'
             /\ UNCHANGED <<chanMem, chanRow>>
    <2>1. EdgesInv' BY <1>1, InsertEdgeKeeps
    <2>2. call' = [call EXCEPT ![p] = Nothing] /\ ~Posting(call[p]) /\ UNCHANGED <<nodeRow, unprojected>>
        BY <1>1 DEF InsertEdge, At, Returns, Goes, Posting
    <2>3. ~Posting(Nothing) /\ ~Tasking(Nothing) BY DEF Posting, Tasking
    <2>4. UNCHANGED <<chanMem, chanRow, threadMem, threadRow, messageRow, published>> BY <1>1 DEF chatVars
    <2>5. PostsInv' BY <2>2, <2>3, <2>4, PostsFrame
    <2>6. GraphGrows BY <2>2 DEF GraphGrows
    <2>7. ThreadsCovered' BY <1>0, <2>2, <2>4, <2>6, ThreadsFrame
    <2>8. RowsGrow BY <1>0, <2>4 DEF RowsGrow
    <2>9. GraphHonest' BY <2>2, <2>8, HonestStays
    <2>10. TasksStill' BY <1>0, <2>2, <2>3, TasksStillMove
    <2> QED BY <2>1, <2>4, <2>5, <2>7, <2>9, <2>10
<1>2. ASSUME NEW p \in Callers, ChatSteps(p), UNCHANGED linked
      PROVE  /\ EdgesInv' /\ PostsInv' /\ GraphHonest' /\ ThreadsCovered' /\ TasksStill'
             /\ UNCHANGED <<chanMem, chanRow>>
    <2>1. PostsInv' BY <1>2, ChatStepsKeep
    <2>2. GraphHonest' /\ ThreadsCovered' BY <1>0, <1>2, PostsGraphKeep
    <2>3. /\ \E r : call' = [call EXCEPT ![p] = r] /\ (r = Nothing \/ Posting(r))
          /\ UNCHANGED <<chanMem, chanRow, restarts, edgeRow, edgeSeq>>
        BY <1>2, ChatStepIs
    <2>4. PICK r : call' = [call EXCEPT ![p] = r] /\ (r = Nothing \/ Posting(r)) BY <2>3
    <2>5. ~Linking(r) /\ ~Tasking(r) BY <2>4 DEF Linking, Tasking, Posting
    <2>6. EdgesInv' BY <1>2, <2>3, <2>4, <2>5, EdgesFrame
    <2>7. TasksStill' BY <1>0, <2>4, <2>5, TasksStillMove
    <2> QED BY <2>1, <2>2, <2>3, <2>6, <2>7
<1>3. ASSUME NEW p \in Callers, GraphAsks(p)
      PROVE  /\ EdgesInv' /\ PostsInv' /\ GraphHonest' /\ ThreadsCovered' /\ TasksStill'
             /\ UNCHANGED <<chanMem, chanRow>>
    <2>1. UNCHANGED chatVars BY <1>3 DEF GraphAsks
    <2> QED BY <1>3, <2>1, GraphAsksKeep DEF chatVars
<1> QED BY <1>1, <1>2, <1>3, GraphNextIs

\* Where the clients do nothing with secrets there are none.
SecretsStill == secretMem = NoItems /\ secretRow = NoItems /\ settled = NoItems

\* They stay so.
LEMMA SecretsStillKeep ==
    ASSUME SecretsStill, UNCHANGED secretVars \/ SecretRestart PROVE SecretsStill'
BY DEF SecretsStill, SecretRestart, secretVars, NoItems

\* It stays so.
LEMMA MembersStillKeep ==
    ASSUME MembersStill, UNCHANGED memberVars \/ MembersRestart PROVE MembersStill'
<1>1. UNCHANGED <<memberAcked, memberRefused>> BY DEF MembersRestart, memberVars, memberHistory
<1>2. roleMem' \in {roleMem, NoRoles} BY DEF MembersRestart, memberVars
<1> QED BY <1>1, <1>2 DEF MembersStill, NoRoles

\* What the graph has, put together.
LEMMA GraphSafe ==
    ASSUME GraphHonest, ResourcesCovered, ThreadsCovered, GraphFollowsTask,
           memberAcked \subseteq (Workspaces \X Users \X Roles) \cup (Workspaces \X Resources),
           taskRow # Nothing /\ Writers = {} => Covered(TaskNode)
    PROVE  GraphMatchesRows
<1>1. ASSUME NEW a \in memberAcked, Len(a) = 2 PROVE Covered(<<"resource", a[1], a[2]>>)
    <2>1. a \notin Workspaces \X Users \X Roles
        <3>1. \A w \in Workspaces, u \in Users, role \in Roles : Len(<<w, u, role>>) = 3 OBVIOUS
        <3> QED BY <1>1, <3>1
    <2>2. PICK w \in Workspaces, x \in Resources : a = <<w, x>> BY <2>1
    <2>3. a[1] = w /\ a[2] = x BY <2>2
    <2> QED BY <2>2, <2>3 DEF ResourcesCovered
<1>2. \A i \in Items : <<"thread", i>> \in published =>
        \/ Covered(<<"discussion", i>>)
        \/ \E p \in Callers : At(p, "chat", "project") /\ call[p].kind = "thread" /\ call[p].item = i
    BY DEF ThreadsCovered, ThreadCovered, Projecting
<1>3. GraphCovers BY <1>1, <1>2 DEF GraphCovers, Covered
<1> QED BY <1>3 DEF GraphMatchesRows

-----------------------------------------------------------------------------
(* All services of the gateway.                                            *)

\* The clients who post threads and messages.
Posts == {"messages", "tasks", "graph"}

\* The services whose clients are asking keep their invariant; the others stand still.
ServicesInv ==
    /\ use \in Uses
    /\ GraphHonest
    /\ IF use = "members" THEN MembersInv /\ ResourcesCovered ELSE MembersStill
    /\ IF use = "channels" THEN ChannelsInv ELSE ChannelsStill
    /\ IF use \in Posts THEN PostsInv /\ ThreadsCovered ELSE use # "channels" => published = {}
    /\ IF use = "secrets" THEN SecretsInv ELSE SecretsStill
    /\ IF use = "tasks" THEN TasksInv ELSE TasksStill
    /\ IF use = "graph" THEN EdgesInv ELSE linked = {}

\* The invariant says what the runs check of the gateway.
LEMMA ServicesSafe ==
    ASSUME ServicesInv
    PROVE  /\ AckedIsDurable /\ RightsKept
           /\ PublishedIsDurable /\ ChannelsAgree
           /\ SecretsSettle
           /\ OwnersDecide /\ RunningMeansWork
           /\ GraphMatchesRows /\ EdgesComplete
<1>1. AckedIsDurable /\ RightsKept BY MembersSafe, MembersStillSafe DEF ServicesInv
<1>2. PublishedIsDurable
    <2>1. CASE published = {} BY <2>1 DEF PublishedIsDurable
    <2> QED BY <2>1, ChannelsSafe, PostsSafe DEF ServicesInv
<1>3. ChannelsAgree BY ChannelsSafe, ChannelsStillSafe DEF ServicesInv
<1>4. SecretsSettle
    <2>1. CASE use = "secrets" BY <2>1, SecretsSafe DEF ServicesInv
    <2>2. CASE use # "secrets"
        <3>1. secretMem = NoItems /\ secretRow = NoItems /\ settled = NoItems BY <2>2 DEF ServicesInv, SecretsStill
        <3>2. use = "channels" => ChannelTypes BY DEF ServicesInv, ChannelsInv
        <3>3. \A c \in Items : Parent(c) \in Items \cup {Nothing}
            BY <3>2, StillParents, TypedParents DEF ServicesInv
        <3> QED BY <3>1, <3>3, NothingHeld
    <2> QED BY <2>1, <2>2
<1>5. OwnersDecide /\ RunningMeansWork /\ GraphFollowsTask BY TasksSafe, TasksStillSafe DEF ServicesInv
<1>6. EdgesComplete
    <2>1. CASE linked = {} BY <2>1 DEF EdgesComplete
    <2> QED BY <2>1, EdgesSafe DEF ServicesInv
<1>7. GraphMatchesRows
    <2>1. ResourcesCovered
        <3>1. CASE memberAcked = {} BY <3>1 DEF ResourcesCovered
        <3> QED BY <3>1 DEF ServicesInv, MembersStill
    <2>2. ThreadsCovered
        <3>1. CASE published = {} BY <3>1 DEF ThreadsCovered
        <3>2. CASE use = "channels"
            <4>1. ChannelEvents BY <3>2 DEF ServicesInv, ChannelsInv
            <4>2. \A i \in Items : <<"thread", i>> \notin published BY <4>1 DEF ChannelEvents
            <4> QED BY <4>2 DEF ThreadsCovered
        <3> QED BY <3>1, <3>2 DEF ServicesInv
    <2>3. memberAcked \subseteq (Workspaces \X Users \X Roles) \cup (Workspaces \X Resources)
        BY DEF ServicesInv, MembersStill, MembersInv, MemberTypes
    <2>4. taskRow # Nothing /\ Writers = {} => Covered(TaskNode)
        BY TasksSafe DEF ServicesInv, TasksStill
    <2> QED BY <1>5, <2>1, <2>2, <2>3, <2>4, GraphSafe DEF ServicesInv
<1> QED BY <1>1, <1>2, <1>3, <1>4, <1>5, <1>6, <1>7

\* The clients ask for workspaces and members, ...
LEMMA ServesMembers ==
    ASSUME ServicesInv, use = "members", use' = use, MembersNext,
           UNCHANGED <<chatVars, secretVars, taskVars, linked>>
    PROVE  ServicesInv'
<1>1. /\ MembersInv /\ ResourcesCovered /\ GraphHonest /\ ChannelsStill /\ published = {}
      /\ SecretsStill /\ TasksStill /\ linked = {} /\ use \in Uses
    BY DEF ServicesInv, Posts
<1>2. MembersInv' BY <1>1, MembersNextKeeps
<1>3. GraphHonest' /\ ResourcesCovered' BY <1>1, MembersGraphKeeps
<1>4. UNCHANGED <<chanMem, chanRow, published, taskRow, granted>> BY DEF chatVars, taskVars
<1>5. ChannelsStill' BY <1>1, <1>4, ChannelsStillKeep
<1>6. SecretsStill' BY <1>1, SecretsStillKeep
<1>7. TasksStill'
    <2>1. \A p \in Callers : ~Tasking(call[p])' BY <1>2 DEF MembersInv, MemberCalls, MemberCall, Tasking
    <2> QED BY <1>1, <1>4, <2>1 DEF TasksStill
<1> QED BY <1>1, <1>2, <1>3, <1>4, <1>5, <1>6, <1>7 DEF ServicesInv, Posts

\* ... for channels, ...
LEMMA ServesChannels ==
    ASSUME ServicesInv, use = "channels", use' = use, ChannelNext,
           UNCHANGED <<memberVars, secretVars, taskVars, linked>>
    PROVE  ServicesInv'
<1>1. /\ MembersStill /\ GraphHonest /\ ChannelsInv
      /\ SecretsStill /\ TasksStill /\ linked = {} /\ use \in Uses
    BY DEF ServicesInv, Posts
<1>2. ChannelsInv' BY <1>1, ChannelNextKeeps
<1>3. GraphHonest'
    <2>1. threadRow \subseteq threadRow' /\ messageRow \subseteq messageRow' BY ChannelRowsGrow
    <2>2. UNCHANGED <<resRow, taskRow>> BY DEF memberVars, taskVars
    <2>3. RowsGrow BY <2>1, <2>2 DEF RowsGrow
    <2>4. nodeRow' = nodeRow BY DEF ChannelNext, graphVars
    <2> QED BY <1>1, <2>3, <2>4, HonestStays
<1>4. MembersStill' BY <1>1, MembersStillKeep
<1>5. SecretsStill' BY <1>1, SecretsStillKeep
<1>6. TasksStill'
    <2>1. \A p \in Callers : ~Tasking(call[p])'
        BY <1>2 DEF ChannelsInv, ChannelCalls, ChannelCall, ChatRequest, Tasking
    <2> QED BY <1>1, <2>1 DEF TasksStill, taskVars
<1> QED BY <1>1, <1>2, <1>3, <1>4, <1>5, <1>6 DEF ServicesInv, Posts

\* ... for threads and messages, ...
LEMMA ServesMessages ==
    ASSUME ServicesInv, use = "messages", use' = use, MessageNext,
           UNCHANGED <<memberVars, secretVars, taskVars, linked>>
    PROVE  ServicesInv'
<1>1. /\ MembersStill /\ GraphHonest /\ ChannelsStill /\ PostsInv /\ ThreadsCovered
      /\ SecretsStill /\ TasksStill /\ linked = {} /\ use \in Uses
    BY DEF ServicesInv, Posts
<1>2. PostsInv' BY <1>1, MessageNextKeeps
<1>3. UNCHANGED <<resRow, taskRow, granted>> BY DEF memberVars, taskVars
<1>4. GraphHonest' /\ ThreadsCovered' BY <1>1, <1>3, MessagesGraphKeep
<1>5. MembersStill' BY <1>1, MembersStillKeep
<1>6. SecretsStill' BY <1>1, SecretsStillKeep
<1>7. /\ \E p \in Callers : \E r : call' = [call EXCEPT ![p] = r] /\ (r = Nothing \/ Posting(r))
      /\ UNCHANGED <<chanMem, chanRow>>
    BY <1>1, MessageStepIs
<1>8. ChannelsStill' BY <1>1, <1>7, ChannelsStillKeep
<1>9. TasksStill'
    <2>0. PICK p \in Callers : \E r : call' = [call EXCEPT ![p] = r] /\ (r = Nothing \/ Posting(r)) BY <1>7
    <2>1. PICK r : call' = [call EXCEPT ![p] = r] /\ (r = Nothing \/ Posting(r)) BY <2>0
    <2>2. ~Tasking(r) BY <2>1 DEF Tasking, Posting
    <2>3. DOMAIN call = Callers BY <1>1 DEF PostsInv
    <2> QED BY <1>1, <1>3, <2>1, <2>2, <2>3, TasksStillMove
<1> QED BY <1>1, <1>2, <1>4, <1>5, <1>6, <1>8, <1>9 DEF ServicesInv, Posts

\* ... for secrets, ...
LEMMA ServesSecrets ==
    ASSUME ServicesInv, use = "secrets", use' = use, SecretNext,
           UNCHANGED <<memberVars, chatVars, taskVars, graphVars, linked>>
    PROVE  ServicesInv'
<1>1. /\ MembersStill /\ GraphHonest /\ ChannelsStill /\ published = {}
      /\ SecretsInv /\ TasksStill /\ linked = {} /\ use \in Uses
    BY DEF ServicesInv, Posts
<1>2. SecretsInv' BY <1>1, SecretNextKeeps
<1>3. UNCHANGED <<chanMem, chanRow, threadRow, messageRow, published, resRow, taskRow, granted, nodeRow>>
    BY DEF memberVars, chatVars, taskVars, graphVars
<1>4. GraphHonest'
    <2>1. RowsGrow BY <1>3 DEF RowsGrow
    <2> QED BY <1>1, <1>3, <2>1, HonestStays
<1>5. MembersStill' BY <1>1, MembersStillKeep
<1>6. ChannelsStill' BY <1>1, <1>3, ChannelsStillKeep
<1>7. TasksStill'
    <2>1. \A p \in Callers : ~Tasking(call[p])' BY <1>2 DEF SecretsInv, SecretCalls, SecretRequest, Tasking
    <2> QED BY <1>1, <1>3, <2>1 DEF TasksStill
<1> QED BY <1>1, <1>2, <1>3, <1>4, <1>5, <1>6, <1>7 DEF ServicesInv, Posts

\* ... for agents and their task, ...
LEMMA ServesTasks ==
    ASSUME ServicesInv, use = "tasks", use' = use, TaskNext, UNCHANGED <<memberVars, secretVars, linked>>
    PROVE  ServicesInv'
<1>1. /\ MembersStill /\ GraphHonest /\ ChannelsStill /\ PostsInv /\ ThreadsCovered
      /\ SecretsStill /\ TasksInv /\ linked = {} /\ use \in Uses
    BY DEF ServicesInv, Posts
<1>2. resRow' = resRow BY DEF memberVars
<1>3. /\ TasksInv' /\ PostsInv' /\ GraphHonest' /\ ThreadsCovered'
      /\ UNCHANGED <<chanMem, chanRow>>
    BY <1>1, <1>2, TaskNextKeeps
<1>4. MembersStill' /\ SecretsStill' BY <1>1, MembersStillKeep, SecretsStillKeep
<1>5. ChannelsStill' BY <1>1, <1>3, ChannelsStillKeep
<1> QED BY <1>1, <1>3, <1>4, <1>5 DEF ServicesInv, Posts

\* ... or for nodes and edges of the graph.
LEMMA ServesGraph ==
    ASSUME ServicesInv, use = "graph", use' = use, GraphNext, UNCHANGED <<memberVars, secretVars, taskVars>>
    PROVE  ServicesInv'
<1>1. /\ MembersStill /\ GraphHonest /\ ChannelsStill /\ PostsInv /\ ThreadsCovered
      /\ SecretsStill /\ TasksStill /\ EdgesInv /\ use \in Uses
    BY DEF ServicesInv, Posts
<1>2. resRow' = resRow BY DEF memberVars
<1>3. /\ EdgesInv' /\ PostsInv' /\ GraphHonest' /\ ThreadsCovered' /\ TasksStill'
      /\ UNCHANGED <<chanMem, chanRow>>
    BY <1>1, <1>2, GraphNextKeeps
<1>4. MembersStill' /\ SecretsStill' BY <1>1, MembersStillKeep, SecretsStillKeep
<1>5. ChannelsStill' BY <1>1, <1>3, ChannelsStillKeep
<1> QED BY <1>1, <1>3, <1>4, <1>5 DEF ServicesInv, Posts

\* The gateway restarts, with all its services.
LEMMA RestartKeeps ==
    ASSUME ServicesInv, use' = use, Restart
    PROVE  ServicesInv'
<1>1. GatewayRestart /\ MembersRestart /\ ChatRestart /\ SecretRestart /\ TaskRestart /\ GraphRestart
    BY DEF Restart
<1>2. UNCHANGED <<resRow, memberAcked, chanRow, threadRow, messageRow, published, taskRow, granted, linked>>
    BY <1>1 DEF MembersRestart, memberRows, memberHistory, ChatRestart, chatRows, TaskRestart, GraphRestart
<1>3. GraphHonest' BY <1>1, <1>2, HonestRestart DEF ServicesInv
<1>4. IF use = "members" THEN MembersInv' /\ ResourcesCovered' ELSE MembersStill'
    <2>1. CASE use = "members"
        <3>1. MembersInv /\ GraphHonest /\ ResourcesCovered BY <2>1 DEF ServicesInv
        <3>2. MembersInv' BY <1>1, <3>1, MembersRestartKeeps
        <3>3. ResourcesCovered' BY <1>1, <1>2, <3>1, MembersGraphRestart
        <3> QED BY <2>1, <3>2, <3>3
    <2>2. CASE use # "members" BY <1>1, <2>2, MembersStillKeep DEF ServicesInv
    <2> QED BY <2>1, <2>2
<1>5. IF use = "channels" THEN ChannelsInv' ELSE ChannelsStill'
    <2>1. CASE use = "channels" BY <1>1, <2>1, ChannelRestartKeeps DEF ServicesInv
    <2>2. CASE use # "channels"
        <3>1. ChannelsStill BY <2>2 DEF ServicesInv
        <3>2. chanMem' = NoItems BY <1>1 DEF ChatRestart
        <3> QED BY <1>2, <2>2, <3>1, <3>2, ChannelsStillKeep
    <2> QED BY <2>1, <2>2
<1>6. IF use \in Posts THEN PostsInv' /\ ThreadsCovered' ELSE use # "channels" => published' = {}
    <2>1. CASE use \in Posts
        <3>1. PostsInv /\ GraphHonest /\ ThreadsCovered BY <2>1 DEF ServicesInv
        <3>2. PostsInv' BY <1>1, <3>1, PostsRestartKeeps
        <3>3. ThreadsCovered' BY <1>1, <1>2, <3>1, PostsGraphRestart
        <3> QED BY <2>1, <3>2, <3>3
    <2>2. CASE use \notin Posts BY <1>2, <2>2 DEF ServicesInv
    <2> QED BY <2>1, <2>2
<1>7. IF use = "secrets" THEN SecretsInv' ELSE SecretsStill'
    BY <1>1, SecretRestartKeeps, SecretsStillKeep DEF ServicesInv
<1>8. IF use = "tasks" THEN TasksInv' ELSE TasksStill'
    <2>1. CASE use = "tasks" BY <1>1, <2>1, TaskRestartKeeps DEF ServicesInv
    <2>2. CASE use # "tasks"
        <3>1. TasksStill BY <2>2 DEF ServicesInv
        <3>2. \A p \in Callers : call'[p] = Nothing BY <1>1 DEF GatewayRestart
        <3> QED BY <1>2, <2>2, <3>1, <3>2 DEF TasksStill, Tasking
    <2> QED BY <2>1, <2>2
<1>9. IF use = "graph" THEN EdgesInv' ELSE linked' = {}
    <2>1. CASE use = "graph"
        <3>1. EdgesInv /\ taskRow = Nothing BY <2>1 DEF ServicesInv, TasksStill
        <3> QED BY <1>1, <2>1, <3>1, EdgesRestartKeep
    <2>2. CASE use # "graph" BY <1>2, <2>2 DEF ServicesInv
    <2> QED BY <2>1, <2>2
<1>10. use' \in Uses BY DEF ServicesInv
<1> QED BY <1>3, <1>4, <1>5, <1>6, <1>7, <1>8, <1>9, <1>10 DEF ServicesInv, Posts

\* The gateway starts.
LEMMA InitHolds ==
    ASSUME Init PROVE ServicesInv
<1>1. /\ ChatInit /\ SecretInit /\ TaskInit /\ GraphInit
      /\ call = [p \in Callers |-> Nothing] /\ restarts = 0
    BY DEF Init, GatewayInit
<1>2. use \in {"members", "channels", "messages", "secrets", "tasks", "graph"} /\ use \in Uses
    BY ServicesAssumption DEF Init
<1>3. resRow = NoResources /\ MembersStill
    BY DEF Init, MembersInit, OneWorkspace, MembersStill
<1>4. GraphHonest /\ TasksInv BY <1>1, <1>3, TasksInitHold
<1>5. published = {} /\ linked = {} BY <1>1 DEF ChatInit, GraphInit
<1>6. use = "members" => MembersInv BY <1>1, MembersInitHolds DEF Init
<1>7. memberAcked = {} BY <1>3 DEF MembersStill
<1>8. ResourcesCovered /\ ThreadsCovered BY <1>5, <1>7 DEF ResourcesCovered, ThreadsCovered
<1>9. ChannelsInv /\ ChannelsStill
    <2>1. ChannelsInv /\ ChannelRows BY <1>1, ChannelsInitHolds
    <2>2. chanMem = NoItems BY <1>1 DEF ChatInit
    <2> QED BY <2>1, <2>2 DEF ChannelsStill
<1>10. PostsInv BY <1>1, PostsInitHolds
<1>11. SecretsInv BY <1>1, SecretsInitHolds
<1>12. SecretsStill BY <1>1 DEF SecretInit, SecretsStill
<1>13. EdgesInv BY <1>1, EdgesInitHold
<1>14. use # "tasks" => TasksStill
    <2>1. use # "tasks" => taskRow = Nothing BY <1>2 DEF Init, NoTask
    <2>2. granted = {} BY <1>1 DEF TaskInit
    <2>3. \A p \in Callers : ~Tasking(call[p]) BY <1>1 DEF Tasking
    <2> QED BY <2>1, <2>2, <2>3 DEF TasksStill
<1> QED BY <1>2, <1>3, <1>4, <1>5, <1>6, <1>8, <1>9, <1>10, <1>11, <1>12, <1>13, <1>14 DEF ServicesInv, Posts

\* A step that changes nothing.
LEMMA MembersRest ==
    ASSUME MembersInv, UNCHANGED <<call, memberVars>> PROVE MembersInv'
<1>0. UNCHANGED <<wsMem, wsRow, roleMem, roleRow, resMem, resRow, memberAcked, memberRefused, wsSeq>> BY DEF memberVars
<1>1. MemberTypes' BY <1>0 DEF MembersInv, MemberTypes
<1>2. MemberRows' BY <1>0 DEF MembersInv, MemberRows
<1>3. MemberAcks' BY <1>0 DEF MembersInv, MemberAcks
<1>4. ManagersRecorded' BY <1>0 DEF MembersInv, ManagersRecorded
<1>5. ViewersRecorded' BY <1>0 DEF MembersInv, ViewersRecorded
<1>6. MemberCalls' BY <1>0 DEF MembersInv, MemberCalls, MemberCall
<1> QED BY <1>1, <1>2, <1>3, <1>4, <1>5, <1>6 DEF MembersInv

\* So for the channels, ...
LEMMA ChannelsRest ==
    ASSUME ChannelsInv, UNCHANGED <<call, chatVars>> PROVE ChannelsInv'
<1>0. UNCHANGED <<chanMem, chanRow, published, muddled>> BY DEF chatVars
<1>1. ChannelTypes' BY <1>0 DEF ChannelsInv, ChannelTypes
<1>2. ChannelCalls' BY <1>0 DEF ChannelsInv, ChannelCalls, ChannelCall
<1>3. ChannelEvents' BY <1>0 DEF ChannelsInv, ChannelEvents
<1>4. \A i \in Items : ChannelSynced(i)' BY <1>0 DEF ChannelsInv, ChannelSynced, Updating
<1> QED BY <1>1, <1>2, <1>3, <1>4 DEF ChannelsInv

\* ... the secrets ...
LEMMA SecretsRest ==
    ASSUME SecretsInv, UNCHANGED <<call, secretVars>> PROVE SecretsInv'
<1>0. UNCHANGED <<secretMem, secretRow, settled, doubtful>> BY DEF secretVars
<1>1. SecretTypes' BY <1>0 DEF SecretsInv, SecretTypes
<1>2. SecretCalls' BY <1>0 DEF SecretsInv, SecretCalls
<1>3. \A c \in Items : SecretSettled(c)' BY <1>0 DEF SecretsInv, SecretSettled, Writing
<1> QED BY <1>1, <1>2, <1>3 DEF SecretsInv

\* ... and the task.
LEMMA TasksRest ==
    ASSUME TasksInv, UNCHANGED <<call, taskVars, graphVars>> PROVE TasksInv'
<1>0. UNCHANGED <<taskRow, grantRow, granted, excused, disturbed, nodeRow, unprojected>> BY DEF taskVars, graphVars
<1>1. TaskTypes' BY <1>0 DEF TasksInv, TaskTypes
<1>2. TaskCalls' BY <1>0 DEF TasksInv, TaskCalls, TaskCall, Tasking, Prompting, Entitled
<1>3. GrantsKept' BY <1>0 DEF TasksInv, GrantsKept
<1>4. RunningMeansWork' BY <1>0 DEF TasksInv, RunningMeansWork, Prompts, Writers
<1>5. TaskSynced' BY <1>0 DEF TasksInv, TaskSynced, Writers, Projected, NodeShows, HasNode
<1>6. TaskCovered' BY <1>0 DEF TasksInv, TaskCovered, Covered, HasNode, Writers, Projected
<1> QED BY <1>1, <1>2, <1>3, <1>4, <1>5, <1>6 DEF TasksInv

\* And so for all services.
LEMMA StutterKeeps ==
    ASSUME ServicesInv, UNCHANGED servicesVars
    PROVE  ServicesInv'
<1>1. UNCHANGED <<call, restarts, memberVars, chatVars, secretVars, taskVars, graphVars, linked, use>>
    BY DEF servicesVars, gatewayVars
<1>2. UNCHANGED <<resRow, memberAcked, chanMem, chanRow, threadMem, threadRow, messageRow, published, taskRow, granted,
                  nodeRow, edgeRow, edgeSeq, unprojected>>
    BY <1>1 DEF memberVars, chatVars, taskVars, graphVars
<1>3. GraphGrows BY <1>1, GraphStays
<1>4. GraphHonest'
    <2>1. RowsGrow BY <1>2 DEF RowsGrow
    <2> QED BY <1>2, <2>1, HonestStays DEF ServicesInv
<1>5. ResourcesCovered => ResourcesCovered'
    <2>1. \A w, x : Covered(<<"resource", w, x>>) => Covered(<<"resource", w, x>>)' BY <1>3, CoveredStays
    <2> QED BY <1>2, <2>1 DEF ResourcesCovered
<1>6. MembersInv => MembersInv' BY <1>1, MembersRest
<1>7. MembersStill => MembersStill' BY <1>1, MembersStillKeep
<1>8. ChannelsInv => ChannelsInv' BY <1>1, ChannelsRest
<1>9. ChannelsStill => ChannelsStill' BY <1>2, ChannelsStillKeep
<1>10. PostsInv => PostsInv' BY <1>1, <1>2, PostsStay
<1>11. ThreadsCovered => ThreadsCovered' BY <1>1, <1>2, <1>3, ThreadsStay
<1>12. SecretsInv => SecretsInv' BY <1>1, SecretsRest
<1>13. SecretsStill => SecretsStill' BY <1>1, SecretsStillKeep
<1>14. TasksInv => TasksInv' BY <1>1, TasksRest
<1>15. TasksStill => TasksStill' BY <1>1, <1>2 DEF TasksStill, Tasking
<1>16. EdgesInv => EdgesInv' BY <1>1, <1>2, EdgesStay
<1>17. use' = use /\ linked' = linked /\ published' = published BY <1>1, <1>2
<1> QED BY <1>4, <1>5, <1>6, <1>7, <1>8, <1>9, <1>10, <1>11, <1>12, <1>13, <1>14, <1>15, <1>16, <1>17
    DEF ServicesInv, Posts

\* Every step keeps the invariant.
LEMMA NextKeeps ==
    ASSUME ServicesInv, [Next]_servicesVars
    PROVE  ServicesInv'
<1>1. CASE UNCHANGED servicesVars BY <1>1, StutterKeeps
<1>2. CASE Restart /\ UNCHANGED use BY <1>2, RestartKeeps
<1>3. CASE Serves /\ UNCHANGED use
    BY <1>3, ServesMembers, ServesChannels, ServesMessages, ServesSecrets, ServesTasks, ServesGraph DEF Serves
<1> QED BY <1>1, <1>2, <1>3 DEF Next

-----------------------------------------------------------------------------
(* The theorems.                                                           *)

\* The services keep their invariants in every behaviour of the gateway.
THEOREM ServicesKept == Spec => []ServicesInv
<1>1. Init => ServicesInv BY InitHolds
<1>2. ServicesInv /\ [Next]_servicesVars => ServicesInv' BY NextKeeps
<1> QED BY <1>1, <1>2, PTL DEF Spec

\* A role or a resource that a client was told is there is there, and is listed, also after a restart (workspace/service.go).
THEOREM MembersAreDurable == Spec => []AckedIsDurable
<1>1. ServicesInv => AckedIsDurable BY ServicesSafe
<1> QED BY <1>1, ServicesKept, PTL

\* Nobody manages a workspace in memory who does not in the rows, and whoever was told to have the right to write has it,
\* unless a request about the workspace had ended with an error.
THEOREM RightsAreKept == Spec => []RightsKept
<1>1. ServicesInv => RightsKept BY ServicesSafe
<1> QED BY <1>1, ServicesKept, PTL

\* Whatever an event told of is listed, also after a restart (collaboration/service.go).
THEOREM EventsAreDurable == Spec => []PublishedIsDurable
<1>1. ServicesInv => PublishedIsDurable BY ServicesSafe
<1> QED BY <1>1, ServicesKept, PTL

\* A channel in memory that nobody writes is the channel of its row, unless a write of it had failed or overlapped.
THEOREM ChannelsStayInStep == Spec => []ChannelsAgree
<1>1. ServicesInv => ChannelsAgree BY ServicesSafe
<1> QED BY <1>1, ServicesKept, PTL

\* A secret that was answered for is the one a channel and its children resolve, before and after a restart.
THEOREM SecretsAreSettled == Spec => []SecretsSettle
<1>1. ServicesInv => SecretsSettle BY ServicesSafe
<1> QED BY <1>1, ServicesKept, PTL

\* A prompt works for the task's owner or for somebody with an answered grant, who has the task in the list until it expires.
THEOREM OnlyTheEntitledPrompt == Spec => []OwnersDecide
<1>1. ServicesInv => OwnersDecide BY ServicesSafe
<1> QED BY <1>1, ServicesKept, PTL

\* A task whose row says it runs has a prompt under way, unless its owner said so, a statement failed or a restart cut it off.
THEOREM RunningIsWork == Spec => []RunningMeansWork
<1>1. ServicesInv => RunningMeansWork BY ServicesSafe
<1> QED BY <1>1, ServicesKept, PTL

\* The graph shows what the services have stored, and nothing they have not (resourcegraph/service.go).
THEOREM GraphShowsTheRows == Spec => []GraphMatchesRows
<1>1. ServicesInv => GraphMatchesRows BY ServicesSafe
<1> QED BY <1>1, ServicesKept, PTL

\* An edge a client was told of is in the context of its ends, unless its number had been given before a restart.
THEOREM EdgesAreComplete == Spec => []EdgesComplete
<1>1. ServicesInv => EdgesComplete BY ServicesSafe
<1> QED BY <1>1, ServicesKept, PTL
=============================================================================
