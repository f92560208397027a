---------------------------- MODULE Collaboration ----------------------------
(***************************************************************************)
(* Channels, threads and messages of one workspace (Home): maps in memory, *)
(* rows, and events for the other clients.  Every write goes the same way: *)
(* it is checked and resolved (reading memory, or else the rows), put into *)
(* the map under s.mu, written to its row, published, and answered.  Each  *)
(* may end in an error; nothing is taken back.                             *)
(* A channel's configuration is the set of its keys.                       *)
(***************************************************************************)
EXTENDS WorkspaceMembers

CONSTANTS Keys      \* of a channel's configuration

Home == 1
Items == 1 .. MaxRequests       \* channels, threads or messages, by ID

VARIABLES
    chanMem, chanRow,           \* [config, repos, parent] of each channel, or Nothing
    threadMem, threadRow,       \* the threads
    messageMem, messageRow,     \* the messages, as <<thread, message>>
    published,                  \* events, after which the answer follows, as <<kind, ID>>
    muddled                     \* history: channels with an error or with overlapping updates

chatVars == <<chanMem, chanRow, threadMem, threadRow, messageMem, messageRow, published, muddled>>
chatMemory == <<chanMem, threadMem, messageMem>>
chatRows == <<chanRow, threadRow, messageRow>>

NoItems == [i \in Items |-> Nothing]

\* The database is empty, or holds a channel with a child, or a thread.
ChatInit ==
    /\ chanMem = NoItems /\ threadMem = {}
    /\ \/ chanRow = NoItems /\ threadRow \in {{}, {1}}
       \/ /\ chanRow = [i \in Items |-> IF i > 2 THEN Nothing ELSE
                [config |-> {}, repos |-> {}, parent |-> IF i = 1 THEN Nothing ELSE 1]]
          /\ threadRow = {}
    /\ messageMem = {} /\ messageRow = {}
    /\ published = {} /\ muddled = {}

---------------------------------------------------------------------------
\* GetChannel and resolveParent: memory first, rows only for what it lacks.
Channel(i) == IF i = Nothing THEN Nothing ELSE IF chanMem[i] # Nothing THEN chanMem[i] ELSE chanRow[i]

Inherited(repos, parent) == IF repos # {} \/ parent = Nothing THEN repos ELSE parent.repos
Patched(old, repos) == IF repos = Nothing THEN old.repos ELSE repos
Layered(config, parent) == IF parent = Nothing THEN config ELSE parent.config \cup config

\* An ID is a prefix, the second and one of 26 letters: 26 IDs later in the
\* same second it is used again.
MayDraw(used, i) == i \in used \/ i = Cardinality(used) + 1

Drawn(ids) == {i \in Items : ids[i] # Nothing}

\* A request to write an item of a kind: the value of a channel, a message of a thread.
Kinds == {"channel", "patch", "thread", "message", "artifact"}
ChannelValue == [config : SUBSET Keys, repos : SUBSET Resources, parent : Items \cup {Nothing}]
ChatRequest ==
    [op : {"chat"}, at : {"put", "change", "insert", "publish", "project"}, kind : Kinds,
     item : Items \cup {Nothing}, thread : Nat \cup {Nothing}, value : ChannelValue \cup {Nothing}]

ASSUME ChatAssumption == Nothing \notin Items /\ Nothing \notin ChannelValue /\ Nothing \notin ChatRequest

Chat(kind) ==
    [op |-> "chat", at |-> "put", kind |-> kind, item |-> Nothing, thread |-> Nothing, value |-> Nothing]

CreateChannel(p, u, parent, repos, config) ==
    /\ CanWrite(Home, u)
    /\ parent # Nothing => Channel(parent) # Nothing
    /\ Begins(p, [Chat("channel") EXCEPT !.value =
                    [config |-> Layered(config, Channel(parent)),
                     repos |-> Inherited(repos, Channel(parent)), parent |-> parent]])
    /\ UNCHANGED chatVars

PutChannel(p) ==
    /\ At(p, "chat", "put") /\ call[p].kind = "channel"
    /\ \E i \in Items :
        /\ MayDraw(Drawn(chanMem) \cup Drawn(chanRow), i)
        /\ chanMem' = [chanMem EXCEPT ![i] = call[p].value]
        /\ Goes(p, [call[p] EXCEPT !.at = "insert", !.item = i])
        /\ muddled' = IF Channel(i) = Nothing THEN muddled ELSE muddled \cup {i}
    /\ UNCHANGED <<threadMem, messageMem, chatRows, published>>

\* UpdateChannel works on a copy, and the copy goes into the map and the row.
Updating(i) == {p \in Callers : call[p] # Nothing /\ call[p].op = "chat"
                    /\ call[p].kind \in {"channel", "patch"} /\ call[p].at # "put" /\ call[p].item = i}

UpdateChannel(p, u, i, repos, config) ==
    LET old == Channel(i)
        parent == Channel(old.parent)
    IN
    /\ CanWrite(Home, u)
    /\ old # Nothing
    /\ Begins(p, [Chat("patch") EXCEPT !.at = "change", !.item = i, !.value =
                    [config |-> IF config = Nothing THEN old.config ELSE Layered(config, parent),
                     repos |-> Inherited(Patched(old, repos), parent), parent |-> old.parent]])
    /\ muddled' = IF Updating(i) = {} THEN muddled ELSE muddled \cup {i}
    /\ UNCHANGED <<chatMemory, chatRows, published>>

ChangeRowOnly(p) ==
    /\ At(p, "chat", "change")
    /\ GoesTo(p, "insert")
    /\ UNCHANGED chatVars

ChangeChannel(p) ==
    /\ At(p, "chat", "change")
    /\ chanMem' = [chanMem EXCEPT ![call[p].item] = call[p].value]
    /\ GoesTo(p, "insert")
    /\ UNCHANGED <<threadMem, messageMem, chatRows, published, muddled>>

\* A thread is in a channel its author can read, or in none; a message is in a
\* thread that memory or the rows have.  The messages an agent shares from its
\* task (kind artifact) are made like any other.
CreateThread(p, u, channel) ==
    /\ CanWrite(Home, u)
    /\ channel # Nothing => Channel(channel) # Nothing
    /\ Begins(p, Chat("thread"))
    /\ UNCHANGED chatVars

CreateMessage(p, u, thread) ==
    /\ CanWrite(Home, u)
    /\ thread \in threadMem \cup threadRow
    /\ Begins(p, [Chat("message") EXCEPT !.thread = thread])
    /\ UNCHANGED chatVars

PutThread(p) ==
    /\ At(p, "chat", "put") /\ call[p].kind = "thread"
    /\ \E i \in Items :
        /\ MayDraw(threadMem \cup threadRow, i)
        /\ threadMem' = threadMem \cup {i}
        /\ Goes(p, [call[p] EXCEPT !.at = "insert", !.item = i])
    /\ UNCHANGED <<chanMem, messageMem, chatRows, published, muddled>>

PutMessage(p) ==
    /\ At(p, "chat", "put") /\ call[p].kind \in {"message", "artifact"}
    /\ \E i \in Items :
        /\ MayDraw({m[2] : m \in messageMem \cup messageRow}, i)
        /\ messageMem' = messageMem \cup {<<call[p].thread, i>>}
        /\ Goes(p, [call[p] EXCEPT !.at = "insert", !.item = i])
    /\ UNCHANGED <<chanMem, threadMem, chatRows, published, muddled>>

---------------------------------------------------------------------------
\* The statement of each kind; a primary key refuses a second row.
InsertChannel(c) ==
    /\ c.kind = "channel" /\ chanRow[c.item] = Nothing
    /\ chanRow' = [chanRow EXCEPT ![c.item] = c.value]
    /\ UNCHANGED <<threadRow, messageRow>>

ChangeRow(c) ==
    /\ c.kind = "patch"
    /\ chanRow' = IF chanRow[c.item] = Nothing THEN chanRow ELSE [chanRow EXCEPT ![c.item] = c.value]
    /\ UNCHANGED <<threadRow, messageRow>>

InsertThread(c) ==
    /\ c.kind = "thread" /\ c.item \notin threadRow
    /\ threadRow' = threadRow \cup {c.item}
    /\ UNCHANGED <<chanRow, messageRow>>

InsertNoMessage(c) == c.kind \in {"message", "artifact"} /\ UNCHANGED chatRows

InsertMessage(c) ==
    /\ c.kind \in {"message", "artifact"}
    /\ c.thread \in threadRow /\ \A m \in messageRow : m[2] # c.item
    /\ messageRow' = messageRow \cup {<<c.thread, c.item>>}
    /\ UNCHANGED <<chanRow, threadRow>>

Insert(c) == InsertChannel(c) \/ ChangeRow(c) \/ InsertThread(c) \/ InsertMessage(c)

Persist(p) ==
    /\ At(p, "chat", "insert")
    /\ LET c == call[p] IN
       \/ Insert(c) /\ GoesTo(p, "publish") /\ UNCHANGED muddled
       \/ /\ Returns(p)
          /\ muddled' = IF c.kind \in {"channel", "patch"} THEN muddled \cup {c.item} ELSE muddled
          /\ UNCHANGED chatRows
    /\ UNCHANGED <<chatMemory, published>>

\* A publication that fails is answered with an error too.  A thread, and what
\* an agent shares, is then projected into the graph.
PublishChat(p) ==
    /\ At(p, "chat", "publish")
    /\ \/ /\ published' = published \cup {<<call[p].kind, call[p].item>>}
          /\ IF call[p].kind \in {"thread", "artifact"} THEN GoesTo(p, "project") ELSE Returns(p)
       \/ Returns(p) /\ UNCHANGED published
    /\ UNCHANGED <<chatMemory, chatRows, muddled>>

ProjectDiscussion(p) ==
    /\ At(p, "chat", "project") /\ call[p].kind = "thread"
    /\ Projects(<<"discussion", call[p].item>>, "none")
    /\ Returns(p)
    /\ UNCHANGED <<chatVars, edgeRow, edgeSeq>>

ChatRestart ==
    /\ chanMem' = NoItems /\ threadMem' = {} /\ messageMem' = {}
    /\ muddled' = muddled \cup UNION {{i \in Items : p \in Updating(i)} : p \in Callers}
    /\ UNCHANGED <<chatRows, published>>

\* The steps that the agents' messages go through too.
ChatSteps(p) ==
    \/ ProjectDiscussion(p)
    \/ UNCHANGED graphVars /\ (PutMessage(p) \/ Persist(p) \/ PublishChat(p))

ChannelNext ==
    \E p \in Callers :
        /\ UNCHANGED graphVars
        /\ \/ PutChannel(p) \/ ChangeChannel(p) \/ Persist(p) \/ PublishChat(p)
           \/ \E u \in Users :
                \/ \E parent \in Items \cup {Nothing}, repos \in SUBSET Resources, config \in SUBSET Keys :
                    CreateChannel(p, u, parent, repos, config)
                \/ \E i \in Items, repos \in (SUBSET Resources) \cup {Nothing},
                        config \in (SUBSET Keys) \cup {Nothing} :
                    UpdateChannel(p, u, i, repos, config)

MessageNext ==
    \E p \in Callers :
        \/ ChatSteps(p)
        \/ /\ UNCHANGED graphVars
           /\ \/ PutThread(p)
              \/ \E u \in Users :
                    \/ \E i \in Items \cup {Nothing} : CreateThread(p, u, i)
                    \/ \E i \in Items : CreateMessage(p, u, i)

---------------------------------------------------------------------------
\* The lists show the rows; of channels and threads memory, when there is no row.
ListChannels == IF Drawn(chanRow) # {} THEN Drawn(chanRow) ELSE Drawn(chanMem)
ListThreads == IF threadRow # {} THEN threadRow ELSE threadMem
ListMessages(thread) == {m[2] : m \in {n \in messageRow : n[1] = thread}}

Listed(kind, item) ==
    CASE kind \in {"channel", "patch"} -> item \in ListChannels
      [] kind = "thread" -> item \in ListThreads
      [] OTHER -> \E t \in ListThreads : item \in ListMessages(t)

\* service.go promises "write-through and restart-safe reads": whatever other
\* clients were told of by an event, and the author by the answer after it, is
\* listed, also after a restart and when an ID was used twice, except updates of
\* a channel whose own row had failed.
PublishedIsDurable ==
    \A e \in published : Listed(e[1], e[2]) \/ (e[1] = "patch" /\ e[2] \in muddled)

\* At rest a channel in memory is the channel of its row, unless one of its
\* writes ended with an error or two of them overlapped.
ChannelsAgree ==
    \A i \in Items :
        chanMem[i] # Nothing /\ i \notin muddled /\ Updating(i) = {} => chanMem[i] = chanRow[i]
=============================================================================
