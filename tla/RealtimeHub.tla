----------------------------- MODULE RealtimeHub -----------------------------
(***************************************************************************)
(* How an event reaches the browsers of a workspace: the durable stream    *)
(* (JetStream) and its push consumer "gateway-realtime", the hub of the    *)
(* gateway with its in-memory history and its bounded subscriber channels  *)
(* (internal/realtime), the WebSocket handler that replays from the stream *)
(* before it subscribes, and the reconnecting client with its cursor       *)
(* (apps/web/src/lib/realtime-client.ts).                                  *)
(*                                                                         *)
(* Events are numbered in stream order.  They all belong to one workspace: *)
(* the hub keeps another workspace's events apart by its map key.  Cursor  *)
(* 0 is the empty last_event_id.                                           *)
(***************************************************************************)
EXTENDS Integers, Sequences, FiniteSets, SequencesExt

CONSTANTS
    Clients,        \* browsers
    MaxSessions,    \* bound: WebSocket sessions the gateway holds at a time
    MaxEvents,      \* bound: events published
    Slack,          \* room of a subscriber channel beyond its backlog (32 in the code)
    WireSize,       \* bound: frames in flight on a connection
    MaxBreaks,      \* bound: connections that break, one or all (in a restart)
    MaxLostAcks,    \* bound: acknowledgements that do not reach the stream
    MaxRestarts,    \* bound: restarts of the gateway
    BrokerStalls    \* a scan of the stream may time out before its end

ASSUME HubAssumption ==
    /\ Clients # {}
    /\ IsFiniteSet(Clients)
    /\ MaxSessions \in Nat
    /\ MaxEvents \in Nat
    /\ Slack \in Nat
    /\ WireSize \in Nat \ {0}
    /\ MaxBreaks \in Nat
    /\ MaxLostAcks \in Nat
    /\ MaxRestarts \in Nat
    /\ BrokerStalls \in BOOLEAN

Sessions == 1 .. MaxSessions
Events == 1 .. MaxEvents
NoSession == 0

VARIABLES
    published,  \* the stream holds the events 1 .. published
    sent,       \* the consumer has pushed the events 1 .. sent
    unacked,    \* events pushed and not acknowledged: pushed again some day
    history,    \* MemoryHub.history of the workspace
    session,    \* the WebSocket sessions; an open one is a subscriber
    socket,     \* the session a client is connected to
    cursor,     \* ReconnectingRealtimeSocket.cursor: the last event ID received
    got,        \* history: the events a client has received
    dropped,    \* history: the events its full channel has lost
    breaks, lostAcks, restarts

streamVars == <<published, sent, unacked>>
clientVars == <<cursor, got>>
vars == <<streamVars, history, session, socket, clientVars, dropped,
          breaks, lostAcks, restarts>>

\* A session: where the handler stands, the last_event_id of the request, what the scan of the stream returned, the subscriber channel and
\* its capacity, the frames in flight, and whether the connection is alive.
Session ==
    [at : {"free", "replay", "add", "subscribe", "open"}, since : 0 .. MaxEvents,
     replayed : Seq(Events), channel : Seq(Events), cap : Nat, wire : Seq(Events),
     live : BOOLEAN, cut : BOOLEAN]

FreeSession == [at |-> "free", since |-> 0, replayed |-> <<>>, channel |-> <<>>,
                cap |-> 0, wire |-> <<>>, live |-> FALSE, cut |-> FALSE]

TypeOK ==
    /\ published \in 0 .. MaxEvents
    /\ sent \in 0 .. published
    /\ unacked \subseteq 1 .. sent
    /\ history \in Seq(Events)
    /\ session \in [Sessions -> Session]
    /\ \A s \in Sessions : Len(session[s].channel) <= session[s].cap
    /\ socket \in [Clients -> Sessions \cup {NoSession}]
    /\ cursor \in [Clients -> 0 .. MaxEvents]
    /\ got \in [Clients -> SUBSET Events]
    /\ dropped \in [Clients -> SUBSET Events]
    /\ breaks \in 0 .. MaxBreaks
    /\ lostAcks \in 0 .. MaxLostAcks
    /\ restarts \in 0 .. MaxRestarts

Init ==
    /\ published = 0
    /\ sent = 0
    /\ unacked = {}
    /\ history = <<>>
    /\ session = [s \in Sessions |-> FreeSession]
    /\ socket = [c \in Clients |-> NoSession]
    /\ cursor = [c \in Clients |-> 0]
    /\ got = [c \in Clients |-> {}]
    /\ dropped = [c \in Clients |-> {}]
    /\ breaks = 0
    /\ lostAcks = 0
    /\ restarts = 0

-----------------------------------------------------------------------------
At(s, step) == session[s].at = step

\* Mutant: the event after the cursor is taken for one already received.
ReplayAfterSkips(events, since) ==
    LET found == {i \in DOMAIN events : events[i] = since}
    IN  IF found = {} THEN events
        ELSE SubSeq(events, (CHOOSE i \in found : \A j \in found : i <= j) + 2, Len(events))

\* The events after the cursor; all of them when the cursor is unknown.
ReplayAfter(events, since) ==
    LET found == {i \in DOMAIN events : events[i] = since}
    IN  IF found = {} THEN events
        ELSE SubSeq(events, (CHOOSE i \in found : \A j \in found : i <= j) + 1, Len(events))

\* Mutant: the history takes every event.
UnseenAll(events) == events

\* The events the history does not hold yet, in their order.
Rank(i, indices) == Cardinality({j \in indices : j <= i})
Unseen(events) ==
    LET new == {i \in DOMAIN events : events[i] \notin ToSet(history)}
    IN  [k \in 1 .. Cardinality(new) |-> events[CHOOSE i \in new : Rank(i, new) = k]]

-----------------------------------------------------------------------------
(* The stream and its consumer.                                            *)

\* A domain service publishes an event.
Publish ==
    /\ published < MaxEvents
    /\ published' = published + 1
    /\ UNCHANGED <<sent, unacked, history, session, socket, clientVars, dropped,
                   breaks, lostAcks, restarts>>

Full(s) == Len(session[s].channel) >= session[s].cap

\* Mutant: a hub that skips the subscribers when the history knows the event.
HubPublishOnce(e) ==
    /\ history' = history \o Unseen(<<e>>)
    /\ session' = [s \in Sessions |->
                     IF At(s, "open") /\ e \notin ToSet(history) /\ ~Full(s)
                     THEN [session[s] EXCEPT !.channel = Append(@, e)]
                     ELSE session[s]]
    /\ dropped' = [c \in Clients |->
                     IF socket[c] # NoSession /\ At(socket[c], "open") /\ Full(socket[c])
                     THEN dropped[c] \cup {e} ELSE dropped[c]]

\* Mutant: a hub that does not keep what it sends.
HubPublishForgets(e) ==
    /\ UNCHANGED history
    /\ session' = [s \in Sessions |->
                     IF At(s, "open") /\ ~Full(s)
                     THEN [session[s] EXCEPT !.channel = Append(@, e)]
                     ELSE session[s]]
    /\ dropped' = [c \in Clients |->
                     IF socket[c] # NoSession /\ At(socket[c], "open") /\ Full(socket[c])
                     THEN dropped[c] \cup {e} ELSE dropped[c]]

\* MemoryHub.Publish: the event enters the history once and goes to every
\* subscriber whose channel has room, also when the history knew it.
HubPublish(e) ==
    /\ history' = history \o Unseen(<<e>>)
    /\ session' = [s \in Sessions |->
                     IF At(s, "open") /\ ~Full(s)
                     THEN [session[s] EXCEPT !.channel = Append(@, e)]
                     ELSE session[s]]
    /\ dropped' = [c \in Clients |->
                     IF socket[c] # NoSession /\ At(socket[c], "open") /\ Full(socket[c])
                     THEN dropped[c] \cup {e} ELSE dropped[c]]

\* The acknowledgement arrives, or does not.
Acknowledge(e, pending) ==
    \/ unacked' = pending \ {e} /\ UNCHANGED lostAcks
    \/ /\ lostAcks < MaxLostAcks
       /\ unacked' = pending \cup {e}
       /\ lostAcks' = lostAcks + 1

\* The consumer pushes the next event to the gateway's handler ...
Push ==
    /\ sent < published
    /\ sent' = sent + 1
    /\ HubPublish(sent + 1)
    /\ Acknowledge(sent + 1, unacked)
    /\ UNCHANGED <<published, socket, clientVars, breaks, restarts>>

\* ... and pushes an event again when no acknowledgement came.
Redeliver ==
    /\ \E e \in unacked : HubPublish(e) /\ Acknowledge(e, unacked)
    /\ UNCHANGED <<published, sent, socket, clientVars, breaks, restarts>>

-----------------------------------------------------------------------------
(* The handler of a WebSocket session.                                     *)

\* The scan of the stream: it ends when no message came for 100 ms, which is
\* the end of the stream unless the broker stalls.
Replay(s) ==
    /\ At(s, "replay")
    /\ \E k \in 0 .. published :
        /\ ~BrokerStalls => k = published
        /\ session' = [session EXCEPT ![s].at = "add",
                          ![s].replayed = ReplayAfter([i \in 1 .. k |-> i], session[s].since),
                          ![s].cut = (k < published)]
    /\ UNCHANGED <<streamVars, history, socket, clientVars, dropped, breaks,
                   lostAcks, restarts>>

AddHistory(s) ==
    /\ At(s, "add")
    /\ history' = history \o Unseen(session[s].replayed)
    /\ session' = [session EXCEPT ![s].at = "subscribe", ![s].replayed = <<>>]
    /\ UNCHANGED <<streamVars, socket, clientVars, dropped, breaks, lostAcks, restarts>>

\* SubscribeSince: the backlog fills the new channel, in one critical section.
SubscribeSince(s) ==
    /\ At(s, "subscribe")
    /\ LET backlog == ReplayAfter(history, session[s].since)
       IN  session' = [session EXCEPT ![s].at = "open", ![s].channel = backlog,
                                      ![s].cap = Len(backlog) + Slack]
    /\ UNCHANGED <<streamVars, history, socket, clientVars, dropped, breaks,
                   lostAcks, restarts>>

\* stream: the next event goes into the connection.
Write(s) ==
    /\ At(s, "open")
    /\ session[s].live
    /\ session[s].channel # <<>>
    /\ Len(session[s].wire) < WireSize
    /\ session' = [session EXCEPT ![s].channel = Tail(@),
                                  ![s].wire = Append(@, Head(session[s].channel))]
    /\ UNCHANGED <<streamVars, history, socket, clientVars, dropped, breaks,
                   lostAcks, restarts>>

\* The client has left.  The handler does not read the connection: it learns
\* that from a write, which may still seem to succeed, or from an Upgrade or a
\* Replay that fails; then it unsubscribes and returns.
LeaveDead(s) ==
    /\ ~session[s].live
    /\ \/ At(s, "replay") \/ At(s, "subscribe")
       \/ At(s, "open") /\ session[s].channel # <<>>
    /\ \/ session' = [session EXCEPT ![s] = FreeSession]
       \/ At(s, "open") /\ session' = [session EXCEPT ![s].channel = Tail(@)]
    /\ UNCHANGED <<streamVars, history, socket, clientVars, dropped, breaks,
                   lostAcks, restarts>>

-----------------------------------------------------------------------------
(* The client.                                                             *)

FreeSessions == {s \in Sessions : At(s, "free")}

\* connect: the cursor travels as last_event_id.
Connect(c) ==
    /\ socket[c] = NoSession
    /\ FreeSessions # {}
    /\ LET s == CHOOSE t \in FreeSessions : \A u \in FreeSessions : t <= u
       IN  /\ session' = [session EXCEPT ![s] =
                            [FreeSession EXCEPT !.at = "replay", !.since = cursor[c],
                                                !.live = TRUE]]
           /\ socket' = [socket EXCEPT ![c] = s]
    /\ UNCHANGED <<streamVars, history, clientVars, dropped, breaks, lostAcks, restarts>>

\* receive: every frame moves the cursor.
Receive(c) ==
    /\ socket[c] # NoSession
    /\ session[socket[c]].wire # <<>>
    /\ LET e == Head(session[socket[c]].wire)
       IN  /\ cursor' = [cursor EXCEPT ![c] = e]
           /\ got' = [got EXCEPT ![c] = @ \cup {e}]
    /\ session' = [session EXCEPT ![socket[c]].wire = Tail(@)]
    /\ UNCHANGED <<streamVars, history, socket, dropped, breaks, lostAcks, restarts>>

\* The connection breaks, or the handler refuses it (a failed Replay): onclose
\* schedules a reconnect.  Frames in flight are lost.
Break(c) ==
    /\ socket[c] # NoSession
    /\ breaks + restarts < MaxBreaks
    /\ breaks' = breaks + 1
    /\ socket' = [socket EXCEPT ![c] = NoSession]
    /\ session' = [session EXCEPT ![socket[c]].live = FALSE, ![socket[c]].wire = <<>>]
    /\ UNCHANGED <<streamVars, history, clientVars, dropped, lostAcks, restarts>>

\* The gateway crashes and starts again.  Some events pushed to the old process
\* were never handled; the durable consumer remembers them.
Restart ==
    /\ restarts < MaxRestarts /\ breaks + restarts < MaxBreaks
    /\ restarts' = restarts + 1
    /\ \E k \in sent .. published :
        /\ sent' = k
        /\ unacked' = unacked \cup (sent + 1 .. k)
    /\ history' = <<>>
    /\ session' = [s \in Sessions |-> FreeSession]
    /\ socket' = [c \in Clients |-> NoSession]
    /\ UNCHANGED <<published, clientVars, dropped, breaks, lostAcks>>

Handle(s) ==
    Replay(s) \/ AddHistory(s) \/ SubscribeSince(s) \/ Write(s) \/ LeaveDead(s)

Next ==
    \/ Publish \/ Push \/ Redeliver
    \/ \E s \in Sessions : Handle(s)
    \/ \E c \in Clients : Connect(c) \/ Receive(c) \/ Break(c)
    \/ Restart

Spec == Init /\ [][Next]_vars

-----------------------------------------------------------------------------
(* Properties.                                                             *)

\* Until the gateway restarts, the history is an initial part of the stream,
\* whichever of the consumer and the sessions' replays brought an event.
HistoryIsPrefix == restarts = 0 => \A i \in DOMAIN history : history[i] = i

\* Until then the cursor vouches for what comes before it: the client has received
\* it, or its channel was full.
CursorVouches == restarts = 0 => \A c \in Clients : 1 .. cursor[c] \subseteq got[c] \cup dropped[c]

\* hub.go: "A slow client must not block domain publishers.  It will recover
\* from durable state when it reconnects."  A client that has reconnected and
\* has nothing left to come has every event before its cursor.
CaughtUp(c) ==
    /\ socket[c] # NoSession
    /\ At(socket[c], "open")
    /\ session[socket[c]].channel = <<>>
    /\ session[socket[c]].wire = <<>>
    /\ sent = published /\ unacked = {}

RecoversOnReconnect ==
    \A c \in Clients :
        CaughtUp(c) /\ session[socket[c]].since # 0 => 1 .. session[socket[c]].since \subseteq got[c]

\* A client that connects without a cursor has everything once it has caught
\* up, whatever restarts, redeliveries and other sessions did to the order of
\* the history before and meanwhile, unless the scan of the stream for it was cut
\* short.
FreshSessionComplete ==
    \A c \in Clients :
        CaughtUp(c) /\ session[socket[c]].since = 0 /\ ~session[socket[c]].cut /\ dropped[c] = {}
            => got[c] = 1 .. published

\* An event that is published reaches every client, except the ones whose
\* channel was full when it came, or the gateway restarts.
EventuallyReceived ==
    \A e \in Events, c \in Clients :
        (published >= e) ~> (e \in got[c] \cup dropped[c] \/ restarts > 0)

\* The gateway and the broker keep working, a client retries and reads.
FairSpec ==
    /\ Spec
    /\ WF_vars(Push) /\ WF_vars(Redeliver)
    /\ \A s \in Sessions : WF_vars(Handle(s))
    /\ \A c \in Clients : WF_vars(Connect(c)) /\ WF_vars(Receive(c))
=============================================================================
