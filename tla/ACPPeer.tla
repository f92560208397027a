------------------------------- MODULE ACPPeer -------------------------------
(***************************************************************************)
(* A peer that speaks the Agent Client Protocol: the client stdioACP of    *)
(* internal/runtime/acp_stdio.go and the agent process at the other end of *)
(* its pipes.  A peer is a record; an operation of the client is a         *)
(* function from the peer before it to the peer after it, so that the two  *)
(* modules that own peers (the gateway's run and the host's session) can   *)
(* do it inside their own steps.                                           *)
(*                                                                         *)
(* A message of the process is a kind and a number: an "update" of the     *)
(* session, the "reply" to a request or an "error" instead, a "permission" *)
(* it asks for, or a line longer than the scanner's buffer ("long").       *)
(***************************************************************************)
EXTENDS Naturals, Sequences

CONSTANTS
    NoteCap,      \* room of the notification channel (32 in the code)
    PipeSize,     \* messages the stdout pipe holds
    MaxUpdates,   \* bound: updates a process sends
    Extras,       \* bound: what else a process writes, "permission" or "long"
    Refusable     \* requests a process may answer with an error

ASSUME PeerAssumption ==
    /\ NoteCap \in Nat \ {0} /\ PipeSize \in Nat \ {0}
    /\ MaxUpdates \in Nat
    /\ Extras \subseteq {"permission", "long"}
    /\ Refusable \subseteq Nat

RequestID == Nat \ {0}
UpdateID == 1 .. MaxUpdates

Message ==
    ({"update"} \X UpdateID) \cup ({"reply", "error"} \X RequestID)
        \cup ({"permission", "long"} \X {0})

Peer ==
    [proc : {"none", "alive", "dead"},
     stdin : {"open", "closed"},
     nextID : Nat,
     asked : SUBSET RequestID,     \* requests the process has not answered
     reply : SUBSET RequestID,     \* answers put into their response channels
     refused : SUBSET RequestID,   \* errors put there
     session : BOOLEAN,            \* the process has opened the session
     wire : Seq(Message),          \* stdout
     reading : BOOLEAN,            \* read is scanning; the end closes notifications
     notes : Seq(UpdateID),        \* c.notifications
     told : 0 .. MaxUpdates,       \* updates the process has written
     read : 0 .. MaxUpdates,       \* updates read has seen
     dropped : SUBSET UpdateID,    \* ... and dropped
     waiting : BOOLEAN]            \* the process waits for a permission

NoPeer ==
    [proc |-> "none", stdin |-> "closed", nextID |-> 0, asked |-> {}, reply |-> {},
     refused |-> {}, session |-> FALSE, wire |-> <<>>, reading |-> FALSE, notes |-> <<>>,
     told |-> 0, read |-> 0, dropped |-> {}, waiting |-> FALSE]

\* NewStdioACPFactoryWithOptions: the process runs and read scans its stdout.
Spawned == [NoPeer EXCEPT !.proc = "alive", !.stdin = "open", !.reading = TRUE]

-----------------------------------------------------------------------------
(* The client.                                                             *)

\* A write to stdin fails once we closed it or the process is gone.
CanWrite(c) == c.proc = "alive" /\ c.stdin = "open"

\* request: the ID is new, so the entry of c.pending that waits for the answer
\* is the one made here.
Request(c) ==
    LET id == c.nextID + 1
    IN  [c EXCEPT !.nextID = id,
                  !.asked = IF CanWrite(c) THEN @ \cup {id} ELSE @]

\* The response channel of request id holds an answer, or an error.
Granted(c, id) == id \in c.reply
Refused(c, id) == id \in c.refused
Answered(c, id) == Granted(c, id) \/ Refused(c, id)

Close(c) == [c EXCEPT !.stdin = "closed"]

\* The channel of notifications is closed and empty.
NotesOver(c) == ~c.reading /\ c.notes = <<>>

TakeNote(c) == [c EXCEPT !.notes = Tail(@)]

\* read: an update goes into the channel or is dropped when that is full.
ReadUpdate(c) ==
    LET n == Head(c.wire)[2]
        room == Len(c.notes) < NoteCap
    IN  [c EXCEPT !.wire = Tail(@),
                  !.read = n,
                  !.notes = IF room THEN Append(@, n) ELSE @,
                  !.dropped = IF room THEN @ ELSE @ \cup {n}]

\* read: an answer goes into the response channel of its request.
ReadReply(c) ==
    [c EXCEPT !.wire = Tail(@), !.reply = @ \cup {Head(c.wire)[2]}]

ReadError(c) ==
    [c EXCEPT !.wire = Tail(@), !.refused = @ \cup {Head(c.wire)[2]}]

\* respondPermission: allow or cancel, either lets the process go on.
ReadPermission(c) ==
    [c EXCEPT !.wire = Tail(@), !.waiting = IF CanWrite(c) THEN FALSE ELSE @]

\* Scan returns false at the end of stdout and at a line it has no room for.
ReadEnd(c) == [c EXCEPT !.reading = FALSE]

CanRead(c) == c.reading /\ (c.wire # <<>> \/ c.proc = "dead")

Read(c) ==
    IF c.wire = <<>> THEN ReadEnd(c)
    ELSE CASE Head(c.wire)[1] = "update" -> ReadUpdate(c)
           [] Head(c.wire)[1] = "reply" -> ReadReply(c)
           [] Head(c.wire)[1] = "error" -> ReadError(c)
           [] Head(c.wire)[1] = "permission" -> ReadPermission(c)
           [] Head(c.wire)[1] = "long" -> ReadEnd(c)

-----------------------------------------------------------------------------
(* The process, which is not part of the repository: it answers requests   *)
(* in any order or never, sends updates once it has opened the session     *)
(* (a request after the first), asks for permissions and may die at any    *)
(* time.  What it still says when its input has ended, nobody waits for.   *)

CanTell(c) == CanWrite(c) /\ ~c.waiting /\ Len(c.wire) < PipeSize

Tell(c, kind, n) == [c EXCEPT !.wire = Append(@, <<kind, n>>)]

Answers(c) ==
    {[Tell(c, "reply", id) EXCEPT !.asked = @ \ {id}, !.session = @ \/ id >= 2] :
        id \in {i \in c.asked : CanTell(c)}}

Errors(c) ==
    {[Tell(c, "error", id) EXCEPT !.asked = @ \ {id}] :
        id \in {i \in c.asked \cap Refusable : CanTell(c)}}

HasSession(c) == CanTell(c) /\ c.session

Updates(c) ==
    {[Tell(c, "update", n) EXCEPT !.told = n] :
        n \in {m \in {c.told + 1} : HasSession(c) /\ m <= MaxUpdates}}

Asks(c) ==
    {[Tell(c, k, 0) EXCEPT !.waiting = (k = "permission")] : k \in {e \in Extras : HasSession(c)}}

Exit(c) == [c EXCEPT !.proc = "dead"]

Behaves(c) == Answers(c) \cup Errors(c) \cup Updates(c) \cup Asks(c)

=============================================================================
