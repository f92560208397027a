--------------------------- MODULE TerminalSession ---------------------------
(***************************************************************************)
(* One terminal over a WebSocket: of a container, through the gateway      *)
(* (internal/terminal), or of the host (internal/hostagent/terminal.go).   *)
(* Goroutines: the handler, a reader of each output stream and, of a       *)
(* container's terminal, the reader of the connection and the collector.   *)
(* The command reads its input, writes and ends as it likes.  Chunks of a  *)
(* stream are numbered.                                                    *)
(***************************************************************************)
EXTENDS Naturals, Sequences

CONSTANTS
    StreamSize,     \* chunks that fit into a pipe to or from the command
    OutputBuffer,   \* chunks that fit into the channel s.output
    MaxWritten,     \* bound on the chunks of a stream
    MaxTyped        \* bound on the client's messages

ASSUME TerminalAssumption ==
    /\ StreamSize \in Nat \ {0} /\ OutputBuffer \in Nat
    /\ MaxWritten \in Nat /\ MaxTyped \in Nat

Streams == {"stdout", "stderr"}

VARIABLES
    kind,           \* "container" or "host"
    command,        \* "none", "runs" or "ended"
    stdin,          \* messages in the command's input
    pipe, written,  \* of each stream: its chunks not read yet, how many there were
    released,       \* the pipes are closed: Wait has returned
    copier,         \* the reader of each stream: [at, chunk]
    output, closed, \* the channel s.output
    cancelled,      \* the context of the session
    waiter,         \* the collector: "wait", "readers" or "end"
    handler,        \* [at, chunk]: at "select", "input", "write", "wait" or "end"
    listener,       \* readInputs: "read", "send" or "end"
    gone, typed,    \* the client: has it left, its messages
    shown           \* the chunks of each stream that the client has got

termCommand == <<command, stdin, pipe, written, released>>
termOutput == <<copier, output, closed, cancelled, waiter>>
termClient == <<gone, typed>>
termVars == <<kind, termCommand, termOutput, handler, listener, termClient, shown>>

Idle(label) == [at |-> label, chunk |-> 0]

OpenTerminal == command = "runs" /\ handler = Idle("select")

\* No permission, no checkout, or a process that does not start; on the host a
\* folder that was not approved or the wrong level of privileges.
RefuseTerminal == kind = "container" /\ command = "none" /\ handler = Idle("end")
RefuseHostTerminal == kind = "host" /\ command = "none" /\ handler = Idle("end")

TerminalInit(kinds) ==
    /\ kind \in kinds
    /\ OpenTerminal \/ RefuseTerminal \/ RefuseHostTerminal
    /\ stdin = 0 /\ released = FALSE
    /\ pipe = [s \in Streams |-> <<>>] /\ written = [s \in Streams |-> 0]
    /\ copier = [s \in Streams |-> Idle(IF command = "runs" THEN "read" ELSE "end")]
    /\ output = <<>> /\ closed = FALSE /\ cancelled = FALSE
    /\ waiter = IF kind = "container" /\ command = "runs" THEN "wait" ELSE "end"
    /\ listener = IF kind = "container" /\ command = "runs" THEN "read" ELSE "end"
    /\ gone = FALSE /\ typed = 0
    /\ shown = [s \in Streams |-> <<>>]

---------------------------------------------------------------------------
\* The command, until it ends or is killed.
CommandWrites(s) ==
    /\ command = "runs" /\ written[s] < MaxWritten /\ Len(pipe[s]) < StreamSize
    /\ written' = [written EXCEPT ![s] = @ + 1]
    /\ pipe' = [pipe EXCEPT ![s] = Append(@, written[s] + 1)]
    /\ UNCHANGED <<kind, command, stdin, released, termOutput, handler, listener, termClient, shown>>

CommandReads ==
    /\ command = "runs" /\ stdin > 0
    /\ stdin' = stdin - 1
    /\ UNCHANGED <<kind, command, pipe, written, released, termOutput, handler, listener, termClient, shown>>

CommandEnds ==
    /\ command = "runs"
    /\ command' = "ended"
    /\ UNCHANGED <<kind, stdin, pipe, written, released, termOutput, handler, listener, termClient, shown>>

ClientLeaves ==
    /\ ~gone /\ handler.at # "end"
    /\ gone' = TRUE
    /\ UNCHANGED <<kind, termCommand, termOutput, handler, listener, typed, shown>>

---------------------------------------------------------------------------
\* copyOutput and streamTerminal: a chunk, or the end of the stream.
CopyRead(s) ==
    /\ copier[s].at = "read"
    /\ \/ /\ ~released /\ pipe[s] # <<>>
          /\ copier' = [copier EXCEPT ![s] = [at |-> "send", chunk |-> Head(pipe[s])]]
          /\ pipe' = [pipe EXCEPT ![s] = Tail(@)]
       \/ /\ released \/ (pipe[s] = <<>> /\ command = "ended")
          /\ copier' = [copier EXCEPT ![s] = Idle("end")]
          /\ UNCHANGED pipe
    /\ UNCHANGED <<kind, command, stdin, written, released, output, closed, cancelled, waiter,
                   handler, listener, termClient, shown>>

\* Mutant: a full channel loses the chunk.
CopySendLossy(s) ==
    /\ kind = "container" /\ copier[s].at = "send"
    /\ copier' = [copier EXCEPT ![s] = Idle("read")]
    /\ output' = IF Len(output) < OutputBuffer THEN Append(output, <<s, copier[s].chunk>>) ELSE output
    /\ UNCHANGED <<kind, termCommand, closed, cancelled, waiter, handler, listener, termClient, shown>>

CopySend(s) ==
    /\ kind = "container" /\ copier[s].at = "send"
    /\ \/ /\ Len(output) < OutputBuffer
          /\ output' = Append(output, <<s, copier[s].chunk>>)
          /\ copier' = [copier EXCEPT ![s] = Idle("read")]
       \/ /\ cancelled
          /\ copier' = [copier EXCEPT ![s] = Idle("end")]
          /\ UNCHANGED output
    /\ UNCHANGED <<kind, termCommand, closed, cancelled, waiter, handler, listener, termClient, shown>>

\* The connection takes a chunk, and may do so when nobody sees it any more.
Shows(s, chunk) ==
    shown' = IF gone \/ handler.at = "end" THEN shown ELSE [shown EXCEPT ![s] = Append(@, chunk)]

\* On the host the readers write to the connection themselves, one at a time,
\* and go on when that fails.
HostWrites(s) ==
    /\ kind = "host" /\ copier[s].at = "send"
    /\ Shows(s, copier[s].chunk)
    /\ copier' = [copier EXCEPT ![s] = Idle("read")]
    /\ UNCHANGED <<kind, termCommand, output, closed, cancelled, waiter, handler, listener, termClient>>

\* Mutant: the channel is closed with the pipes.
CollectTerminalEarly ==
    /\ waiter = "wait" /\ command = "ended"
    /\ waiter' = "end" /\ released' = TRUE /\ closed' = TRUE
    /\ UNCHANGED <<kind, command, stdin, pipe, written, copier, output, cancelled, handler, listener, termClient, shown>>

\* Wait closes the pipes once the command has ended, read or not; s.output is
\* closed after the readers.
CollectTerminal ==
    /\ \/ waiter = "wait" /\ command = "ended" /\ waiter' = "readers" /\ released' = TRUE /\ UNCHANGED closed
       \/ /\ waiter = "readers" /\ \A s \in Streams : copier[s].at = "end"
          /\ waiter' = "end" /\ closed' = TRUE /\ UNCHANGED released
    /\ UNCHANGED <<kind, command, stdin, pipe, written, copier, output, cancelled, handler, listener, termClient, shown>>

---------------------------------------------------------------------------
\* Mutant: the end of the connection is not noticed.
ListenQuietly ==
    /\ listener = "read" /\ ~gone /\ handler.at # "end" /\ typed < MaxTyped
    /\ listener' = "send" /\ typed' = typed + 1
    /\ UNCHANGED <<kind, termCommand, termOutput, handler, gone, shown>>

\* readInputs: a message, which the handler must take, or the end of the
\* connection.
Listen ==
    /\ listener = "read"
    /\ \/ ~gone /\ handler.at # "end" /\ typed < MaxTyped /\ listener' = "send" /\ typed' = typed + 1
       \/ (gone \/ handler.at = "end") /\ listener' = "end" /\ UNCHANGED typed
    /\ UNCHANGED <<kind, termCommand, termOutput, handler, gone, shown>>

\* Close: the context, the input, and the process; then the connection.
CloseTerminal ==
    /\ cancelled' = TRUE /\ stdin' = 0 /\ command' = "ended"
    /\ handler' = Idle(IF kind = "container" THEN "end" ELSE "wait")
    /\ UNCHANGED <<pipe, written, released, copier, output, closed, waiter, listener, shown>>

\* The handler of a container's terminal waits for input, output, or the end of
\* either.
Select ==
    /\ kind = "container" /\ handler.at = "select"
    /\ \/ /\ listener = "send" /\ listener' = "read"
          /\ handler' = Idle("input")
          /\ UNCHANGED <<termCommand, termOutput, shown>>
       \/ /\ output # <<>>
          /\ handler' = [at |-> "write", chunk |-> Head(output)]
          /\ output' = Tail(output)
          /\ UNCHANGED <<termCommand, copier, closed, cancelled, waiter, listener, shown>>
       \/ (listener = "end" \/ (closed /\ output = <<>>)) /\ CloseTerminal
    /\ UNCHANGED <<kind, termClient>>

WriteOutput ==
    /\ handler.at = "write"
    /\ \/ /\ Shows(handler.chunk[1], handler.chunk[2])
          /\ handler' = Idle("select")
          /\ UNCHANGED <<termCommand, termOutput, listener>>
       \/ gone /\ CloseTerminal
    /\ UNCHANGED <<kind, termClient>>

\* The handler of the host's terminal waits for input only.
ReadTerminalInput ==
    /\ kind = "host" /\ handler.at = "select"
    /\ \/ /\ ~gone /\ typed < MaxTyped
          /\ typed' = typed + 1
          /\ handler' = Idle("input")
          /\ UNCHANGED <<termCommand, termOutput, listener, shown>>
       \/ gone /\ CloseTerminal /\ UNCHANGED typed
    /\ UNCHANGED <<kind, gone>>

\* A full input blocks the handler; that of an ended command is an error, which
\* ends a container's session, as an empty message does, and which the host
\* ignores.
WriteInput ==
    /\ handler.at = "input"
    /\ \/ /\ command = "runs" /\ stdin < StreamSize
          /\ stdin' = stdin + 1 /\ handler' = Idle("select")
          /\ UNCHANGED <<command, pipe, written, released, termOutput, listener, shown>>
       \/ /\ command = "ended" /\ kind = "host"
          /\ handler' = Idle("select")
          /\ UNCHANGED <<termCommand, termOutput, listener, shown>>
       \/ kind = "container" /\ CloseTerminal
    /\ UNCHANGED <<kind, termClient>>

HostWait ==
    /\ handler.at = "wait" /\ command = "ended"
    /\ released' = TRUE /\ handler' = Idle("end")
    /\ UNCHANGED <<kind, command, stdin, pipe, written, termOutput, listener, termClient, shown>>

TerminalHandler == Select \/ WriteOutput \/ ReadTerminalInput \/ WriteInput \/ HostWait

TerminalNext ==
    \/ CommandReads \/ CommandEnds \/ ClientLeaves
    \/ \E s \in Streams : CommandWrites(s) \/ CopyRead(s) \/ CopySend(s) \/ HostWrites(s)
    \/ CollectTerminal \/ Listen \/ TerminalHandler

\* Goroutines are scheduled; the command and the client do as they like.
TerminalFairness ==
    /\ \A s \in Streams : WF_termVars(CopyRead(s) \/ CopySend(s) \/ HostWrites(s))
    /\ WF_termVars(CollectTerminal) /\ WF_termVars(Listen) /\ WF_termVars(TerminalHandler)

---------------------------------------------------------------------------
\* No reader is left when the collector closes s.output: a send on a closed
\* channel would end the gateway.
NoSendOnClosed == closed => \A s \in Streams : copier[s].at = "end"

\* Of each stream the client sees the chunks in order and without a gap,
\* whatever is lost when a session ends.
ShownIsPrefix == \A s \in Streams : \A i \in DOMAIN shown[s] : shown[s][i] = i

\* Everything a session has started has ended, except a listener that still
\* offers a message to the handler that has returned.
Over ==
    /\ handler.at = "end" /\ waiter = "end" /\ listener \in {"send", "end"}
    /\ command # "runs" /\ \A s \in Streams : copier[s].at = "end"

Stuck == handler.at = "input" /\ command = "runs" /\ stdin = StreamSize

\* When the client leaves, the session ends and takes the command with it,
\* unless the handler waits for a command that does not read its input.
LeavingEndsSession == <>gone => <>[](Over \/ Stuck)

\* When the command of a container's terminal ends, so does the session.
CommandEndsSession == (kind = "container" /\ command = "ended") ~> Over

\* Whichever end of a session goes first, nothing of it is left.
SessionEnds == LeavingEndsSession /\ CommandEndsSession
=============================================================================
