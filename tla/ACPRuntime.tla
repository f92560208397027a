----------------------------- MODULE ACPRuntime -----------------------------
(***************************************************************************)
(* One run of the run service (internal/runs/service.go) on the agent      *)
(* runtime internal/runtime/acp.go: Start, Stop and Input of the service   *)
(* call Run, Stop and Send of the runtime, which keeps a peer behind a     *)
(* pair of goroutines.  A start is named after its caller, and so is the   *)
(* peer it opens.  Durable rows and events are in RunService.              *)
(***************************************************************************)
EXTENDS ACPPeer, RunContract

CONSTANTS
    Starters,   \* callers of Start; each opens at most one peer
    Stoppers,   \* callers of Stop
    Writers,    \* callers of Input
    OutCap,     \* room of the run's output channel (32 in the code)
    Overlap,    \* may a client start the run while a start is not known to have failed?
    None        \* no client

ASSUME RuntimeAssumption ==
    /\ OutCap \in Nat \ {0}
    /\ Overlap \in BOOLEAN
    /\ None \notin Starters

VARIABLES
    status,     \* the run's status in the service
    ctxDone,    \* its context is cancelled
    cleared,    \* clearRunContext has forgotten the context
    start,      \* Start and Run of each starter
    peer,       \* the peer each starter has opened
    client,     \* run.client: None or the starter that installed it
    forward,    \* the goroutine forward of each start
    prompt,     \* the goroutine of the first prompt
    output,     \* run.output
    closes,     \* times run.output has been closed
    panicked,   \* the gateway has panicked
    consumer,   \* the goroutine consume of each start
    consumed,   \* history: what consume received
    stop,       \* Stop of each stopper
    send        \* Input of each writer

runVars == <<status, ctxDone, cleared>>
startVars == <<start, peer, client, forward, prompt>>
outVars == <<output, closes, panicked>>
consumeVars == <<consumer, consumed>>
callVars == <<stop, send>>
vars == <<runVars, startVars, outVars, consumeVars, callVars>>

\* A goroutine that asks a peer: where it is, whom it asked and under which ID.
Asking(at) == [at : at, to : Starters \cup {None}, id : Nat]
Idle == [at |-> "idle", to |-> None, id |-> 0]

StartState ==
    [at : {"idle", "context", "factory", "initialize", "session", "stream", "done", "failed"},
     own : BOOLEAN]

ForwardState ==
    [at : {"none", "start", "select", "put", "end"},
     to : Starters \cup {None}, held : 0 .. MaxUpdates]

PromptState == Asking({"idle", "ask", "wait", "end"})
StopState == Asking({"idle", "cancel", "agent", "wait", "settle", "done", "recovered"})
SendState == Asking({"idle", "send", "wait", "done"})

TypeOK ==
    /\ status \in RunState
    /\ ctxDone \in BOOLEAN /\ cleared \in BOOLEAN
    /\ start \in [Starters -> StartState]
    /\ peer \in [Starters -> Peer]
    /\ client \in Starters \cup {None}
    /\ forward \in [Starters -> ForwardState]
    /\ prompt \in [Starters -> PromptState]
    /\ output \in Seq(UpdateID) /\ Len(output) <= OutCap
    /\ closes \in Nat
    /\ panicked \in BOOLEAN
    /\ consumer \in [Starters -> {"none", "range", "clear", "end"}]
    /\ consumed \in Seq(UpdateID)
    /\ stop \in [Stoppers -> StopState]
    /\ send \in [Writers -> SendState]

\* The service has created the run and the runtime has spawned it.
Init ==
    /\ status = "queued"
    /\ ctxDone = FALSE /\ cleared = FALSE
    /\ start = [p \in Starters |-> [at |-> "idle", own |-> FALSE]]
    /\ peer = [p \in Starters |-> NoPeer]
    /\ client = None
    /\ forward = [p \in Starters |-> [at |-> "none", to |-> None, held |-> 0]]
    /\ prompt = [p \in Starters |-> Idle]
    /\ output = <<>> /\ closes = 0 /\ panicked = FALSE
    /\ consumer = [p \in Starters |-> "none"]
    /\ consumed = <<>>
    /\ stop = [q \in Stoppers |-> Idle]
    /\ send = [i \in Writers |-> Idle]

\* The context of start p is done.
Done(p) == ctxDone /\ ~start[p].own

Goes(p, at) == start' = [start EXCEPT ![p].at = at]

-----------------------------------------------------------------------------
(* Start.                                                                  *)

StartBegin(p) ==
    /\ start[p].at = "idle"
    /\ Overlap \/ \A q \in Starters \ {p} : start[q].at \in {"idle", "failed"}
    /\ TransitionRun(status, "running")
    /\ status' = "running"
    /\ Goes(p, "context")
    /\ UNCHANGED <<ctxDone, cleared, peer, client, forward, prompt, outVars, consumeVars, callVars>>

\* runContext: without an entry, a context that nobody can cancel.
StartContext(p) ==
    /\ start[p].at = "context"
    /\ start' = [start EXCEPT ![p] = [at |-> "factory", own |-> cleared]]
    /\ UNCHANGED <<runVars, peer, client, forward, prompt, outVars, consumeVars, callVars>>

\* The factory starts the process, and Initialize sends the first request;
\* or there is no process.
StartPeer(p) ==
    /\ start[p].at = "factory"
    /\ \/ /\ ~Done(p)
          /\ peer' = [peer EXCEPT ![p] = Request(Spawned)]
          /\ Goes(p, "initialize")
       \/ /\ Goes(p, "failed")
          /\ UNCHANGED peer
    /\ UNCHANGED <<runVars, client, forward, prompt, outVars, consumeVars, callVars>>

\* Initialize has its answer and NewSession is sent.
StartSession(p) ==
    /\ start[p].at = "initialize"
    /\ Granted(peer[p], 1) /\ CanWrite(peer[p])
    /\ peer' = [peer EXCEPT ![p] = Request(@)]
    /\ Goes(p, "session")
    /\ UNCHANGED <<runVars, client, forward, prompt, outVars, consumeVars, callVars>>

\* A request is answered with an error, cannot be written or sees the context
\* done: Run closes the client.
StartFails(p) ==
    /\ \/ start[p].at = "initialize" /\ (Refused(peer[p], 1) \/ Done(p))
       \/ start[p].at = "initialize" /\ Granted(peer[p], 1) /\ ~CanWrite(peer[p])
       \/ start[p].at = "session" /\ (Refused(peer[p], 2) \/ Done(p))
    /\ peer' = [peer EXCEPT ![p] = Close(@)]
    /\ Goes(p, "failed")
    /\ UNCHANGED <<runVars, client, forward, prompt, outVars, consumeVars, callVars>>

\* The run takes the client, whatever client it had, and the goroutines start.
StartInstall(p) ==
    /\ start[p].at = "session"
    /\ Granted(peer[p], 2)
    /\ client' = p
    /\ forward' = [forward EXCEPT ![p].at = "start"]
    /\ prompt' = [prompt EXCEPT ![p].at = "ask"]
    /\ Goes(p, "stream")
    /\ UNCHANGED <<runVars, peer, outVars, consumeVars, callVars>>

StartStream(p) ==
    /\ start[p].at = "stream"
    /\ consumer' = [consumer EXCEPT ![p] = "range"]
    /\ Goes(p, "done")
    /\ UNCHANGED <<runVars, peer, client, forward, prompt, outVars, consumed, callVars>>

Start(p) ==
    \/ StartContext(p) \/ StartPeer(p) \/ StartSession(p) \/ StartFails(p)
    \/ StartInstall(p) \/ StartStream(p)

-----------------------------------------------------------------------------
(* forward, the first prompt, and consume.                                 *)

\* forward reads run.client when it gets to run, not the client of its start.
ForwardBegin(p) ==
    /\ forward[p].at = "start"
    /\ forward' = [forward EXCEPT ![p].at = "select", ![p].to = client]
    /\ UNCHANGED <<runVars, start, peer, client, prompt, outVars, consumeVars, callVars>>

ForwardTake(p) ==
    /\ forward[p].at = "select"
    /\ LET c == forward[p].to
       IN  /\ peer[c].notes # <<>>
           /\ peer' = [peer EXCEPT ![c] = TakeNote(@)]
           /\ forward' = [forward EXCEPT ![p].at = "put", ![p].held = Head(peer[c].notes)]
    /\ UNCHANGED <<runVars, start, client, prompt, outVars, consumeVars, callVars>>

\* Mutant: an update that finds no room is dropped.
ForwardPutDrops(p) ==
    /\ forward[p].at = "put"
    /\ output' = IF closes > 0 \/ Len(output) = OutCap THEN output
                 ELSE Append(output, forward[p].held)
    /\ panicked' = (closes > 0)
    /\ forward' = [forward EXCEPT ![p].at = "select", ![p].held = 0]
    /\ UNCHANGED <<runVars, start, peer, client, prompt, closes, consumeVars, callVars>>

\* A send on a closed channel panics.
ForwardPut(p) ==
    /\ forward[p].at = "put"
    /\ closes > 0 \/ Len(output) < OutCap
    /\ output' = IF closes > 0 THEN output ELSE Append(output, forward[p].held)
    /\ panicked' = (closes > 0)
    /\ forward' = [forward EXCEPT ![p].at = "select", ![p].held = 0]
    /\ UNCHANGED <<runVars, start, peer, client, prompt, closes, consumeVars, callVars>>

\* Mutants: forward goes on after it has closed; it does not see the end of the
\* notifications.
ForwardEndStays(p) ==
    /\ \/ forward[p].at = "select" /\ NotesOver(peer[forward[p].to])
       \/ forward[p].at \in {"select", "put"} /\ Done(p)
    /\ peer' = [peer EXCEPT ![forward[p].to] = Close(@)]
    /\ closes' = closes + 1
    /\ panicked' = (closes > 0)
    /\ forward' = [forward EXCEPT ![p].at = "select", ![p].held = 0]
    /\ UNCHANGED <<runVars, start, client, prompt, output, consumeVars, callVars>>

ForwardEndBlind(p) ==
    /\ forward[p].at \in {"select", "put"} /\ Done(p)
    /\ peer' = [peer EXCEPT ![forward[p].to] = Close(@)]
    /\ closes' = closes + 1
    /\ panicked' = (closes > 0)
    /\ forward' = [forward EXCEPT ![p].at = "end", ![p].held = 0]
    /\ UNCHANGED <<runVars, start, client, prompt, output, consumeVars, callVars>>

\* The notifications are over, or the context is done: the client is closed and
\* then the output, which panics the second time.
ForwardEnd(p) ==
    /\ \/ forward[p].at = "select" /\ NotesOver(peer[forward[p].to])
       \/ forward[p].at \in {"select", "put"} /\ Done(p)
    /\ peer' = [peer EXCEPT ![forward[p].to] = Close(@)]
    /\ closes' = closes + 1
    /\ panicked' = (closes > 0)
    /\ forward' = [forward EXCEPT ![p].at = "end", ![p].held = 0]
    /\ UNCHANGED <<runVars, start, client, prompt, output, consumeVars, callVars>>

Forward(p) == ForwardBegin(p) \/ ForwardTake(p) \/ ForwardPut(p) \/ ForwardEnd(p)

\* The first prompt goes to the client its start has opened.
PromptAsk(p) ==
    /\ prompt[p].at = "ask"
    /\ peer' = [peer EXCEPT ![p] = Request(@)]
    /\ prompt' = [prompt EXCEPT ![p] =
                    IF CanWrite(peer[p]) THEN [at |-> "wait", to |-> p, id |-> peer[p].nextID + 1]
                    ELSE [Idle EXCEPT !.at = "end"]]
    /\ UNCHANGED <<runVars, start, client, forward, outVars, consumeVars, callVars>>

\* Mutant: the prompt waits for its answer only.
PromptEndWaits(p) ==
    /\ prompt[p].at = "wait"
    /\ Answered(peer[p], prompt[p].id)
    /\ prompt' = [prompt EXCEPT ![p] = [Idle EXCEPT !.at = "end"]]
    /\ UNCHANGED <<runVars, start, peer, client, forward, outVars, consumeVars, callVars>>

PromptEnd(p) ==
    /\ prompt[p].at = "wait"
    /\ Answered(peer[p], prompt[p].id) \/ Done(p)
    /\ prompt' = [prompt EXCEPT ![p] = [Idle EXCEPT !.at = "end"]]
    /\ UNCHANGED <<runVars, start, peer, client, forward, outVars, consumeVars, callVars>>

ConsumeOutput(p) ==
    /\ consumer[p] = "range"
    /\ output # <<>>
    /\ consumed' = Append(consumed, Head(output))
    /\ output' = Tail(output)
    /\ UNCHANGED <<runVars, startVars, closes, panicked, consumer, callVars>>

\* The end of the stream is the success of a run that is still running.
ConsumeEnd(p) ==
    /\ consumer[p] = "range"
    /\ output = <<>> /\ closes > 0
    /\ status' = IF status = "running" THEN "succeeded" ELSE status
    /\ consumer' = [consumer EXCEPT ![p] = "clear"]
    /\ UNCHANGED <<ctxDone, cleared, startVars, outVars, consumed, callVars>>

\* clearRunContext.
ConsumeClear(p) ==
    /\ consumer[p] = "clear"
    /\ ctxDone' = TRUE /\ cleared' = TRUE
    /\ consumer' = [consumer EXCEPT ![p] = "end"]
    /\ UNCHANGED <<status, startVars, outVars, consumed, callVars>>

Consume(p) == ConsumeOutput(p) \/ ConsumeEnd(p) \/ ConsumeClear(p)

-----------------------------------------------------------------------------
(* Stop and Input.                                                         *)

StopBegin(q) ==
    /\ stop[q].at = "idle"
    /\ status' = IF status = "running" THEN "stopping" ELSE status
    /\ stop' = [stop EXCEPT ![q].at = "cancel"]
    /\ UNCHANGED <<ctxDone, cleared, startVars, outVars, consumeVars, send>>

StopCancel(q) ==
    /\ stop[q].at = "cancel"
    /\ ctxDone' = (ctxDone \/ ~cleared)
    /\ stop' = [stop EXCEPT ![q].at = "agent"]
    /\ UNCHANGED <<status, cleared, startVars, outVars, consumeVars, send>>

\* The runtime's Stop: session/cancel, under a context that nothing cancels.
StopAgent(q) ==
    /\ stop[q].at = "agent"
    /\ IF client = None
       THEN /\ stop' = [stop EXCEPT ![q].at = "settle"]
            /\ UNCHANGED peer
       ELSE /\ peer' = [peer EXCEPT ![client] = Request(@)]
            /\ stop' = [stop EXCEPT ![q] =
                          IF CanWrite(peer[client])
                          THEN [at |-> "wait", to |-> client, id |-> peer[client].nextID + 1]
                          ELSE [Idle EXCEPT !.at = "settle"]]
    /\ UNCHANGED <<runVars, start, client, forward, prompt, outVars, consumeVars, send>>

\* Stop reads run.client without the mutex.  While Run is installing a client it
\* may see half of the interface value: the handler panics, and net/http
\* recovers it.
StopTorn(q) ==
    /\ stop[q].at = "agent"
    /\ client = None
    /\ \E p \in Starters : start[p].at = "session" /\ Granted(peer[p], 2)
    /\ stop' = [stop EXCEPT ![q].at = "recovered"]
    /\ UNCHANGED <<runVars, startVars, outVars, consumeVars, send>>

StopAnswered(q) ==
    /\ stop[q].at = "wait"
    /\ Answered(peer[stop[q].to], stop[q].id)
    /\ stop' = [stop EXCEPT ![q] = [Idle EXCEPT !.at = "settle"]]
    /\ UNCHANGED <<runVars, startVars, outVars, consumeVars, send>>

StopSettle(q) ==
    /\ stop[q].at = "settle"
    /\ status' = IF status = "stopping" THEN "cancelled" ELSE status
    /\ stop' = [stop EXCEPT ![q].at = "done"]
    /\ UNCHANGED <<ctxDone, cleared, startVars, outVars, consumeVars, send>>

Stop(q) == StopCancel(q) \/ StopAgent(q) \/ StopTorn(q) \/ StopAnswered(q) \/ StopSettle(q)

SendBegin(i) ==
    /\ send[i].at = "idle"
    /\ status = "running"
    /\ send' = [send EXCEPT ![i].at = "send"]
    /\ UNCHANGED <<runVars, startVars, outVars, consumeVars, stop>>

SendPrompt(i) ==
    /\ send[i].at = "send"
    /\ IF client = None
       THEN /\ send' = [send EXCEPT ![i].at = "done"]
            /\ UNCHANGED peer
       ELSE /\ peer' = [peer EXCEPT ![client] = Request(@)]
            /\ send' = [send EXCEPT ![i] =
                          IF CanWrite(peer[client])
                          THEN [at |-> "wait", to |-> client, id |-> peer[client].nextID + 1]
                          ELSE [Idle EXCEPT !.at = "done"]]
    /\ UNCHANGED <<runVars, start, client, forward, prompt, outVars, consumeVars, stop>>

SendAnswered(i) ==
    /\ send[i].at = "wait"
    /\ Answered(peer[send[i].to], send[i].id)
    /\ send' = [send EXCEPT ![i] = [Idle EXCEPT !.at = "done"]]
    /\ UNCHANGED <<runVars, startVars, outVars, consumeVars, stop>>

\* The client of the request gives up; the answer, if it comes, finds nobody.
SendAbandoned(i) ==
    /\ send[i].at = "wait"
    /\ send' = [send EXCEPT ![i] = [Idle EXCEPT !.at = "done"]]
    /\ UNCHANGED <<runVars, startVars, outVars, consumeVars, stop>>

Send(i) == SendPrompt(i) \/ SendAnswered(i)

-----------------------------------------------------------------------------
(* The peers' readers and processes.                                       *)

othersThanPeer == <<runVars, start, client, forward, prompt, outVars, consumeVars, callVars>>

ReadPeer(p) ==
    /\ CanRead(peer[p])
    /\ peer' = [peer EXCEPT ![p] = Read(@)]
    /\ UNCHANGED othersThanPeer

PeerBehaves(p) ==
    /\ \E c \in Behaves(peer[p]) : peer' = [peer EXCEPT ![p] = c]
    /\ UNCHANGED othersThanPeer

PeerDies(p) ==
    /\ peer[p].proc = "alive"
    /\ peer' = [peer EXCEPT ![p] = Exit(@)]
    /\ UNCHANGED othersThanPeer

\* exec.CommandContext kills the process when the context is done; an agent
\* exits when its stdin ends.
PeerEnds(p) == (Done(p) \/ peer[p].stdin = "closed") /\ PeerDies(p)

Next ==
    /\ ~panicked
    /\ \/ \E p \in Starters :
            \/ StartBegin(p) \/ Start(p) \/ Forward(p) \/ PromptAsk(p) \/ PromptEnd(p)
            \/ Consume(p) \/ ReadPeer(p) \/ PeerBehaves(p) \/ PeerDies(p)
       \/ \E q \in Stoppers : StopBegin(q) \/ Stop(q)
       \/ \E i \in Writers : SendBegin(i) \/ Send(i) \/ SendAbandoned(i)

Spec == Init /\ [][Next]_vars

-----------------------------------------------------------------------------
(* Properties.                                                             *)

\* The output of a run is closed once and nothing is sent after that, when a
\* client starts a run again only after a start has failed.
NoPanic == ~panicked

\* While the context lives, every update that read has seen is dropped for want
\* of room, or on its way, or received, in the order of the agent: no goroutine
\* loses or repeats one, also when an earlier start had failed.
UpdatesInTransit ==
    (client # None /\ ~ctxDone) =>
        LET c == peer[client]
            held == IF forward[client].at = "put" THEN <<forward[client].held>> ELSE <<>>
            way == consumed \o output \o held \o c.notes
        IN  /\ \A i, j \in 1 .. Len(way) : i < j => way[i] < way[j]
            /\ {way[i] : i \in 1 .. Len(way)} = (1 .. c.read) \ c.dropped

\* The goroutines of a start and its process.
Released(p) ==
    /\ peer[p].proc # "alive"
    /\ start[p].at \in {"idle", "failed", "done"}
    /\ forward[p].at \in {"none", "end"}
    /\ prompt[p].at \in {"idle", "end"}

\* A stop, and the end of the stream, set everything free, at whatever point of
\* a start they come.
ContextReleases == \A p \in Starters : ctxDone ~> Released(p)

\* A start that fails leaves no process behind.
FailureReleases == \A p \in Starters : (start[p].at = "failed") ~> (peer[p].proc # "alive")

\* However a start ends, nothing it has begun is left to nobody.
StartReleases == ContextReleases /\ FailureReleases

\* A run whose agent dies, or whose output can no longer be read, does not stay
\* running.
PeerEndEndsRun ==
    \A p \in Starters :
        (start[p].at = "done" /\ ~peer[p].reading) ~> (status # "running")

\* acp_stdio.go: "NewStdioACPFactory starts one ACP JSON-RPC peer per agent
\* run": no two peers have been opened for the run and serve it.
OnePeerPerRun ==
    \A p, q \in Starters :
        p # q => ~(start[p].at = "done" /\ start[q].at = "done"
                   /\ peer[p].proc = "alive" /\ peer[q].proc = "alive")

\* TestLifecycle: the stop of a running run returns, with the run cancelled.
StopReturns ==
    \A q \in Stoppers :
        (stop[q].at = "wait" /\ status = "stopping") ~> (status = "cancelled")

\* Goroutines are scheduled, a killed process dies and an agent exits at the end
\* of its input.  No agent is obliged to answer, no client to call.
FairSpec ==
    /\ Spec
    /\ \A p \in Starters :
        /\ WF_vars(~panicked /\ Start(p)) /\ WF_vars(~panicked /\ Forward(p))
        /\ WF_vars(~panicked /\ (PromptAsk(p) \/ PromptEnd(p)))
        /\ WF_vars(~panicked /\ Consume(p)) /\ WF_vars(~panicked /\ ReadPeer(p))
        /\ WF_vars(~panicked /\ PeerEnds(p))
    /\ \A q \in Stoppers : WF_vars(~panicked /\ Stop(q))
    /\ \A i \in Writers : WF_vars(~panicked /\ Send(i))
=============================================================================
