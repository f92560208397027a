------------------------------ MODULE RunService ------------------------------
(***************************************************************************)
(* The run service of the gateway (internal/runs): the map of runs, the    *)
(* durable record behind it (SaveRun, SaveOutput of internal/persistence), *)
(* the per-run contexts, the HTTP requests create, get, start, stop and    *)
(* input, and the goroutine `consume`, over the built-in agent runtime.    *)
(*                                                                         *)
(* One action is what the code does between two points where another       *)
(* goroutine can observe or change shared state: a critical section of     *)
(* s.mu, one statement to the database, one call of the agent.             *)
(***************************************************************************)
EXTENDS MockRuntime, RunContract

CONSTANTS
    Operations,     \* requests the clients issue
    MaxRequests,    \* bound: requests issued
    MaxCrashes,     \* bound: restarts of the gateway
    ClientsWait,    \* clients address a run only after its create returned
    ClientsLeave,   \* clients may disconnect while their request is served
    None            \* no run with that ID

\* The goroutines serving requests are those that call the agent's Send.
Callers == Senders

ASSUME ServiceAssumption ==
    /\ Runs # {}
    /\ Operations \subseteq {"create", "get", "start", "stop", "input"}
    /\ MaxRequests \in Nat
    /\ MaxCrashes \in Nat
    /\ ClientsWait \in BOOLEAN
    /\ ClientsLeave \in BOOLEAN
    /\ None \notin RunState
    /\ MaxInputs >= MaxRequests

VARIABLES
    runs,       \* s.runs: the status the service holds, None when absent
    record,     \* the durable row of the run, None when absent
    runCtx,     \* s.runContexts and s.runCancels: none, live or cancelled
    outSeq,     \* s.outputSeq
    savedOut,   \* sequence numbers of the durable outputs
    call,       \* the request each caller serves
    consumer,   \* the goroutine `consume` of the run
    tied,       \* the agent and `consume` run under the context Stop cancels
    streams,    \* history: streams opened since the run was created
    stopAsked,  \* history: a stop has reached the run
    acked,      \* history: runs whose create has returned to a client
    requests, crashes

vars == <<runs, record, runCtx, outSeq, savedOut, call, consumer, tied, streams,
          stopAsked, acked, requests, crashes, agentVars>>

Status == RunState \cup {None}

Step == {"idle", "lookup", "fetch", "fill", "create", "createSave", "spawn",
         "start", "startSave", "startCtx", "agentRun", "stream",
         "stop", "stopSave", "cancel", "agentStop", "settle", "settleSave",
         "input", "send", "put"}

\* A request: where its goroutine stands, the operation, the run it names, the
\* local copy `r` of the run's status, whether Start found a run context, and
\* whether the client has left (the request context is then done).
Call == [at : Step, op : Operations \cup {"none"}, run : Runs,
         snap : Status, tied : BOOLEAN, gone : BOOLEAN]

Idle == [at |-> "idle", op |-> "none", run |-> CHOOSE r \in Runs : TRUE,
         snap |-> None, tied |-> FALSE, gone |-> FALSE]

TypeOK ==
    /\ AgentTypeOK
    /\ runs \in [Runs -> Status]
    /\ record \in [Runs -> Status]
    /\ runCtx \in [Runs -> {"none", "live", "cancelled"}]
    /\ outSeq \in [Runs -> Nat]
    /\ savedOut \in [Runs -> SUBSET Nat]
    /\ call \in [Callers -> Call]
    /\ consumer \in [Runs -> {"none", "range", "saveOutput", "clear", "done"}]
    /\ tied \in [Runs -> BOOLEAN]
    /\ streams \in [Runs -> Nat]
    /\ stopAsked \in [Runs -> BOOLEAN]
    /\ acked \in [Runs -> BOOLEAN]
    /\ requests \in 0 .. MaxRequests
    /\ crashes \in 0 .. MaxCrashes

Init ==
    /\ AgentInit
    /\ runs = [r \in Runs |-> None]
    /\ record = [r \in Runs |-> None]
    /\ runCtx = [r \in Runs |-> "none"]
    /\ outSeq = [r \in Runs |-> 0]
    /\ savedOut = [r \in Runs |-> {}]
    /\ call = [p \in Callers |-> Idle]
    /\ consumer = [r \in Runs |-> "none"]
    /\ tied = [r \in Runs |-> FALSE]
    /\ streams = [r \in Runs |-> 0]
    /\ stopAsked = [r \in Runs |-> FALSE]
    /\ acked = [r \in Runs |-> FALSE]
    /\ requests = 0
    /\ crashes = 0

-----------------------------------------------------------------------------
At(p, step) == call[p].at = step
Target(p) == call[p].run
Goto(p, step) == call' = [call EXCEPT ![p].at = step]
GotoWith(p, step, status) == call' = [call EXCEPT ![p].at = step, ![p].snap = status]
Return(p) == call' = [call EXCEPT ![p] = Idle]

\* The context of the stream is done once Stop cancelled it or `consume`
\* cleared it.
StreamCtxDone(r) == tied[r] /\ runCtx[r] # "live"

\* SaveRun: an upsert of the caller's copy of the status.  Its error is
\* ignored, and it fails when the request context is done.
SaveRun(p) ==
    record' = [record EXCEPT ![Target(p)] = IF call[p].gone THEN @ ELSE call[p].snap]

\* A client sends a request.  Every handler but create first looks the run up
\* (authorizeExisting).
Request(p) ==
    /\ At(p, "idle")
    /\ requests < MaxRequests
    /\ requests' = requests + 1
    /\ \E r \in Runs, o \in Operations :
        /\ (ClientsWait /\ o # "create") => acked[r]
        /\ call' = [call EXCEPT ![p] =
                     [Idle EXCEPT !.at = IF o = "create" THEN "create" ELSE "lookup",
                                  !.op = o, !.run = r]]
    /\ UNCHANGED <<runs, record, runCtx, outSeq, savedOut, consumer, tied, streams,
                   stopAsked, acked, crashes, agentVars>>

\* The client disconnects: net/http cancels the request context.
Disconnect(p) ==
    /\ ClientsLeave
    /\ ~At(p, "idle")
    /\ ~call[p].gone
    /\ call' = [call EXCEPT ![p].gone = TRUE]
    /\ UNCHANGED <<runs, record, runCtx, outSeq, savedOut, consumer, tied, streams,
                   stopAsked, acked, requests, crashes, agentVars>>

-----------------------------------------------------------------------------
(* Get: the map first, then the record, which is cached in the map.        *)

\* What a handler does once Get has returned the run.
AfterLookup(p) == IF call[p].op = "get" THEN Idle
                  ELSE [call[p] EXCEPT !.at = call[p].op, !.snap = None]

Lookup(p) ==
    /\ At(p, "lookup")
    /\ call' = [call EXCEPT ![p] = IF runs[Target(p)] # None THEN AfterLookup(p)
                                   ELSE [@ EXCEPT !.at = "fetch"]]
    /\ UNCHANGED <<runs, record, runCtx, outSeq, savedOut, consumer, tied, streams,
                   stopAsked, acked, requests, crashes, agentVars>>

\* GetRun, outside the mutex.
Fetch(p) ==
    /\ At(p, "fetch")
    /\ IF record[Target(p)] = None \/ call[p].gone
       THEN Return(p)
       ELSE GotoWith(p, "fill", record[Target(p)])
    /\ UNCHANGED <<runs, record, runCtx, outSeq, savedOut, consumer, tied, streams,
                   stopAsked, acked, requests, crashes, agentVars>>

\* The row is put into the map without another look at it.
Fill(p) ==
    /\ At(p, "fill")
    /\ runs' = [runs EXCEPT ![Target(p)] = call[p].snap]
    /\ call' = [call EXCEPT ![p] = AfterLookup(p)]
    /\ UNCHANGED <<record, runCtx, outSeq, savedOut, consumer, tied, streams,
                   stopAsked, acked, requests, crashes, agentVars>>

-----------------------------------------------------------------------------
(* Create.                                                                 *)

\* Mutant: create without the test that the run exists.
CreateRunOver(p) ==
    /\ At(p, "create")
    /\ runs' = [runs EXCEPT ![Target(p)] = "queued"]
    /\ runCtx' = [runCtx EXCEPT ![Target(p)] = "live"]
    /\ GotoWith(p, "createSave", "queued")
    /\ UNCHANGED <<record, outSeq, savedOut, consumer, tied, streams,
                   stopAsked, acked, requests, crashes, agentVars>>

\* Only the map is asked whether the run exists.
CreateRun(p) ==
    /\ At(p, "create")
    /\ IF runs[Target(p)] # None
       THEN /\ Return(p)
            /\ UNCHANGED <<runs, runCtx>>
       ELSE /\ runs' = [runs EXCEPT ![Target(p)] = "queued"]
            /\ runCtx' = [runCtx EXCEPT ![Target(p)] = "live"]
            /\ GotoWith(p, "createSave", "queued")
    /\ UNCHANGED <<record, outSeq, savedOut, consumer, tied, streams,
                   stopAsked, acked, requests, crashes, agentVars>>

CreateSave(p) ==
    /\ At(p, "createSave")
    /\ SaveRun(p)
    /\ Goto(p, "spawn")
    /\ UNCHANGED <<runs, runCtx, outSeq, savedOut, consumer, tied, streams,
                   stopAsked, acked, requests, crashes, agentVars>>

CreateSpawn(p) ==
    /\ At(p, "spawn")
    /\ Spawn(Target(p))
    /\ acked' = [acked EXCEPT ![Target(p)] = TRUE]
    /\ Return(p)
    /\ UNCHANGED <<runs, record, runCtx, outSeq, savedOut, consumer, tied, streams,
                   stopAsked, requests, crashes>>

-----------------------------------------------------------------------------
(* Start.                                                                  *)

\* Mutant: start without TransitionRun.
StartRunUnchecked(p) ==
    /\ At(p, "start")
    /\ runs' = [runs EXCEPT ![Target(p)] = "running"]
    /\ GotoWith(p, "startSave", "running")
    /\ UNCHANGED <<record, runCtx, outSeq, savedOut, consumer, tied, streams,
                   stopAsked, acked, requests, crashes, agentVars>>

StartRun(p) ==
    /\ At(p, "start")
    /\ IF TransitionRun(runs[Target(p)], "running")
       THEN /\ runs' = [runs EXCEPT ![Target(p)] = "running"]
            /\ GotoWith(p, "startSave", "running")
       ELSE /\ Return(p)
            /\ UNCHANGED runs
    /\ UNCHANGED <<record, runCtx, outSeq, savedOut, consumer, tied, streams,
                   stopAsked, acked, requests, crashes, agentVars>>

StartSave(p) ==
    /\ At(p, "startSave")
    /\ SaveRun(p)
    /\ Goto(p, "startCtx")
    /\ UNCHANGED <<runs, runCtx, outSeq, savedOut, consumer, tied, streams,
                   stopAsked, acked, requests, crashes, agentVars>>

\* runContext: the run's context, or one nobody can cancel.
StartContext(p) ==
    /\ At(p, "startCtx")
    /\ call' = [call EXCEPT ![p].at = "agentRun",
                            ![p].tied = runCtx[Target(p)] # "none"]
    /\ UNCHANGED <<runs, record, runCtx, outSeq, savedOut, consumer, tied, streams,
                   stopAsked, acked, requests, crashes, agentVars>>

\* The agent starts, under a context derived from the run context ...
StartAgent(p) ==
    /\ At(p, "agentRun")
    /\ Run(Target(p), call[p].tied /\ runCtx[Target(p)] # "live")
    /\ tied' = [tied EXCEPT ![Target(p)] = call[p].tied]
    /\ Goto(p, "stream")
    /\ UNCHANGED <<runs, record, runCtx, outSeq, savedOut, consumer, streams,
                   stopAsked, acked, requests, crashes>>

\* ... or refuses: Start returns its error and leaves the run as it is.
StartRefused(p) ==
    /\ At(p, "agentRun")
    /\ ~CanRun(Target(p))
    /\ agMu[Target(p)] = "free"
    /\ Return(p)
    /\ UNCHANGED <<runs, record, runCtx, outSeq, savedOut, consumer, tied, streams,
                   stopAsked, acked, requests, crashes, agentVars>>

StartStream(p) ==
    /\ At(p, "stream")
    /\ consumer' = [consumer EXCEPT ![Target(p)] = "range"]
    /\ streams' = [streams EXCEPT ![Target(p)] = @ + 1]
    /\ Return(p)
    /\ UNCHANGED <<runs, record, runCtx, outSeq, savedOut, tied, stopAsked, acked, requests,
                   crashes, agentVars>>

-----------------------------------------------------------------------------
(* The goroutine consume.                                                  *)

\* One output: the sequence number is taken under the mutex ...
ConsumeOutput(r) ==
    /\ consumer[r] = "range"
    /\ Receive(r)
    /\ outSeq' = [outSeq EXCEPT ![r] = @ + 1]
    /\ consumer' = [consumer EXCEPT ![r] = "saveOutput"]
    /\ UNCHANGED <<runs, record, runCtx, savedOut, call, tied, streams,
                   stopAsked, acked, requests, crashes>>

\* ... and SaveOutput inserts the row, unless the stream's context is done.
ConsumeSave(r) ==
    /\ consumer[r] = "saveOutput"
    /\ savedOut' = [savedOut EXCEPT ![r] = IF StreamCtxDone(r) THEN @ ELSE @ \cup {outSeq[r]}]
    /\ consumer' = [consumer EXCEPT ![r] = "range"]
    /\ UNCHANGED <<runs, record, runCtx, outSeq, call, tied, streams,
                   stopAsked, acked, requests, crashes, agentVars>>

\* Mutant: the end of the stream is recorded without a new status.
ConsumeEndForgets(r) ==
    /\ consumer[r] = "range"
    /\ Drained(r)
    /\ record' = [record EXCEPT ![r] = IF StreamCtxDone(r) THEN @ ELSE runs[r]]
    /\ consumer' = [consumer EXCEPT ![r] = "clear"]
    /\ UNCHANGED <<runs, runCtx, outSeq, savedOut, call, tied, streams,
                   stopAsked, acked, requests, crashes, agentVars>>

\* The stream has ended: a run still running has succeeded.  The record is
\* written inside the critical section, under the stream's context.
ConsumeEnd(r) ==
    /\ consumer[r] = "range"
    /\ Drained(r)
    /\ runs' = [runs EXCEPT ![r] = IF @ = "running" THEN "succeeded" ELSE @]
    /\ record' = [record EXCEPT ![r] = IF StreamCtxDone(r) THEN @ ELSE runs'[r]]
    /\ consumer' = [consumer EXCEPT ![r] = "clear"]
    /\ UNCHANGED <<runCtx, outSeq, savedOut, call, tied, streams,
                   stopAsked, acked, requests, crashes, agentVars>>

\* clearRunContext cancels the context, if it is still there, and forgets it.
ConsumeClear(r) ==
    /\ consumer[r] = "clear"
    /\ runCtx' = [runCtx EXCEPT ![r] = "none"]
    /\ consumer' = [consumer EXCEPT ![r] = "done"]
    /\ CancelContext(r, tied[r])
    /\ UNCHANGED <<runs, record, outSeq, savedOut, call, tied, streams,
                   stopAsked, acked, requests, crashes>>

-----------------------------------------------------------------------------
(* Stop.                                                                   *)

StopRun(p) ==
    /\ At(p, "stop")
    /\ runs' = [runs EXCEPT ![Target(p)] = IF @ = "running" THEN "stopping" ELSE @]
    /\ stopAsked' = [stopAsked EXCEPT ![Target(p)] = TRUE]
    /\ GotoWith(p, "stopSave", runs'[Target(p)])
    /\ UNCHANGED <<record, runCtx, outSeq, savedOut, consumer, tied, streams,
                   acked, requests, crashes, agentVars>>

StopSave(p) ==
    /\ At(p, "stopSave")
    /\ SaveRun(p)
    /\ Goto(p, "cancel")
    /\ UNCHANGED <<runs, runCtx, outSeq, savedOut, consumer, tied, streams,
                   stopAsked, acked, requests, crashes, agentVars>>

StopCancel(p) ==
    /\ At(p, "cancel")
    /\ runCtx' = [runCtx EXCEPT ![Target(p)] = IF @ = "live" THEN "cancelled" ELSE @]
    /\ CancelContext(Target(p), tied[Target(p)])
    /\ Goto(p, "agentStop")
    /\ UNCHANGED <<runs, record, outSeq, savedOut, consumer, tied, streams,
                   stopAsked, acked, requests, crashes>>

StopAgent(p) ==
    /\ At(p, "agentStop")
    /\ Stop(Target(p))
    /\ Goto(p, "settle")
    /\ UNCHANGED <<runs, record, runCtx, outSeq, savedOut, consumer, tied, streams,
                   stopAsked, acked, requests, crashes>>

\* Mutant: the second critical section of Stop without its test ...
StopSettleAlways(p) ==
    /\ At(p, "settle")
    /\ runs' = [runs EXCEPT ![Target(p)] = "cancelled"]
    /\ GotoWith(p, "settleSave", "cancelled")
    /\ UNCHANGED <<record, runCtx, outSeq, savedOut, consumer, tied, streams,
                   stopAsked, acked, requests, crashes, agentVars>>

StopSettle(p) ==
    /\ At(p, "settle")
    /\ runs' = [runs EXCEPT ![Target(p)] = IF @ = "stopping" THEN "cancelled" ELSE @]
    /\ GotoWith(p, "settleSave", runs'[Target(p)])
    /\ UNCHANGED <<record, runCtx, outSeq, savedOut, consumer, tied, streams,
                   stopAsked, acked, requests, crashes, agentVars>>

StopSettleSave(p) ==
    /\ At(p, "settleSave")
    /\ SaveRun(p)
    /\ Return(p)
    /\ UNCHANGED <<runs, runCtx, outSeq, savedOut, consumer, tied, streams,
                   stopAsked, acked, requests, crashes, agentVars>>

-----------------------------------------------------------------------------
(* Input.                                                                  *)

\* Input looks the run up again and refuses one that is not running.
InputCheck(p) ==
    /\ At(p, "input")
    /\ IF runs[Target(p)] = "running" THEN Goto(p, "send") ELSE Return(p)
    /\ UNCHANGED <<runs, record, runCtx, outSeq, savedOut, consumer, tied, streams,
                   stopAsked, acked, requests, crashes, agentVars>>

\* The agent takes the input while it runs itself ...
InputSend(p) ==
    /\ At(p, "send")
    /\ SendLock(Target(p), p)
    /\ Goto(p, "put")
    /\ UNCHANGED <<runs, record, runCtx, outSeq, savedOut, consumer, tied, streams,
                   stopAsked, acked, requests, crashes>>

\* ... and refuses it otherwise.
InputRefused(p) ==
    /\ At(p, "send")
    /\ agMu[Target(p)] = "free"
    /\ ~CanSend(Target(p))
    /\ Return(p)
    /\ UNCHANGED <<runs, record, runCtx, outSeq, savedOut, consumer, tied, streams,
                   stopAsked, acked, requests, crashes, agentVars>>

InputPut(p) ==
    /\ At(p, "put")
    /\ SendPut(Target(p), p)
    /\ Return(p)
    /\ UNCHANGED <<runs, record, runCtx, outSeq, savedOut, consumer, tied, streams,
                   stopAsked, acked, requests, crashes>>

-----------------------------------------------------------------------------
\* The gateway stops and starts again: everything but the database is lost.
Crash ==
    /\ crashes < MaxCrashes
    /\ crashes' = crashes + 1
    /\ AgentRestart
    /\ runs' = [r \in Runs |-> None]
    /\ runCtx' = [r \in Runs |-> "none"]
    /\ outSeq' = [r \in Runs |-> 0]
    /\ call' = [p \in Callers |-> Idle]
    /\ consumer' = [r \in Runs |-> "none"]
    /\ tied' = [r \in Runs |-> FALSE]
    /\ streams' = [r \in Runs |-> 0]
    /\ stopAsked' = [r \in Runs |-> FALSE]
    /\ UNCHANGED <<record, savedOut, acked, requests>>

Serve(p) ==
    \/ Lookup(p) \/ Fetch(p) \/ Fill(p)
    \/ CreateRun(p) \/ CreateSave(p) \/ CreateSpawn(p)
    \/ StartRun(p) \/ StartSave(p) \/ StartContext(p)
    \/ StartAgent(p) \/ StartRefused(p) \/ StartStream(p)
    \/ StopRun(p) \/ StopSave(p) \/ StopCancel(p)
    \/ StopAgent(p) \/ StopSettle(p) \/ StopSettleSave(p)
    \/ InputCheck(p) \/ InputSend(p) \/ InputRefused(p) \/ InputPut(p)

Consume(r) == ConsumeOutput(r) \/ ConsumeSave(r) \/ ConsumeEnd(r) \/ ConsumeClear(r)

AgentStep(r) ==
    /\ Execute(r)
    /\ UNCHANGED <<runs, record, runCtx, outSeq, savedOut, call, consumer, tied,
                   streams, stopAsked, acked, requests, crashes>>

Next ==
    \/ \E p \in Callers : Request(p) \/ Disconnect(p) \/ Serve(p)
    \/ \E r \in Runs : Consume(r) \/ AgentStep(r)
    \/ Crash

Spec == Init /\ [][Next]_vars

-----------------------------------------------------------------------------
(* Properties.                                                             *)

\* contracts.TransitionRun is the only way a run changes its state, whatever
\* requests, consume and the agent do at the same time ...
FollowsContract(r) ==
    IF runs[r] = None THEN runs'[r] \in {None, "queued"}
    ELSE TransitionRun(runs[r], runs'[r])

\* ... except where Get caches a row that is older than the map.
ContractKept ==
    [][\A r \in Runs :
          \/ FollowsContract(r)
          \/ Crash
          \/ \E p \in Callers : Target(p) = r /\ Fill(p)]_vars

\* Start on a run that is already running is accepted by TransitionRun, yet
\* the outputs of a run are read by one consume only.
SingleStream == \A r \in Runs : streams[r] <= 1

\* The durable record is behind the map, never ahead of it or beside it: the
\* contract leads from the recorded status to the present one.  In particular
\* a recorded final status is the run's status.
RecordBehind ==
    \A r \in Runs :
        record[r] # None => runs[r] # None /\ LeadsTo(record[r], runs[r])

\* The service implements the lifecycle it promises.
Lifecycle == INSTANCE RunLifecycle WITH status <- runs
LifecycleKept == Lifecycle!Spec

\* A run that succeeded without anybody asking to stop it has all its outputs
\* in the database, in the order of their numbers and without a gap.
OutputsComplete ==
    \A r \in Runs :
        (consumer[r] = "done" /\ ~stopAsked[r])
            => /\ runs[r] = "succeeded"
               /\ savedOut[r] = 1 .. agSent[r]

\* A run whose output is being read reaches a final state, and a stop that took
\* hold is completed.
StreamEndsRun ==
    \A r \in Runs :
        /\ (consumer[r] = "range" /\ runs[r] = "running") ~> (runs[r] \in TerminalState)
        /\ (runs[r] = "stopping") ~> (runs[r] = "cancelled")

\* TestRunTransitions: nothing leaves a final state.
FinalIsFinal ==
    [][\A r \in Runs : runs[r] \in TerminalState /\ runs'[r] # None
                            => runs'[r] = runs[r]]_vars

\* Goroutines are scheduled; clients, disconnections and crashes are not
\* obliged to happen.
FairSpec ==
    /\ Spec
    /\ \A p \in Callers : WF_vars(Serve(p))
    /\ \A r \in Runs : WF_vars(Consume(r)) /\ WF_vars(AgentStep(r))
=============================================================================
