----------------------------- MODULE MockRuntime -----------------------------
(***************************************************************************)
(* The built-in agent runtime (internal/agent/mock.go): per run a state, a *)
(* mutex, a bounded output channel, the context given to Run, and the      *)
(* goroutine `execute` that emits the output and closes the channel.       *)
(*                                                                         *)
(* Go semantics kept here: a goroutine that holds the mutex and sends to a *)
(* full channel keeps holding the mutex; sending on, or closing, a closed  *)
(* channel panics.                                                         *)
(***************************************************************************)
EXTENDS Naturals

CONSTANTS
    Runs,       \* run IDs
    Senders,    \* goroutines that may call Send
    Capacity,   \* capacity of run.outputs (16 in the code)
    MaxInputs   \* bound: Send calls accepted per run

ASSUME MockAssumption ==
    /\ Capacity \in Nat \ {0}
    /\ MaxInputs \in Nat
    /\ Senders \cap {"free", "exec"} = {}

VARIABLES
    agState,    \* run.state, "none" when the runtime has no such run
    agMu,       \* holder of run.mu
    agExec,     \* where `execute` stands
    agChan,     \* number of outputs queued in run.outputs
    agClosed,   \* run.outputs is closed
    agDone,     \* the context of `execute` is done
    agSent,     \* history: outputs put into the channel
    agInputs,   \* history: Send calls accepted
    panicked    \* a send on, or a close of, a closed channel happened

agentVars == <<agState, agMu, agExec, agChan, agClosed, agDone, agSent, agInputs, panicked>>

AgentState == {"none", "queued", "running", "succeeded", "cancelled"}
ExecStep == {"none", "emit1", "send1", "emit2", "send2", "finish", "send3", "end"}

AgentTypeOK ==
    /\ agState \in [Runs -> AgentState]
    /\ agMu \in [Runs -> {"free", "exec"} \cup Senders]
    /\ agExec \in [Runs -> ExecStep]
    /\ agChan \in [Runs -> 0 .. Capacity]
    /\ agClosed \in [Runs -> BOOLEAN]
    /\ agDone \in [Runs -> BOOLEAN]
    /\ agSent \in [Runs -> Nat]
    /\ agInputs \in [Runs -> 0 .. MaxInputs]
    /\ panicked \in BOOLEAN

AgentInit ==
    /\ agState = [r \in Runs |-> "none"]
    /\ agMu = [r \in Runs |-> "free"]
    /\ agExec = [r \in Runs |-> "none"]
    /\ agChan = [r \in Runs |-> 0]
    /\ agClosed = [r \in Runs |-> FALSE]
    /\ agDone = [r \in Runs |-> FALSE]
    /\ agSent = [r \in Runs |-> 0]
    /\ agInputs = [r \in Runs |-> 0]
    /\ panicked = FALSE

\* The process starts again: the runtime keeps nothing on disk.
AgentRestart ==
    /\ agState' = [r \in Runs |-> "none"]
    /\ agMu' = [r \in Runs |-> "free"]
    /\ agExec' = [r \in Runs |-> "none"]
    /\ agChan' = [r \in Runs |-> 0]
    /\ agClosed' = [r \in Runs |-> FALSE]
    /\ agDone' = [r \in Runs |-> FALSE]
    /\ agSent' = [r \in Runs |-> 0]
    /\ agInputs' = [r \in Runs |-> 0]
    /\ panicked' = FALSE

-----------------------------------------------------------------------------
\* Channel operations.

\* A send waits for room; on a closed channel it panics without waiting.
Ready(r) == agClosed[r] \/ agChan[r] < Capacity

Put(r) ==
    /\ Ready(r)
    /\ agChan' = [agChan EXCEPT ![r] = IF agClosed[r] THEN @ ELSE @ + 1]
    /\ agSent' = [agSent EXCEPT ![r] = IF agClosed[r] THEN @ ELSE @ + 1]
    /\ panicked' = (panicked \/ agClosed[r])

Close(r) ==
    /\ agClosed' = [agClosed EXCEPT ![r] = TRUE]
    /\ panicked' = (panicked \/ agClosed[r])

\* The consumer of Stream takes one output.
Receive(r) ==
    /\ agChan[r] > 0
    /\ agChan' = [agChan EXCEPT ![r] = @ - 1]
    /\ UNCHANGED <<agState, agMu, agExec, agClosed, agDone, agSent, agInputs, panicked>>

\* Mutant: a reader that leaves as soon as the channel is closed.
DrainedEarly(r) == agClosed[r]

\* The consumer's range loop sees the channel closed and drained.
Drained(r) == agChan[r] = 0 /\ agClosed[r]

-----------------------------------------------------------------------------
\* The methods of contracts.Agent.

\* Spawn registers the run; a second Spawn of the same ID changes nothing.
Spawn(r) ==
    /\ agState' = [agState EXCEPT ![r] = IF @ = "none" THEN "queued" ELSE @]
    /\ UNCHANGED <<agMu, agExec, agChan, agClosed, agDone, agSent, agInputs, panicked>>

\* Mutant: Run of any run it knows.
CanRunAgain(r) == agState[r] # "none"

\* Run refuses every run that is not queued, an unknown one included.
CanRun(r) == agState[r] = "queued"

\* Run starts `execute` under a context derived from the caller's; done tells
\* whether that context is already done.
Run(r, done) ==
    /\ agMu[r] = "free"
    /\ CanRun(r)
    /\ agState' = [agState EXCEPT ![r] = "running"]
    /\ agExec' = [agExec EXCEPT ![r] = "emit1"]
    /\ agDone' = [agDone EXCEPT ![r] = done]
    /\ UNCHANGED <<agMu, agChan, agClosed, agSent, agInputs, panicked>>

\* Stop: a queued run is cancelled and its channel closed, a running one is
\* cancelled and its context with it, any other is left alone.
Stop(r) ==
    /\ agMu[r] = "free"
    /\ agState' = [agState EXCEPT ![r] = IF @ \in {"queued", "running"} THEN "cancelled" ELSE @]
    /\ agClosed' = [agClosed EXCEPT ![r] = @ \/ agState[r] = "queued"]
    /\ panicked' = (panicked \/ (agState[r] = "queued" /\ agClosed[r]))
    /\ agDone' = [agDone EXCEPT ![r] = @ \/ agState[r] = "running"]
    /\ UNCHANGED <<agMu, agExec, agChan, agSent, agInputs>>

\* Send takes the mutex, checks the state, and sends while holding the mutex.
CanSend(r) == agState[r] = "running"

SendLock(r, s) ==
    /\ agMu[r] = "free"
    /\ CanSend(r)
    /\ agInputs[r] < MaxInputs
    /\ agMu' = [agMu EXCEPT ![r] = s]
    /\ agInputs' = [agInputs EXCEPT ![r] = @ + 1]
    /\ UNCHANGED <<agState, agExec, agChan, agClosed, agDone, agSent, panicked>>

SendPut(r, s) ==
    /\ agMu[r] = s
    /\ Put(r)
    /\ agMu' = [agMu EXCEPT ![r] = "free"]
    /\ UNCHANGED <<agState, agExec, agClosed, agDone, agInputs>>

\* A context is cancelled, and the one of execute with it if derived from it.
CancelContext(r, derived) ==
    /\ agDone' = [agDone EXCEPT ![r] = @ \/ derived]
    /\ UNCHANGED <<agState, agMu, agExec, agChan, agClosed, agSent, agInputs, panicked>>

-----------------------------------------------------------------------------
\* The goroutine `execute`: two outputs, then the final status and the close.

After(step) == CASE step = "emit1" -> "send1" [] step = "send1" -> "emit2"
                 [] step = "emit2" -> "send2" [] step = "send2" -> "finish"

\* emit takes the mutex ...
ExecLock(r) ==
    /\ agExec[r] \in {"emit1", "emit2"}
    /\ agMu[r] = "free"
    /\ agMu' = [agMu EXCEPT ![r] = "exec"]
    /\ agExec' = [agExec EXCEPT ![r] = After(@)]
    /\ UNCHANGED <<agState, agChan, agClosed, agDone, agSent, agInputs, panicked>>

\* ... and emitLockedContext sends, or gives up once the context is done.
ExecEmit(r) ==
    /\ agExec[r] \in {"send1", "send2"}
    /\ \/ Put(r)
       \/ /\ agDone[r]
          /\ UNCHANGED <<agChan, agSent, panicked>>
    /\ agMu' = [agMu EXCEPT ![r] = "free"]
    /\ agExec' = [agExec EXCEPT ![r] = After(@)]
    /\ UNCHANGED <<agState, agClosed, agDone, agInputs>>

\* Mutant: a stopped run returns before the close.
ExecFinishEarly(r) ==
    /\ agExec[r] = "finish"
    /\ agMu[r] = "free"
    /\ IF agState[r] = "running"
       THEN /\ agState' = [agState EXCEPT ![r] = "succeeded"]
            /\ agMu' = [agMu EXCEPT ![r] = "exec"]
            /\ agExec' = [agExec EXCEPT ![r] = "send3"]
       ELSE /\ agExec' = [agExec EXCEPT ![r] = "end"]
            /\ UNCHANGED <<agState, agMu>>
    /\ UNCHANGED <<agChan, agClosed, agDone, agSent, agInputs, panicked>>

\* The last critical section: a run still running has succeeded and reports it
\* with emitLocked, which waits for room whatever the context; a stopped one
\* only closes the channel.
ExecFinish(r) ==
    /\ agExec[r] = "finish"
    /\ agMu[r] = "free"
    /\ \/ /\ agState[r] = "running"
          /\ agState' = [agState EXCEPT ![r] = "succeeded"]
          /\ agMu' = [agMu EXCEPT ![r] = "exec"]
          /\ agExec' = [agExec EXCEPT ![r] = "send3"]
          /\ UNCHANGED <<agClosed, panicked>>
       \/ /\ agState[r] # "running"
          /\ Close(r)
          /\ agExec' = [agExec EXCEPT ![r] = "end"]
          /\ UNCHANGED <<agState, agMu>>
    /\ UNCHANGED <<agChan, agDone, agSent, agInputs>>

ExecReport(r) ==
    /\ agExec[r] = "send3"
    /\ Put(r)
    /\ agClosed' = [agClosed EXCEPT ![r] = TRUE]
    /\ agMu' = [agMu EXCEPT ![r] = "free"]
    /\ agExec' = [agExec EXCEPT ![r] = "end"]
    /\ UNCHANGED <<agState, agDone, agInputs>>

Execute(r) == ExecLock(r) \/ ExecEmit(r) \/ ExecFinish(r) \/ ExecReport(r)

-----------------------------------------------------------------------------
\* The runtime by itself, with callers that use the interface in any order.

RunCall(r) == \E done \in BOOLEAN : Run(r, done)
StopCall(r) == agState[r] # "none" /\ Stop(r)
CancelCall(r) == agExec[r] # "none" /\ CancelContext(r, TRUE)

MockNext ==
    \E r \in Runs :
        \/ Spawn(r)
        \/ RunCall(r)
        \/ StopCall(r)
        \/ CancelCall(r)
        \/ Receive(r)
        \/ Execute(r)
        \/ \E s \in Senders : SendLock(r, s) \/ SendPut(r, s)

MockSpec == AgentInit /\ [][MockNext]_agentVars

\* Goroutines are scheduled: `execute` and a Send that holds the mutex keep
\* going while they can.  Nobody is obliged to read the output.
FairMockSpec ==
    /\ MockSpec
    /\ \A r \in Runs :
        /\ WF_agentVars(Execute(r))
        /\ \A s \in Senders : WF_agentVars(SendPut(r, s))

-----------------------------------------------------------------------------
(* Properties.                                                             *)

\* No interleaving of Spawn, Run, Stop, Send and execute sends on a closed
\* output channel or closes it twice: both would panic the gateway.
NoPanic == ~panicked

\* The final status is the last output of a run that succeeds: while the
\* channel is open somebody will still close it, and once it is closed with
\* the state "succeeded" every output of execute has been put into it.
ClosedMeansOver ==
    \A r \in Runs :
        agClosed[r] =>
            /\ agExec[r] \in {"none", "end"}
            /\ agState[r] \in {"succeeded", "cancelled"}
            /\ agMu[r] = "free"

\* TestMockRuntimeCancellation: a stopped run's stream closes, also when
\* execute or a Send was waiting for room in the channel.
StopClosesStream ==
    \A r \in Runs : (agState[r] = "cancelled") ~> agClosed[r]

=============================================================================
