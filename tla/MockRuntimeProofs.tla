-------------------------- MODULE MockRuntimeProofs --------------------------
(***************************************************************************)
(* Proofs about the built-in agent runtime, for any number of runs and     *)
(* senders and any capacity of the output channel.  RunServiceProofs uses  *)
(* the lemmas: the run service takes no other step of the runtime.         *)
(***************************************************************************)
EXTENDS MockRuntime, TLAPS

\* A step of the runtime, whoever takes it.
MockStep(r) ==
    \/ Spawn(r)
    \/ \E done \in BOOLEAN : Run(r, done)
    \/ Stop(r)
    \/ \E derived \in BOOLEAN : CancelContext(r, derived)
    \/ Receive(r)
    \/ Execute(r)
    \/ \E s \in Senders : SendLock(r, s) \/ SendPut(r, s)

\* The inductive invariant.  The mutex serialises the senders, execute and
\* Stop; what keeps a sender off a closed channel is that whoever closes the
\* channel holds the mutex and leaves a state in which nobody sends.
MutexInv(r) == agExec[r] \in {"send1", "send2", "send3"} <=> agMu[r] = "exec"
ClosedInv(r) ==
    agClosed[r] => /\ agExec[r] \in {"none", "end"}
                   /\ agState[r] \in {"succeeded", "cancelled"}
                   /\ agMu[r] = "free"
NotRunYet(r) == agState[r] \in {"none", "queued"} => agExec[r] = "none"
ReportInv(r) == agExec[r] = "send3" => agState[r] = "succeeded"

MockInv ==
    /\ NoPanic
    /\ \A r \in Runs : MutexInv(r) /\ ClosedInv(r) /\ NotRunYet(r) /\ ReportInv(r)

-----------------------------------------------------------------------------
\* Every step of the runtime keeps the types.
LEMMA MockStepType ==
    ASSUME AgentTypeOK, NEW r \in Runs, MockStep(r)
    PROVE  AgentTypeOK'
<1> USE MockAssumption DEF AgentTypeOK, AgentState, ExecStep
<1>1. CASE Spawn(r)
  BY <1>1 DEF Spawn
<1>2. CASE \E done \in BOOLEAN : Run(r, done)
  BY <1>2 DEF Run
<1>3. CASE Stop(r)
  BY <1>3 DEF Stop
<1>4. CASE \E derived \in BOOLEAN : CancelContext(r, derived)
  BY <1>4 DEF CancelContext
<1>5. CASE Receive(r)
  BY <1>5 DEF Receive
<1>6. CASE Execute(r)
  <2>1. CASE ExecLock(r)
    BY <2>1 DEF ExecLock, After
  <2>2. CASE ExecEmit(r)
    BY <2>2 DEF ExecEmit, After, Put, Ready
  <2>3. CASE ExecFinish(r)
    BY <2>3 DEF ExecFinish, Close
  <2>4. CASE ExecReport(r)
    BY <2>4 DEF ExecReport, Put, Ready
  <2> QED
    BY <1>6, <2>1, <2>2, <2>3, <2>4 DEF Execute
<1>7. CASE \E s \in Senders : SendLock(r, s)
  BY <1>7 DEF SendLock, CanSend
<1>8. CASE \E s \in Senders : SendPut(r, s)
  BY <1>8 DEF SendPut, Put, Ready
<1> QED
  BY <1>1, <1>2, <1>3, <1>4, <1>5, <1>6, <1>7, <1>8 DEF MockStep

\* Every step of the runtime keeps the invariant.
LEMMA MockStepInv ==
    ASSUME AgentTypeOK, MockInv, NEW r \in Runs, MockStep(r)
    PROVE  MockInv'
<1> USE MockAssumption DEF AgentTypeOK, AgentState, ExecStep,
        MockInv, NoPanic, MutexInv, ClosedInv, NotRunYet, ReportInv
<1>1. CASE Spawn(r)
  BY <1>1 DEF Spawn
<1>2. CASE \E done \in BOOLEAN : Run(r, done)
  BY <1>2 DEF Run, CanRun
<1>3. CASE Stop(r)
  BY <1>3 DEF Stop
<1>4. CASE \E derived \in BOOLEAN : CancelContext(r, derived)
  BY <1>4 DEF CancelContext
<1>5. CASE Receive(r)
  BY <1>5 DEF Receive
<1>6. CASE Execute(r)
  <2>1. CASE ExecLock(r)
    BY <2>1 DEF ExecLock, After
  <2>2. CASE ExecEmit(r)
    BY <2>2 DEF ExecEmit, After, Put, Ready
  <2>3. CASE ExecFinish(r)
    BY <2>3 DEF ExecFinish, Close
  <2>4. CASE ExecReport(r)
    BY <2>4 DEF ExecReport, Put, Ready
  <2> QED
    BY <1>6, <2>1, <2>2, <2>3, <2>4 DEF Execute
<1>7. CASE \E s \in Senders : SendLock(r, s)
  BY <1>7 DEF SendLock, CanSend
<1>8. CASE \E s \in Senders : SendPut(r, s)
  BY <1>8 DEF SendPut, Put, Ready
<1> QED
  BY <1>1, <1>2, <1>3, <1>4, <1>5, <1>6, <1>7, <1>8 DEF MockStep

\* The runtime by itself takes such steps only.
LEMMA MockNextStep ==
    ASSUME MockNext
    PROVE  \E r \in Runs : MockStep(r)
BY DEF MockNext, MockStep, RunCall, StopCall, CancelCall

LEMMA MockInitInv ==
    ASSUME AgentInit
    PROVE  AgentTypeOK /\ MockInv
<1>1. AgentTypeOK
  <2>1. 0 \in 0 .. Capacity /\ 0 \in 0 .. MaxInputs
    BY MockAssumption
  <2> QED
    BY <2>1 DEF AgentInit, AgentTypeOK, AgentState, ExecStep
<1>2. MockInv
  BY DEF AgentInit, MockInv, NoPanic, MutexInv, ClosedInv, NotRunYet, ReportInv
<1> QED
  BY <1>1, <1>2

\* Stuttering steps change nothing.
LEMMA MockStutter ==
    ASSUME AgentTypeOK, MockInv, UNCHANGED agentVars
    PROVE  AgentTypeOK' /\ MockInv'
BY DEF agentVars, AgentTypeOK, MockInv, NoPanic, MutexInv, ClosedInv, NotRunYet, ReportInv

\* The types and the invariant of the runtime.
THEOREM MockInvariant == MockSpec => [](AgentTypeOK /\ MockInv)
<1>1. AgentTypeOK /\ MockInv /\ [MockNext]_agentVars => (AgentTypeOK /\ MockInv)'
  BY MockNextStep, MockStepType, MockStepInv, MockStutter
<1> QED
  BY MockInitInv, <1>1, PTL DEF MockSpec

\* No interleaving of the runtime's callers with execute sends on a closed
\* channel or closes one twice.
THEOREM MockNoPanic == MockSpec => []NoPanic
BY MockInvariant, PTL DEF MockInv

\* A closed channel is the end of the run: execute is over or will never
\* start, the state is final, and nobody holds the mutex.
THEOREM MockClosed == MockSpec => []ClosedMeansOver
<1>1. AgentTypeOK /\ MockInv => ClosedMeansOver
  BY DEF MockInv, ClosedInv, ClosedMeansOver
<1> QED
  BY MockInvariant, <1>1, PTL

=============================================================================
