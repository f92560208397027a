--------------------------- MODULE RunServiceProofs ---------------------------
(***************************************************************************)
(* Proofs about the run service, for any runs, callers, bounds and         *)
(* restarts: its types, the absence of channel panics, one stream per run, *)
(* the contract of the status and, when clients wait for create and the    *)
(* gateway does not restart, the lifecycle it promises and the outputs it  *)
(* keeps.                                                                  *)
(***************************************************************************)
EXTENDS RunService, MockRuntimeProofs

-----------------------------------------------------------------------------
(* Types.                                                                  *)

\* A caller that serves a request serves one of the operations: the step a
\* looked-up request goes on with is the operation itself.
CallsNamed == \A p \in Callers : ~At(p, "idle") => call[p].op \in Operations
CallOK == call \in [Callers -> Call] /\ CallsNamed

TypeInv == TypeOK /\ CallsNamed

LEMMA IdleType == Idle \in Call /\ Idle.at = "idle"
BY ServiceAssumption DEF Idle, Call, Step, Status

\* What a caller's request may turn into.
LEMMA CallSet ==
    ASSUME CallOK, NEW p \in Callers, NEW c \in Call,
           c.at # "idle" => c.op \in Operations,
           call' = [call EXCEPT ![p] = c]
    PROVE  CallOK'
BY DEF CallOK, CallsNamed, At

LEMMA CallGoto ==
    ASSUME CallOK, NEW p \in Callers, ~At(p, "idle"), NEW step \in Step, Goto(p, step)
    PROVE  CallOK'
<1> DEFINE c == [call[p] EXCEPT !.at = step]
<1>1. c \in Call /\ c.op = call[p].op
  BY DEF CallOK, Call
<1>2. call' = [call EXCEPT ![p] = c]
  BY DEF CallOK, Goto
<1> QED
  BY <1>1, <1>2, CallSet DEF CallOK, CallsNamed

LEMMA CallGotoWith ==
    ASSUME CallOK, NEW p \in Callers, ~At(p, "idle"), NEW step \in Step,
           NEW status \in Status, GotoWith(p, step, status)
    PROVE  CallOK'
<1> DEFINE c == [call[p] EXCEPT !.at = step, !.snap = status]
<1>1. c \in Call /\ c.op = call[p].op
  BY DEF CallOK, Call
<1>2. call' = [call EXCEPT ![p] = c]
  BY DEF CallOK, GotoWith, Call
<1> QED
  BY <1>1, <1>2, CallSet DEF CallOK, CallsNamed

LEMMA CallReturn ==
    ASSUME CallOK, NEW p \in Callers, Return(p)
    PROVE  CallOK'
BY IdleType, CallSet DEF Return

LEMMA CallAfterLookup ==
    ASSUME CallOK, NEW p \in Callers, ~At(p, "idle"),
           call' = [call EXCEPT ![p] = AfterLookup(p)]
    PROVE  CallOK'
<1>1. CASE call[p].op = "get"
  BY <1>1, IdleType, CallSet DEF AfterLookup
<1>2. CASE call[p].op # "get"
  <2> DEFINE c == [call[p] EXCEPT !.at = call[p].op, !.snap = None]
  <2>1. call[p] \in Call /\ call[p].op \in Operations
    BY DEF CallOK, CallsNamed
  <2>2. call[p].op \in Step /\ None \in Status
    BY <1>2, <2>1, ServiceAssumption DEF Step, Status
  <2>3. c \in Call /\ c.op = call[p].op
    BY <2>1, <2>2 DEF Call
  <2> QED
    BY <1>2, <2>1, <2>3, CallSet DEF AfterLookup
<1> QED
  BY <1>1, <1>2

\* Steps of the agent the service takes, and no others.
LEMMA AgentMoves ==
    ASSUME TypeOK, Next
    PROVE  Crash \/ UNCHANGED agentVars \/ \E r \in Runs : MockStep(r)
<1>1. ASSUME NEW p \in Callers, Serve(p)
      PROVE  UNCHANGED agentVars \/ MockStep(Target(p))
  <2>1. CASE CreateSpawn(p)
    BY <2>1 DEF CreateSpawn, MockStep
  <2>2. CASE StartAgent(p)
    BY <2>2 DEF StartAgent, MockStep, TypeOK, Call
  <2>3. CASE StopCancel(p)
    BY <2>3 DEF StopCancel, MockStep, TypeOK, Call, Target
  <2>4. CASE StopAgent(p)
    BY <2>4 DEF StopAgent, MockStep
  <2>5. CASE InputSend(p) \/ InputPut(p)
    BY <2>5 DEF InputSend, InputPut, MockStep, Callers
  <2> QED
    BY <1>1, <2>1, <2>2, <2>3, <2>4, <2>5
       DEF Serve, Lookup, Fetch, Fill, CreateRun, CreateSave, StartRun, StartSave,
           StartContext, StartRefused, StartStream, StopRun, StopSave, StopSettle,
           StopSettleSave, InputCheck, InputRefused
<1>2. ASSUME NEW r \in Runs, Consume(r)
      PROVE  UNCHANGED agentVars \/ MockStep(r)
  <2>1. CASE ConsumeClear(r)
    BY <2>1 DEF ConsumeClear, MockStep, TypeOK
  <2> QED
    BY <1>2, <2>1 DEF Consume, ConsumeOutput, ConsumeSave, ConsumeEnd, MockStep
<1>3. ASSUME NEW r \in Runs, AgentStep(r)
      PROVE  MockStep(r)
  BY <1>3 DEF AgentStep, MockStep
<1>4. ASSUME NEW p \in Callers, Request(p) \/ Disconnect(p)
      PROVE  UNCHANGED agentVars
  BY <1>4 DEF Request, Disconnect
<1>5. \A p \in Callers : Target(p) \in Runs
  BY DEF TypeOK, Call, Target
<1> QED
  BY <1>1, <1>2, <1>3, <1>4, <1>5 DEF Next

LEMMA StepType ==
    ASSUME TypeInv, Next
    PROVE  TypeInv'
<1> USE IdleType, ServiceAssumption
<1>1. AgentTypeOK'
  <2>1. CASE Crash
    <3>1. 0 \in 0 .. Capacity /\ 0 \in 0 .. MaxInputs
      BY MockAssumption
    <3> QED
      BY <2>1, <3>1 DEF Crash, AgentRestart, AgentTypeOK, AgentState, ExecStep
  <2> QED
    BY <2>1, AgentMoves, MockStepType DEF TypeInv, TypeOK, AgentTypeOK, agentVars
<1>2. CallOK
  BY DEF TypeInv, TypeOK, CallOK
<1>3. CASE Crash
  BY <1>1, <1>3 DEF Crash, TypeInv, TypeOK, CallsNamed, At, Status
<1>4. ASSUME NEW p \in Callers, Request(p) \/ Disconnect(p)
      PROVE  TypeInv'
  <2>1. CallOK'
    <3>1. CASE Request(p)
      <4>1. PICK r \in Runs, o \in Operations :
                call' = [call EXCEPT ![p] =
                          [Idle EXCEPT !.at = IF o = "create" THEN "create" ELSE "lookup",
                                       !.op = o, !.run = r]]
        BY <3>1 DEF Request
      <4> DEFINE c == [Idle EXCEPT !.at = IF o = "create" THEN "create" ELSE "lookup",
                                   !.op = o, !.run = r]
      <4>2. c \in Call /\ c.op \in Operations
        BY DEF Idle, Call, Step, Status
      <4> QED
        BY <1>2, <4>1, <4>2, CallSet
    <3>2. CASE Disconnect(p)
      <4> DEFINE c == [call[p] EXCEPT !.gone = TRUE]
      <4>1. c \in Call /\ c.op = call[p].op
        BY <1>2 DEF CallOK, Call
      <4>2. call' = [call EXCEPT ![p] = c] /\ ~At(p, "idle")
        BY <1>2, <3>2 DEF Disconnect, CallOK
      <4> QED
        BY <1>2, <4>1, <4>2, CallSet DEF CallOK, CallsNamed
    <3> QED
      BY <1>4, <3>1, <3>2
  <2>2. requests' \in 0 .. MaxRequests
    <3>1. requests' = requests \/ (requests < MaxRequests /\ requests' = requests + 1)
      BY <1>4 DEF Request, Disconnect
    <3> QED
      BY <3>1 DEF TypeInv, TypeOK
  <2>3. UNCHANGED <<runs, record, runCtx, outSeq, savedOut, consumer, tied, streams,
                    stopAsked, acked, crashes>>
    BY <1>4 DEF Request, Disconnect
  <2> QED
    BY <1>1, <2>1, <2>2, <2>3 DEF TypeInv, TypeOK, CallOK
<1>5. ASSUME NEW p \in Callers, Serve(p)
      PROVE  TypeInv'
  <2>1. /\ Target(p) \in Runs
        /\ call[p].snap \in Status
        /\ runs[Target(p)] \in Status
        /\ record[Target(p)] \in Status
    BY DEF TypeInv, TypeOK, Call, Target
  <2>2. CASE Lookup(p) \/ Fetch(p) \/ Fill(p)
    <3>1. CallOK'
      <4>1. CASE Lookup(p)
        <5>1. CASE runs[Target(p)] # None
          BY <1>2, <4>1, <5>1, CallAfterLookup DEF Lookup, At
        <5>2. CASE runs[Target(p)] = None
          <6>1. Goto(p, "fetch")
            BY <1>2, <4>1, <5>2 DEF Lookup, Goto, CallOK
          <6> QED
            BY <1>2, <4>1, <6>1, CallGoto DEF Lookup, At, Step
        <5> QED
          BY <5>1, <5>2
      <4>2. CASE Fetch(p)
        BY <1>2, <2>1, <4>2, CallReturn, CallGotoWith DEF Fetch, At, Step
      <4>3. CASE Fill(p)
        BY <1>2, <4>3, CallAfterLookup DEF Fill, At
      <4> QED
        BY <2>2, <4>1, <4>2, <4>3
    <3> QED
      BY <1>1, <2>1, <2>2, <3>1 DEF Lookup, Fetch, Fill, TypeInv, TypeOK, CallOK
  <2>3. CASE CreateRun(p) \/ CreateSave(p) \/ CreateSpawn(p)
    <3>1. CallOK'
      BY <1>2, <2>3, CallReturn, CallGoto, CallGotoWith
         DEF CreateRun, CreateSave, CreateSpawn, At, Step, Status, RunState
    <3> QED
      BY <1>1, <2>1, <2>3, <3>1 DEF CreateRun, CreateSave, CreateSpawn, SaveRun,
         TypeInv, TypeOK, CallOK, Status, RunState
  <2>4. CASE StartRun(p) \/ StartSave(p)
    <3>1. CallOK'
      BY <1>2, <2>4, CallReturn, CallGoto, CallGotoWith
         DEF StartRun, StartSave, At, Step, Status, RunState
    <3> QED
      BY <1>1, <2>1, <2>4, <3>1 DEF StartRun, StartSave, SaveRun,
         TypeInv, TypeOK, CallOK, Status, RunState
  <2>5. CASE StartContext(p)
    <3> DEFINE c == [call[p] EXCEPT !.at = "agentRun", !.tied = runCtx[Target(p)] # "none"]
    <3>1. c \in Call /\ c.op = call[p].op
      BY <1>2 DEF CallOK, Call, Step
    <3>2. call' = [call EXCEPT ![p] = c] /\ ~At(p, "idle")
      BY <1>2, <2>5 DEF StartContext, CallOK, At
    <3>3. CallOK'
      BY <1>2, <3>1, <3>2, CallSet DEF CallOK, CallsNamed
    <3> QED
      BY <1>1, <2>5, <3>3 DEF StartContext, TypeInv, TypeOK, CallOK
  <2>6. CASE StartAgent(p) \/ StartRefused(p) \/ StartStream(p)
    <3>1. CallOK'
      BY <1>2, <2>6, CallReturn, CallGoto DEF StartAgent, StartRefused, StartStream, At, Step
    <3>2. call[p].tied \in BOOLEAN
      BY DEF TypeInv, TypeOK, Call
    <3> QED
      BY <1>1, <2>1, <2>6, <3>1, <3>2 DEF StartAgent, StartRefused, StartStream,
         TypeInv, TypeOK, CallOK
  <2>7. CASE StopRun(p) \/ StopSave(p) \/ StopCancel(p)
    <3>1. StopRun(p) => runs'[Target(p)] \in Status
      BY <2>1 DEF StopRun, TypeInv, TypeOK, Status, RunState
    <3>2. CallOK'
      BY <1>2, <2>7, <3>1, CallGoto, CallGotoWith DEF StopRun, StopSave, StopCancel, At, Step
    <3> QED
      BY <1>1, <2>1, <2>7, <3>2 DEF StopRun, StopSave, StopCancel, SaveRun,
         TypeInv, TypeOK, CallOK, Status, RunState
  <2>8. CASE StopAgent(p) \/ StopSettle(p) \/ StopSettleSave(p)
    <3>1. StopSettle(p) => runs'[Target(p)] \in Status
      BY <2>1 DEF StopSettle, TypeInv, TypeOK, Status, RunState
    <3>2. CallOK'
      BY <1>2, <2>8, <3>1, CallReturn, CallGoto, CallGotoWith
         DEF StopAgent, StopSettle, StopSettleSave, At, Step
    <3> QED
      BY <1>1, <2>1, <2>8, <3>2 DEF StopAgent, StopSettle, StopSettleSave, SaveRun,
         TypeInv, TypeOK, CallOK, Status, RunState
  <2>9. CASE InputCheck(p) \/ InputSend(p) \/ InputRefused(p) \/ InputPut(p)
    <3>1. CallOK'
      BY <1>2, <2>9, CallReturn, CallGoto DEF InputCheck, InputSend, InputRefused, InputPut, At, Step
    <3> QED
      BY <1>1, <2>9, <3>1 DEF InputCheck, InputSend, InputRefused, InputPut,
         TypeInv, TypeOK, CallOK
  <2> QED
    BY <1>5, <2>2, <2>3, <2>4, <2>5, <2>6, <2>7, <2>8, <2>9 DEF Serve
<1>6. ASSUME NEW r \in Runs, Consume(r)
       PROVE  TypeInv'
  <2>1. CASE ConsumeOutput(r) \/ ConsumeSave(r)
    BY <1>1, <2>1 DEF ConsumeOutput, ConsumeSave, TypeInv, TypeOK, CallsNamed, At
  <2>2. CASE ConsumeEnd(r) \/ ConsumeClear(r)
    BY <1>1, <2>2 DEF ConsumeEnd, ConsumeClear, TypeInv, TypeOK, CallsNamed, At, Status, RunState
  <2> QED
    BY <1>6, <2>1, <2>2 DEF Consume
<1>7. ASSUME NEW r \in Runs, AgentStep(r)
       PROVE  TypeInv'
  BY <1>1, <1>7 DEF AgentStep, TypeInv, TypeOK, CallsNamed, At
<1> QED
  BY <1>3, <1>4, <1>5, <1>6, <1>7 DEF Next

LEMMA TypeStutter ==
    ASSUME TypeInv, UNCHANGED vars
    PROVE  TypeInv'
BY DEF vars, agentVars, TypeInv, TypeOK, AgentTypeOK, CallsNamed, At

LEMMA InitType ==
    ASSUME Init
    PROVE  TypeInv
<1>1. AgentTypeOK
  BY MockInitInv DEF Init
<1>2. 0 \in 0 .. MaxRequests /\ 0 \in 0 .. MaxCrashes
  BY ServiceAssumption
<1> QED
  BY <1>1, <1>2, IdleType DEF Init, TypeInv, TypeOK, CallsNamed, At, Status

LEMMA TypesHold == Spec => []TypeInv
<1>1. TypeInv /\ [Next]_vars => TypeInv'
  BY StepType, TypeStutter
<1> QED
  BY InitType, <1>1, PTL DEF Spec

\* Every variable of the service and of the runtime keeps its type.
THEOREM ServiceTypes == Spec => []TypeOK
BY TypesHold, PTL DEF TypeInv

-----------------------------------------------------------------------------
(* Channels.                                                               *)

\* The agent's invariant survives every step of the service.
LEMMA ServiceMockInv ==
    ASSUME TypeInv, MockInv, Next
    PROVE  MockInv'
<1>1. CASE Crash
  BY <1>1 DEF Crash, AgentRestart, MockInv, NoPanic, MutexInv, ClosedInv, NotRunYet, ReportInv
<1> QED
  BY <1>1, AgentMoves, MockStepInv, MockStutter DEF TypeInv, TypeOK

LEMMA ServiceMock == Spec => [](TypeInv /\ MockInv)
<1>1. Init => TypeInv /\ MockInv
  BY InitType, MockInitInv DEF Init
<1>2. TypeInv /\ MockInv /\ [Next]_vars => (TypeInv /\ MockInv)'
  <2>1. TypeInv /\ MockInv /\ UNCHANGED vars => MockInv'
    BY MockStutter DEF vars, TypeInv, TypeOK
  <2> QED
    BY <2>1, StepType, TypeStutter, ServiceMockInv
<1> QED
  BY <1>1, <1>2, PTL DEF Spec

\* Whatever requests, disconnections and restarts do at the same time, the
\* gateway never sends on a closed output channel nor closes one twice.
THEOREM ServiceNoPanic == Spec => []NoPanic
BY ServiceMock, PTL DEF MockInv

-----------------------------------------------------------------------------
(* One stream per run.                                                     *)

\* Start accepts a run that is already running, and it is the agent's own
\* state that lets one caller through: the caller that goes on to Stream is
\* the only one that ever will, and the run is no longer queued.
Streaming(p, r) == At(p, "stream") /\ Target(p) = r

StreamInv(r) ==
    /\ streams[r] <= 1
    /\ streams[r] # 0 => agState[r] \notin {"none", "queued"}
    /\ \A p \in Callers : Streaming(p, r) =>
        /\ streams[r] = 0
        /\ agState[r] \notin {"none", "queued"}
        /\ \A q \in Callers : Streaming(q, r) => q = p

StreamsInv == \A r \in Runs : StreamInv(r)

\* The steps of the agent that are not Run leave a started run started.
LEMMA StartedStays ==
    ASSUME TypeOK, NEW r \in Runs, agState[r] \notin {"none", "queued"}, Next, ~Crash
    PROVE  agState'[r] \notin {"none", "queued"}
<1>1. ASSUME NEW q \in Runs, MockStep(q)
      PROVE  agState'[r] \notin {"none", "queued"}
  <2>1. CASE Execute(q)
    BY <2>1 DEF Execute, ExecLock, ExecEmit, ExecFinish, ExecReport, TypeOK, AgentTypeOK
  <2> QED
    BY <1>1, <2>1 DEF MockStep, Spawn, Run, Stop, CancelContext, Receive, SendLock, SendPut,
                      TypeOK, AgentTypeOK
<1> QED
  BY <1>1, AgentMoves DEF agentVars

\* A step that puts nobody at the stream and opens none keeps the invariant.
LEMMA StreamFrame ==
    ASSUME TypeOK, StreamsInv, Next, ~Crash, UNCHANGED streams,
           \A p \in Callers, r \in Runs : Streaming(p, r)' => Streaming(p, r)
    PROVE  StreamsInv'
BY StartedStays DEF StreamsInv, StreamInv

LEMMA StreamStep ==
    ASSUME TypeInv, StreamsInv, Next
    PROVE  StreamsInv'
<1>1. /\ TypeOK
      /\ call \in [Callers -> Call]
      /\ \A p \in Callers : Target(p) \in Runs
  BY DEF TypeInv, TypeOK, Call, Target
<1>2. CASE Crash
  BY <1>2 DEF Crash, AgentRestart, StreamsInv, StreamInv, Streaming, At, Idle
<1>3. ASSUME ~Crash, NEW p \in Callers, StartAgent(p)
      PROVE  StreamsInv'
  <2> DEFINE t == Target(p)
  <2>1. /\ agState[t] = "queued"
        /\ agState' = [agState EXCEPT ![t] = "running"]
        /\ UNCHANGED streams
        /\ At(p, "agentRun")
        /\ call' = [call EXCEPT ![p].at = "stream"]
    BY <1>3 DEF StartAgent, Run, CanRun, Goto
  <2>2. streams[t] = 0 /\ \A q \in Callers : ~Streaming(q, t)
    BY <1>1, <2>1 DEF StreamsInv, StreamInv
  <2>3. \A q \in Callers, r \in Runs :
            Streaming(q, r)' <=> Streaming(q, r) \/ (q = p /\ r = t)
    BY <1>1, <2>1 DEF Streaming, At, Target, Call
  <2>4. \A r \in Runs : agState'[r] = IF r = t THEN "running" ELSE agState[r]
    BY <1>1, <2>1 DEF TypeOK, AgentTypeOK
  <2> QED
    BY <1>1, <2>1, <2>2, <2>3, <2>4 DEF StreamsInv, StreamInv
<1>4. ASSUME ~Crash, NEW p \in Callers, StartStream(p)
      PROVE  StreamsInv'
  <2> DEFINE t == Target(p)
  <2>1. /\ Streaming(p, t)
        /\ streams' = [streams EXCEPT ![t] = @ + 1]
        /\ UNCHANGED agState
        /\ call' = [call EXCEPT ![p] = Idle]
    BY <1>4 DEF StartStream, Streaming, Return, agentVars
  <2>2. \A q \in Callers, r \in Runs : Streaming(q, r)' => Streaming(q, r) /\ q # p
    BY <1>1, <2>1, IdleType DEF Streaming, At, Target
  <2>3. \A q \in Callers, r \in Runs : r = t => ~Streaming(q, r)'
    BY <1>1, <2>1, <2>2 DEF StreamsInv, StreamInv
  <2>4. \A r \in Runs : streams'[r] = IF r = t THEN streams[t] + 1 ELSE streams[r]
    BY <1>1, <2>1 DEF TypeOK
  <2>5. streams[t] = 0 /\ agState[t] \notin {"none", "queued"}
    BY <1>1, <2>1 DEF StreamsInv, StreamInv
  <2> QED
    BY <1>1, <2>1, <2>2, <2>3, <2>4, <2>5 DEF StreamsInv, StreamInv
<1>5. ASSUME ~Crash, NEW p \in Callers, Serve(p), ~StartAgent(p), ~StartStream(p)
      PROVE  StreamsInv'
  <2>1. UNCHANGED streams
    BY <1>5 DEF Serve, Lookup, Fetch, Fill, CreateRun, CreateSave, CreateSpawn, StartRun,
       StartSave, StartContext, StartRefused, StopRun, StopSave, StopCancel, StopAgent,
       StopSettle, StopSettleSave, InputCheck, InputSend, InputRefused, InputPut
  <2>2. \A q \in Callers : q # p => call'[q] = call[q]
    BY <1>1, <1>5 DEF Serve, Lookup, Fetch, Fill, CreateRun, CreateSave, CreateSpawn, StartRun,
       StartSave, StartContext, StartRefused, StopRun, StopSave, StopCancel, StopAgent,
       StopSettle, StopSettleSave, InputCheck, InputSend, InputRefused, InputPut,
       Goto, GotoWith, Return
  <2>3. call'[p].at # "stream"
    <3>1. CASE Lookup(p) \/ Fetch(p) \/ Fill(p)
      <4>1. AfterLookup(p).at # "stream"
        <5>1. ~At(p, "idle") => call[p].op \in Operations
          BY DEF TypeInv, CallsNamed
        <5>2. ~At(p, "idle")
          BY <3>1 DEF Lookup, Fetch, Fill, At
        <5>3. call[p].op \notin {"stream"}
          BY <5>1, <5>2, ServiceAssumption
        <5>4. call[p].op # "get" => AfterLookup(p).at = call[p].op
          BY <1>1 DEF AfterLookup, Call
        <5> QED
          BY <5>3, <5>4, IdleType DEF AfterLookup
      <4>2. CASE Lookup(p) \/ Fill(p)
        BY <1>1, <4>1, <4>2 DEF Lookup, Fill, Call
      <4>3. CASE Fetch(p)
        BY <1>1, <4>3, IdleType DEF Fetch, GotoWith, Return, Call
      <4> QED
        BY <3>1, <4>2, <4>3
    <3> QED
      BY <1>1, <1>5, <3>1
         DEF Serve, CreateRun, CreateSave, CreateSpawn, StartRun, StartSave, StartContext,
         StartRefused, StopRun, StopSave, StopCancel, StopAgent, StopSettle, StopSettleSave,
         InputCheck, InputSend, InputRefused, InputPut, Goto, GotoWith, Return, Idle, Call
  <2> QED
    BY <1>1, <1>5, <2>1, <2>2, <2>3, StreamFrame DEF Streaming, At, Target
<1>6. ASSUME ~Crash, NEW p \in Callers, Request(p) \/ Disconnect(p)
      PROVE  StreamsInv'
  <2>1. UNCHANGED streams
    BY <1>6 DEF Request, Disconnect
  <2>2. \A q \in Callers, r \in Runs : Streaming(q, r)' => Streaming(q, r)
    <3>1. CASE Request(p)
      <4>1. PICK r \in Runs, o \in Operations :
                call' = [call EXCEPT ![p] =
                          [Idle EXCEPT !.at = IF o = "create" THEN "create" ELSE "lookup",
                                       !.op = o, !.run = r]]
        BY <3>1 DEF Request
      <4>2. call'[p].at # "stream" /\ \A q \in Callers : q # p => call'[q] = call[q]
        BY <1>1, <4>1, IdleType DEF Call
      <4> QED
        BY <4>2 DEF Streaming, At, Target
    <3>2. CASE Disconnect(p)
      <4>1. \A q \in Callers : call'[q].at = call[q].at /\ call'[q].run = call[q].run
        BY <1>1, <3>2 DEF Disconnect, Call
      <4> QED
        BY <4>1 DEF Streaming, At, Target
    <3> QED
      BY <1>6, <3>1, <3>2
  <2> QED
    BY <1>1, <1>6, <2>1, <2>2, StreamFrame
<1>7. ASSUME ~Crash, NEW r \in Runs, Consume(r) \/ AgentStep(r)
      PROVE  StreamsInv'
  <2>1. UNCHANGED <<streams, call>>
    BY <1>7 DEF Consume, ConsumeOutput, ConsumeSave, ConsumeEnd, ConsumeClear, AgentStep
  <2> QED
    BY <1>1, <1>7, <2>1, StreamFrame DEF Streaming, At, Target
<1> QED
  BY <1>2, <1>3, <1>4, <1>5, <1>6, <1>7 DEF Next

\* The outputs of a run are read by one consume at most, although Start
\* accepts a run that is running.
THEOREM ServiceSingleStream == Spec => []SingleStream
<1>1. ASSUME Init
      PROVE  StreamsInv
  <2>1. \A p \in Callers : ~At(p, "stream")
    BY <1>1, IdleType DEF Init, At
  <2>2. \A r \in Runs : streams[r] = 0
    BY <1>1 DEF Init
  <2> QED
    <3>1. ASSUME NEW r \in Runs PROVE streams[r] <= 1
      BY <2>2
    <3>2. ASSUME NEW r \in Runs PROVE streams[r] # 0 => agState[r] \notin {"none", "queued"}
      BY <2>2
    <3>3. ASSUME NEW r \in Runs, NEW p \in Callers PROVE ~Streaming(p, r)
      BY <2>1 DEF Streaming
    <3> QED
      BY <3>1, <3>2, <3>3 DEF StreamsInv, StreamInv
<1>2. TypeInv /\ StreamsInv /\ UNCHANGED vars => StreamsInv'
  BY DEF vars, agentVars, StreamsInv, StreamInv, Streaming, At, Target
<1>3. TypeInv /\ StreamsInv /\ [Next]_vars => StreamsInv'
  BY <1>2, StreamStep
<1>4. StreamsInv => SingleStream
  BY DEF StreamsInv, StreamInv, SingleStream
<1> QED
  BY TypesHold, <1>1, <1>3, <1>4, PTL DEF Spec

-----------------------------------------------------------------------------
(* The contract of the status.                                             *)

\* The handlers and consume move the status along the contract.
LEMMA StatusStep ==
    ASSUME TypeInv, Next, ~Crash, \A p \in Callers : ~Fill(p)
    PROVE  \A r \in Runs : FollowsContract(r)
<1> USE ServiceAssumption DEF FollowsContract, TransitionRun, Allowed, TypeInv, TypeOK, Status, RunState
<1>1. CASE UNCHANGED runs
  BY <1>1
<1>2. ASSUME NEW p \in Callers, CreateRun(p)
      PROVE  \A r \in Runs : FollowsContract(r)
  BY <1>2 DEF CreateRun
<1>3. ASSUME NEW p \in Callers, StartRun(p)
      PROVE  \A r \in Runs : FollowsContract(r)
  BY <1>3 DEF StartRun
<1>4. ASSUME NEW p \in Callers, StopRun(p)
      PROVE  \A r \in Runs : FollowsContract(r)
  BY <1>4 DEF StopRun
<1>5. ASSUME NEW p \in Callers, StopSettle(p)
      PROVE  \A r \in Runs : FollowsContract(r)
  BY <1>5 DEF StopSettle
<1>6. ASSUME NEW q \in Runs, ConsumeEnd(q)
      PROVE  \A r \in Runs : FollowsContract(r)
  BY <1>6 DEF ConsumeEnd
<1>7. \/ UNCHANGED runs
      \/ \E p \in Callers : CreateRun(p) \/ StartRun(p) \/ StopRun(p) \/ StopSettle(p)
      \/ \E q \in Runs : ConsumeEnd(q)
  BY DEF Next, Request, Disconnect, Serve, Lookup, Fetch, CreateSave, CreateSpawn, StartSave,
     StartContext, StartAgent, StartRefused, StartStream, StopSave, StopCancel, StopAgent,
     StopSettleSave, InputCheck, InputSend, InputRefused, InputPut,
     Consume, ConsumeOutput, ConsumeSave, ConsumeClear, AgentStep
<1> QED
  BY <1>1, <1>2, <1>3, <1>4, <1>5, <1>6, <1>7

\* The step of one caller names one run.
LEMMA FillStatus ==
    ASSUME TypeInv, NEW p \in Callers, Fill(p)
    PROVE  \A r \in Runs : r = Target(p) \/ FollowsContract(r)
BY ServiceAssumption DEF Fill, FollowsContract, TransitionRun, TypeInv, TypeOK

\* The contract is the only way the status changes, whatever requests, consume
\* and the agent do at the same time, except where Get caches a stale row.
THEOREM ServiceContract == Spec => ContractKept
<1>1. TypeInv /\ [Next]_vars =>
        [\A r \in Runs :
          \/ FollowsContract(r)
          \/ Crash
          \/ \E p \in Callers : Target(p) = r /\ Fill(p)]_vars
  BY StatusStep, FillStatus
<1> QED
  BY TypesHold, <1>1, PTL DEF Spec, ContractKept

-----------------------------------------------------------------------------
(* The lifecycle, when clients wait for create and the gateway stays up.   *)

LEMMA LeadsToSelf == \A s \in RunState : LeadsTo(s, s)
BY DEF LeadsTo, TransitionRun

\* One transition more still leads there: no path needs more than three.
LEMMA LeadsToNext ==
    \A s, t, u \in RunState : LeadsTo(s, t) /\ TransitionRun(t, u) => LeadsTo(s, u)
<1> DEFINE Table == Allowed \cup {<<"queued", "stopping">>, <<"queued", "succeeded">>,
                                  <<"queued", "failed">>}
<1>1. \A s, t \in RunState : s = t \/ <<s, t>> \in Table => LeadsTo(s, t)
  BY DEF LeadsTo, TransitionRun, Allowed, RunState
<1>2. \A s, t \in RunState : LeadsTo(s, t) => s = t \/ <<s, t>> \in Table
  BY DEF LeadsTo, TransitionRun, Allowed, RunState
<1>3. \A s, t, u \in RunState :
        (s = t \/ <<s, t>> \in Table) /\ TransitionRun(t, u) => s = u \/ <<s, u>> \in Table
  BY DEF TransitionRun, Allowed, RunState
<1> QED
  BY <1>1, <1>2, <1>3

\* The inductive invariant: a request that got past its lookup names a run
\* the map holds, so nobody reads the record back into the map, and the local
\* copy a handler is about to save is behind the map as the record is.
Created(p) == call[p].at \notin {"idle", "create"} => runs[Target(p)] # None
SnapBehind(p) ==
    call[p].at \in {"createSave", "startSave", "stopSave", "settleSave"} =>
        call[p].snap \in RunState /\ LeadsTo(call[p].snap, runs[Target(p)])
NoFill(p) == call[p].at \notin {"fetch", "fill"}
LookupsNamed(p) == call[p].at = "lookup" => call[p].op # "create"

CallBehind(p) == Created(p) /\ SnapBehind(p) /\ NoFill(p) /\ LookupsNamed(p)

LifeInv ==
    /\ \A p \in Callers : CallBehind(p)
    /\ \A r \in Runs : (acked[r] \/ consumer[r] # "none") => runs[r] # None
    /\ RecordBehind

\* What a step of the service keeps: a status behind the map stays behind it.
LEMMA StaysBehind ==
    ASSUME TypeInv, LifeInv, Next, ~Crash
    PROVE  \A r \in Runs :
             runs[r] # None =>
               /\ runs'[r] # None
               /\ \A s \in RunState : LeadsTo(s, runs[r]) => LeadsTo(s, runs'[r])
<1>1. \A p \in Callers : ~Fill(p)
  BY DEF LifeInv, CallBehind, NoFill, Fill, At
<1>2. \A r \in Runs : FollowsContract(r)
  BY <1>1, StatusStep
<1>3. \A r \in Runs : runs[r] \in Status /\ runs'[r] \in Status
  BY StepType DEF TypeInv, TypeOK
<1> SUFFICES ASSUME NEW r \in Runs, runs[r] # None
             PROVE  /\ runs'[r] # None
                    /\ \A s \in RunState : LeadsTo(s, runs[r]) => LeadsTo(s, runs'[r])
  OBVIOUS
<1>4. TransitionRun(runs[r], runs'[r]) /\ runs[r] \in RunState
  BY <1>2, <1>3 DEF FollowsContract, Status
<1>5. runs'[r] \in RunState
  BY <1>4 DEF TransitionRun, Allowed, RunState
<1> QED
  BY <1>4, <1>5, LeadsToNext, ServiceAssumption

\* A request that is where it was, or only lost its client, keeps its part.
LEMMA CallBehindKept ==
    ASSUME TypeInv, LifeInv, Next, ~Crash, NEW q \in Callers,
           call'[q].at = call[q].at, call'[q].op = call[q].op,
           call'[q].run = call[q].run, call'[q].snap = call[q].snap
    PROVE  CallBehind(q)'
<1>1. Target(q) \in Runs /\ Target(q)' = Target(q)
  BY DEF TypeInv, TypeOK, Call, Target
<1>2. runs[Target(q)] # None =>
        /\ runs'[Target(q)] # None
        /\ \A s \in RunState : LeadsTo(s, runs[Target(q)]) => LeadsTo(s, runs'[Target(q)])
  BY <1>1, StaysBehind
<1> QED
  BY <1>1, <1>2 DEF LifeInv, CallBehind, Created, SnapBehind, NoFill, LookupsNamed

\* A request that goes on without a new copy of the status.
LEMMA CallBehindGoto ==
    ASSUME TypeInv, LifeInv, Next, ~Crash, NEW p \in Callers,
           call[p].at \notin {"idle", "create"}, call'[p].run = call[p].run,
           call'[p].at \notin {"createSave", "startSave", "stopSave", "settleSave",
                               "fetch", "fill", "lookup"}
    PROVE  CallBehind(p)'
<1>1. Target(p) \in Runs /\ Target(p)' = Target(p)
  BY DEF TypeInv, TypeOK, Call, Target
<1>2. runs'[Target(p)] # None
  BY <1>1, StaysBehind DEF LifeInv, CallBehind, Created
<1> QED
  BY <1>1, <1>2 DEF CallBehind, Created, SnapBehind, NoFill, LookupsNamed

\* A request that takes the present status along.
LEMMA CallBehindTake ==
    ASSUME TypeInv, TypeInv', NEW p \in Callers,
           call'[p].run = call[p].run, call'[p].snap = runs'[Target(p)],
           runs'[Target(p)] # None, call'[p].at \notin {"fetch", "fill", "lookup"}
    PROVE  CallBehind(p)'
<1>1. Target(p)' = Target(p) /\ Target(p) \in Runs
  BY DEF TypeInv, TypeOK, Call, Target
<1>2. runs'[Target(p)] \in RunState
  BY <1>1 DEF TypeInv, TypeOK, Status
<1> QED
  BY <1>1, <1>2, LeadsToSelf DEF CallBehind, Created, SnapBehind, NoFill, LookupsNamed

LEMMA CallBehindIdle ==
    ASSUME NEW p \in Callers, call'[p].at \in {"idle", "create"}
    PROVE  CallBehind(p)'
BY DEF CallBehind, Created, SnapBehind, NoFill, LookupsNamed

LEMMA RequestBehind ==
    ASSUME TypeInv, LifeInv, ClientsWait, Next, ~Crash, NEW p \in Callers, Request(p)
    PROVE  CallBehind(p)'
<1>1. PICK r \in Runs, o \in Operations :
        /\ o # "create" => acked[r]
        /\ call' = [call EXCEPT ![p] =
                     [Idle EXCEPT !.at = IF o = "create" THEN "create" ELSE "lookup",
                                  !.op = o, !.run = r]]
  BY DEF Request
<1>2. UNCHANGED runs
  BY DEF Request
<1>3. /\ call'[p].at = IF o = "create" THEN "create" ELSE "lookup"
      /\ call'[p].op = o
      /\ call'[p].run = r
  BY <1>1, IdleType DEF TypeInv, TypeOK, Call
<1> QED
  BY <1>1, <1>2, <1>3 DEF LifeInv, CallBehind, Created, SnapBehind, NoFill, LookupsNamed, Target

LEMMA ServeBehind ==
    ASSUME TypeInv, LifeInv, Next, ~Crash, NEW p \in Callers, Serve(p)
    PROVE  CallBehind(p)'
<1> DEFINE t == Target(p)
<1>1. /\ call \in [Callers -> Call]
      /\ runs \in [Runs -> Status]
      /\ t \in Runs
      /\ ~At(p, "idle") => call[p].op \in Operations
      /\ TypeInv'
  BY StepType DEF TypeInv, TypeOK, CallsNamed, Call, Target
<1>2. Created(p) /\ NoFill(p) /\ LookupsNamed(p)
  BY DEF LifeInv, CallBehind
<1>3. CASE Lookup(p)
  <2>1. At(p, "lookup") /\ runs[t] # None
    BY <1>2, <1>3 DEF Lookup, Created, At
  <2>2. call'[p] = AfterLookup(p)
    BY <1>1, <1>3, <2>1 DEF Lookup
  <2>3. CASE call[p].op = "get"
    BY <2>2, <2>3, IdleType, CallBehindIdle DEF AfterLookup
  <2>4. CASE call[p].op # "get"
    <3>1. call'[p].at = call[p].op /\ call'[p].run = call[p].run
      BY <1>1, <2>2, <2>4 DEF AfterLookup, Call
    <3>2. call[p].op \in {"start", "stop", "input"}
      BY <1>1, <1>2, <2>1, <2>4, ServiceAssumption DEF At, LookupsNamed
    <3> QED
      BY <2>1, <3>1, <3>2, CallBehindGoto DEF At
  <2> QED
    BY <2>3, <2>4
<1>4. CASE Fetch(p) \/ Fill(p)
  BY <1>2, <1>4 DEF Fetch, Fill, NoFill, At
<1>5. CASE CreateRun(p)
  <2>1. CASE runs[t] # None
    BY <1>1, <1>5, <2>1, IdleType, CallBehindIdle DEF CreateRun, Return
  <2>2. CASE runs[t] = None
    <3>1. /\ call'[p].run = call[p].run
          /\ call'[p].snap = runs'[t]
          /\ call'[p].at = "createSave"
          /\ runs'[t] = "queued"
      BY <1>1, <1>5, <2>2 DEF CreateRun, GotoWith, Call
    <3> QED
      BY <1>1, <3>1, CallBehindTake, ServiceAssumption DEF RunState
  <2> QED
    BY <2>1, <2>2
<1>6. CASE StartRun(p)
  <2>1. CASE ~TransitionRun(runs[t], "running")
    BY <1>1, <1>6, <2>1, IdleType, CallBehindIdle DEF StartRun, Return
  <2>2. CASE TransitionRun(runs[t], "running")
    <3>1. /\ call'[p].run = call[p].run
          /\ call'[p].snap = runs'[t]
          /\ call'[p].at = "startSave"
          /\ runs'[t] = "running"
      BY <1>1, <1>6, <2>2 DEF StartRun, GotoWith, Call
    <3> QED
      BY <1>1, <3>1, CallBehindTake, ServiceAssumption DEF RunState
  <2> QED
    BY <2>1, <2>2
<1>7. CASE StopRun(p) \/ StopSettle(p)
  <2>1. /\ call'[p].run = call[p].run
        /\ call'[p].snap = runs'[t]
        /\ call'[p].at \in {"stopSave", "settleSave"}
    BY <1>1, <1>7 DEF StopRun, StopSettle, GotoWith, Call
  <2>2. runs'[t] # None
    BY <1>1, <1>2, <1>7, StaysBehind DEF StopRun, StopSettle, Created, At
  <2> QED
    BY <1>1, <2>1, <2>2, CallBehindTake
<1>8. CASE CreateSpawn(p) \/ StartRefused(p) \/ StartStream(p) \/ StopSettleSave(p)
           \/ InputRefused(p) \/ InputPut(p)
  <2>1. call'[p] = Idle
    BY <1>1, <1>8 DEF CreateSpawn, StartRefused, StartStream, StopSettleSave, InputRefused,
       InputPut, Return
  <2> QED
    BY <2>1, IdleType, CallBehindIdle
<1>9. CASE CreateSave(p) \/ StartSave(p) \/ StartContext(p) \/ StartAgent(p) \/ StopSave(p)
           \/ StopCancel(p) \/ StopAgent(p) \/ InputSend(p)
  <2>1. /\ call[p].at \notin {"idle", "create"}
        /\ call'[p].run = call[p].run
        /\ call'[p].at \in {"spawn", "startCtx", "agentRun", "stream", "cancel", "agentStop",
                            "settle", "put"}
    BY <1>1, <1>9 DEF CreateSave, StartSave, StartContext, StartAgent, StopSave, StopCancel,
       StopAgent, InputSend, Goto, At, Call
  <2> QED
    BY <2>1, CallBehindGoto
<1>10. CASE InputCheck(p)
  <2>1. CASE runs[t] = "running"
    <3>1. call[p].at = "input" /\ call'[p].run = call[p].run /\ call'[p].at = "send"
      BY <1>1, <1>10, <2>1 DEF InputCheck, Goto, At, Call
    <3> QED
      BY <3>1, CallBehindGoto
  <2>2. CASE runs[t] # "running"
    BY <1>1, <1>10, <2>2, IdleType, CallBehindIdle DEF InputCheck, Return
  <2> QED
    BY <2>1, <2>2
<1> QED
  BY <1>3, <1>4, <1>5, <1>6, <1>7, <1>8, <1>9, <1>10 DEF Serve

\* Where a step leaves the record.
LEMMA RecordMoves ==
    ASSUME TypeInv, Next, ~Crash, NEW r \in Runs
    PROVE  \/ record'[r] = record[r]
           \/ \E p \in Callers :
                /\ call[p].at \in {"createSave", "startSave", "stopSave", "settleSave"}
                /\ Target(p) = r /\ record'[r] = call[p].snap
           \/ consumer[r] = "range" /\ record'[r] = runs'[r]
<1>1. record \in [Runs -> Status]
  BY DEF TypeInv, TypeOK
<1>2. ASSUME NEW p \in Callers, CreateSave(p) \/ StartSave(p) \/ StopSave(p) \/ StopSettleSave(p)
      PROVE  \/ record'[r] = record[r]
             \/ /\ call[p].at \in {"createSave", "startSave", "stopSave", "settleSave"}
                /\ Target(p) = r /\ record'[r] = call[p].snap
  BY <1>1, <1>2 DEF CreateSave, StartSave, StopSave, StopSettleSave, SaveRun, At
<1>3. ASSUME NEW q \in Runs, ConsumeEnd(q)
      PROVE  \/ record'[r] = record[r]
             \/ consumer[r] = "range" /\ record'[r] = runs'[r]
  BY <1>1, <1>3 DEF ConsumeEnd
<1>4. \/ UNCHANGED record
      \/ \E p \in Callers : CreateSave(p) \/ StartSave(p) \/ StopSave(p) \/ StopSettleSave(p)
      \/ \E q \in Runs : ConsumeEnd(q)
  BY DEF Next, Request, Disconnect, Serve, Lookup, Fetch, Fill, CreateRun, CreateSpawn,
     StartRun, StartContext, StartAgent, StartRefused, StartStream, StopRun, StopCancel,
     StopAgent, StopSettle, InputCheck, InputSend, InputRefused, InputPut,
     Consume, ConsumeOutput, ConsumeSave, ConsumeClear, AgentStep
<1> QED
  BY <1>2, <1>3, <1>4

LEMMA RecordStep ==
    ASSUME TypeInv, LifeInv, Next, ~Crash
    PROVE  RecordBehind'
<1> SUFFICES ASSUME NEW r \in Runs, record'[r] # None
             PROVE  runs'[r] # None /\ LeadsTo(record'[r], runs'[r])
  BY DEF RecordBehind
<1>1. /\ record[r] \in Status
      /\ runs'[r] \in Status
      /\ runs[r] # None => runs'[r] # None
      /\ \A s \in RunState : runs[r] # None /\ LeadsTo(s, runs[r]) => LeadsTo(s, runs'[r])
  BY StepType, StaysBehind DEF TypeInv, TypeOK
<1>2. CASE record'[r] = record[r]
  BY <1>1, <1>2 DEF LifeInv, RecordBehind, Status
<1>3. ASSUME NEW p \in Callers,
             call[p].at \in {"createSave", "startSave", "stopSave", "settleSave"},
             Target(p) = r, record'[r] = call[p].snap
      PROVE  runs'[r] # None /\ LeadsTo(record'[r], runs'[r])
  BY <1>1, <1>3 DEF LifeInv, CallBehind, Created, SnapBehind
<1>4. CASE consumer[r] = "range" /\ record'[r] = runs'[r]
  BY <1>1, <1>4, LeadsToSelf DEF LifeInv, Status
<1> QED
  BY <1>2, <1>3, <1>4, RecordMoves

LEMMA LifeStep ==
    ASSUME TypeInv, LifeInv, ClientsWait, Next, ~Crash
    PROVE  LifeInv'
<1>1. call \in [Callers -> Call]
  BY DEF TypeInv, TypeOK
<1>2. ASSUME NEW q \in Callers
      PROVE  CallBehind(q)'
  <2>1. CASE Request(q)
    BY <2>1, RequestBehind
  <2>2. CASE Serve(q)
    BY <2>2, ServeBehind
  <2>3. CASE call'[q] = call[q]
    BY <2>3, CallBehindKept
  <2>4. CASE Disconnect(q)
    <3>1. call' = [call EXCEPT ![q].gone = TRUE]
      BY <2>4 DEF Disconnect
    <3> QED
      BY <1>1, <3>1, CallBehindKept DEF Call
  <2>5. \/ UNCHANGED call
        \/ \E p \in Callers : Request(p) \/ Serve(p) \/ Disconnect(p)
    BY DEF Next, Consume, ConsumeOutput, ConsumeSave, ConsumeEnd, ConsumeClear, AgentStep
  <2>6. ASSUME NEW p \in Callers, p # q, Request(p) \/ Serve(p) \/ Disconnect(p)
        PROVE  call'[q] = call[q]
    BY <1>1, <2>6 DEF Request, Disconnect, Serve, Lookup, Fetch, Fill, CreateRun, CreateSave,
       CreateSpawn, StartRun, StartSave, StartContext, StartAgent, StartRefused, StartStream,
       StopRun, StopSave, StopCancel, StopAgent, StopSettle, StopSettleSave, InputCheck,
       InputSend, InputRefused, InputPut, Goto, GotoWith, Return
  <2> QED
    BY <2>1, <2>2, <2>3, <2>4, <2>5, <2>6
<1>3. ASSUME NEW r \in Runs, acked'[r] \/ consumer'[r] # "none"
      PROVE  runs'[r] # None
  <2>1. runs[r] # None => runs'[r] # None
    BY StaysBehind
  <2>2. CASE acked[r] \/ consumer[r] # "none"
    BY <2>1, <2>2 DEF LifeInv
  <2>3. ASSUME ~(acked[r] \/ consumer[r] # "none")
        PROVE  \E p \in Callers : Target(p) = r /\ call[p].at \in {"spawn", "stream"}
    <3>1. /\ acked \in [Runs -> BOOLEAN]
          /\ consumer \in [Runs -> {"none", "range", "saveOutput", "clear", "done"}]
      BY DEF TypeInv, TypeOK
    <3>2. ASSUME NEW p \in Callers, CreateSpawn(p) \/ StartStream(p)
          PROVE  Target(p) = r /\ call[p].at \in {"spawn", "stream"}
      BY <1>3, <2>3, <3>1, <3>2 DEF CreateSpawn, StartStream, At
    <3>3. ASSUME NEW q \in Runs, Consume(q)
          PROVE  FALSE
      BY <1>3, <2>3, <3>1, <3>3 DEF Consume, ConsumeOutput, ConsumeSave, ConsumeEnd, ConsumeClear
    <3>4. \/ UNCHANGED <<acked, consumer>>
          \/ \E p \in Callers : CreateSpawn(p) \/ StartStream(p)
          \/ \E q \in Runs : Consume(q)
      BY DEF Next, Request, Disconnect, Serve, Lookup, Fetch, Fill, CreateRun, CreateSave,
         StartRun, StartSave, StartContext, StartAgent, StartRefused, StopRun, StopSave,
         StopCancel, StopAgent, StopSettle, StopSettleSave, InputCheck, InputSend,
         InputRefused, InputPut, AgentStep
    <3> QED
      BY <1>3, <2>3, <3>2, <3>3, <3>4
  <2> QED
    BY <2>1, <2>2, <2>3 DEF LifeInv, CallBehind, Created
<1> QED
  BY <1>2, <1>3, RecordStep DEF LifeInv

LEMMA LifeInit ==
    ASSUME Init
    PROVE  LifeInv
<1>1. \A p \in Callers : call[p].at = "idle"
  BY IdleType DEF Init
<1>2. \A r \in Runs : record[r] = None /\ consumer[r] = "none" /\ ~acked[r]
  BY DEF Init
<1> QED
  BY <1>1, <1>2 DEF LifeInv, CallBehind, Created, SnapBehind, NoFill, LookupsNamed, RecordBehind

LEMMA LifeStutter ==
    ASSUME LifeInv, UNCHANGED vars
    PROVE  LifeInv'
BY DEF vars, LifeInv, CallBehind, Created, SnapBehind, NoFill, LookupsNamed, RecordBehind, Target

\* Without restarts Crash never happens.
LEMMA NoCrash ==
    ASSUME MaxCrashes = 0, TypeInv
    PROVE  ~Crash
<1>1. crashes \in 0 .. 0
  BY DEF TypeInv, TypeOK
<1> QED
  BY <1>1 DEF Crash

LEMMA LifeHolds ==
    ASSUME ClientsWait, MaxCrashes = 0
    PROVE  Spec => [](TypeInv /\ LifeInv)
<1>1. Init => TypeInv /\ LifeInv
  BY InitType, LifeInit
<1>2. TypeInv /\ LifeInv /\ [Next]_vars => (TypeInv /\ LifeInv)'
  BY StepType, TypeStutter, LifeStep, LifeStutter, NoCrash
<1> QED
  BY <1>1, <1>2, PTL DEF Spec

\* The durable record is behind the map: the contract leads from what is
\* recorded to what is, so a recorded final status is the run's status.
THEOREM ServiceRecordBehind ==
    ASSUME ClientsWait, MaxCrashes = 0
    PROVE  Spec => []RecordBehind
<1>1. LifeInv => RecordBehind
  BY DEF LifeInv
<1> QED
  BY LifeHolds, <1>1, PTL

\* The abstract module reads the same contract.
LEMMA LifecycleNames ==
    /\ Lifecycle!RunState = RunState
    /\ \A s, t : Lifecycle!TransitionRun(s, t) <=> TransitionRun(s, t)
    /\ \A s, t : Lifecycle!LeadsTo(s, t) <=> LeadsTo(s, t)
<1>1. Lifecycle!RunState = RunState /\ Lifecycle!Allowed = Allowed
  BY DEF Lifecycle!RunState, RunState, Lifecycle!Allowed, Allowed
<1>2. \A s, t : Lifecycle!TransitionRun(s, t) <=> TransitionRun(s, t)
  BY <1>1 DEF Lifecycle!TransitionRun, TransitionRun
<1> QED
  BY <1>1, <1>2 DEF Lifecycle!LeadsTo, LeadsTo

\* The service implements the lifecycle: every step moves one status along the
\* contract, or records a status behind the present one, or both at the end.
THEOREM ServiceLifecycle ==
    ASSUME ClientsWait, MaxCrashes = 0
    PROVE  Spec => LifecycleKept
<1>1. Init => Lifecycle!Init
  BY DEF Init, Lifecycle!Init
<1>2. ASSUME TypeInv, LifeInv, [Next]_vars
      PROVE  [Lifecycle!Next]_<<runs, record>>
  <2>1. CASE UNCHANGED vars
    BY <2>1 DEF vars
  <2>2. CASE Next
    <3>1. TypeInv' /\ LifeInv' /\ ~Crash
      BY <1>2, <2>2, StepType, LifeStep, NoCrash
    <3>2. /\ runs \in [Runs -> Status] /\ runs' \in [Runs -> Status]
          /\ record \in [Runs -> Status] /\ record' \in [Runs -> Status]
      BY <1>2, <3>1 DEF TypeInv, TypeOK
    <3>3. \A r \in Runs : FollowsContract(r)
      <4>1. \A p \in Callers : ~Fill(p)
        BY <1>2 DEF LifeInv, CallBehind, NoFill, Fill, At
      <4> QED
        BY <1>2, <2>2, <3>1, <4>1, StatusStep
    <3>4. ASSUME NEW q \in Runs, ConsumeEnd(q)
          PROVE  Lifecycle!Next
      <4>1. runs[q] \in RunState /\ runs'[q] \in RunState
        BY <1>2, <3>1, <3>2, <3>4, StaysBehind DEF ConsumeEnd, LifeInv, Status, RunState
      <4>2. TransitionRun(runs[q], runs'[q]) /\ runs[q] # None
        BY <3>3, <4>1, ServiceAssumption DEF FollowsContract
      <4>3. runs' = [runs EXCEPT ![q] = runs'[q]]
        BY <3>2, <3>4 DEF ConsumeEnd
      <4>4. record' = record \/ record' = [record EXCEPT ![q] = runs'[q]]
        BY <3>2, <3>4 DEF ConsumeEnd
      <4> QED
        BY <4>1, <4>2, <4>3, <4>4, LifecycleNames
           DEF Lifecycle!Next, Lifecycle!Advance, Lifecycle!Finish
    <3>5. ASSUME NEW p \in Callers, CreateRun(p) \/ StartRun(p) \/ StopRun(p) \/ StopSettle(p)
          PROVE  Lifecycle!Next \/ UNCHANGED <<runs, record>>
      <4> DEFINE t == Target(p)
      <4>1. t \in Runs /\ UNCHANGED record
        BY <1>2, <3>5 DEF CreateRun, StartRun, StopRun, StopSettle, TypeInv, TypeOK, Call, Target
      <4>2. UNCHANGED runs \/ runs' = [runs EXCEPT ![t] = runs'[t]]
        BY <3>2, <3>5, <4>1 DEF CreateRun, StartRun, StopRun, StopSettle
      <4>3. CASE runs[t] = None
        <5>1. runs'[t] \in {None, "queued"}
          BY <3>3, <4>1, <4>3 DEF FollowsContract
        <5>2. runs'[t] = None => UNCHANGED runs
          BY <3>2, <4>1, <4>2, <4>3
        <5>3. runs'[t] = "queued" => UNCHANGED runs \/ Lifecycle!Create(t)
          BY <4>1, <4>2, <4>3 DEF Lifecycle!Create
        <5> QED
          BY <4>1, <5>1, <5>2, <5>3 DEF Lifecycle!Next
      <4>4. CASE runs[t] # None
        <5>1. runs'[t] \in RunState /\ TransitionRun(runs[t], runs'[t])
          BY <1>2, <2>2, <3>1, <3>2, <3>3, <4>1, <4>4, StaysBehind DEF FollowsContract, Status
        <5> QED
          BY <4>1, <4>2, <4>4, <5>1, LifecycleNames DEF Lifecycle!Next, Lifecycle!Advance
      <4> QED
        BY <4>3, <4>4
    <3>6. ASSUME NEW p \in Callers,
                 CreateSave(p) \/ StartSave(p) \/ StopSave(p) \/ StopSettleSave(p)
          PROVE  Lifecycle!Next \/ UNCHANGED <<runs, record>>
      <4> DEFINE t == Target(p)
      <4>1. t \in Runs /\ UNCHANGED runs
        BY <1>2, <3>6 DEF CreateSave, StartSave, StopSave, StopSettleSave, TypeInv, TypeOK, Call, Target
      <4>2. call[p].at \in {"createSave", "startSave", "stopSave", "settleSave"}
        BY <3>6 DEF CreateSave, StartSave, StopSave, StopSettleSave, At
      <4>3. /\ runs[t] # None
            /\ call[p].snap \in RunState
            /\ LeadsTo(call[p].snap, runs[t])
        BY <1>2, <4>2 DEF LifeInv, CallBehind, Created, SnapBehind
      <4>4. record' = record \/ record' = [record EXCEPT ![t] = call[p].snap]
        BY <3>2, <3>6 DEF CreateSave, StartSave, StopSave, StopSettleSave, SaveRun
      <4> QED
        BY <4>1, <4>3, <4>4, LifecycleNames
           DEF Lifecycle!Next, Lifecycle!Persist, Lifecycle!Trails
    <3>7. \/ UNCHANGED <<runs, record>>
          \/ \E q \in Runs : ConsumeEnd(q)
          \/ \E p \in Callers :
                \/ CreateRun(p) \/ StartRun(p) \/ StopRun(p) \/ StopSettle(p)
                \/ CreateSave(p) \/ StartSave(p) \/ StopSave(p) \/ StopSettleSave(p)
                \/ Fill(p)
      BY <2>2, <3>1 DEF Next, Request, Disconnect, Serve, Lookup, Fetch, CreateSpawn,
         StartContext, StartAgent, StartRefused, StartStream, StopCancel, StopAgent,
         InputCheck, InputSend, InputRefused, InputPut,
         Consume, ConsumeOutput, ConsumeSave, ConsumeClear, AgentStep
    <3>8. \A p \in Callers : ~Fill(p)
      BY <1>2 DEF LifeInv, CallBehind, NoFill, Fill, At
    <3> QED
      BY <3>4, <3>5, <3>6, <3>7, <3>8
  <2> QED
    BY <1>2, <2>1, <2>2
<1> QED
  BY LifeHolds, <1>1, <1>2, PTL DEF Spec, LifecycleKept, Lifecycle!Spec

-----------------------------------------------------------------------------
(* The outputs, when clients wait for create and the gateway stays up.     *)

\* A request that goes on after Stop's first critical section ...
Stopping == {"stopSave", "cancel", "agentStop", "settle", "settleSave"}
\* ... and one that goes on after Start's.
Starting == {"startSave", "startCtx", "agentRun", "stream"}

\* The first leaves its mark in the history, the second in the status.
CallPlaced(p) ==
    /\ call[p].at \in Stopping => stopAsked[Target(p)]
    /\ call[p].at \in Starting => runs[Target(p)] \notin {None, "queued"}

\* Outputs numbered, queued and put agree; a reader that has ended has seen
\* the channel closed and empty.
Counted(r) ==
    /\ outSeq[r] + agChan[r] = agSent[r]
    /\ consumer[r] # "none" => streams[r] # 0 /\ runs[r] \notin {None, "queued"}
    /\ consumer[r] \in {"clear", "done"} => agClosed[r] /\ agChan[r] = 0

\* While nobody asked for a stop, the context of the run is live until consume
\* clears it, so every output numbered so far is saved, the one in hand aside.
Unstopped(r) ==
    /\ runs[r] # None /\ consumer[r] # "done" => runCtx[r] = "live"
    /\ runs[r] \in IF consumer[r] \in {"clear", "done"} THEN {"succeeded"}
                   ELSE {None, "queued", "running"}
    /\ consumer[r] # "saveOutput" => savedOut[r] = 1 .. outSeq[r]
    /\ consumer[r] = "saveOutput" =>
         outSeq[r] >= 1 /\ savedOut[r] = 1 .. outSeq[r] - 1

\* The inductive invariant.
OutputInv ==
    /\ \A p \in Callers : CallPlaced(p)
    /\ \A r \in Runs : Counted(r) /\ (~stopAsked[r] => Unstopped(r))

\* A put numbers no output and leaves a closed channel alone.
LEMMA PutCounts ==
    ASSUME AgentTypeOK, NEW q \in Runs, Put(q), NEW r \in Runs
    PROVE  /\ \A n \in Nat : n + agChan[r] = agSent[r] => n + agChan'[r] = agSent'[r]
           /\ agClosed[r] => agChan'[r] = agChan[r]
BY MockAssumption DEF AgentTypeOK, Put, Ready

\* Outside of consume the channel only takes outputs in, and never opens again.
LEMMA ChannelMoves ==
    ASSUME TypeInv, Next, ~Crash, \A q \in Runs : ~ConsumeOutput(q)
    PROVE  /\ UNCHANGED <<agChan, agSent>> \/ \E q \in Runs : Put(q)
           /\ \A r \in Runs : agClosed[r] => agClosed'[r]
<1>1. /\ \A p \in Callers : Target(p) \in Runs
      /\ agClosed \in [Runs -> BOOLEAN]
  BY DEF TypeInv, TypeOK, AgentTypeOK, Call, Target
<1> DEFINE Goal == /\ UNCHANGED <<agChan, agSent>> \/ \E q \in Runs : Put(q)
                   /\ \A r \in Runs : agClosed[r] => agClosed'[r]
<1>2. ASSUME NEW p \in Callers, Serve(p)
      PROVE  Goal
  <2>1. CASE CreateSpawn(p) \/ StartAgent(p) \/ StopCancel(p) \/ InputSend(p)
    BY <1>1, <2>1 DEF CreateSpawn, StartAgent, StopCancel, InputSend, Spawn, Run, CancelContext,
                      SendLock
  <2>2. CASE StopAgent(p)
    BY <1>1, <2>2 DEF StopAgent, Stop
  <2>3. CASE InputPut(p)
    BY <1>1, <2>3 DEF InputPut, SendPut
  <2>4. UNCHANGED agentVars => Goal
    BY DEF agentVars
  <2> QED
    BY <1>2, <2>1, <2>2, <2>3, <2>4
       DEF Serve, Lookup, Fetch, Fill, CreateRun, CreateSave, StartRun, StartSave,
           StartContext, StartRefused, StartStream, StopRun, StopSave, StopSettle,
           StopSettleSave, InputCheck, InputRefused
<1>3. ASSUME NEW q \in Runs, Consume(q)
      PROVE  Goal
  BY <1>3 DEF Consume, ConsumeSave, ConsumeEnd, ConsumeClear, CancelContext, agentVars
<1>4. ASSUME NEW q \in Runs, Execute(q)
      PROVE  Goal
  <2>1. CASE ExecLock(q)
    BY <2>1 DEF ExecLock
  <2>2. CASE ExecEmit(q)
    BY <2>2 DEF ExecEmit
  <2>3. CASE ExecFinish(q)
    BY <1>1, <2>3 DEF ExecFinish, Close
  <2>4. CASE ExecReport(q)
    BY <1>1, <2>4 DEF ExecReport
  <2> QED
    BY <1>4, <2>1, <2>2, <2>3, <2>4 DEF Execute
<1>5. ASSUME NEW p \in Callers, Request(p) \/ Disconnect(p)
      PROVE  Goal
  BY <1>5 DEF Request, Disconnect, agentVars
<1>6. Goal
  BY <1>2, <1>3, <1>4, <1>5 DEF Next, AgentStep
<1> QED
  BY <1>6

\* Where the steps of the callers leave what the outputs depend on.
LEMMA ServeMoves ==
    ASSUME TypeInv, NEW p \in Callers, Request(p) \/ Disconnect(p) \/ Serve(p)
    PROVE  /\ UNCHANGED <<outSeq, savedOut>>
           /\ \A r \in Runs : stopAsked[r] => stopAsked'[r]
           /\ \A r \in Runs : consumer'[r] # consumer[r] =>
                /\ At(p, "stream") /\ Target(p) = r
                /\ consumer'[r] = "range" /\ streams'[r] # 0
           /\ \A r \in Runs : streams'[r] # streams[r] => streams'[r] # 0
           /\ \A r \in Runs : runCtx'[r] # runCtx[r] =>
                \/ At(p, "cancel") /\ Target(p) = r
                \/ runs[r] = None /\ runs'[r] # None /\ runCtx'[r] = "live"
           /\ \A r \in Runs : runs'[r] # runs[r] =>
                \/ Fill(p)
                \/ runs[r] = None /\ runs'[r] = "queued" /\ runCtx'[r] = "live"
                \/ TransitionRun(runs[r], "running") /\ runs'[r] = "running"
                \/ stopAsked'[r]
                \/ At(p, "settle") /\ Target(p) = r
<1> DEFINE Goal ==
           /\ UNCHANGED <<outSeq, savedOut>>
           /\ \A r \in Runs : stopAsked[r] => stopAsked'[r]
           /\ \A r \in Runs : consumer'[r] # consumer[r] =>
                /\ At(p, "stream") /\ Target(p) = r
                /\ consumer'[r] = "range" /\ streams'[r] # 0
           /\ \A r \in Runs : streams'[r] # streams[r] => streams'[r] # 0
           /\ \A r \in Runs : runCtx'[r] # runCtx[r] =>
                \/ At(p, "cancel") /\ Target(p) = r
                \/ runs[r] = None /\ runs'[r] # None /\ runCtx'[r] = "live"
           /\ \A r \in Runs : runs'[r] # runs[r] =>
                \/ Fill(p)
                \/ runs[r] = None /\ runs'[r] = "queued" /\ runCtx'[r] = "live"
                \/ TransitionRun(runs[r], "running") /\ runs'[r] = "running"
                \/ stopAsked'[r]
                \/ At(p, "settle") /\ Target(p) = r
<1>1. /\ runs \in [Runs -> Status] /\ streams \in [Runs -> Nat]
      /\ consumer \in [Runs -> {"none", "range", "saveOutput", "clear", "done"}]
      /\ runCtx \in [Runs -> {"none", "live", "cancelled"}]
      /\ stopAsked \in [Runs -> BOOLEAN]
      /\ Target(p) \in Runs
  BY DEF TypeInv, TypeOK, Call, Target
<1>2. CASE UNCHANGED <<runs, runCtx, outSeq, savedOut, consumer, streams, stopAsked>>
  BY <1>2
<1>3. CASE Fill(p)
  BY <1>3 DEF Fill
<1>4. CASE CreateRun(p)
  BY <1>1, <1>4, ServiceAssumption DEF CreateRun, RunState
<1>5. CASE StartRun(p)
  BY <1>1, <1>5 DEF StartRun
<1>6. CASE StartStream(p)
  BY <1>1, <1>6 DEF StartStream
<1>7. CASE StopRun(p)
  BY <1>1, <1>7 DEF StopRun
<1>8. CASE StopCancel(p)
  BY <1>1, <1>8 DEF StopCancel
<1>9. CASE StopSettle(p)
  BY <1>1, <1>9 DEF StopSettle
<1>10. Goal
  BY <1>2, <1>3, <1>4, <1>5, <1>6, <1>7, <1>8, <1>9
     DEF Request, Disconnect, Serve, Lookup, Fetch, CreateSave, CreateSpawn, StartSave,
         StartContext, StartAgent, StartRefused, StopSave, StopAgent,
         StopSettleSave, InputCheck, InputSend, InputRefused, InputPut
<1> QED
  BY <1>10

\* A status that has left the queue does not return, and success is final.
LEMMA StatusGoesOn ==
    ASSUME TypeInv, LifeInv, Next, ~Crash, NEW r \in Runs
    PROVE  /\ runs[r] \notin {None, "queued"} => runs'[r] \notin {None, "queued"}
           /\ runs[r] = "succeeded" => runs'[r] = "succeeded"
<1>1. \A p \in Callers : ~Fill(p)
  BY DEF LifeInv, CallBehind, NoFill, Fill, At
<1>2. FollowsContract(r)
  BY <1>1, StatusStep
<1>3. runs[r] # None => runs'[r] # None
  BY StaysBehind
<1> QED
  BY <1>2, <1>3, ServiceAssumption DEF FollowsContract, TransitionRun, Allowed, RunState

\* The steps of consume.
LEMMA ConsumeMoves ==
    ASSUME TypeInv, NEW q \in Runs, Consume(q)
    PROVE  /\ UNCHANGED <<streams, stopAsked, call>>
           /\ \A r \in Runs \ {q} :
                /\ outSeq'[r] = outSeq[r] /\ savedOut'[r] = savedOut[r]
                /\ consumer'[r] = consumer[r] /\ runs'[r] = runs[r] /\ runCtx'[r] = runCtx[r]
<1>1. /\ runs \in [Runs -> Status]
      /\ consumer \in [Runs -> {"none", "range", "saveOutput", "clear", "done"}]
      /\ runCtx \in [Runs -> {"none", "live", "cancelled"}]
      /\ outSeq \in [Runs -> Nat] /\ savedOut \in [Runs -> SUBSET Nat]
  BY DEF TypeInv, TypeOK
<1>2. CASE ConsumeOutput(q)
  BY <1>1, <1>2 DEF ConsumeOutput
<1>3. CASE ConsumeSave(q)
  BY <1>1, <1>3 DEF ConsumeSave
<1>4. CASE ConsumeEnd(q)
  BY <1>1, <1>4 DEF ConsumeEnd
<1>5. CASE ConsumeClear(q)
  BY <1>1, <1>5 DEF ConsumeClear
<1> QED
  BY <1>2, <1>3, <1>4, <1>5 DEF Consume

\* A stop that has been asked for stays so.
LEMMA StopStays ==
    ASSUME TypeInv, Next, ~Crash, NEW r \in Runs, stopAsked[r]
    PROVE  stopAsked'[r]
BY ServeMoves, ConsumeMoves DEF Next, AgentStep

\* A request that stays between the two critical sections, or enters there.
LEMMA PlacedKept ==
    ASSUME TypeInv, LifeInv, OutputInv, Next, ~Crash, NEW q \in Callers,
           call'[q].run = call[q].run,
           call'[q].at \in Stopping => call[q].at \in Stopping \/ stopAsked'[Target(q)],
           call'[q].at \in Starting => call[q].at \in Starting \/ runs'[Target(q)] = "running"
    PROVE  CallPlaced(q)'
<1>1. Target(q) \in Runs /\ Target(q)' = Target(q)
  BY DEF TypeInv, TypeOK, Call, Target
<1>2. CallPlaced(q)
  BY DEF OutputInv
<1>3. call'[q].at \in Stopping => stopAsked'[Target(q)]
  BY <1>1, <1>2, StopStays DEF CallPlaced
<1>4. call'[q].at \in Starting => runs'[Target(q)] \notin {None, "queued"}
  BY <1>1, <1>2, StatusGoesOn, ServiceAssumption DEF CallPlaced, RunState
<1> QED
  BY <1>1, <1>3, <1>4 DEF CallPlaced

\* A request that is in neither part of the code.
LEMMA PlacedElsewhere ==
    ASSUME NEW q \in Callers, call'[q].at \notin Stopping, call'[q].at \notin Starting
    PROVE  CallPlaced(q)'
BY DEF CallPlaced

\* A request that is served goes from one critical section to the next.
LEMMA ServePlaced ==
    ASSUME TypeInv, LifeInv, OutputInv, Next, ~Crash, NEW p \in Callers, Serve(p)
    PROVE  CallPlaced(p)'
<1> DEFINE t == Target(p)
<1>1. /\ call \in [Callers -> Call]
      /\ runs \in [Runs -> Status]
      /\ stopAsked \in [Runs -> BOOLEAN]
      /\ t \in Runs
      /\ ~At(p, "idle") => call[p].op \in Operations
  BY DEF TypeInv, TypeOK, CallsNamed, Call, Target
<1>2. call[p].at \notin {"fetch", "fill"}
  BY DEF LifeInv, CallBehind, NoFill
<1>3. Idle.at \notin Stopping /\ Idle.at \notin Starting
  BY IdleType DEF Stopping, Starting
<1>4. CASE Lookup(p)
  <2>1. At(p, "lookup") /\ runs[t] # None
    BY <1>4 DEF LifeInv, CallBehind, Lookup, Created, At
  <2>2. call'[p] = AfterLookup(p)
    BY <1>1, <1>4, <2>1 DEF Lookup
  <2>3. call[p].op # "get" => AfterLookup(p).at = call[p].op
    BY <1>1 DEF AfterLookup, Call
  <2>4. call[p].op \in {"create", "get", "start", "stop", "input"}
    BY <1>1, <2>1, ServiceAssumption DEF At
  <2>5. AfterLookup(p).at \notin Stopping /\ AfterLookup(p).at \notin Starting
    BY <1>3, <2>3, <2>4 DEF AfterLookup, Stopping, Starting
  <2> QED
    BY <2>2, <2>5, PlacedElsewhere
<1>5. CASE CreateRun(p)
  <2>1. call'[p] = Idle \/ call'[p].at = "createSave"
    BY <1>1, <1>5 DEF CreateRun, GotoWith, Return, Call
  <2> QED
    BY <1>3, <2>1, PlacedElsewhere DEF Stopping, Starting
<1>6. CASE CreateSpawn(p) \/ StartRefused(p) \/ StartStream(p) \/ StopSettleSave(p)
           \/ InputRefused(p) \/ InputPut(p)
  <2>1. call'[p] = Idle
    BY <1>1, <1>6 DEF CreateSpawn, StartRefused, StartStream, StopSettleSave, InputRefused,
       InputPut, Return
  <2> QED
    BY <1>3, <2>1, PlacedElsewhere
<1>7. CASE StartRun(p)
  <2>1. call'[p] = Idle \/ (/\ call'[p].run = call[p].run /\ call'[p].at = "startSave"
                            /\ runs'[t] = "running")
    BY <1>1, <1>7 DEF StartRun, GotoWith, Return, Call
  <2> QED
    BY <1>3, <2>1, PlacedElsewhere, PlacedKept DEF Stopping, Starting
<1>8. CASE StopRun(p)
  <2>1. call'[p].run = call[p].run /\ call'[p].at = "stopSave" /\ stopAsked'[t]
    BY <1>1, <1>8 DEF StopRun, GotoWith, Call
  <2> QED
    BY <2>1, PlacedKept DEF Stopping, Starting
<1>9. CASE StartSave(p) \/ StartContext(p) \/ StartAgent(p)
  <2>1. /\ call'[p].run = call[p].run /\ call[p].at \in Starting
        /\ call'[p].at \in {"startCtx", "agentRun", "stream"}
    BY <1>1, <1>9 DEF StartSave, StartContext, StartAgent, Goto, At, Call, Starting
  <2> QED
    BY <2>1, PlacedKept DEF Stopping, Starting
<1>10. CASE StopSave(p) \/ StopCancel(p) \/ StopAgent(p) \/ StopSettle(p)
  <2>1. /\ call'[p].run = call[p].run /\ call[p].at \in Stopping
        /\ call'[p].at \in {"cancel", "agentStop", "settle", "settleSave"}
    BY <1>1, <1>10 DEF StopSave, StopCancel, StopAgent, StopSettle, Goto, GotoWith, At, Call,
                       Stopping
  <2> QED
    BY <2>1, PlacedKept DEF Stopping, Starting
<1>11. CASE CreateSave(p) \/ InputSend(p) \/ InputCheck(p)
  <2>1. call'[p] = Idle \/ call'[p].at \in {"spawn", "put", "send"}
    BY <1>1, <1>11 DEF CreateSave, InputSend, InputCheck, Goto, Return, Call
  <2> QED
    BY <1>3, <2>1, PlacedElsewhere DEF Stopping, Starting
<1>12. ~Fetch(p) /\ ~Fill(p)
  BY <1>2 DEF Fetch, Fill, At
<1> QED
  BY <1>4, <1>5, <1>6, <1>7, <1>8, <1>9, <1>10, <1>11, <1>12 DEF Serve

\* Every request stays where its marks are.
LEMMA CallsPlaced ==
    ASSUME TypeInv, LifeInv, OutputInv, Next, ~Crash, NEW q \in Callers
    PROVE  CallPlaced(q)'
<1>1. call \in [Callers -> Call]
  BY DEF TypeInv, TypeOK
<1>2. CASE Serve(q)
  BY <1>2, ServePlaced
<1>3. CASE Request(q)
  <2>1. PICK r \in Runs, o \in Operations :
          call' = [call EXCEPT ![q] =
                     [Idle EXCEPT !.at = IF o = "create" THEN "create" ELSE "lookup",
                                  !.op = o, !.run = r]]
    BY <1>3 DEF Request
  <2>2. call'[q].at \in {"create", "lookup"}
    BY <1>1, <2>1, IdleType DEF Call
  <2> QED
    BY <2>2, PlacedElsewhere DEF Stopping, Starting
<1>4. CASE Disconnect(q)
  <2>1. call' = [call EXCEPT ![q].gone = TRUE]
    BY <1>4 DEF Disconnect
  <2>2. call'[q].run = call[q].run /\ call'[q].at = call[q].at
    BY <1>1, <2>1 DEF Call
  <2> QED
    BY <2>2, PlacedKept
<1>5. CASE call'[q] = call[q]
  BY <1>5, PlacedKept
<1>6. ASSUME NEW p \in Callers, p # q, Request(p) \/ Serve(p) \/ Disconnect(p)
      PROVE  call'[q] = call[q]
  BY <1>1, <1>6 DEF Request, Disconnect, Serve, Lookup, Fetch, Fill, CreateRun, CreateSave,
     CreateSpawn, StartRun, StartSave, StartContext, StartAgent, StartRefused, StartStream,
     StopRun, StopSave, StopCancel, StopAgent, StopSettle, StopSettleSave, InputCheck,
     InputSend, InputRefused, InputPut, Goto, GotoWith, Return
<1> QED
  BY <1>2, <1>3, <1>4, <1>5, <1>6, ConsumeMoves DEF Next, AgentStep

\* Numbers, queue and puts agree after every step.
LEMMA CountedStep ==
    ASSUME TypeInv, LifeInv, StreamsInv, OutputInv, Next, ~Crash, NEW r \in Runs
    PROVE  Counted(r)'
<1>1. /\ outSeq \in [Runs -> Nat] /\ AgentTypeOK
      /\ consumer \in [Runs -> {"none", "range", "saveOutput", "clear", "done"}]
      /\ streams \in [Runs -> Nat]
      /\ TypeInv'
  BY StepType DEF TypeInv, TypeOK
<1>2. Counted(r)
  BY DEF OutputInv
<1>3. /\ runs[r] \notin {None, "queued"} => runs'[r] \notin {None, "queued"}
      /\ streams[r] # 0 => streams'[r] # 0
  BY StatusGoesOn, ServeMoves, ConsumeMoves DEF Next, AgentStep
<1>4. CASE \E q \in Runs : ConsumeOutput(q)
  <2>1. PICK q \in Runs : ConsumeOutput(q)
    BY <1>4
  <2>2. /\ agChan' = [agChan EXCEPT ![q] = @ - 1] /\ agChan[q] > 0 /\ UNCHANGED <<agSent, agClosed>>
        /\ outSeq' = [outSeq EXCEPT ![q] = @ + 1]
        /\ consumer' = [consumer EXCEPT ![q] = "saveOutput"] /\ consumer[q] = "range"
    BY <2>1 DEF ConsumeOutput, Receive
  <2>3. outSeq'[r] + agChan'[r] = agSent'[r]
    <3>1. agChan[r] \in Nat /\ outSeq[r] \in Nat /\ agSent[r] \in Nat
      BY <1>1, MockAssumption DEF AgentTypeOK
    <3>2. agChan'[r] = IF r = q THEN agChan[r] - 1 ELSE agChan[r]
      BY <1>1, <2>2 DEF AgentTypeOK
    <3>3. outSeq'[r] = IF r = q THEN outSeq[r] + 1 ELSE outSeq[r]
      BY <1>1, <2>2
    <3> QED
      BY <1>2, <2>2, <3>1, <3>2, <3>3 DEF Counted
  <2>4. consumer'[r] # "none" => consumer[r] # "none"
    BY <1>1, <2>2
  <2>5. consumer'[r] \in {"clear", "done"} => consumer[r] \in {"clear", "done"} /\ agChan'[r] = agChan[r]
    BY <1>1, <2>2 DEF AgentTypeOK
  <2> QED
    BY <1>2, <1>3, <2>2, <2>3, <2>4, <2>5 DEF Counted
<1>5. CASE \A q \in Runs : ~ConsumeOutput(q)
  <2>1. /\ UNCHANGED <<agChan, agSent>> \/ \E q \in Runs : Put(q)
        /\ agClosed[r] => agClosed'[r]
    BY <1>5, ChannelMoves
  <2>2. outSeq' = outSeq
    BY <1>5, ServeMoves DEF Next, Consume, ConsumeSave, ConsumeEnd, ConsumeClear, AgentStep
  <2>3. /\ outSeq'[r] + agChan'[r] = agSent'[r]
        /\ agClosed[r] /\ agChan[r] = 0 => agChan'[r] = 0
    BY <1>1, <1>2, <2>1, <2>2, PutCounts DEF Counted
  <2>4. ASSUME consumer'[r] # "none"
        PROVE  /\ streams'[r] # 0
               /\ runs'[r] \notin {None, "queued"}
    <3>1. CASE consumer[r] # "none"
      BY <1>2, <1>3, <3>1 DEF Counted
    <3>2. CASE consumer[r] = "none"
      <4>1. PICK p \in Callers : Request(p) \/ Disconnect(p) \/ Serve(p)
        BY <1>1, <2>4, <3>2 DEF Next, Consume, ConsumeOutput, ConsumeSave, ConsumeEnd, ConsumeClear,
                                AgentStep
      <4>2. At(p, "stream") /\ Target(p) = r /\ streams'[r] # 0
        BY <2>4, <3>2, <4>1, ServeMoves
      <4>3. runs[r] \notin {None, "queued"}
        BY <4>2 DEF OutputInv, CallPlaced, Starting, At
      <4> QED
        BY <1>3, <4>2, <4>3
    <3> QED
      BY <3>1, <3>2
  <2>5. ASSUME consumer'[r] \in {"clear", "done"}
        PROVE  agClosed[r] /\ agChan[r] = 0
    <3>1. CASE consumer[r] \in {"clear", "done"}
      BY <1>2, <3>1 DEF Counted
    <3>2. CASE consumer[r] \notin {"clear", "done"}
      <4>1. PICK q \in Runs : Consume(q)
        BY <2>5, <3>2, ServeMoves DEF Next, AgentStep
      <4>2. ConsumeEnd(r)
        BY <1>1, <2>5, <3>2, <4>1 DEF Consume, ConsumeOutput, ConsumeSave, ConsumeEnd, ConsumeClear
      <4> QED
        BY <4>2 DEF ConsumeEnd, Drained
    <3> QED
      BY <3>1, <3>2
  <2> QED
    BY <2>1, <2>3, <2>4, <2>5 DEF Counted
<1> QED
  BY <1>4, <1>5

\* A run nobody asked to stop keeps its context and its outputs.
LEMMA UnstoppedStep ==
    ASSUME TypeInv, LifeInv, StreamsInv, OutputInv, Next, ~Crash, NEW r \in Runs, ~stopAsked'[r]
    PROVE  Unstopped(r)'
<1>1. /\ outSeq \in [Runs -> Nat] /\ savedOut \in [Runs -> SUBSET Nat]
      /\ consumer \in [Runs -> {"none", "range", "saveOutput", "clear", "done"}]
      /\ runCtx \in [Runs -> {"none", "live", "cancelled"}]
      /\ runs \in [Runs -> Status]
  BY DEF TypeInv, TypeOK
<1>2. ~stopAsked[r] /\ Unstopped(r) /\ Counted(r)
  BY StopStays DEF OutputInv
<1>3. ASSUME NEW p \in Callers, Request(p) \/ Disconnect(p) \/ Serve(p)
      PROVE  Unstopped(r)'
  <2>1. ~Fill(p)
    BY DEF LifeInv, CallBehind, NoFill, Fill, At
  <2>2. ~(At(p, "cancel") /\ Target(p) = r) /\ ~(At(p, "settle") /\ Target(p) = r)
    BY <1>2 DEF OutputInv, CallPlaced, Stopping, At
  <2>3. UNCHANGED <<outSeq, savedOut>>
    BY <1>3, ServeMoves
  <2>4. consumer'[r] = consumer[r] \/ (consumer[r] = "none" /\ consumer'[r] = "range")
    <3>1. ASSUME At(p, "stream"), Target(p) = r
          PROVE  consumer[r] = "none"
      BY <1>2, <3>1 DEF StreamsInv, StreamInv, Streaming, Counted
    <3> QED
      BY <1>3, <3>1, ServeMoves
  <2>5. runCtx'[r] = runCtx[r] \/ (runs[r] = None /\ runCtx'[r] = "live")
    BY <1>3, <2>2, ServeMoves
  <2>6. \/ runs'[r] = runs[r]
        \/ runs[r] = None /\ runs'[r] = "queued" /\ runCtx'[r] = "live"
        \/ TransitionRun(runs[r], "running") /\ runs'[r] = "running"
    BY <1>3, <2>1, <2>2, ServeMoves
  <2>7. runs[r] = "succeeded" => runs'[r] = "succeeded"
    BY StatusGoesOn
  <2>8. ~TransitionRun(None, "running")
    BY ServiceAssumption DEF TransitionRun, Allowed, RunState
  <2>9. (runs'[r] # None /\ consumer'[r] # "done" => runCtx'[r] = "live")
    <3>1. consumer'[r] # "done" => consumer[r] # "done"
      BY <2>4
    <3> QED
      BY <1>2, <2>5, <2>6, <2>8, <3>1 DEF Unstopped
  <2>10. runs'[r] \in IF consumer'[r] \in {"clear", "done"} THEN {"succeeded"}
                      ELSE {None, "queued", "running"}
    <3>1. CASE consumer'[r] \in {"clear", "done"}
      BY <1>2, <2>4, <2>7, <3>1 DEF Unstopped
    <3>2. CASE consumer'[r] \notin {"clear", "done"}
      <4>1. consumer[r] \notin {"clear", "done"}
        BY <2>4, <3>2
      <4> QED
        BY <1>2, <2>6, <3>2, <4>1 DEF Unstopped
    <3> QED
      BY <3>1, <3>2
  <2>11. /\ consumer'[r] # "saveOutput" => savedOut'[r] = 1 .. outSeq'[r]
         /\ consumer'[r] = "saveOutput" =>
              outSeq'[r] >= 1 /\ savedOut'[r] = 1 .. outSeq'[r] - 1
    BY <1>2, <2>3, <2>4 DEF Unstopped
  <2> QED
    BY <2>9, <2>10, <2>11 DEF Unstopped
<1>4. ASSUME NEW q \in Runs, Consume(q)
      PROVE  Unstopped(r)'
  <2>1. CASE q # r
    BY <1>2, <1>4, <2>1, ConsumeMoves DEF Unstopped
  <2>2. CASE ConsumeOutput(r)
    <3>1. /\ consumer[r] = "range" /\ consumer'[r] = "saveOutput" /\ outSeq'[r] = outSeq[r] + 1
          /\ savedOut'[r] = savedOut[r] /\ runs'[r] = runs[r] /\ runCtx'[r] = runCtx[r]
          /\ outSeq[r] \in Nat
      BY <1>1, <2>2 DEF ConsumeOutput
    <3> QED
      BY <1>2, <3>1 DEF Unstopped
  <2>3. CASE ConsumeSave(r)
    <3>1. /\ consumer[r] = "saveOutput" /\ consumer'[r] = "range" /\ outSeq'[r] = outSeq[r]
          /\ runs'[r] = runs[r] /\ runCtx'[r] = runCtx[r] /\ outSeq[r] \in Nat
          /\ savedOut'[r] = IF StreamCtxDone(r) THEN savedOut[r] ELSE savedOut[r] \cup {outSeq[r]}
      BY <1>1, <2>3 DEF ConsumeSave
    <3>2. runs[r] # None
      BY <3>1 DEF LifeInv
    <3>3. ~StreamCtxDone(r)
      BY <1>2, <3>1, <3>2 DEF Unstopped, StreamCtxDone
    <3>4. (1 .. outSeq[r] - 1) \cup {outSeq[r]} = 1 .. outSeq[r]
      BY <1>2, <3>1 DEF Unstopped
    <3>5. savedOut'[r] = 1 .. outSeq'[r]
      BY <1>2, <3>1, <3>3, <3>4 DEF Unstopped
    <3> QED
      BY <1>2, <3>1, <3>5 DEF Unstopped
  <2>4. CASE ConsumeEnd(r)
    <3>1. /\ consumer[r] = "range" /\ consumer'[r] = "clear" /\ outSeq'[r] = outSeq[r]
          /\ runs'[r] = (IF runs[r] = "running" THEN "succeeded" ELSE runs[r])
          /\ runCtx'[r] = runCtx[r] /\ savedOut'[r] = savedOut[r]
      BY <1>1, <2>4 DEF ConsumeEnd
    <3>2. runs[r] = "running"
      BY <1>2, <3>1 DEF Unstopped, Counted
    <3> QED
      BY <1>2, <3>1, <3>2, ServiceAssumption DEF Unstopped, RunState
  <2>5. CASE ConsumeClear(r)
    <3>1. /\ consumer[r] = "clear" /\ consumer'[r] = "done" /\ outSeq'[r] = outSeq[r]
          /\ runs'[r] = runs[r] /\ savedOut'[r] = savedOut[r]
      BY <1>1, <2>5 DEF ConsumeClear
    <3> QED
      BY <1>2, <3>1 DEF Unstopped
  <2> QED
    BY <1>4, <2>1, <2>2, <2>3, <2>4, <2>5 DEF Consume
<1>5. ASSUME NEW q \in Runs, AgentStep(q)
      PROVE  Unstopped(r)'
  BY <1>2, <1>5 DEF AgentStep, Unstopped
<1> QED
  BY <1>3, <1>4, <1>5 DEF Next

\* A run that succeeded without anybody asking to stop it has all its outputs
\* in the database, in the order of their numbers and without a gap.
THEOREM ServiceOutputs ==
    ASSUME ClientsWait, MaxCrashes = 0
    PROVE  Spec => []OutputsComplete
<1>1. ASSUME Init
      PROVE  StreamsInv /\ OutputInv
  <2>1. \A p \in Callers : call[p].at = "idle"
    BY <1>1, IdleType DEF Init
  <2>2. ASSUME NEW r \in Runs
        PROVE  /\ runs[r] = None /\ consumer[r] = "none" /\ outSeq[r] = 0 /\ agChan[r] = 0
               /\ agSent[r] = 0 /\ savedOut[r] = {} /\ streams[r] = 0
    BY <1>1 DEF Init, AgentInit
  <2>3. \A p \in Callers : CallPlaced(p)
    BY <2>1 DEF CallPlaced, Stopping, Starting
  <2>4. ASSUME NEW r \in Runs
        PROVE  Counted(r) /\ Unstopped(r)
    <3>1. Counted(r)
      BY <2>2 DEF Counted
    <3>2. savedOut[r] = 1 .. outSeq[r]
      <4>1. 1 .. 0 = {}
        OBVIOUS
      <4>2. outSeq[r] = 0 /\ savedOut[r] = {}
        BY <2>2
      <4> QED
        BY <4>1, <4>2
    <3>3. Unstopped(r)
      BY <2>2, <3>2 DEF Unstopped
    <3> QED
      BY <3>1, <3>3
  <2>5. StreamsInv
    <3>1. ASSUME NEW r \in Runs, NEW p \in Callers
          PROVE  ~Streaming(p, r)
      BY <2>1 DEF Streaming, At
    <3>2. ASSUME NEW r \in Runs
          PROVE  streams[r] <= 1 /\ ~(streams[r] # 0)
      BY <2>2
    <3> QED
      BY <3>1, <3>2 DEF StreamsInv, StreamInv
  <2> QED
    BY <2>3, <2>4, <2>5 DEF OutputInv
<1>2. ASSUME TypeInv, LifeInv, StreamsInv, OutputInv, [Next]_vars
      PROVE  StreamsInv' /\ OutputInv'
  <2>1. CASE UNCHANGED vars
    BY <1>2, <2>1 DEF vars, agentVars, StreamsInv, StreamInv, Streaming, At, Target, OutputInv,
                      CallPlaced, Counted, Unstopped
  <2>2. CASE Next
    <3>1. ~Crash
      BY <1>2, NoCrash
    <3>2. \A p \in Callers : CallPlaced(p)'
      BY <1>2, <2>2, <3>1, CallsPlaced
    <3>3. \A r \in Runs : Counted(r)' /\ (~stopAsked'[r] => Unstopped(r)')
      BY <1>2, <2>2, <3>1, CountedStep, UnstoppedStep
    <3> QED
      BY <1>2, <2>2, <3>2, <3>3, StreamStep DEF OutputInv
  <2> QED
    BY <1>2, <2>1, <2>2
<1>3. TypeInv /\ OutputInv => OutputsComplete
  <2> SUFFICES ASSUME TypeInv, OutputInv, NEW r \in Runs, consumer[r] = "done", ~stopAsked[r]
               PROVE  runs[r] = "succeeded" /\ savedOut[r] = 1 .. agSent[r]
    BY DEF OutputsComplete
  <2>1. Counted(r) /\ Unstopped(r) /\ outSeq[r] \in Nat
    BY DEF OutputInv, TypeInv, TypeOK
  <2>2. outSeq[r] = agSent[r]
    BY <2>1 DEF Counted
  <2> QED
    BY <2>1, <2>2 DEF Unstopped
<1> QED
  BY LifeHolds, <1>1, <1>2, <1>3, PTL DEF Spec

=============================================================================
