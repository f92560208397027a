-------------------------- MODULE ACPRuntimeProofs --------------------------
(***************************************************************************)
(* Type correctness of the ACP runtime under the run service; and, for     *)
(* clients whose starts do not overlap, that a run has one peer, that its  *)
(* output is closed once and that its updates arrive once and in order.    *)
(***************************************************************************)
EXTENDS ACPRuntime, ACPPeerProofs, SequenceTheorems

\* A forward that is at work has a client.
ForwardNamed ==
    \A p \in Starters :
        /\ forward[p].at # "none" => client \in Starters
        /\ forward[p].at \in {"select", "put"} => forward[p].to \in Starters
        /\ forward[p].at = "put" => forward[p].held \in UpdateID

TypeInv == TypeOK /\ ForwardNamed

-----------------------------------------------------------------------------
(* The records of the goroutines.                                          *)

LEMMA StartSet ==
    ASSUME NEW f \in StartState,
           NEW a \in {"idle", "context", "factory", "initialize", "session", "stream", "done", "failed"}
    PROVE  [f EXCEPT !.at = a] \in StartState /\ [f EXCEPT !.at = a].at = a
BY DEF StartState

LEMMA ForwardSet ==
    ASSUME NEW f \in ForwardState, NEW a \in {"none", "start", "select", "put", "end"},
           NEW t \in Starters \cup {None}, NEW n \in 0 .. MaxUpdates
    PROVE  /\ [f EXCEPT !.at = a, !.to = t] \in ForwardState
           /\ [f EXCEPT !.at = a, !.held = n] \in ForwardState
BY DEF ForwardState

LEMMA ForwardGoes ==
    ASSUME NEW f \in ForwardState, NEW a \in {"none", "start", "select", "put", "end"}
    PROVE  [f EXCEPT !.at = a] \in ForwardState
BY DEF ForwardState

\* A step of p that moves its start only.
LEMMA GoesType ==
    ASSUME TypeOK, NEW p \in Starters,
           NEW a \in {"idle", "context", "factory", "initialize", "session", "stream", "done", "failed"},
           Goes(p, a)
    PROVE  /\ start' \in [Starters -> StartState]
           /\ start'[p].at = a
           /\ \A q \in Starters \ {p} : start'[q] = start[q]
<1>1. start \in [Starters -> StartState]
  BY DEF TypeOK
<1>2. start' = [start EXCEPT ![p] = [start[p] EXCEPT !.at = a]]
  BY DEF Goes
<1> QED BY <1>1, <1>2, StartSet

-----------------------------------------------------------------------------
(* The steps.                                                              *)

\* Everything but the peers and the start is as before, or typed in full.
LEMMA StartTypes ==
    ASSUME TypeInv, NEW p \in Starters, StartBegin(p) \/ Start(p)
    PROVE  TypeInv'
<1> USE DEF TypeInv, runVars, outVars, consumeVars, callVars
<1>0. peer[p] \in Peer /\ start \in [Starters -> StartState]
  BY DEF TypeOK
<1>1. CASE StartBegin(p)
  <2>1. status' \in RunState
    BY <1>1 DEF StartBegin, RunState
  <2>2. start' \in [Starters -> StartState]
    BY <1>1, GoesType DEF StartBegin
  <2> QED BY <1>1, <2>1, <2>2 DEF StartBegin, TypeOK, ForwardNamed
<1>2. CASE StartContext(p)
  <2>1. [at |-> "factory", own |-> cleared] \in StartState
    BY DEF TypeOK, StartState
  <2>2. start' \in [Starters -> StartState]
    BY <1>0, <1>2, <2>1 DEF StartContext
  <2> QED BY <1>2, <2>2 DEF StartContext, TypeOK, ForwardNamed
<1>3. CASE StartPeer(p)
  <2>1. Request(Spawned) \in Peer
    BY SpawnType, RequestType
  <2>2. peer' \in [Starters -> Peer]
    BY <1>3, <2>1 DEF StartPeer, TypeOK
  <2>3. start' \in [Starters -> StartState]
    BY <1>3, GoesType DEF StartPeer
  <2> QED BY <1>3, <2>2, <2>3 DEF StartPeer, TypeOK, ForwardNamed
<1>4. CASE StartSession(p)
  <2>1. Request(peer[p]) \in Peer
    BY <1>0, RequestType
  <2>2. peer' \in [Starters -> Peer]
    BY <1>4, <2>1 DEF StartSession, TypeOK
  <2>3. start' \in [Starters -> StartState]
    BY <1>4, GoesType DEF StartSession
  <2> QED BY <1>4, <2>2, <2>3 DEF StartSession, TypeOK, ForwardNamed
<1>5. CASE StartFails(p)
  <2>1. Close(peer[p]) \in Peer
    BY <1>0, CloseType
  <2>2. peer' \in [Starters -> Peer]
    BY <1>5, <2>1 DEF StartFails, TypeOK
  <2>3. start' \in [Starters -> StartState]
    BY <1>5, GoesType DEF StartFails
  <2> QED BY <1>5, <2>2, <2>3 DEF StartFails, TypeOK, ForwardNamed
<1>6. CASE StartInstall(p)
  <2>1. start' \in [Starters -> StartState]
    BY <1>6, GoesType DEF StartInstall
  <2>2. forward' = [forward EXCEPT ![p] = [forward[p] EXCEPT !.at = "start"]]
    BY <1>6 DEF StartInstall
  <2>3. forward \in [Starters -> ForwardState]
    BY DEF TypeOK
  <2>4. [forward[p] EXCEPT !.at = "start"] \in ForwardState
    BY <2>3, ForwardGoes
  <2>5. forward' \in [Starters -> ForwardState]
    BY <2>2, <2>3, <2>4
  <2>6. prompt' \in [Starters -> PromptState]
    BY <1>6 DEF StartInstall, TypeOK, PromptState, Asking
  <2>7. client' \in Starters
    BY <1>6 DEF StartInstall
  <2>8. forward'[p].at = "start" /\ \A q \in Starters \ {p} : forward'[q] = forward[q]
    BY <2>2, <2>3 DEF ForwardState
  <2>9. ForwardNamed'
    BY <2>7, <2>8 DEF ForwardNamed
  <2> QED BY <1>6, <2>1, <2>5, <2>6, <2>7, <2>9 DEF StartInstall, TypeOK
<1>7. CASE StartStream(p)
  <2>1. start' \in [Starters -> StartState]
    BY <1>7, GoesType DEF StartStream
  <2> QED BY <1>7, <2>1 DEF StartStream, TypeOK, ForwardNamed
<1> QED BY <1>1, <1>2, <1>3, <1>4, <1>5, <1>6, <1>7 DEF Start

LEMMA ForwardTypes ==
    ASSUME TypeInv, NEW p \in Starters, Forward(p)
    PROVE  TypeInv'
<1> USE DEF TypeInv, runVars, consumeVars, callVars
<1> DEFINE c == forward[p].to
<1>0. /\ forward \in [Starters -> ForwardState] /\ forward[p] \in ForwardState
      /\ 0 \in 0 .. MaxUpdates
  BY PeerAssumption DEF TypeOK
<1>1. CASE ForwardBegin(p)
  <2>1. forward' = [forward EXCEPT ![p] = [forward[p] EXCEPT !.at = "select", !.to = client]]
    BY <1>1 DEF ForwardBegin
  <2>2. client \in Starters
    BY <1>1 DEF ForwardBegin, ForwardNamed
  <2>3. [forward[p] EXCEPT !.at = "select", !.to = client] \in ForwardState
    BY <1>0, <2>2, ForwardSet
  <2>4. forward' \in [Starters -> ForwardState]
    BY <1>0, <2>1, <2>3
  <2>5. ForwardNamed'
    BY <1>0, <1>1, <2>1, <2>2 DEF ForwardBegin, ForwardNamed, ForwardState
  <2> QED BY <1>1, <2>4, <2>5 DEF ForwardBegin, TypeOK, outVars
<1>2. CASE ForwardTake(p)
  <2> DEFINE n == Head(peer[c].notes)
  <2>1. c \in Starters /\ peer[c] \in Peer /\ peer[c].notes # <<>>
    BY <1>2 DEF ForwardTake, ForwardNamed, TypeOK
  <2>2. TakeNote(peer[c]) \in Peer /\ n \in UpdateID /\ n \in 0 .. MaxUpdates
    BY <2>1, TakeNoteType, PeerAssumption DEF UpdateID
  <2>3. peer' \in [Starters -> Peer]
    BY <1>2, <2>1, <2>2 DEF ForwardTake, TypeOK
  <2>4. forward' = [forward EXCEPT ![p] = [forward[p] EXCEPT !.at = "put", !.held = n]]
    BY <1>2 DEF ForwardTake
  <2>5. [forward[p] EXCEPT !.at = "put", !.held = n] \in ForwardState
    BY <1>0, <2>2, ForwardSet
  <2>6. forward' \in [Starters -> ForwardState]
    BY <1>0, <2>4, <2>5
  <2>7. ForwardNamed'
    BY <1>0, <1>2, <2>1, <2>2, <2>4 DEF ForwardTake, ForwardNamed, ForwardState
  <2> QED BY <1>2, <2>3, <2>6, <2>7 DEF ForwardTake, TypeOK, outVars
<1>3. CASE ForwardPut(p)
  <2>1. forward' = [forward EXCEPT ![p] = [forward[p] EXCEPT !.at = "select", !.held = 0]]
    BY <1>3 DEF ForwardPut
  <2>2. [forward[p] EXCEPT !.at = "select", !.held = 0] \in ForwardState
    BY <1>0, ForwardSet
  <2>3. forward' \in [Starters -> ForwardState]
    BY <1>0, <2>1, <2>2
  <2>4. ForwardNamed'
    BY <1>0, <1>3, <2>1 DEF ForwardPut, ForwardNamed, ForwardState
  <2>5. output' \in Seq(UpdateID) /\ Len(output') <= OutCap
    BY <1>3, RuntimeAssumption DEF ForwardPut, ForwardNamed, TypeOK
  <2>6. panicked' \in BOOLEAN
    BY <1>3 DEF ForwardPut
  <2> QED BY <1>3, <2>3, <2>4, <2>5, <2>6 DEF ForwardPut, TypeOK
<1>4. CASE ForwardEnd(p)
  <2>1. c \in Starters /\ peer[c] \in Peer
    BY <1>4 DEF ForwardEnd, ForwardNamed, TypeOK
  <2>2. Close(peer[c]) \in Peer
    BY <2>1, CloseType
  <2>3. peer' \in [Starters -> Peer]
    BY <1>4, <2>1, <2>2 DEF ForwardEnd, TypeOK
  <2>4. closes' \in Nat /\ panicked' \in BOOLEAN
    BY <1>4 DEF ForwardEnd, TypeOK
  <2>5. forward' = [forward EXCEPT ![p] = [forward[p] EXCEPT !.at = "end", !.held = 0]]
    BY <1>4 DEF ForwardEnd
  <2>6. [forward[p] EXCEPT !.at = "end", !.held = 0] \in ForwardState
    BY <1>0, ForwardSet
  <2>7. forward' \in [Starters -> ForwardState]
    BY <1>0, <2>5, <2>6
  <2>8. ForwardNamed'
    BY <1>0, <1>4, <2>5 DEF ForwardEnd, ForwardNamed, ForwardState
  <2> QED BY <1>4, <2>3, <2>4, <2>7, <2>8 DEF ForwardEnd, TypeOK
<1> QED BY <1>1, <1>2, <1>3, <1>4 DEF Forward

LEMMA PromptTypes ==
    ASSUME TypeInv, NEW p \in Starters, PromptAsk(p) \/ PromptEnd(p)
    PROVE  TypeInv'
<1> USE DEF TypeInv, runVars, consumeVars, callVars, outVars
<1>0. peer[p] \in Peer /\ [Idle EXCEPT !.at = "end"] \in PromptState
  BY DEF TypeOK, Idle, PromptState, Asking
<1>1. CASE PromptAsk(p)
  <2>1. Request(peer[p]) \in Peer /\ peer[p].nextID + 1 \in Nat
    BY <1>0, RequestType
  <2>2. peer' \in [Starters -> Peer]
    BY <1>1, <2>1 DEF PromptAsk, TypeOK
  <2>3. [at |-> "wait", to |-> p, id |-> peer[p].nextID + 1] \in PromptState
    BY <2>1 DEF PromptState, Asking
  <2>4. prompt' \in [Starters -> PromptState]
    BY <1>0, <1>1, <2>3 DEF PromptAsk, TypeOK
  <2> QED BY <1>1, <2>2, <2>4 DEF PromptAsk, TypeOK, ForwardNamed
<1>2. CASE PromptEnd(p)
  <2>1. prompt' \in [Starters -> PromptState]
    BY <1>0, <1>2 DEF PromptEnd, TypeOK
  <2> QED BY <1>2, <2>1 DEF PromptEnd, TypeOK, ForwardNamed
<1> QED BY <1>1, <1>2

LEMMA ConsumeTypes ==
    ASSUME TypeInv, NEW p \in Starters, Consume(p)
    PROVE  TypeInv'
<1> USE DEF TypeInv, runVars, startVars, consumeVars, callVars, outVars
<1>1. CASE ConsumeOutput(p)
  <2>1. /\ Head(output) \in UpdateID /\ Tail(output) \in Seq(UpdateID)
        /\ Len(Tail(output)) <= OutCap
    BY <1>1, RuntimeAssumption DEF ConsumeOutput, TypeOK
  <2>2. consumed' \in Seq(UpdateID) /\ output' \in Seq(UpdateID) /\ Len(output') <= OutCap
    BY <1>1, <2>1 DEF ConsumeOutput, TypeOK
  <2> QED BY <1>1, <2>2 DEF ConsumeOutput, TypeOK, ForwardNamed
<1>2. CASE ConsumeEnd(p)
  BY <1>2 DEF ConsumeEnd, TypeOK, ForwardNamed, RunState
<1>3. CASE ConsumeClear(p)
  BY <1>3 DEF ConsumeClear, TypeOK, ForwardNamed
<1> QED BY <1>1, <1>2, <1>3 DEF Consume

LEMMA StopTypes ==
    ASSUME TypeInv, NEW q \in Stoppers, StopBegin(q) \/ Stop(q)
    PROVE  TypeInv'
<1> USE DEF TypeInv, runVars, startVars, consumeVars, outVars
<1>0. /\ stop \in [Stoppers -> StopState] /\ stop[q] \in StopState
      /\ [Idle EXCEPT !.at = "settle"] \in StopState
      /\ \A a \in {"idle", "cancel", "agent", "wait", "settle", "done", "recovered"} :
            [stop[q] EXCEPT !.at = a] \in StopState
  BY DEF TypeOK, Idle, StopState, Asking
<1>1. CASE StopBegin(q)
  <2>1. stop' \in [Stoppers -> StopState]
    BY <1>0, <1>1 DEF StopBegin
  <2>2. status' \in RunState
    BY <1>1 DEF StopBegin, TypeOK, RunState
  <2> QED BY <1>1, <2>1, <2>2 DEF StopBegin, TypeOK, ForwardNamed
<1>2. CASE StopCancel(q)
  <2>1. stop' \in [Stoppers -> StopState]
    BY <1>0, <1>2 DEF StopCancel
  <2>2. ctxDone' \in BOOLEAN
    BY <1>2 DEF StopCancel
  <2> QED BY <1>2, <2>1, <2>2 DEF StopCancel, TypeOK, ForwardNamed
<1>3. CASE StopAgent(q)
  <2>1. CASE client = None
    <3>1. stop' \in [Stoppers -> StopState] /\ peer' = peer
      BY <1>0, <1>3, <2>1 DEF StopAgent
    <3> QED BY <1>3, <3>1 DEF StopAgent, TypeOK, ForwardNamed
  <2>2. CASE client # None
    <3>1. client \in Starters /\ peer[client] \in Peer
      BY <2>2 DEF TypeOK
    <3>2. Request(peer[client]) \in Peer /\ peer[client].nextID + 1 \in Nat
      BY <3>1, RequestType
    <3>3. peer' \in [Starters -> Peer]
      BY <1>3, <2>2, <3>1, <3>2 DEF StopAgent, TypeOK
    <3>4. [at |-> "wait", to |-> client, id |-> peer[client].nextID + 1] \in StopState
      BY <3>1, <3>2 DEF StopState, Asking
    <3>5. stop' \in [Stoppers -> StopState]
      BY <1>0, <1>3, <2>2, <3>4 DEF StopAgent
    <3> QED BY <1>3, <3>3, <3>5 DEF StopAgent, TypeOK, ForwardNamed
  <2> QED BY <2>1, <2>2
<1>4. CASE StopTorn(q)
  <2>1. stop' \in [Stoppers -> StopState]
    BY <1>0, <1>4 DEF StopTorn
  <2> QED BY <1>4, <2>1 DEF StopTorn, TypeOK, ForwardNamed
<1>5. CASE StopAnswered(q)
  <2>1. stop' \in [Stoppers -> StopState]
    BY <1>0, <1>5 DEF StopAnswered
  <2> QED BY <1>5, <2>1 DEF StopAnswered, TypeOK, ForwardNamed
<1>6. CASE StopSettle(q)
  <2>1. stop' \in [Stoppers -> StopState]
    BY <1>0, <1>6 DEF StopSettle
  <2>2. status' \in RunState
    BY <1>6 DEF StopSettle, TypeOK, RunState
  <2> QED BY <1>6, <2>1, <2>2 DEF StopSettle, TypeOK, ForwardNamed
<1> QED BY <1>1, <1>2, <1>3, <1>4, <1>5, <1>6 DEF Stop

LEMMA SendTypes ==
    ASSUME TypeInv, NEW i \in Writers, SendBegin(i) \/ Send(i) \/ SendAbandoned(i)
    PROVE  TypeInv'
<1> USE DEF TypeInv, runVars, startVars, consumeVars, outVars
<1>0. /\ send \in [Writers -> SendState] /\ send[i] \in SendState
      /\ [Idle EXCEPT !.at = "done"] \in SendState
      /\ \A a \in {"idle", "send", "wait", "done"} : [send[i] EXCEPT !.at = a] \in SendState
  BY DEF TypeOK, Idle, SendState, Asking
<1>1. CASE SendBegin(i)
  <2>1. send' \in [Writers -> SendState]
    BY <1>0, <1>1 DEF SendBegin
  <2> QED BY <1>1, <2>1 DEF SendBegin, TypeOK, ForwardNamed
<1>2. CASE SendPrompt(i)
  <2>1. CASE client = None
    <3>1. send' \in [Writers -> SendState] /\ peer' = peer
      BY <1>0, <1>2, <2>1 DEF SendPrompt
    <3> QED BY <1>2, <3>1 DEF SendPrompt, TypeOK, ForwardNamed
  <2>2. CASE client # None
    <3>1. client \in Starters /\ peer[client] \in Peer
      BY <2>2 DEF TypeOK
    <3>2. Request(peer[client]) \in Peer /\ peer[client].nextID + 1 \in Nat
      BY <3>1, RequestType
    <3>3. peer' \in [Starters -> Peer]
      BY <1>2, <2>2, <3>1, <3>2 DEF SendPrompt, TypeOK
    <3>4. [at |-> "wait", to |-> client, id |-> peer[client].nextID + 1] \in SendState
      BY <3>1, <3>2 DEF SendState, Asking
    <3>5. send' \in [Writers -> SendState]
      BY <1>0, <1>2, <2>2, <3>4 DEF SendPrompt
    <3> QED BY <1>2, <3>3, <3>5 DEF SendPrompt, TypeOK, ForwardNamed
  <2> QED BY <2>1, <2>2
<1>3. CASE SendAnswered(i) \/ SendAbandoned(i)
  <2>1. send' \in [Writers -> SendState]
    BY <1>0, <1>3 DEF SendAnswered, SendAbandoned
  <2> QED BY <1>3, <2>1 DEF SendAnswered, SendAbandoned, TypeOK, ForwardNamed
<1> QED BY <1>1, <1>2, <1>3 DEF Send

LEMMA PeerTypes ==
    ASSUME TypeInv, NEW p \in Starters, ReadPeer(p) \/ PeerBehaves(p) \/ PeerDies(p)
    PROVE  TypeInv'
<1> USE DEF TypeInv, othersThanPeer, runVars, consumeVars, callVars, outVars
<1>0. peer \in [Starters -> Peer] /\ peer[p] \in Peer
  BY DEF TypeOK
<1>1. PICK c \in Peer : peer' = [peer EXCEPT ![p] = c]
  <2>1. CASE ReadPeer(p)
    BY <1>0, <2>1, ReadType DEF ReadPeer
  <2>2. CASE PeerBehaves(p)
    BY <1>0, <2>2, BehaveType DEF PeerBehaves
  <2>3. CASE PeerDies(p)
    BY <1>0, <2>3, ExitType DEF PeerDies
  <2> QED BY <2>1, <2>2, <2>3
<1>2. peer' \in [Starters -> Peer]
  BY <1>0, <1>1
<1> QED BY <1>2 DEF ReadPeer, PeerBehaves, PeerDies, TypeOK, ForwardNamed

LEMMA TypeInit == Init => TypeInv
<1> SUFFICES ASSUME Init PROVE TypeInv
  OBVIOUS
<1> USE DEF Init
<1>1. peer \in [Starters -> Peer]
  BY SpawnType
<1>2. start \in [Starters -> StartState]
  BY DEF StartState
<1>3. 0 \in 0 .. MaxUpdates
  BY PeerAssumption
<1>4. forward \in [Starters -> ForwardState] /\ ForwardNamed
  BY <1>3 DEF ForwardState, ForwardNamed
<1>5. /\ prompt \in [Starters -> PromptState]
      /\ stop \in [Stoppers -> StopState]
      /\ send \in [Writers -> SendState]
  BY DEF PromptState, StopState, SendState, Asking, Idle
<1>6. status \in RunState /\ output \in Seq(UpdateID) /\ Len(output) <= OutCap
  BY RuntimeAssumption DEF RunState
<1> QED BY <1>1, <1>2, <1>4, <1>5, <1>6 DEF TypeInv, TypeOK

\* The steps of all of them.
LEMMA TypeStep == TypeInv /\ [Next]_vars => TypeInv'
<1> SUFFICES ASSUME TypeInv, [Next]_vars PROVE TypeInv'
  OBVIOUS
<1>1. CASE UNCHANGED vars
  BY <1>1 DEF vars, runVars, startVars, outVars, consumeVars, callVars, TypeInv, TypeOK, ForwardNamed
<1>2. CASE Next
  BY <1>2, StartTypes, ForwardTypes, PromptTypes, ConsumeTypes, StopTypes, SendTypes, PeerTypes
     DEF Next
<1> QED BY <1>1, <1>2

\* Every variable keeps its type, whatever the callers and the agents do.
THEOREM RuntimeTypes == Spec => []TypeInv
BY TypeInit, TypeStep, PTL DEF Spec

\* TypeOK holds of every run.
THEOREM RuntimeTypeOK == Spec => []TypeOK
BY RuntimeTypes, PTL DEF TypeInv

-----------------------------------------------------------------------------
(* Starts that do not overlap.                                             *)

\* One start is past its beginning; its forward alone runs, and it alone has
\* closed the output, on its way out.
OneStart ==
    \A p, q \in Starters : p # q =>
        start[p].at \in {"idle", "failed"} \/ start[q].at \in {"idle", "failed"}

ForwardStarted ==
    \A p \in Starters : forward[p].at # "none" => start[p].at \in {"stream", "done"}

CloseInv == closes # 0 => closes = 1 /\ \E p \in Starters : forward[p].at = "end"

SoleInv == OneStart /\ ForwardStarted /\ CloseInv /\ NoPanic

LEMMA StartSole ==
    ASSUME ~Overlap, TypeInv, SoleInv, NEW p \in Starters, StartBegin(p) \/ Start(p)
    PROVE  SoleInv'
<1> USE DEF SoleInv
<1>0. /\ start \in [Starters -> StartState]
      /\ forward \in [Starters -> ForwardState]
  BY DEF TypeInv, TypeOK
<1>1. \A q \in Starters \ {p} : start'[q] = start[q]
  BY <1>0 DEF StartBegin, Start, StartContext, StartPeer, StartSession, StartFails,
              StartInstall, StartStream, Goes
<1>2. closes' = closes /\ panicked' = panicked
  BY DEF StartBegin, Start, StartContext, StartPeer, StartSession, StartFails,
         StartInstall, StartStream, outVars
<1>3. OneStart'
  <2>1. \A q \in Starters \ {p} : start[q].at \in {"idle", "failed"}
    <3>1. CASE StartBegin(p)
      BY <3>1 DEF StartBegin
    <3>2. CASE Start(p)
      <4>1. start[p].at \notin {"idle", "failed"}
        BY <3>2 DEF Start, StartContext, StartPeer, StartSession, StartFails,
                    StartInstall, StartStream
      <4> QED BY <4>1 DEF OneStart
    <3> QED BY <3>1, <3>2
  <2> QED BY <1>1, <2>1 DEF OneStart
<1>4. CASE StartInstall(p)
  <2>1. /\ start[p].at = "session" /\ start'[p].at = "stream"
        /\ forward' = [forward EXCEPT ![p] = [forward[p] EXCEPT !.at = "start"]]
    BY <1>0, <1>4 DEF StartInstall, Goes, StartState
  <2>2. \A q \in Starters \ {p} : forward'[q] = forward[q]
    BY <1>0, <2>1
  <2>3. forward[p].at = "none"
    BY <2>1 DEF ForwardStarted
  <2>4. ForwardStarted'
    BY <1>1, <2>1, <2>2 DEF ForwardStarted
  <2>5. CloseInv'
    BY <1>2, <2>2, <2>3 DEF CloseInv
  <2> QED BY <1>2, <1>3, <2>4, <2>5 DEF NoPanic
<1>5. CASE ~StartInstall(p)
  <2>1. forward' = forward
    BY <1>5 DEF StartBegin, Start, StartContext, StartPeer, StartSession, StartFails, StartStream
  <2>2. start[p].at \in {"stream", "done"} => start'[p].at \in {"stream", "done"}
    BY <1>0, <1>5 DEF StartBegin, Start, StartContext, StartPeer, StartSession, StartFails,
                      StartStream, Goes, StartState
  <2>3. ForwardStarted'
    BY <1>1, <2>1, <2>2 DEF ForwardStarted
  <2> QED BY <1>2, <1>3, <2>1, <2>3 DEF CloseInv, NoPanic
<1> QED BY <1>4, <1>5

\* The output is open for the forward that moves.
LEMMA ForwardSole ==
    ASSUME TypeInv, SoleInv, NEW p \in Starters, Forward(p)
    PROVE  SoleInv'
<1> USE DEF SoleInv
<1>0. forward \in [Starters -> ForwardState] /\ forward[p].at \in {"start", "select", "put"}
  BY DEF TypeInv, TypeOK, Forward, ForwardBegin, ForwardTake, ForwardPut, ForwardEnd
<1>1. start' = start
  BY DEF Forward, ForwardBegin, ForwardTake, ForwardPut, ForwardEnd
<1>2. closes = 0
  BY <1>0 DEF OneStart, ForwardStarted, CloseInv
<1>3. ~panicked'
  <2>1. CASE panicked' = (closes > 0)
    <3>1. ~(closes > 0)
      BY <1>2
    <3> QED BY <2>1, <3>1, Zenon
  <2>2. CASE panicked' = panicked
    BY <2>2 DEF NoPanic
  <2> QED BY <2>1, <2>2 DEF Forward, ForwardBegin, ForwardTake, ForwardPut, ForwardEnd, outVars
<1>4. \A q \in Starters \ {p} : forward'[q] = forward[q]
  BY <1>0 DEF Forward, ForwardBegin, ForwardTake, ForwardPut, ForwardEnd
<1>5. ForwardStarted'
  BY <1>0, <1>1, <1>4 DEF ForwardStarted
<1>6. CloseInv'
  <2>1. CASE ForwardEnd(p)
    <3>1. closes' = 1
      BY <1>2, <2>1 DEF ForwardEnd
    <3>2. forward' = [forward EXCEPT ![p] = [[forward[p] EXCEPT !.at = "end"] EXCEPT !.held = 0]]
      BY <2>1 DEF ForwardEnd
    <3>3. forward'[p].at = "end"
      BY <1>0, <3>2 DEF ForwardState
    <3> QED BY <3>1, <3>3 DEF CloseInv
  <2>2. CASE ForwardBegin(p) \/ ForwardTake(p) \/ ForwardPut(p)
    BY <1>2, <2>2 DEF ForwardBegin, ForwardTake, ForwardPut, CloseInv, outVars
  <2> QED BY <2>1, <2>2 DEF Forward
<1> QED BY <1>1, <1>3, <1>5, <1>6 DEF OneStart, NoPanic

LEMMA SoleStep ==
    ASSUME ~Overlap, TypeInv, SoleInv, [Next]_vars
    PROVE  SoleInv'
<1>1. CASE UNCHANGED <<start, forward, closes, panicked>>
  BY <1>1 DEF SoleInv, OneStart, ForwardStarted, CloseInv, NoPanic
<1>2. CASE UNCHANGED vars
  BY <1>1, <1>2 DEF vars, startVars, outVars
<1>3. ASSUME NEW p \in Starters, PromptAsk(p) \/ PromptEnd(p) \/ Consume(p)
      PROVE  SoleInv'
  BY <1>1, <1>3 DEF PromptAsk, PromptEnd, Consume, ConsumeOutput, ConsumeEnd, ConsumeClear,
                    startVars, outVars
<1>4. ASSUME NEW p \in Starters, ReadPeer(p) \/ PeerBehaves(p) \/ PeerDies(p)
      PROVE  SoleInv'
  BY <1>1, <1>4 DEF ReadPeer, PeerBehaves, PeerDies, othersThanPeer, outVars
<1>5. ASSUME NEW q \in Stoppers, StopBegin(q) \/ Stop(q)
      PROVE  SoleInv'
  BY <1>1, <1>5 DEF StopBegin, Stop, StopCancel, StopAgent, StopTorn, StopAnswered, StopSettle,
                    startVars, outVars
<1>6. ASSUME NEW i \in Writers, SendBegin(i) \/ Send(i) \/ SendAbandoned(i)
      PROVE  SoleInv'
  BY <1>1, <1>6 DEF SendBegin, Send, SendPrompt, SendAnswered, SendAbandoned, startVars, outVars
<1> QED BY <1>2, <1>3, <1>4, <1>5, <1>6, StartSole, ForwardSole DEF Next

LEMMA SoleHolds == ASSUME ~Overlap PROVE Spec => []SoleInv
<1>1. Init => SoleInv
  BY DEF Init, SoleInv, OneStart, ForwardStarted, CloseInv, NoPanic
<1>2. TypeInv /\ SoleInv /\ [Next]_vars => SoleInv'
  BY SoleStep
<1> QED BY <1>1, <1>2, RuntimeTypes, PTL DEF Spec

\* When no client starts the run a second time before the first start has
\* failed, the output channel is closed at most once and never written
\* afterwards, so the gateway does not panic.
THEOREM RuntimeNoPanic == ASSUME ~Overlap PROVE Spec => []NoPanic
BY SoleHolds, PTL DEF SoleInv

\* Under the same condition the run has one peer, which the run
\* acp_two_starts refutes without it.
THEOREM RuntimeOnePeer == ASSUME ~Overlap PROVE Spec => []OnePeerPerRun
<1>1. SoleInv => OnePeerPerRun
  BY DEF SoleInv, OneStart, OnePeerPerRun
<1> QED BY <1>1, SoleHolds, PTL

-----------------------------------------------------------------------------
(* Updates in transit.                                                     *)

\* The update that forward holds.
Held(p) == IF forward[p].at = "put" THEN <<forward[p].held>> ELSE <<>>

\* What the run has of the updates of peer p in front of its notifications:
\* everything, for the client, and nothing for any other.
Front(p) == IF p = client THEN consumed \o output \o Held(p) ELSE <<>>

\* The inductive invariant: also the peers that are not the run's client keep
\* their updates, for one of them becomes the client.
TransitInv ==
    /\ \A p \in Starters : Ordered(peer[p])
    /\ client # None => start[client].at \in {"stream", "done"}
    /\ client = None => output = <<>> /\ consumed = <<>>
    /\ \A p \in Starters : forward[p].at \in {"select", "put"} => forward[p].to = client
    /\ ~ctxDone => \A p \in Starters : Whole(Front(p) \o peer[p].notes, peer[p])

\* What has been passed on is a sequence of updates.
LEMMA FrontType ==
    ASSUME TypeInv, NEW p \in Starters
    PROVE  /\ consumed \o output \in Seq(UpdateID) /\ Held(p) \in Seq(UpdateID)
           /\ Front(p) \in Seq(UpdateID)
<1>1. consumed \in Seq(UpdateID) /\ output \in Seq(UpdateID)
  BY DEF TypeInv, TypeOK
<1>2. consumed \o output \in Seq(UpdateID)
  BY <1>1, ConcatProperties
<1>3. Held(p) \in Seq(UpdateID)
  BY EmptySeq DEF TypeInv, ForwardNamed, Held
<1>4. consumed \o output \o Held(p) \in Seq(UpdateID)
  BY <1>2, <1>3, ConcatProperties
<1> QED BY <1>2, <1>3, <1>4, EmptySeq DEF Front

\* The forward that is at work is the client's.
LEMMA ForwardOfClient ==
    ASSUME TypeInv, SoleInv, TransitInv, NEW p \in Starters, forward[p].at # "none"
    PROVE  p = client
<1>1. client \in Starters /\ client # None
  BY RuntimeAssumption DEF TypeInv, ForwardNamed
<1>2. start[client].at \in {"stream", "done"} /\ start[p].at \in {"stream", "done"}
  BY <1>1 DEF TransitInv, SoleInv, ForwardStarted
<1> QED BY <1>1, <1>2 DEF SoleInv, OneStart

\* A step of the peers alone.
LEMMA PeersFollow ==
    ASSUME TypeInv, TypeInv', TransitInv,
           \A p \in Starters : peer'[p] = peer[p] \/ Follows(peer[p], peer'[p]),
           client' = client, forward' = forward, output' = output, consumed' = consumed,
           start' = start \/ (client # None => start'[client].at \in {"stream", "done"}),
           ctxDone => ctxDone'
    PROVE  TransitInv'
<1>1. \A p \in Starters : Ordered(peer'[p])
  BY DEF TransitInv, Follows
<1>2. ASSUME ~ctxDone', NEW p \in Starters
      PROVE  (Whole(Front(p) \o peer[p].notes, peer[p]))'
  <2>1. Front(p)' = Front(p) /\ Front(p) \in Seq(UpdateID)
    BY FrontType DEF Front, Held
  <2>2. Whole(Front(p) \o peer[p].notes, peer[p]) /\ Ordered(peer[p])
    BY <1>2 DEF TransitInv
  <2>3. peer[p] \in Peer /\ peer'[p] \in Peer
    BY DEF TypeInv, TypeOK
  <2>4. Whole(Front(p) \o peer'[p].notes, peer'[p])
    BY <2>1, <2>2, <2>3, WholeFollows
  <2> QED BY <2>1, <2>4
<1> QED BY <1>1, <1>2 DEF TransitInv

\* The steps of a start.
LEMMA StartTransit ==
    ASSUME ~Overlap, TypeInv, TypeInv', SoleInv, TransitInv, NEW p \in Starters,
           StartBegin(p) \/ Start(p)
    PROVE  TransitInv'
<1>0. /\ start \in [Starters -> StartState] /\ peer \in [Starters -> Peer]
      /\ forward \in [Starters -> ForwardState] /\ peer[p] \in Peer
      /\ client \in Starters \cup {None} /\ Ordered(peer[p])
  BY DEF TypeInv, TypeOK, TransitInv
<1>1. start[p].at # "stream" => start[p].at # "done"
  BY DEF StartBegin, Start, StartContext, StartPeer, StartSession, StartFails, StartInstall,
         StartStream
<1>2. \A q \in Starters \ {p} : start'[q] = start[q]
  BY <1>0 DEF StartBegin, Start, StartContext, StartPeer, StartSession, StartFails,
              StartInstall, StartStream, Goes
<1>3. start[p].at # "stream" => p # client
  BY <1>0, <1>1, RuntimeAssumption DEF TransitInv
<1>4. ASSUME start[p].at # "stream" \/ start'[p].at = "done"
      PROVE  client # None => start'[client].at \in {"stream", "done"}
  BY <1>0, <1>2, <1>3, <1>4 DEF TransitInv
<1>5. CASE StartBegin(p) \/ StartContext(p) \/ StartStream(p)
  <2>1. UNCHANGED <<ctxDone, peer, client, forward, output, consumed>>
    BY <1>5 DEF StartBegin, StartContext, StartStream, runVars, outVars, consumeVars
  <2>2. start[p].at # "stream" \/ start'[p].at = "done"
    BY <1>0, <1>5 DEF StartBegin, StartContext, StartStream, Goes, StartState
  <2> QED BY <1>4, <2>1, <2>2, PeersFollow
<1>6. CASE StartSession(p) \/ StartFails(p)
  <2>1. /\ UNCHANGED <<ctxDone, client, forward, output, consumed>>
        /\ start[p].at # "stream"
        /\ \/ peer' = [peer EXCEPT ![p] = Request(peer[p])]
           \/ peer' = [peer EXCEPT ![p] = Close(peer[p])]
    BY <1>6 DEF StartSession, StartFails, runVars, outVars, consumeVars
  <2>2. Follows(peer[p], Request(peer[p])) /\ Follows(peer[p], Close(peer[p]))
    BY <1>0, QuietOrder
  <2>3. \A q \in Starters : peer'[q] = peer[q] \/ Follows(peer[q], peer'[q])
    BY <1>0, <2>1, <2>2
  <2> QED BY <1>4, <2>1, <2>3, PeersFollow
<1>7. CASE StartPeer(p)
  <2>1. /\ UNCHANGED <<ctxDone, client, forward, output, consumed>>
        /\ start[p].at # "stream"
        /\ peer' = [peer EXCEPT ![p] = Request(Spawned)] \/ peer' = peer
    BY <1>7 DEF StartPeer, runVars, outVars, consumeVars
  <2>2. CASE peer' = peer
    BY <1>4, <2>1, <2>2, PeersFollow
  <2>3. CASE peer' = [peer EXCEPT ![p] = Request(Spawned)]
    <3> DEFINE d == Request(Spawned)
    <3>1. Ordered(d) /\ d.notes = <<>> /\ d.read = 0 /\ d.dropped = {}
      <4>1. /\ Spawned \in Peer /\ Ordered(Spawned)
            /\ Spawned.notes = <<>> /\ Spawned.read = 0 /\ Spawned.dropped = {}
        BY SpawnType, SpawnOrder DEF Spawned, NoPeer
      <4>2. Ordered(Request(Spawned))
        BY <4>1, QuietOrder DEF Follows
      <4>3. \A c \in Peer : SameUpdates(c, Request(c))
        BY DEF Request, Peer, SameUpdates
      <4> QED BY <4>1, <4>2, <4>3 DEF SameUpdates
    <3>2. Whole(<<>> \o d.notes, d)
      <4>1. <<>> \o d.notes = <<>> /\ 1 .. 0 = {}
        BY <3>1, ConcatEmptySeq, EmptySeq
      <4> QED BY <3>1, <4>1 DEF Whole
    <3> HIDE DEF d
    <3>3. \A q \in Starters : peer'[q] = IF q = p THEN d ELSE peer[q]
      BY <1>0, <2>3 DEF d
    <3>4. \A q \in Starters : Ordered(peer'[q])
      BY <3>1, <3>3 DEF TransitInv
    <3>5. \A q \in Starters : Front(q)' = Front(q)
      BY <2>1 DEF Front, Held
    <3>6. Front(p) = <<>>
      BY <1>3, <2>1 DEF Front
    <3>7. ASSUME ~ctxDone, NEW q \in Starters
          PROVE  Whole(Front(q)' \o peer'[q].notes, peer'[q])
      <4>1. CASE q = p
        BY <3>2, <3>3, <3>5, <3>6, <4>1
      <4>2. CASE q # p
        BY <3>3, <3>5, <3>7, <4>2 DEF TransitInv
      <4> QED BY <4>1, <4>2
    <3>8. client # None => start'[client].at \in {"stream", "done"}
      BY <1>4, <2>1
    <3> QED BY <2>1, <3>4, <3>7, <3>8 DEF TransitInv
  <2> QED BY <2>1, <2>2, <2>3
<1>8. CASE StartInstall(p)
  <2>1. /\ UNCHANGED <<ctxDone, peer, output, consumed>>
        /\ client' = p /\ start[p].at = "session" /\ start'[p].at = "stream"
        /\ forward' = [forward EXCEPT ![p] = [forward[p] EXCEPT !.at = "start"]]
    BY <1>0, <1>8 DEF StartInstall, runVars, outVars, consumeVars, Goes, StartState
  <2>2. client = None
    <3> SUFFICES ASSUME client # None PROVE FALSE
      OBVIOUS
    <3>1. client \in Starters /\ start[client].at \in {"stream", "done"}
      BY <1>0 DEF TransitInv
    <3> QED BY <2>1, <3>1 DEF SoleInv, OneStart
  <2>3. output = <<>> /\ consumed = <<>>
    BY <2>2 DEF TransitInv
  <2>4. /\ \A q \in Starters \ {p} : forward'[q] = forward[q]
        /\ forward'[p].at = "start"
    BY <1>0, <2>1 DEF ForwardState
  <2>5. \A q \in Starters : forward[q].at = "none"
    BY <1>0, <2>2, RuntimeAssumption DEF TypeInv, ForwardNamed
  <2>6. \A q \in Starters : Front(q) = <<>> /\ Front(q)' = <<>>
    <3>1. <<>> \o <<>> \o <<>> = <<>>
      OBVIOUS
    <3>2. Held(p)' = <<>>
      BY <2>4 DEF Held
    <3> QED BY <2>1, <2>2, <2>3, <3>1, <3>2, RuntimeAssumption DEF Front
  <2>7. \A q \in Starters : forward'[q].at \notin {"select", "put"}
    BY <2>4, <2>5
  <2>8. client' # None /\ start'[client'].at \in {"stream", "done"}
    BY <2>1, RuntimeAssumption
  <2> QED BY <2>1, <2>6, <2>7, <2>8 DEF TransitInv
<1> QED BY <1>5, <1>6, <1>7, <1>8 DEF Start

\* forward carries an update from the notifications to the output.
LEMMA ForwardTransit ==
    ASSUME TypeInv, TypeInv', SoleInv, TransitInv, NEW p \in Starters, Forward(p)
    PROVE  TransitInv'
<1>0. /\ peer \in [Starters -> Peer] /\ forward \in [Starters -> ForwardState]
      /\ consumed \in Seq(UpdateID) /\ output \in Seq(UpdateID)
  BY DEF TypeInv, TypeOK
<1>1. forward[p].at # "none"
  BY DEF Forward, ForwardBegin, ForwardTake, ForwardPut, ForwardEnd
<1>2. p = client /\ client # None
  BY <1>1, ForwardOfClient, RuntimeAssumption
<1>3. UNCHANGED <<ctxDone, client, start, consumed>>
  BY DEF Forward, ForwardBegin, ForwardTake, ForwardPut, ForwardEnd, runVars, consumeVars
<1>4. /\ \A q \in Starters \ {p} : forward'[q] = forward[q]
      /\ forward'[p].at \in {"select", "put"} => forward'[p].to = p
  BY <1>0, <1>2 DEF Forward, ForwardBegin, ForwardTake, ForwardPut, ForwardEnd, ForwardState,
     TransitInv
<1>5. forward[p].at \in {"select", "put"} => forward[p].to = p
  BY <1>2 DEF TransitInv
<1>6. \A q \in Starters : forward'[q].at \in {"select", "put"} => forward'[q].to = client'
  BY <1>2, <1>3, <1>4 DEF TransitInv
<1>7. \A q \in Starters \ {p} : Front(q)' = Front(q) /\ peer'[q] = peer[q]
  <2>1. \A q \in Starters \ {p} : Front(q)' = Front(q)
    BY <1>2, <1>3 DEF Front
  <2>2. \A q \in Starters \ {p} : peer'[q] = peer[q]
    BY <1>0, <1>5 DEF Forward, ForwardBegin, ForwardTake, ForwardPut, ForwardEnd
  <2> QED BY <2>1, <2>2
<1>8. ASSUME Ordered(peer'[p]),
             ~ctxDone => Whole(Front(p)' \o peer'[p].notes, peer'[p])
      PROVE  TransitInv'
  <2>1. \A q \in Starters : Ordered(peer'[q])
    BY <1>7, <1>8 DEF TransitInv
  <2>2. ~ctxDone => \A q \in Starters : Whole(Front(q)' \o peer'[q].notes, peer'[q])
    BY <1>7, <1>8 DEF TransitInv
  <2> QED BY <1>2, <1>3, <1>6, <2>1, <2>2 DEF TransitInv
<1>9. Ordered(peer[p]) /\ (~ctxDone => Whole(Front(p) \o peer[p].notes, peer[p]))
  BY DEF TransitInv
<1> DEFINE base == consumed \o output
<1>10. /\ base \in Seq(UpdateID) /\ Front(p) = base \o Held(p) /\ Held(p) \in Seq(UpdateID)
       /\ Front(p)' = (base \o Held(p))'
  BY <1>2, <1>3, FrontType DEF Front
<1> HIDE DEF base
<1>11. CASE ForwardBegin(p)
  <2>1. Held(p) = <<>> /\ Held(p)' = <<>> /\ peer' = peer /\ output' = output
    BY <1>0, <1>11 DEF ForwardBegin, Held, ForwardState, outVars
  <2> QED BY <1>3, <1>8, <1>9, <1>10, <2>1 DEF base
<1>12. CASE ForwardTake(p)
  <2>1. /\ peer[p].notes # <<>> /\ forward[p].at = "select" /\ output' = output
        /\ peer' = [peer EXCEPT ![p] = TakeNote(peer[p])]
        /\ forward' = [forward EXCEPT ![p] =
              [forward[p] EXCEPT !.at = "put", !.held = Head(peer[p].notes)]]
    BY <1>5, <1>12 DEF ForwardTake, outVars
  <2>2. /\ Held(p) = <<>> /\ Held(p)' = <<Head(peer[p].notes)>> /\ peer'[p] = TakeNote(peer[p])
    BY <1>0, <2>1 DEF Held, ForwardState
  <2>3. /\ Ordered(peer'[p]) /\ peer'[p].read = peer[p].read
        /\ peer'[p].dropped = peer[p].dropped /\ peer'[p].notes = Tail(peer[p].notes)
    BY <1>0, <1>9, <2>2, QuietOrder
  <2>4. Front(p)' \o peer'[p].notes = Front(p) \o peer[p].notes
    <3> DEFINE n == peer[p].notes
    <3>1. n \in Seq(UpdateID) /\ n # <<>>
      BY <1>0, <2>1 DEF Peer
    <3> HIDE DEF n
    <3>2. /\ Head(n) \in UpdateID /\ Tail(n) \in Seq(UpdateID) /\ <<Head(n)>> \in Seq(UpdateID)
      BY <3>1
    <3>3. <<Head(n)>> \o Tail(n) = n
      BY <3>1
    <3>4. base \o <<Head(n)>> \o Tail(n) = base \o n
      BY <1>10, <3>2, <3>3, ConcatAssociative
    <3>5. base \o <<>> = base
      BY <1>10, ConcatEmptySeq
    <3> QED BY <1>3, <1>10, <2>1, <2>2, <2>3, <3>4, <3>5 DEF n, base
  <2> QED BY <1>8, <1>9, <2>3, <2>4 DEF Whole
<1>13. CASE ForwardPut(p)
  <2>1. closes = 0
    BY <1>13 DEF SoleInv, OneStart, ForwardStarted, CloseInv, ForwardPut
  <2>2. /\ forward[p].at = "put" /\ output' = Append(output, forward[p].held) /\ peer' = peer
        /\ forward' = [forward EXCEPT ![p] = [forward[p] EXCEPT !.at = "select", !.held = 0]]
    <3>1. /\ forward[p].at = "put" /\ peer' = peer
          /\ output' = IF closes > 0 THEN output ELSE Append(output, forward[p].held)
          /\ forward' = [forward EXCEPT ![p].at = "select", ![p].held = 0]
      BY <1>13, Zenon DEF ForwardPut
    <3>2. ~(closes > 0)
      BY <2>1
    <3> QED BY <3>1, <3>2
  <2>3. Held(p) = <<forward[p].held>> /\ Held(p)' = <<>> /\ forward[p].held \in UpdateID
    BY <1>0, <2>2 DEF Held, ForwardState, TypeInv, ForwardNamed
  <2>4. Front(p)' = Front(p)
    <3> DEFINE h == forward[p].held
    <3>1. h \in UpdateID /\ <<h>> \in Seq(UpdateID)
      BY <2>3
    <3> HIDE DEF h
    <3>2. Append(output, h) = output \o <<h>> /\ Append(output, h) \in Seq(UpdateID)
      BY <1>0, <3>1, AppendIsConcat, AppendProperties
    <3>3. consumed \o Append(output, h) = base \o <<h>>
      BY <1>0, <3>1, <3>2, ConcatAssociative DEF base
    <3>4. (base \o <<h>>) \o <<>> = base \o <<h>>
      BY <1>10, <3>1, ConcatProperties, ConcatEmptySeq
    <3> QED BY <1>3, <1>10, <2>2, <2>3, <3>3, <3>4 DEF h, base
  <2> QED BY <1>8, <1>9, <2>2, <2>4
<1>14. CASE ForwardEnd(p)
  <2>1. /\ peer' = [peer EXCEPT ![p] = Close(peer[p])] /\ output' = output
        /\ forward' = [forward EXCEPT ![p] = [forward[p] EXCEPT !.at = "end", !.held = 0]]
        /\ ~ctxDone => forward[p].at = "select"
    BY <1>5, <1>14 DEF ForwardEnd, Done
  <2>2. /\ Held(p)' = <<>> /\ (~ctxDone => Held(p) = <<>>) /\ peer'[p] = Close(peer[p])
    BY <1>0, <2>1 DEF Held, ForwardState
  <2>3. Follows(peer[p], peer'[p]) /\ peer'[p].notes = peer[p].notes
        /\ peer'[p].read = peer[p].read /\ peer'[p].dropped = peer[p].dropped
    <3>1. peer[p] \in Peer /\ Follows(peer[p], Close(peer[p]))
      BY <1>0, <1>9, QuietOrder
    <3>2. \A c \in Peer : SameUpdates(c, Close(c))
      BY DEF Close, Peer, SameUpdates
    <3> QED BY <2>2, <3>1, <3>2 DEF SameUpdates
  <2>4. ~ctxDone => Front(p)' = Front(p)
    BY <1>3, <1>10, <2>1, <2>2 DEF base
  <2> QED BY <1>8, <1>9, <2>3, <2>4 DEF Whole, Follows
<1> QED BY <1>11, <1>12, <1>13, <1>14 DEF Forward

\* consume moves an update from the output to what it has received.
LEMMA ConsumeTransit ==
    ASSUME TypeInv, TypeInv', TransitInv, NEW p \in Starters, Consume(p)
    PROVE  TransitInv'
<1>1. CASE ConsumeOutput(p)
  <2>1. /\ output # <<>> /\ output' = Tail(output) /\ consumed' = Append(consumed, Head(output))
        /\ UNCHANGED <<ctxDone, peer, client, forward, start>>
    BY <1>1 DEF ConsumeOutput, runVars, startVars
  <2>2. consumed \in Seq(UpdateID) /\ output \in Seq(UpdateID)
    BY DEF TypeInv, TypeOK
  <2>3. consumed' \o output' = consumed \o output
    <3> DEFINE h == Head(output)
    <3>1. h \in UpdateID /\ Tail(output) \in Seq(UpdateID) /\ <<h>> \in Seq(UpdateID)
      BY <2>1, <2>2
    <3>2. <<h>> \o Tail(output) = output
      BY <2>1, <2>2
    <3> HIDE DEF h
    <3>3. Append(consumed, h) = consumed \o <<h>>
      BY <2>2, <3>1, AppendIsConcat
    <3>4. (consumed \o <<h>>) \o Tail(output) = consumed \o output
      BY <2>2, <3>1, <3>2, ConcatAssociative
    <3> QED BY <2>1, <3>3, <3>4 DEF h
  <2>4. \A q \in Starters : Front(q)' = Front(q)
    BY <2>1, <2>3 DEF Front, Held
  <2>5. client # None
    BY <2>1 DEF TransitInv
  <2> QED BY <2>1, <2>4, <2>5 DEF TransitInv
<1>2. CASE ConsumeEnd(p) \/ ConsumeClear(p)
  <2>1. UNCHANGED <<peer, client, forward, start, output, consumed>> /\ (ctxDone => ctxDone')
    BY <1>2 DEF ConsumeEnd, ConsumeClear, startVars, outVars
  <2> QED BY <2>1, PeersFollow
<1> QED BY <1>1, <1>2 DEF Consume

\* Stop, Input and the first prompt send requests and no more.
LEMMA CallTransit ==
    ASSUME TypeInv, TypeInv', TransitInv,
           \/ \E q \in Stoppers : StopBegin(q) \/ Stop(q)
           \/ \E i \in Writers : SendBegin(i) \/ Send(i) \/ SendAbandoned(i)
           \/ \E p \in Starters : PromptAsk(p) \/ PromptEnd(p)
    PROVE  TransitInv'
<1>1. peer \in [Starters -> Peer] /\ \A p \in Starters : peer[p] \in Peer /\ Ordered(peer[p])
  BY DEF TypeInv, TypeOK, TransitInv
<1>2. UNCHANGED <<client, forward, start, output, consumed>>
  BY DEF StopBegin, Stop, StopCancel, StopAgent, StopTorn, StopAnswered, StopSettle,
         SendBegin, Send, SendPrompt, SendAnswered, SendAbandoned, PromptAsk, PromptEnd,
         startVars, outVars, consumeVars
<1>6. ctxDone => ctxDone'
  <2>1. \A q \in Stoppers : StopCancel(q) => (ctxDone => ctxDone')
    BY Zenon DEF StopCancel
  <2> QED BY <2>1 DEF StopBegin, Stop, StopAgent, StopTorn, StopAnswered, StopSettle,
         SendBegin, Send, SendPrompt, SendAnswered, SendAbandoned, PromptAsk, PromptEnd, runVars
<1>3. peer' = peer \/ \E p : peer' = [peer EXCEPT ![p] = Request(peer[p])]
  <2> DEFINE Goal == peer' = peer \/ \E p : peer' = [peer EXCEPT ![p] = Request(peer[p])]
  <2>1. ASSUME NEW q \in Stoppers, StopBegin(q) \/ Stop(q)
        PROVE  Goal
    <3>1. StopAgent(q) => peer' = peer \/ peer' = [peer EXCEPT ![client] = Request(peer[client])]
      BY DEF StopAgent
    <3> QED BY <2>1, <3>1 DEF StopBegin, Stop, StopCancel, StopTorn, StopAnswered, StopSettle,
                              startVars
  <2>2. ASSUME NEW i \in Writers, SendBegin(i) \/ Send(i) \/ SendAbandoned(i)
        PROVE  Goal
    <3>1. SendPrompt(i) => peer' = peer \/ peer' = [peer EXCEPT ![client] = Request(peer[client])]
      BY DEF SendPrompt
    <3> QED BY <2>2, <3>1 DEF SendBegin, Send, SendAnswered, SendAbandoned, startVars
  <2>3. ASSUME NEW p \in Starters, PromptAsk(p) \/ PromptEnd(p)
        PROVE  Goal
    BY <2>3 DEF PromptAsk, PromptEnd
  <2> QED BY <2>1, <2>2, <2>3
<1>4. \A p \in Starters : Follows(peer[p], Request(peer[p]))
  BY <1>1, QuietOrder
<1>5. \A p \in Starters : peer'[p] = peer[p] \/ Follows(peer[p], peer'[p])
  BY <1>1, <1>3, <1>4
<1> QED BY <1>2, <1>5, <1>6, PeersFollow

\* A peer that reads, writes or dies.
LEMMA PeerTransit ==
    ASSUME TypeInv, TypeInv', TransitInv, NEW p \in Starters,
           ReadPeer(p) \/ PeerBehaves(p) \/ PeerDies(p)
    PROVE  TransitInv'
<1>1. peer \in [Starters -> Peer] /\ peer[p] \in Peer /\ Ordered(peer[p])
  BY DEF TypeInv, TypeOK, TransitInv
<1>2. UNCHANGED <<ctxDone, client, forward, start, output, consumed>>
  BY DEF ReadPeer, PeerBehaves, PeerDies, othersThanPeer, runVars, outVars, consumeVars
<1>3. \E d : Follows(peer[p], d) /\ peer' = [peer EXCEPT ![p] = d]
  <2>1. CASE ReadPeer(p)
    BY <1>1, <2>1, ReadOrder DEF ReadPeer
  <2>2. CASE PeerBehaves(p)
    BY <1>1, <2>2, BehaveOrder DEF PeerBehaves
  <2>3. CASE PeerDies(p)
    BY <1>1, <2>3, QuietOrder DEF PeerDies
  <2> QED BY <2>1, <2>2, <2>3
<1>4. \A q \in Starters : peer'[q] = peer[q] \/ Follows(peer[q], peer'[q])
  BY <1>1, <1>3
<1> QED BY <1>2, <1>4, PeersFollow

\* No peer has an update at first.
LEMMA TransitInit == Init => TransitInv
<1> SUFFICES ASSUME Init PROVE TransitInv
  OBVIOUS
<1>1. /\ client = None /\ output = <<>> /\ consumed = <<>>
      /\ \A p \in Starters : peer[p] = NoPeer /\ forward[p].at = "none"
  BY DEF Init
<1>2. \A p \in Starters : Front(p) = <<>>
  BY <1>1, RuntimeAssumption DEF Front
<1>3. Whole(<<>> \o NoPeer.notes, NoPeer)
  <2>1. <<>> \o NoPeer.notes = <<>> /\ NoPeer.read = 0 /\ NoPeer.dropped = {} /\ 1 .. 0 = {}
    BY DEF NoPeer
  <2> QED BY <2>1 DEF Whole
<1> QED BY <1>1, <1>2, <1>3, SpawnOrder DEF TransitInv

\* When no client starts the run a second time before the first start has
\* failed, every update that read has seen is dropped for want of room, or on
\* its way, or received, once and in the order of the agent, also when an
\* earlier start had failed.
THEOREM RuntimeUpdatesInTransit == ASSUME ~Overlap PROVE Spec => []UpdatesInTransit
<1>1. ASSUME TypeInv, SoleInv, TransitInv, [Next]_vars
      PROVE  TransitInv'
  <2>1. TypeInv'
    BY <1>1, TypeStep
  <2>2. CASE UNCHANGED vars
    BY <1>1, <2>1, <2>2, PeersFollow DEF vars, runVars, startVars, outVars, consumeVars
  <2>3. CASE Next
    BY <1>1, <2>1, <2>3, StartTransit, ForwardTransit, ConsumeTransit, CallTransit, PeerTransit
       DEF Next
  <2> QED BY <1>1, <2>2, <2>3
<1>2. TypeInv /\ TransitInv => UpdatesInTransit
  <2> SUFFICES ASSUME TypeInv, TransitInv, client # None, ~ctxDone
               PROVE  LET way == consumed \o output \o Held(client) \o peer[client].notes
                      IN  Whole(way, peer[client])
    BY DEF UpdatesInTransit, Whole, Held
  <2>1. client \in Starters
    BY DEF TypeInv, TypeOK
  <2> QED BY <2>1 DEF TransitInv, Front
<1> QED BY <1>1, <1>2, RuntimeTypes, SoleHolds, TransitInit, PTL DEF Spec

=============================================================================
