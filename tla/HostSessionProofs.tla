--------------------------- MODULE HostSessionProofs ---------------------------
(***************************************************************************)
(* What the handlers of one local chat keep, for any number of prompts,    *)
(* cancels and restarts, any agent and any saves that fail.                *)
(*                                                                         *)
(* One inductive invariant, SessionInv, carries all of it.  Where a        *)
(* handler is says who holds sessionMu (Stage), which is why one input at  *)
(* most is open.  The file and the copies on their way to it are initial   *)
(* parts of the conversation (FileInv): the copy a new session starts from *)
(* is still all of it when the session goes into the map, because nobody   *)
(* can use a session meanwhile.  And every prompt has its own account of   *)
(* what it has said (Account), which no other handler touches.             *)
(***************************************************************************)
EXTENDS HostSession, ACPPeerProofs, SequenceTheorems

-----------------------------------------------------------------------------
(* The inductive invariant, and what the steps of a handler do to it.      *)

\* saveConfig runs in handler c.
Saving(c) == call[c].at \in {"save", "open", "write"}

\* Handler c holds sessionMu and talks to the process it has started.
Shaking(c) == call[c].at \in {"initialize", "resume", "new", "install"}

\* Handler c is on its way to a new session: from the look into the map to its entry there.
Opening(c) == Shaking(c) \/ call[c].at = "factory"

\* Handler c saves the entry of the session it has just put into the map.
Installing(c) == Saving(c) /\ call[c].then = "message"

\* Handler c has a session and works with it.
Using(c) ==
    \/ call[c].at \in {"message", "lock", "ask", "wait", "drain", "gather", "outputs", "failed",
                       "cancel", "settle"}
    \/ Saving(c) /\ call[c].then # "message"

\* The map has a session and nobody holds sessionMu.
Settled == session # None /\ mu = None

\* Where handler c is says who holds sessionMu and whose session the map has: the
\* mutex is held until the new session is saved, so nobody uses it before.
Stage(c) ==
    /\ Opening(c) => c \in Prompts /\ mu = c /\ session = None
    /\ Installing(c) => c \in Prompts /\ mu = c /\ session = c
    /\ Using(c) => Settled

\* The control of the handlers: a collector needs a session, an open input belongs to
\* the session in the map or to the one whose handshake holds the mutex, and a session in
\* the map has its entry in the configuration.
Control ==
    /\ \A c \in Calls : Stage(c)
    /\ \A c \in Prompts : collector[c] = "run" => Settled
    /\ \A p \in Prompts : peer[p].stdin = "open" => p = session \/ Shaking(p)
    /\ session # None => chat.known

\* s is an initial part of t (IsPrefix, without the cut it takes from t).
Prefix(s, t) == Len(s) <= Len(t) /\ \A i \in 1 .. Len(s) : s[i] = t[i]

\* The file and every copy on its way there are initial parts of the conversation, and
\* the copy a new session starts from is all of it.
FileInv ==
    /\ file.kind = "whole" => Prefix(file.chat.messages, chat.messages)
    /\ \A c \in Calls : call[c].at \in {"open", "write"} => Prefix(call[c].copy.messages, chat.messages)
    /\ \A c \in Calls : Opening(c) => call[c].copy.messages = chat.messages

\* Prompt c has not put its message into the chat.
Early(c) ==
    \/ call[c].at \in {"idle", "sessions", "message"}
    \/ Opening(c) \/ Installing(c)

\* The message is there, and none of the outputs.
Asking(c) ==
    \/ call[c].at \in {"lock", "ask", "wait", "drain", "gather"}
    \/ Saving(c) /\ call[c].then = "lock"

\* The answer has come: its outputs go into the chat one by one.
Telling(c) ==
    \/ call[c].at \in {"outputs", "failed"}
    \/ Saving(c) /\ call[c].then = "outputs"

\* The status is set, and nothing more will be said.
Ending(c) ==
    \/ call[c].at = "done"
    \/ Saving(c) /\ call[c].then = "done"

\* What prompt c has in the chat, as far as it has come: nothing, the prompt, the first
\* kept outputs, in the end all of them.
Account(c) ==
    /\ Early(c) => call[c].kept = 0 /\ \A i \in DOMAIN chat.messages : chat.messages[i].by # c
    /\ Asking(c) => call[c].kept = 0
    /\ Asking(c) \/ Telling(c) => call[c].kept <= Len(call[c].outputs) /\ Holds(c, call[c].kept)
    /\ call[c].at = "failed" => ~call[c].ok
    /\ Ending(c) /\ call[c].ok => call[c].kept = Len(call[c].outputs) /\ Holds(c, call[c].kept)

\* A running chat has a prompt that still answers for its status.
Running ==
    ~SaveFails /\ chat.status = "running" => chat.known /\ \E c \in Prompts : Asking(c) \/ Telling(c)

\* The inductive invariant.  After a restart the chat is read from the file, which may lag
\* behind, so the accounts hold of the first process only.
SessionInv ==
    /\ TypeOK /\ Control /\ FileInv
    /\ restarts = 0 => Running /\ \A c \in Prompts : Account(c)
-----------------------------------------------------------------------------

\* Where a handler may be.
Labels ==
    {"idle", "sessions", "factory", "initialize", "resume", "new", "install", "message",
     "lock", "ask", "wait", "drain", "gather", "outputs", "failed", "cancel", "settle",
     "save", "open", "write", "done"}

\* What may follow the write of the file.
Thens == {"message", "lock", "outputs", "done"}

\* No handler but c moves.
Others(c) == \A d \in Calls \ {c} : call'[d] = call[d]

\* The outputs of handler c, and how many of them are in the chat, stay.
SameOut(c) == call'[c].outputs = call[c].outputs /\ call'[c].kept = call[c].kept
\* Handler c is at a, and what follows its save is next.
Moves(c, a, next) ==
    /\ call' \in [Calls -> Handler] /\ Others(c)
    /\ call'[c].at = a /\ call'[c].then = next

\* The handlers that the module resets are well-typed.
LEMMA IdleType == IdleCall \in Handler /\ NoChat \in Chat /\ [IdleCall EXCEPT !.at = "done"] \in Handler
<1>1. NoChat \in Chat
  BY DEF NoChat, Chat
<1>2. IdleCall \in Handler
  <2>1. << >> \in Seq(UpdateID)
    OBVIOUS
  <2> HIDE DEF NoChat
  <2> QED BY <1>1, <2>1 DEF IdleCall, Handler
<1> QED BY <1>1, <1>2 DEF Handler

\* Handler c becomes h.
LEMMA CallSet ==
    ASSUME TypeOK, NEW c \in Calls, NEW h \in Handler, call' = [call EXCEPT ![c] = h]
    PROVE  call' \in [Calls -> Handler] /\ Others(c) /\ call'[c] = h
BY DEF TypeOK, Others

\* The handler moves on, and nothing else of it changes.
LEMMA GoesFacts ==
    ASSUME TypeOK, NEW c \in Calls, NEW a \in Labels, Goes(c, a)
    PROVE  Moves(c, a, call[c].then) /\ SameOut(c) /\ call'[c].copy = call[c].copy /\ call'[c].ok = call[c].ok
<1> DEFINE h == [call[c] EXCEPT !.at = a]
<1>1. call[c] \in Handler /\ call' = [call EXCEPT ![c] = h]
  BY DEF TypeOK, Goes
<1>2. h \in Handler /\ h.at = a /\ h.then = call[c].then /\ h.outputs = call[c].outputs /\ h.kept = call[c].kept
      /\ h.copy = call[c].copy /\ h.ok = call[c].ok
  BY <1>1 DEF Handler, Labels
<1> HIDE DEF h
<1> QED BY <1>1, <1>2, CallSet DEF Moves, SameOut

\* A handler that fails is done and has not succeeded.
LEMMA FailsFacts ==
    ASSUME TypeOK, NEW c \in Calls, Fails(c)
    PROVE  Moves(c, "done", "done") /\ ~call'[c].ok
<1> DEFINE h == [IdleCall EXCEPT !.at = "done"]
<1>1. h \in Handler
  BY IdleType
<1>2. h.at = "done" /\ h.then = "done" /\ h.ok = FALSE
  BY DEF IdleCall
<1>3. call' = [call EXCEPT ![c] = h]
  BY DEF Fails
<1> HIDE DEF h
<1> QED BY <1>1, <1>2, <1>3, CallSet DEF Moves

\* The handler waits for request id.
LEMMA WaitFacts ==
    ASSUME TypeOK, NEW c \in Calls, NEW a \in Labels, NEW id \in Nat,
           call' = [call EXCEPT ![c].at = a, ![c].id = id]
    PROVE  Moves(c, a, call[c].then) /\ SameOut(c) /\ call'[c].copy = call[c].copy /\ call'[c].ok = call[c].ok
<1> DEFINE h == [call[c] EXCEPT !.at = a, !.id = id]
<1>1. call[c] \in Handler /\ call' = [call EXCEPT ![c] = h]
  BY DEF TypeOK
<1>2. h \in Handler /\ h.at = a /\ h.then = call[c].then /\ h.outputs = call[c].outputs /\ h.kept = call[c].kept
      /\ h.copy = call[c].copy /\ h.ok = call[c].ok
  BY <1>1 DEF Handler, Labels
<1> HIDE DEF h
<1> QED BY <1>1, <1>2, CallSet DEF Moves, SameOut

\* The handler waits for request id, or no longer, and b is its result so far.
LEMMA AskFacts ==
    ASSUME TypeOK, NEW c \in Calls, NEW a \in Labels, NEW id \in Nat, NEW b \in BOOLEAN,
           call' = [call EXCEPT ![c].at = a, ![c].id = id, ![c].ok = b]
    PROVE  Moves(c, a, call[c].then) /\ SameOut(c) /\ call'[c].copy = call[c].copy
<1> DEFINE h == [call[c] EXCEPT !.at = a, !.id = id, !.ok = b]
<1>1. call[c] \in Handler /\ call' = [call EXCEPT ![c] = h]
  BY DEF TypeOK
<1>2. h \in Handler /\ h.at = a /\ h.then = call[c].then /\ h.outputs = call[c].outputs /\ h.kept = call[c].kept
      /\ h.copy = call[c].copy
  BY <1>1 DEF Handler, Labels
<1> HIDE DEF h
<1> QED BY <1>1, <1>2, CallSet DEF Moves, SameOut

\* The handler takes a copy of the chat.
LEMMA CopyFacts ==
    ASSUME TypeOK, NEW c \in Calls, NEW a \in Labels, NEW entry \in Chat,
           call' = [call EXCEPT ![c].at = a, ![c].copy = entry]
    PROVE  Moves(c, a, call[c].then) /\ SameOut(c) /\ call'[c].copy = entry /\ call'[c].ok = call[c].ok
<1> DEFINE h == [call[c] EXCEPT !.at = a, !.copy = entry]
<1>1. call[c] \in Handler /\ call' = [call EXCEPT ![c] = h]
  BY DEF TypeOK
<1>2. h \in Handler /\ h.at = a /\ h.then = call[c].then /\ h.outputs = call[c].outputs /\ h.kept = call[c].kept
      /\ h.copy = entry /\ h.ok = call[c].ok
  BY <1>1 DEF Handler, Labels
<1> HIDE DEF h
<1> QED BY <1>1, <1>2, CallSet DEF Moves, SameOut

\* The handler goes to saveConfig.
LEMMA SaveFacts ==
    ASSUME TypeOK, NEW c \in Calls, NEW next \in Thens,
           call' = [call EXCEPT ![c].at = "save", ![c].then = next]
    PROVE  Moves(c, "save", next) /\ SameOut(c) /\ call'[c].ok = call[c].ok
<1> DEFINE h == [call[c] EXCEPT !.at = "save", !.then = next]
<1>1. call[c] \in Handler /\ call' = [call EXCEPT ![c] = h]
  BY DEF TypeOK
<1>2. h \in Handler /\ h.at = "save" /\ h.then = next /\ h.outputs = call[c].outputs /\ h.kept = call[c].kept
      /\ h.ok = call[c].ok
  BY <1>1 DEF Handler, Thens
<1> HIDE DEF h
<1> QED BY <1>1, <1>2, CallSet DEF Moves, SameOut

\* The handler returns from saveConfig to what follows.
LEMMA SavedFacts ==
    ASSUME TypeOK, NEW c \in Calls, SaveWrites(c)
    PROVE  Moves(c, call[c].then, "done") /\ SameOut(c) /\ call'[c].ok = call[c].ok
<1> DEFINE h == [call[c] EXCEPT !.at = call[c].then, !.then = "done", !.copy = NoChat]
<1>1. call[c] \in Handler /\ call' = [call EXCEPT ![c] = h]
  BY DEF TypeOK, SaveWrites
<1>2. h \in Handler /\ h.at = call[c].then /\ h.then = "done" /\ h.outputs = call[c].outputs /\ h.kept = call[c].kept
      /\ h.ok = call[c].ok
  BY <1>1, IdleType DEF Handler
<1> HIDE DEF h
<1> QED BY <1>1, <1>2, CallSet DEF Moves, SameOut

\* The handler of a prompt takes one more output from its collector.
LEMMA GatherFacts ==
    ASSUME TypeOK, NEW c \in Prompts, PromptGather(c)
    PROVE  /\ Moves(c, "gather", call[c].then) /\ call'[c].kept = call[c].kept
           /\ Len(call[c].outputs) <= Len(call'[c].outputs)
           /\ collected' \in [Prompts -> Seq(UpdateID)]
<1> DEFINE n == Head(collected[c])
           out == Append(call[c].outputs, n)
           h == [call[c] EXCEPT !.outputs = out]
<1>0. c \in Calls
  BY DEF Calls
<1>1. call[c] \in Handler /\ call' = [call EXCEPT ![c] = h] /\ call[c].at = "gather"
  BY <1>0 DEF TypeOK, PromptGather, At
<1>2. collected \in [Prompts -> Seq(UpdateID)] /\ collected[c] # <<>> /\ call[c].outputs \in Seq(UpdateID)
  BY <1>1 DEF TypeOK, PromptGather, Handler
<1>3. n \in UpdateID /\ Tail(collected[c]) \in Seq(UpdateID)
  BY <1>2
<1>4. out \in Seq(UpdateID) /\ Len(call[c].outputs) <= Len(out)
  <2> HIDE DEF n
  <2> QED BY <1>2, <1>3
<1> HIDE DEF out
<1>5. h \in Handler /\ h.at = "gather" /\ h.then = call[c].then /\ h.outputs = out /\ h.kept = call[c].kept
  BY <1>1, <1>4 DEF Handler
<1> HIDE DEF h
<1>6. collected' = [collected EXCEPT ![c] = Tail(collected[c])]
  BY DEF PromptGather
<1> QED BY <1>0, <1>1, <1>2, <1>3, <1>4, <1>5, <1>6, CallSet DEF Moves

\* The handler of a prompt puts its next output into the chat.
LEMMA OutputFacts ==
    ASSUME TypeOK, NEW c \in Prompts, PromptOutput(c)
    PROVE  /\ Moves(c, "save", "outputs") /\ call'[c].kept = call[c].kept + 1 /\ call[c].kept \in Nat
           /\ call'[c].outputs = call[c].outputs /\ call[c].outputs \in Seq(UpdateID)
           /\ call[c].outputs[call[c].kept + 1] \in UpdateID /\ call[c].kept < Len(call[c].outputs)
<1> DEFINE k == call[c].kept + 1
           h == [call[c] EXCEPT !.at = "save", !.then = "outputs", !.kept = k]
<1>0. c \in Calls
  BY DEF Calls
<1>1. call[c] \in Handler /\ call' = [call EXCEPT ![c] = h] /\ call[c].kept < Len(call[c].outputs)
  BY <1>0 DEF TypeOK, PromptOutput
<1>2. call[c].outputs \in Seq(UpdateID) /\ call[c].kept \in Nat
  BY <1>1 DEF Handler
<1>3. k \in Nat /\ k \in 1 .. Len(call[c].outputs)
  BY <1>1, <1>2
<1> HIDE DEF k
<1>4. call[c].outputs[k] \in UpdateID
  BY <1>2, <1>3
<1>5. h \in Handler /\ h.at = "save" /\ h.then = "outputs" /\ h.outputs = call[c].outputs /\ h.kept = k
  BY <1>1, <1>3 DEF Handler
<1> HIDE DEF h
<1> QED BY <1>0, <1>1, <1>2, <1>4, <1>5, CallSet DEF Moves, k

-----------------------------------------------------------------------------
(* The processes and the control.                                          *)

\* No operation opens the input of a process but the start of the process.
LEMMA InputStays ==
    ASSUME NEW k \in Peer
    PROVE  /\ Request(k).stdin = k.stdin
           /\ Close(k).stdin = "closed"
           /\ TakeNote(k).stdin = k.stdin
           /\ Exit(k).stdin = k.stdin
<1>1. k.stdin = k.stdin
  OBVIOUS
<1>2. Request(k).stdin = k.stdin
  BY DEF Request, Peer
<1>3. Close(k).stdin = "closed"
  BY DEF Close, Peer
<1>4. TakeNote(k).stdin = k.stdin
  BY DEF TakeNote, Peer
<1>5. Exit(k).stdin = k.stdin
  BY DEF Exit, Peer
<1> QED BY <1>2, <1>3, <1>4, <1>5

\* Nor does the reader of the process open its input.
LEMMA ReadInput == ASSUME NEW k \in Peer, CanRead(k) PROVE Read(k).stdin = k.stdin
<1>1. ReadEnd(k).stdin = k.stdin
  BY DEF ReadEnd, Peer
<1>2. CASE k.wire = <<>>
  BY <1>1, <1>2 DEF Read
<1>3. CASE k.wire # <<>>
  <2>1. ReadUpdate(k).stdin = k.stdin
    BY DEF ReadUpdate, Peer
  <2>2. ReadReply(k).stdin = k.stdin /\ ReadError(k).stdin = k.stdin
    BY DEF ReadReply, ReadError, Peer
  <2>3. ReadPermission(k).stdin = k.stdin
    BY DEF ReadPermission, Peer
  <2>4. Head(k.wire)[1] \in {"update", "reply", "error", "permission", "long"}
    BY <1>3, HeadType
  <2> QED BY <1>1, <1>3, <2>1, <2>2, <2>3, <2>4 DEF Read
<1> QED BY <1>2, <1>3

\* Nor does the process itself.
LEMMA BehaveInput == ASSUME NEW k \in Peer, NEW d \in Behaves(k) PROVE d.stdin = k.stdin
<1>1. \A kind, n : Tell(k, kind, n).stdin = k.stdin
  BY DEF Tell, Peer
<1>2. \A kind, n : DOMAIN Tell(k, kind, n) = DOMAIN k
  BY DEF Tell
<1>3. DOMAIN k = {"proc", "stdin", "nextID", "asked", "reply", "refused", "session", "wire", "reading",
                  "notes", "told", "read", "dropped", "waiting"}
  BY DEF Peer
<1>4. CASE d \in Answers(k)
  <2>1. PICK id \in k.asked : d = [Tell(k, "reply", id) EXCEPT !.asked = @ \ {id}, !.session = @ \/ id >= 2]
    BY <1>4 DEF Answers
  <2> DEFINE t == Tell(k, "reply", id)
             s == t.session \/ id >= 2
             r == t.asked \ {id}
  <2>2. d = [t EXCEPT !.asked = r, !.session = s]
    BY <2>1
  <2>3. DOMAIN t = DOMAIN k /\ t.stdin = k.stdin
    BY <1>1, <1>2
  <2> HIDE DEF t, s, r
  <2> QED BY <1>3, <2>2, <2>3
<1>5. CASE d \in Errors(k)
  BY <1>1, <1>2, <1>3, <1>5 DEF Errors
<1>6. CASE d \in Updates(k)
  BY <1>1, <1>2, <1>3, <1>6 DEF Updates
<1>7. CASE d \in Asks(k)
  BY <1>1, <1>2, <1>3, <1>7 DEF Asks
<1> QED BY <1>4, <1>5, <1>6, <1>7 DEF Behaves

-----------------------------------------------------------------------------

\* A step of handler c keeps the control when it leaves the mutex and the map alone, or when
\* nobody but c has a part in them; it may open no input but that of its own process.
LEMMA ControlStep ==
    ASSUME TypeOK, Control, NEW c \in Calls, NEW a, NEW next, Moves(c, a, next), UNCHANGED <<up, restarts>>,
           mu' \in Prompts \cup {None}, session' \in Prompts \cup {None}, peer' \in [Prompts -> Peer],
           chat' \in Chat, file' \in File, busy' \in Prompts \cup {None},
           collector' \in [Prompts -> {"none", "run", "end"}], collected' \in [Prompts -> Seq(UpdateID)],
           \/ mu' = mu /\ session' = session
           \/ ~Settled /\ mu \in {None, c} /\ session \in {None, c},
           Stage(c)',
           \A p \in Prompts : peer'[p].stdin = "open" => peer[p].stdin = "open" \/ p = c,
           c \in Prompts /\ peer'[c].stdin = "open" =>
               \/ c = session' \/ Shaking(c)'
               \/ session' = session /\ ~Shaking(c) /\ peer[c].stdin = "open",
           \A d \in Prompts : collector'[d] = "run" => collector[d] = "run" \/ Settled',
           session' # None => chat'.known
    PROVE  TypeOK' /\ Control'
<1>1. TypeOK'
  BY DEF TypeOK, Moves
<1>2. None \notin Prompts /\ Prompts \subseteq Calls
  BY SessionAssumption DEF Calls
<1>3. \A d \in Calls : Stage(d)'
  <2>1. SUFFICES ASSUME NEW d \in Calls, d # c PROVE Stage(d)'
    OBVIOUS
  <2>2. call'[d] = call[d] /\ Stage(d)
    BY <2>1 DEF Moves, Others, Control
  <2>3. CASE mu' = mu /\ session' = session
    BY <2>2, <2>3 DEF Stage, Opening, Shaking, Installing, Using, Saving, Settled
  <2>4. CASE ~Settled /\ mu \in {None, c} /\ session \in {None, c}
    <3>1. ~Using(d) /\ ~Opening(d) /\ ~Installing(d)
      BY <1>2, <2>1, <2>2, <2>4 DEF Stage
    <3> QED BY <2>2, <3>1 DEF Stage, Opening, Shaking, Installing, Using, Saving
  <2> QED BY <2>3, <2>4
<1>4. \A d \in Prompts : collector'[d] = "run" => Settled'
  BY DEF Control, Settled
<1>5. ASSUME NEW p \in Prompts, peer'[p].stdin = "open" PROVE p = session' \/ Shaking(p)'
  <2>1. CASE p = c
    BY <1>5, <2>1 DEF Control, Shaking
  <2>2. CASE p # c
    <3>1. p = session \/ Shaking(p)
      BY <1>5, <2>2 DEF Control
    <3>2. call'[p] = call[p]
      BY <1>2, <2>2 DEF Moves, Others
    <3>3. p = session => session' = session
      BY <1>2, <2>2
    <3> QED BY <3>1, <3>2, <3>3 DEF Shaking
  <2> QED BY <2>1, <2>2
<1> QED BY <1>1, <1>3, <1>4, <1>5 DEF Control

\* A peer changes or the collector of a prompt works.
LEMMA PeerControl ==
    ASSUME TypeOK, Control, UNCHANGED <<up, restarts, mu, session, chat, file, call, busy>>,
           peer' \in [Prompts -> Peer], collector' \in [Prompts -> {"none", "run", "end"}],
           collected' \in [Prompts -> Seq(UpdateID)],
           \A p \in Prompts : peer'[p].stdin = "open" => peer[p].stdin = "open",
           \A d \in Prompts : collector'[d] = "run" => collector[d] = "run"
    PROVE  TypeOK' /\ Control'
<1>1. TypeOK'
  BY DEF TypeOK
<1>2. \A d \in Calls : Stage(d)'
  BY DEF Control, Stage, Opening, Shaking, Installing, Using, Saving, Settled
<1> QED BY <1>1, <1>2 DEF Control, Shaking, Settled

\* What the control says of handler c, taken apart.
LEMMA StageOf ==
    ASSUME TypeOK, Control, NEW c \in Prompts
    PROVE  /\ c \in Calls /\ c # None /\ call[c] \in Handler /\ peer[c] \in Peer
           /\ call[c].at \in {"factory", "initialize", "resume", "new", "install"} => mu = c /\ session = None /\ ~Settled
           /\ Saving(c) /\ call[c].then = "message" => mu = c /\ session = c /\ ~Settled
           /\ call[c].at \in {"message", "lock", "ask", "wait", "drain", "gather", "outputs", "failed"} =>
                Settled /\ session \in Prompts /\ mu = None
           /\ Saving(c) /\ call[c].then # "message" => Settled /\ session \in Prompts /\ mu = None
<1>1. c \in Calls /\ c # None
  BY SessionAssumption DEF Calls
<1>2. call[c] \in Handler /\ peer[c] \in Peer /\ session \in Prompts \cup {None}
  BY <1>1 DEF TypeOK
<1> QED BY <1>1, <1>2 DEF Control, Stage, Opening, Shaking, Installing, Using, Settled

-----------------------------------------------------------------------------
(* The conversation.                                                       *)

\* Every conversation is an initial part of itself.
LEMMA PrefixSame == ASSUME NEW s \in Seq(ChatMessage) PROVE Prefix(s, s)
BY DEF Prefix

\* An initial part of an initial part is one.
LEMMA PrefixChain ==
    ASSUME NEW s \in Seq(ChatMessage), NEW t \in Seq(ChatMessage), NEW u \in Seq(ChatMessage),
           Prefix(s, t), Prefix(t, u)
    PROVE  Prefix(s, u)
<1>1. Len(s) \in Nat /\ Len(t) \in Nat /\ Len(u) \in Nat
  OBVIOUS
<1>2. \A i \in 1 .. Len(s) : i \in 1 .. Len(t)
  BY <1>1 DEF Prefix
<1> QED BY <1>1, <1>2 DEF Prefix

\* A message more leaves the conversation an initial part.
LEMMA PrefixGrows ==
    ASSUME NEW s \in Seq(ChatMessage), NEW e \in ChatMessage
    PROVE  Append(s, e) \in Seq(ChatMessage) /\ Prefix(s, Append(s, e))
<1>1. Append(s, e) \in Seq(ChatMessage) /\ Len(Append(s, e)) = Len(s) + 1 /\ Len(s) \in Nat
  OBVIOUS
<1>2. \A i \in 1 .. Len(s) : Append(s, e)[i] = s[i]
  OBVIOUS
<1> QED BY <1>1, <1>2 DEF Prefix

\* An initial part in the sense of the library.
LEMMA PrefixMeans ==
    ASSUME NEW s \in Seq(ChatMessage), NEW t \in Seq(ChatMessage), Prefix(s, t)
    PROVE  IsPrefix(s, t)
<1>1. Len(s) \in Nat /\ Len(t) \in Nat /\ Len(s) <= Len(t) /\ \A i \in 1 .. Len(s) : s[i] = t[i]
  BY DEF Prefix
<1>2. \A i \in 1 .. Len(s) : s[i] \in ChatMessage /\ t[i] \in ChatMessage
  BY <1>1
<1> DEFINE a == SubSeq(s, 1, Len(s))
           b == SubSeq(t, 1, Len(s))
<1>3. /\ a \in Seq(ChatMessage) /\ Len(a) = Len(s) /\ \A i \in 1 .. Len(s) : a[i] = s[i]
  BY <1>1, <1>2, SubSeqProperties
<1>4. /\ b \in Seq(ChatMessage) /\ Len(b) = Len(s) /\ \A i \in 1 .. Len(s) : b[i] = t[i]
  BY <1>1, <1>2, SubSeqProperties
<1> HIDE DEF a, b
<1>5. a = b
  BY <1>1, <1>3, <1>4, SeqEqual
<1> QED BY <1>1, <1>5 DEF IsPrefix, a, b

-----------------------------------------------------------------------------
\* Holds, of a chat and of a handler's outputs.
Told(messages, outputs, c, n) ==
    \E place \in [0 .. n -> DOMAIN messages] :
        /\ \A i, j \in 0 .. n : i < j => place[i] < place[j]
        /\ {i \in DOMAIN messages : messages[i].by = c} = {place[k] : k \in 0 .. n}
        /\ \A k \in 0 .. n : messages[place[k]].text = IF k = 0 THEN 0 ELSE outputs[k]

\* The chat has no message of c.
Silent(messages, c) == \A i \in DOMAIN messages : messages[i].by # c

\* Holds is Told of the chat.
LEMMA HoldsTold == \A c, n : Holds(c, n) = Told(chat.messages, call[c].outputs, c, n)
BY DEF Holds, Told

\* The places of a conversation with one more message.
LEMMA AppendFacts ==
    ASSUME NEW m \in Seq(ChatMessage), NEW e \in ChatMessage
    PROVE  /\ Len(m) \in Nat /\ DOMAIN m = 1 .. Len(m) /\ DOMAIN Append(m, e) = 1 .. Len(m) + 1
           /\ Append(m, e)[Len(m) + 1] = e
           /\ \A i \in 1 .. Len(m) : Append(m, e)[i] = m[i] /\ i \in 1 .. Len(m) + 1
           /\ \A i \in 1 .. Len(m) + 1 : i \in 1 .. Len(m) \/ i = Len(m) + 1
           /\ Len(m) + 1 \in 1 .. Len(m) + 1
<1>1. Len(m) \in Nat /\ DOMAIN m = 1 .. Len(m) /\ Append(m, e) \in Seq(ChatMessage)
      /\ Len(Append(m, e)) = Len(m) + 1 /\ Append(m, e)[Len(m) + 1] = e
      /\ \A i \in 1 .. Len(m) : Append(m, e)[i] = m[i]
  OBVIOUS
<1> QED BY <1>1

\* Another one's message changes nothing.
LEMMA ToldStays ==
    ASSUME NEW m \in Seq(ChatMessage), NEW e \in ChatMessage, NEW out, NEW c, NEW n \in Nat,
           Told(m, out, c, n), e.by # c
    PROVE  Told(Append(m, e), out, c, n)
<1> DEFINE t == Append(m, e)
<1>1. PICK place \in [0 .. n -> DOMAIN m] :
        /\ \A i, j \in 0 .. n : i < j => place[i] < place[j]
        /\ {i \in DOMAIN m : m[i].by = c} = {place[k] : k \in 0 .. n}
        /\ \A k \in 0 .. n : m[place[k]].text = IF k = 0 THEN 0 ELSE out[k]
  BY DEF Told
<1>2. /\ DOMAIN m = 1 .. Len(m) /\ DOMAIN t = 1 .. Len(m) + 1 /\ t[Len(m) + 1] = e
      /\ \A i \in 1 .. Len(m) : t[i] = m[i] /\ i \in 1 .. Len(m) + 1
      /\ \A i \in 1 .. Len(m) + 1 : i \in 1 .. Len(m) \/ i = Len(m) + 1
  BY AppendFacts
<1> HIDE DEF t
<1>3. place \in [0 .. n -> DOMAIN t]
  BY <1>1, <1>2
<1>4. {i \in DOMAIN t : t[i].by = c} = {i \in DOMAIN m : m[i].by = c}
  BY <1>2
<1>5. \A k \in 0 .. n : t[place[k]].text = IF k = 0 THEN 0 ELSE out[k]
  BY <1>1, <1>2
<1> QED BY <1>1, <1>3, <1>4, <1>5 DEF Told, t

\* The next output is told.
LEMMA ToldNext ==
    ASSUME NEW m \in Seq(ChatMessage), NEW e \in ChatMessage, NEW out, NEW c, NEW n \in Nat,
           Told(m, out, c, n), e.by = c, e.text = out[n + 1]
    PROVE  Told(Append(m, e), out, c, n + 1)
<1> DEFINE t == Append(m, e)
           last == Len(m) + 1
<1>1. PICK place \in [0 .. n -> DOMAIN m] :
        /\ \A i, j \in 0 .. n : i < j => place[i] < place[j]
        /\ {i \in DOMAIN m : m[i].by = c} = {place[k] : k \in 0 .. n}
        /\ \A k \in 0 .. n : m[place[k]].text = IF k = 0 THEN 0 ELSE out[k]
  BY DEF Told
<1>2. /\ DOMAIN m = 1 .. Len(m) /\ DOMAIN t = 1 .. last /\ t[last] = e /\ last \in 1 .. last /\ Len(m) \in Nat
      /\ \A i \in 1 .. Len(m) : t[i] = m[i] /\ i \in 1 .. last /\ i < last
      /\ \A i \in 1 .. last : i \in 1 .. Len(m) \/ i = last
  BY AppendFacts
<1>3. /\ \A k \in 0 .. n + 1 : k \in 0 .. n \/ k = n + 1
      /\ \A k \in 0 .. n : k \in 0 .. n + 1 /\ k # n + 1
      /\ n + 1 \in 0 .. n + 1 /\ n + 1 # 0
      /\ \A i, j \in 0 .. n + 1 : i < j => i \in 0 .. n
  OBVIOUS
<1> HIDE DEF t, last
<1> DEFINE further == [k \in 0 .. n + 1 |-> IF k = n + 1 THEN last ELSE place[k]]
<1>4. /\ further \in [0 .. n + 1 -> DOMAIN t]
      /\ further[n + 1] = last /\ \A k \in 0 .. n : further[k] = place[k] /\ place[k] \in 1 .. Len(m)
  BY <1>1, <1>2, <1>3
<1> HIDE DEF further
<1>5. ASSUME NEW i \in 0 .. n + 1, NEW j \in 0 .. n + 1, i < j PROVE further[i] < further[j]
  <2>1. i \in 0 .. n
    BY <1>3, <1>5
  <2>2. CASE j \in 0 .. n
    BY <1>1, <1>4, <1>5, <2>1, <2>2
  <2>3. CASE j = n + 1
    BY <1>2, <1>4, <2>1, <2>3
  <2> QED BY <1>3, <2>2, <2>3
<1>6. {i \in DOMAIN t : t[i].by = c} = {i \in DOMAIN m : m[i].by = c} \cup {last}
  BY <1>2
<1>7. {further[k] : k \in 0 .. n + 1} = {place[k] : k \in 0 .. n} \cup {last}
  BY <1>3, <1>4
<1>8. ASSUME NEW k \in 0 .. n + 1 PROVE t[further[k]].text = IF k = 0 THEN 0 ELSE out[k]
  <2>1. CASE k \in 0 .. n
    BY <1>1, <1>2, <1>4, <2>1
  <2>2. CASE k = n + 1
    BY <1>2, <1>3, <1>4, <2>2
  <2> QED BY <1>3, <2>1, <2>2
<1>9. {i \in DOMAIN t : t[i].by = c} = {further[k] : k \in 0 .. n + 1}
  BY <1>1, <1>6, <1>7
<1> QED BY <1>4, <1>5, <1>8, <1>9 DEF Told, t

\* The prompt itself is told.
LEMMA ToldFirst ==
    ASSUME NEW m \in Seq(ChatMessage), NEW e \in ChatMessage, NEW out, NEW c,
           Silent(m, c), e.by = c, e.text = 0
    PROVE  Told(Append(m, e), out, c, 0)
<1> DEFINE t == Append(m, e)
           last == Len(m) + 1
           place == [k \in 0 .. 0 |-> last]
<1>1. /\ DOMAIN m = 1 .. Len(m) /\ DOMAIN t = 1 .. last /\ t[last] = e /\ last \in 1 .. last /\ Len(m) \in Nat
      /\ \A i \in 1 .. Len(m) : t[i] = m[i]
      /\ \A i \in 1 .. last : i \in 1 .. Len(m) \/ i = last
  BY AppendFacts
<1>2. \A k \in 0 .. 0 : k = 0
  OBVIOUS
<1>3. {i \in DOMAIN t : t[i].by = c} = {last}
  BY <1>1 DEF Silent
<1> HIDE DEF t, last
<1>4. place \in [0 .. 0 -> DOMAIN t] /\ place[0] = last /\ 0 \in 0 .. 0
  BY <1>1
<1> HIDE DEF place
<1>5. {place[k] : k \in 0 .. 0} = {last}
  BY <1>2, <1>4
<1>6. \A i, j \in 0 .. 0 : i < j => place[i] < place[j]
  BY <1>2
<1>7. \A k \in 0 .. 0 : t[place[k]].text = IF k = 0 THEN 0 ELSE out[k]
  BY <1>1, <1>2, <1>4
<1> QED BY <1>3, <1>4, <1>5, <1>6, <1>7 DEF Told, t

\* Before the first output the prompt is all there is to tell, whatever comes.
LEMMA ToldOutputs ==
    ASSUME NEW m, NEW out, NEW more, NEW c, Told(m, out, c, 0)
    PROVE  Told(m, more, c, 0)
<1>1. \A k \in 0 .. 0 : k = 0
  OBVIOUS
<1>2. PICK place \in [0 .. 0 -> DOMAIN m] :
        /\ \A i, j \in 0 .. 0 : i < j => place[i] < place[j]
        /\ {i \in DOMAIN m : m[i].by = c} = {place[k] : k \in 0 .. 0}
        /\ \A k \in 0 .. 0 : m[place[k]].text = IF k = 0 THEN 0 ELSE out[k]
  BY DEF Told
<1>3. \A k \in 0 .. 0 : m[place[k]].text = IF k = 0 THEN 0 ELSE more[k]
  BY <1>1, <1>2
<1> QED BY <1>2, <1>3 DEF Told

\* A message of another one leaves c silent.
LEMMA SilentStays ==
    ASSUME NEW m \in Seq(ChatMessage), NEW e \in ChatMessage, NEW c, Silent(m, c), e.by # c
    PROVE  Silent(Append(m, e), c)
BY AppendFacts DEF Silent

-----------------------------------------------------------------------------
(* One step of a handler.                                                  *)

\* The conversation stays.
ChatKeeps == chat'.messages = chat.messages

\* The conversation has one more message, of prompt c.
ChatGrows(c) == c \in Prompts /\ \E e \in ChatMessage : e.by = c /\ chat'.messages = Append(chat.messages, e)

\* A step of handler c keeps FileInv: the conversation only grows, so what was an initial part
\* stays one.
LEMMA FileStep ==
    ASSUME TypeOK, FileInv, NEW c \in Calls, NEW a, NEW next, Moves(c, a, next), chat' \in Chat,
           ChatKeeps \/ (ChatGrows(c) /\ \A d \in Calls \ {c} : ~Opening(d)),
           Opening(c)' => call'[c].copy.messages = chat'.messages,
           a \in {"open", "write"} => Prefix(call'[c].copy.messages, chat'.messages),
           file' = file \/ (file'.kind = "whole" => Prefix(file'.chat.messages, chat'.messages))
    PROVE  FileInv'
<1>1. chat.messages \in Seq(ChatMessage) /\ chat'.messages \in Seq(ChatMessage) /\ Prefix(chat.messages, chat'.messages)
  <2>1. chat.messages \in Seq(ChatMessage) /\ chat'.messages \in Seq(ChatMessage)
    BY DEF TypeOK, Chat
  <2>2. CASE ChatKeeps
    BY <2>1, <2>2, PrefixSame DEF ChatKeeps
  <2>3. CASE ChatGrows(c)
    BY <2>1, <2>3, PrefixGrows DEF ChatGrows
  <2> QED BY <2>1, <2>2, <2>3
<1>2. \A m \in Seq(ChatMessage) : Prefix(m, chat.messages) => Prefix(m, chat'.messages)
  BY <1>1, PrefixChain
<1>3. file'.kind = "whole" => Prefix(file'.chat.messages, chat'.messages)
  <2>1. file.chat.messages \in Seq(ChatMessage)
    BY DEF TypeOK, File, Chat
  <2> QED BY <1>2, <2>1 DEF FileInv
<1>4. ASSUME NEW d \in Calls, call'[d].at \in {"open", "write"} PROVE Prefix(call'[d].copy.messages, chat'.messages)
  <2>1. CASE d = c
    BY <1>4, <2>1 DEF Moves
  <2>2. CASE d # c
    <3>1. call'[d] = call[d]
      BY <2>2 DEF Moves, Others
    <3>2. call[d].copy.messages \in Seq(ChatMessage)
      BY DEF TypeOK, Handler, Chat
    <3> QED BY <1>2, <1>4, <3>1, <3>2 DEF FileInv
  <2> QED BY <2>1, <2>2
<1>5. ASSUME NEW d \in Calls, Opening(d)' PROVE call'[d].copy.messages = chat'.messages
  <2>1. CASE d = c
    BY <1>5, <2>1
  <2>2. CASE d # c
    <3>1. call'[d] = call[d] /\ Opening(d)
      BY <1>5, <2>2 DEF Moves, Others, Opening, Shaking
    <3> QED BY <2>2, <3>1 DEF FileInv, ChatKeeps
  <2> QED BY <2>1, <2>2
<1> QED BY <1>3, <1>4, <1>5 DEF FileInv

\* The account, in terms of Told and Silent.
LEMMA AccountMeans ==
    ASSUME NEW c \in Prompts
    PROVE  Account(c) <=>
             /\ Early(c) => call[c].kept = 0 /\ Silent(chat.messages, c)
             /\ Asking(c) => call[c].kept = 0
             /\ Asking(c) \/ Telling(c) =>
                 call[c].kept <= Len(call[c].outputs) /\ Told(chat.messages, call[c].outputs, c, call[c].kept)
             /\ call[c].at = "failed" => ~call[c].ok
             /\ Ending(c) /\ call[c].ok =>
                 call[c].kept = Len(call[c].outputs) /\ Told(chat.messages, call[c].outputs, c, call[c].kept)
BY HoldsTold DEF Account, Silent

\* The same of the next state.
LEMMA AccountNext ==
    ASSUME NEW c \in Prompts
    PROVE  Account(c)' <=>
             /\ Early(c)' => call'[c].kept = 0 /\ Silent(chat'.messages, c)
             /\ Asking(c)' => call'[c].kept = 0
             /\ Asking(c)' \/ Telling(c)' =>
                 call'[c].kept <= Len(call'[c].outputs) /\ Told(chat'.messages, call'[c].outputs, c, call'[c].kept)
             /\ call'[c].at = "failed" => ~call'[c].ok
             /\ Ending(c)' /\ call'[c].ok =>
                 call'[c].kept = Len(call'[c].outputs) /\ Told(chat'.messages, call'[c].outputs, c, call'[c].kept)
BY DEF Account, Silent, Holds, Told

\* A step of another handler leaves the account of prompt d as it was.
LEMMA AccountStep ==
    ASSUME TypeOK, NEW c \in Calls, NEW a, NEW next, Moves(c, a, next), ChatKeeps \/ ChatGrows(c),
           NEW d \in Prompts, d # c, Account(d)
    PROVE  Account(d)'
<1>1. d \in Calls /\ call'[d] = call[d] /\ chat.messages \in Seq(ChatMessage) /\ call[d].kept \in Nat
  BY DEF Calls, Moves, Others, TypeOK, Chat, Handler
<1>2. /\ Early(d)' = Early(d) /\ Asking(d)' = Asking(d) /\ Telling(d)' = Telling(d) /\ Ending(d)' = Ending(d)
  BY <1>1 DEF Early, Asking, Telling, Ending, Opening, Shaking, Installing, Saving
<1>3. Silent(chat.messages, d) => Silent(chat'.messages, d)
  <2>1. CASE ChatKeeps
    BY <2>1 DEF ChatKeeps
  <2>2. CASE ChatGrows(c)
    BY <1>1, <2>2, SilentStays DEF ChatGrows
  <2> QED BY <2>1, <2>2
<1>4. \A n \in Nat : Told(chat.messages, call[d].outputs, d, n) => Told(chat'.messages, call[d].outputs, d, n)
  <2>1. CASE ChatKeeps
    BY <2>1 DEF ChatKeeps
  <2>2. CASE ChatGrows(c)
    BY <1>1, <2>2, ToldStays DEF ChatGrows
  <2> QED BY <2>1, <2>2
<1> QED BY <1>1, <1>2, <1>3, <1>4, AccountMeans, AccountNext

\* A step of c that leaves the chat and its own account alone.
LEMMA AccountMoves ==
    ASSUME NEW c \in Prompts, Account(c), ChatKeeps, SameOut(c),
           Early(c)' => Early(c),
           Asking(c)' => Asking(c),
           Telling(c)' => Asking(c) \/ Telling(c),
           call'[c].at = "failed" => ~call'[c].ok,
           Ending(c)' /\ call'[c].ok =>
             (Ending(c) /\ call[c].ok) \/ (Telling(c) /\ call[c].kept = Len(call[c].outputs))
    PROVE  Account(c)'
BY AccountMeans, AccountNext DEF ChatKeeps, SameOut

-----------------------------------------------------------------------------

\* The types of everything but the handlers and the process of the host.
Globals ==
    /\ mu \in Prompts \cup {None} /\ session \in Prompts \cup {None}
    /\ peer \in [Prompts -> Peer]
    /\ chat \in Chat /\ file \in File
    /\ busy \in Prompts \cup {None}
    /\ collector \in [Prompts -> {"none", "run", "end"}]
    /\ collected \in [Prompts -> Seq(UpdateID)]

\* Prompt c answers for the status of the chat.
Working(c) == c \in Prompts /\ (Asking(c) \/ Telling(c))

\* A step of handler c keeps the invariant: what has to be shown of it.
LEMMA FullStep ==
    ASSUME SessionInv, NEW c \in Calls, NEW a, NEW next, Moves(c, a, next), UNCHANGED <<up, restarts>>,
           Globals',
           \/ mu' = mu /\ session' = session
           \/ ~Settled /\ mu \in {None, c} /\ session \in {None, c},
           Stage(c)',
           \A p \in Prompts : peer'[p].stdin = "open" => peer[p].stdin = "open" \/ p = c,
           c \in Prompts /\ peer'[c].stdin = "open" =>
               \/ c = session' \/ Shaking(c)'
               \/ session' = session /\ ~Shaking(c) /\ peer[c].stdin = "open",
           \A d \in Prompts : collector'[d] = "run" => collector[d] = "run" \/ Settled',
           session' # None => chat'.known,
           ChatKeeps \/ (ChatGrows(c) /\ \A d \in Calls \ {c} : ~Opening(d)),
           Opening(c)' => call'[c].copy.messages = chat'.messages,
           a \in {"open", "write"} => Prefix(call'[c].copy.messages, chat'.messages),
           file' = file \/ (file'.kind = "whole" => Prefix(file'.chat.messages, chat'.messages)),
           restarts = 0 =>
               \/ chat' = chat /\ (Working(c) => Working(c)' \/ SaveFails)
               \/ chat'.status # "running"
               \/ chat'.known /\ Working(c)',
           c \in Prompts /\ restarts = 0 => Account(c)'
    PROVE  SessionInv'
<1>1. TypeOK /\ Control /\ FileInv
  BY DEF SessionInv
<1>2. /\ mu' \in Prompts \cup {None} /\ session' \in Prompts \cup {None} /\ peer' \in [Prompts -> Peer]
      /\ chat' \in Chat /\ file' \in File /\ busy' \in Prompts \cup {None}
      /\ collector' \in [Prompts -> {"none", "run", "end"}] /\ collected' \in [Prompts -> Seq(UpdateID)]
  BY DEF Globals
<1>3. TypeOK' /\ Control'
  BY <1>1, <1>2, ControlStep
<1>4. FileInv'
  BY <1>1, <1>2, FileStep
<1>5. ASSUME restarts = 0 PROVE \A d \in Prompts : Account(d)'
  BY <1>1, <1>5, AccountStep DEF SessionInv
<1>6. ASSUME restarts = 0 PROVE Running'
  <2>1. CASE chat' = chat /\ (Working(c) => Working(c)' \/ SaveFails)
    <3>1. SUFFICES ASSUME ~SaveFails, chat.status = "running"
                   PROVE  chat.known /\ \E d \in Prompts : Asking(d)' \/ Telling(d)'
      BY <2>1 DEF Running
    <3>2. PICK d \in Prompts : Asking(d) \/ Telling(d)
      BY <1>6, <3>1 DEF SessionInv, Running
    <3>3. chat.known
      BY <1>6, <3>1 DEF SessionInv, Running
    <3>4. CASE d = c
      BY <2>1, <3>1, <3>2, <3>3, <3>4 DEF Working
    <3>5. CASE d # c
      <4>1. call'[d] = call[d]
        BY <3>5 DEF Moves, Others, Calls
      <4>2. Asking(d)' \/ Telling(d)'
        BY <3>2, <4>1 DEF Asking, Telling, Saving
      <4> QED BY <3>3, <4>2
    <3> QED BY <3>4, <3>5
  <2>2. CASE chat'.status # "running"
    BY <2>2 DEF Running
  <2>3. CASE chat'.known /\ Working(c)'
    BY <2>3 DEF Running, Working
  <2> QED BY <1>6, <2>1, <2>2, <2>3
<1> QED BY <1>3, <1>4, <1>5, <1>6 DEF SessionInv

\* A step of handler c that changes nothing but its own locals.
LEMMA PlainStep ==
    ASSUME SessionInv, NEW c \in Calls, NEW a, NEW next, Moves(c, a, next),
           UNCHANGED <<up, restarts, mu, session, peer, chat, file, busy, collector, collected>>,
           Stage(c)',
           Shaking(c) => Shaking(c)',
           Opening(c)' => call'[c].copy.messages = chat.messages,
           a \in {"open", "write"} => Prefix(call'[c].copy.messages, chat.messages),
           Working(c) => Working(c)',
           c \in Prompts /\ restarts = 0 => Account(c)'
    PROVE  SessionInv'
<1>1. Globals'
  BY DEF SessionInv, TypeOK, Globals
<1>2. /\ \A p \in Prompts : peer'[p].stdin = "open" => peer[p].stdin = "open" \/ p = c
      /\ c \in Prompts /\ peer'[c].stdin = "open" =>
               \/ c = session' \/ Shaking(c)'
               \/ session' = session /\ ~Shaking(c) /\ peer[c].stdin = "open"
      /\ \A d \in Prompts : collector'[d] = "run" => collector[d] = "run" \/ Settled'
  OBVIOUS
<1>3. session' # None => chat'.known
  BY DEF SessionInv, Control
<1>4. ChatKeeps
  BY DEF ChatKeeps
<1> QED BY <1>1, <1>2, <1>3, <1>4, FullStep

-----------------------------------------------------------------------------
(* localAgentSession.                                                      *)

\* A request arrives.
LEMMA BeginKeeps == ASSUME SessionInv, NEW c \in Calls, Begin(c) PROVE SessionInv'
<1>1. /\ call[c].at = "idle" /\ Goes(c, "sessions")
      /\ UNCHANGED <<up, restarts, mu, session, peer, chat, file, busy, collector, collected>>
  BY DEF Begin, At, hostVars, sessionVars, chatVars, collectVars
<1>2. "sessions" \in Labels /\ TypeOK
  BY DEF Labels, SessionInv
<1>3. Moves(c, "sessions", call[c].then) /\ SameOut(c)
  BY <1>1, <1>2, GoesFacts
<1>4. call'[c].at = "sessions"
  BY <1>3 DEF Moves
<1>5. Stage(c)' /\ ~Opening(c)' /\ ~Shaking(c) /\ ~Working(c)
  BY <1>1, <1>4 DEF Stage, Opening, Shaking, Installing, Using, Saving, Working, Asking, Telling
<1>6. ASSUME c \in Prompts, restarts = 0 PROVE Account(c)'
  <2>1. Early(c) /\ ~Asking(c)' /\ ~Telling(c)' /\ ~Ending(c)' /\ call'[c].at # "failed"
    BY <1>1, <1>4 DEF Early, Asking, Telling, Ending, Saving
  <2>2. Account(c) /\ ChatKeeps
    BY <1>1, <1>6 DEF SessionInv, ChatKeeps
  <2> QED BY <1>3, <1>6, <2>1, <2>2, AccountMoves
<1> QED BY <1>1, <1>3, <1>5, <1>6, PlainStep

\* localAgentSession finds the session in the map.
LEMMA SessionFoundKeeps == ASSUME SessionInv, NEW c \in Prompts, SessionFound(c) PROVE SessionInv'
<1>1. /\ call[c].at = "sessions" /\ Goes(c, "message") /\ session # None /\ mu = None
      /\ UNCHANGED <<up, restarts, mu, session, peer, chat, file, busy, collector, collected>>
  BY DEF SessionFound, At, hostVars, sessionVars, chatVars, collectVars
<1>2. "message" \in Labels /\ TypeOK /\ c \in Calls
  BY DEF Labels, SessionInv, Calls
<1>3. Moves(c, "message", call[c].then) /\ SameOut(c)
  BY <1>1, <1>2, GoesFacts
<1>4. call'[c].at = "message"
  BY <1>3 DEF Moves
<1>5. Stage(c)' /\ ~Opening(c)' /\ ~Shaking(c) /\ ~Working(c)
  BY <1>1, <1>4 DEF Stage, Opening, Shaking, Installing, Using, Saving, Working, Asking, Telling, Settled
<1>6. ASSUME restarts = 0 PROVE Account(c)'
  <2>1. Early(c) /\ ~Asking(c)' /\ ~Telling(c)' /\ ~Ending(c)' /\ call'[c].at # "failed"
    BY <1>1, <1>4 DEF Early, Asking, Telling, Ending, Saving
  <2>2. Account(c) /\ ChatKeeps
    BY <1>1, <1>6 DEF SessionInv, ChatKeeps
  <2> QED BY <1>3, <1>6, <2>1, <2>2, AccountMoves
<1> QED BY <1>1, <1>2, <1>3, <1>5, <1>6, PlainStep

\* localAgentSession takes the mutex to open one.
LEMMA SessionMissedKeeps == ASSUME SessionInv, NEW c \in Prompts, SessionMissed(c) PROVE SessionInv'
<1>1. /\ call[c].at = "sessions" /\ mu = None /\ session = None /\ mu' = c
      /\ call' = [call EXCEPT ![c].at = "factory", ![c].copy = chat]
      /\ UNCHANGED <<up, restarts, session, peer, chat, file, busy, collector, collected>>
  BY DEF SessionMissed, At, hostVars, chatVars, collectVars
<1>2. "factory" \in Labels /\ TypeOK /\ c \in Calls /\ chat \in Chat
  BY DEF Labels, SessionInv, Calls, TypeOK
<1>3. Moves(c, "factory", call[c].then) /\ SameOut(c) /\ call'[c].copy = chat
  BY <1>1, <1>2, CopyFacts
<1>4. call'[c].at = "factory"
  BY <1>3 DEF Moves
<1>5. Stage(c)' /\ ~Shaking(c) /\ ~Working(c) /\ ~Settled
  BY <1>1, <1>4 DEF Stage, Opening, Shaking, Installing, Using, Saving, Working, Asking, Telling, Settled
<1>6. ASSUME restarts = 0 PROVE Account(c)'
  <2>1. Early(c) /\ ~Asking(c)' /\ ~Telling(c)' /\ ~Ending(c)' /\ call'[c].at # "failed"
    BY <1>1, <1>4 DEF Early, Asking, Telling, Ending, Saving
  <2>2. Account(c) /\ ChatKeeps
    BY <1>1, <1>6 DEF SessionInv, ChatKeeps
  <2> QED BY <1>3, <1>6, <2>1, <2>2, AccountMoves
<1>7. Globals'
  BY <1>1, <1>2 DEF TypeOK, Globals
<1>8. /\ \A p \in Prompts : peer'[p].stdin = "open" => peer[p].stdin = "open" \/ p = c
      /\ peer'[c].stdin = "open" => c = session' \/ Shaking(c)' \/ (session' = session /\ ~Shaking(c) /\ peer[c].stdin = "open")
      /\ \A d \in Prompts : collector'[d] = "run" => collector[d] = "run" \/ Settled'
      /\ session' # None => chat'.known
      /\ ChatKeeps
  BY <1>1, <1>5 DEF ChatKeeps
<1> QED BY <1>1, <1>2, <1>3, <1>5, <1>6, <1>7, <1>8, FullStep

\* The process does not start, and the mutex is released.
LEMMA FactoryFailsKeeps == ASSUME SessionInv, NEW c \in Prompts, FactoryFails(c) PROVE SessionInv'
<1>1. /\ call[c].at = "factory" /\ mu' = None /\ Fails(c)
      /\ UNCHANGED <<up, restarts, session, peer, chat, file, busy, collector, collected>>
  BY DEF FactoryFails, At, hostVars, chatVars, collectVars
<1>2. TypeOK /\ Control /\ c \in Calls
  BY DEF SessionInv, Calls
<1>3. Moves(c, "done", "done") /\ ~call'[c].ok
  BY <1>1, <1>2, FailsFacts
<1>4. call'[c].at = "done"
  BY <1>3 DEF Moves
<1>5. mu = c /\ session = None /\ ~Settled
  BY <1>1, <1>2, StageOf
<1>6. Stage(c)' /\ ~Shaking(c) /\ ~Working(c) /\ ~Opening(c)'
  BY <1>1, <1>4 DEF Stage, Opening, Shaking, Installing, Using, Saving, Working, Asking, Telling
<1>7. Account(c)'
  BY <1>3, <1>4, AccountNext DEF Early, Asking, Telling, Ending, Saving, Opening, Shaking, Installing
<1>8. Globals'
  BY <1>1, <1>2 DEF TypeOK, Globals
<1>9. /\ \A p \in Prompts : peer'[p].stdin = "open" => peer[p].stdin = "open" \/ p = c
      /\ peer'[c].stdin = "open" => c = session' \/ Shaking(c)' \/ (session' = session /\ ~Shaking(c) /\ peer[c].stdin = "open")
      /\ \A d \in Prompts : collector'[d] = "run" => collector[d] = "run" \/ Settled'
      /\ session' # None => chat'.known
      /\ ChatKeeps
  BY <1>1, <1>5, <1>6 DEF ChatKeeps
<1> QED BY <1>1, <1>2, <1>3, <1>5, <1>6, <1>7, <1>8, <1>9, FullStep

\* The process starts: its input is the one that may be open.
LEMMA FactoryStartsKeeps == ASSUME SessionInv, NEW c \in Prompts, FactoryStarts(c) PROVE SessionInv'
<1>1. /\ call[c].at = "factory" /\ peer' = [peer EXCEPT ![c] = Request(Spawned)]
      /\ call' = [call EXCEPT ![c].at = "initialize", ![c].id = 1]
      /\ UNCHANGED <<up, restarts, mu, session, chat, file, busy, collector, collected>>
  BY DEF FactoryStarts, At, hostVars, chatVars, collectVars
<1>2. TypeOK /\ Control /\ c \in Calls /\ "initialize" \in Labels /\ 1 \in Nat
  BY DEF SessionInv, Calls, Labels
<1>3. Moves(c, "initialize", call[c].then) /\ SameOut(c) /\ call'[c].copy = call[c].copy
  BY <1>1, <1>2, WaitFacts
<1>4. call'[c].at = "initialize"
  BY <1>3 DEF Moves
<1>5. mu = c /\ session = None /\ ~Settled
  BY <1>1, <1>2, StageOf
<1>6. Stage(c)' /\ ~Working(c) /\ Shaking(c)' /\ Opening(c)
  BY <1>1, <1>4, <1>5 DEF Stage, Opening, Shaking, Installing, Using, Saving, Working, Asking, Telling
<1>7. call'[c].copy.messages = chat'.messages
  BY <1>1, <1>2, <1>3, <1>6 DEF SessionInv, FileInv
<1>8. ASSUME restarts = 0 PROVE Account(c)'
  <2>1. Early(c) /\ ~Asking(c)' /\ ~Telling(c)' /\ ~Ending(c)' /\ call'[c].at # "failed"
    BY <1>4, <1>6 DEF Early, Asking, Telling, Ending, Saving
  <2>2. Account(c) /\ ChatKeeps
    BY <1>1, <1>8 DEF SessionInv, ChatKeeps
  <2> QED BY <1>3, <1>8, <2>1, <2>2, AccountMoves
<1>9. Globals'
  <2>1. Request(Spawned) \in Peer
    BY SpawnType, RequestType
  <2>2. peer' \in [Prompts -> Peer]
    BY <1>1, <1>2, <2>1 DEF TypeOK
  <2> QED BY <1>1, <1>2, <2>2 DEF TypeOK, Globals
<1>10. /\ \A p \in Prompts : peer'[p].stdin = "open" => peer[p].stdin = "open" \/ p = c
       /\ \A d \in Prompts : collector'[d] = "run" => collector[d] = "run" \/ Settled'
       /\ session' # None => chat'.known
       /\ ChatKeeps
  BY <1>1, <1>2, <1>5 DEF ChatKeeps, TypeOK
<1> QED BY <1>1, <1>2, <1>3, <1>6, <1>7, <1>8, <1>9, <1>10, FullStep

\* The handshake goes on with another request.
LEMMA ShakesOn ==
    ASSUME SessionInv, NEW c \in Prompts, NEW a \in {"resume", "new"}, NEW id \in Nat, Opening(c),
           peer' = [peer EXCEPT ![c] = Request(@)],
           call' = [call EXCEPT ![c].at = a, ![c].id = id],
           UNCHANGED <<up, restarts, mu, session, chat, file, busy, collector, collected>>
    PROVE  SessionInv'
<1>2. TypeOK /\ Control /\ c \in Calls /\ a \in Labels
  BY DEF SessionInv, Calls, Labels
<1>3. Moves(c, a, call[c].then) /\ SameOut(c) /\ call'[c].copy = call[c].copy
  BY <1>2, WaitFacts
<1>4. call'[c].at = a
  BY <1>3 DEF Moves
<1>5. mu = c /\ session = None /\ ~Settled /\ peer[c] \in Peer
  BY <1>2, StageOf DEF Opening, Shaking
<1>6. Stage(c)' /\ ~Working(c) /\ Shaking(c)'
  BY <1>4, <1>5 DEF Stage, Opening, Shaking, Installing, Using, Saving, Working, Asking, Telling
<1>7. call'[c].copy.messages = chat'.messages
  BY <1>2, <1>3 DEF SessionInv, FileInv
<1>8. ASSUME restarts = 0 PROVE Account(c)'
  <2>1. Early(c) /\ ~Asking(c)' /\ ~Telling(c)' /\ ~Ending(c)' /\ call'[c].at # "failed"
    BY <1>4 DEF Early, Asking, Telling, Ending, Saving
  <2>2. Account(c) /\ ChatKeeps
    BY <1>8 DEF SessionInv, ChatKeeps
  <2> QED BY <1>3, <1>8, <2>1, <2>2, AccountMoves
<1>9. Globals'
  <2>1. Request(peer[c]) \in Peer
    BY <1>5, RequestType
  <2>2. peer' \in [Prompts -> Peer]
    BY <1>2, <2>1 DEF TypeOK
  <2> QED BY <1>2, <2>2 DEF TypeOK, Globals
<1>10. /\ \A p \in Prompts : peer'[p].stdin = "open" => peer[p].stdin = "open" \/ p = c
       /\ \A d \in Prompts : collector'[d] = "run" => collector[d] = "run" \/ Settled'
       /\ session' # None => chat'.known
       /\ ChatKeeps
  BY <1>2, <1>5 DEF ChatKeeps, TypeOK
<1> QED BY <1>2, <1>3, <1>4, <1>6, <1>7, <1>8, <1>9, <1>10, FullStep

\* The process has answered the first request of the handshake.
LEMMA InitializedKeeps == ASSUME SessionInv, NEW c \in Prompts, Initialized(c) PROVE SessionInv'
<1> DEFINE a == IF call[c].copy.known THEN "resume" ELSE "new"
<1>1. /\ call[c].at = "initialize" /\ peer' = [peer EXCEPT ![c] = Request(@)]
      /\ call' = [call EXCEPT ![c].at = a, ![c].id = 2]
      /\ UNCHANGED <<up, restarts, mu, session, chat, file, busy, collector, collected>>
  BY DEF Initialized, At, hostVars, chatVars, collectVars
<1>2. a \in {"resume", "new"} /\ 2 \in Nat
  OBVIOUS
<1>3. Opening(c)
  BY <1>1 DEF Opening, Shaking
<1> HIDE DEF a
<1> QED BY <1>1, <1>2, <1>3, ShakesOn

\* The process cannot resume the session.
LEMMA ResumeRefusedKeeps == ASSUME SessionInv, NEW c \in Prompts, ResumeRefused(c) PROVE SessionInv'
<1>1. /\ call[c].at = "resume" /\ peer' = [peer EXCEPT ![c] = Request(@)]
      /\ call' = [call EXCEPT ![c].at = "new", ![c].id = 3]
      /\ UNCHANGED <<up, restarts, mu, session, chat, file, busy, collector, collected>>
  BY DEF ResumeRefused, At, hostVars, chatVars, collectVars
<1>2. Opening(c) /\ 3 \in Nat
  BY <1>1 DEF Opening, Shaking
<1> QED BY <1>1, <1>2, ShakesOn

\* The process has a session.
LEMMA OpenedKeeps == ASSUME SessionInv, NEW c \in Prompts, Opened(c) PROVE SessionInv'
<1>1. /\ call[c].at \in {"resume", "new"}
      /\ call' = [call EXCEPT ![c].at = "install", ![c].id = 0]
      /\ UNCHANGED <<up, restarts, mu, session, peer, chat, file, busy, collector, collected>>
  BY DEF Opened, At, hostVars, sessionVars, chatVars, collectVars
<1>2. TypeOK /\ Control /\ c \in Calls /\ "install" \in Labels /\ 0 \in Nat
  BY DEF SessionInv, Calls, Labels
<1>3. Moves(c, "install", call[c].then) /\ SameOut(c) /\ call'[c].copy = call[c].copy
  BY <1>1, <1>2, WaitFacts
<1>4. call'[c].at = "install"
  BY <1>3 DEF Moves
<1>5. mu = c /\ session = None
  BY <1>1, <1>2, StageOf
<1>6. Stage(c)' /\ ~Working(c) /\ Shaking(c)' /\ Opening(c)
  BY <1>1, <1>4, <1>5 DEF Stage, Opening, Shaking, Installing, Using, Saving, Working, Asking, Telling
<1>7. call'[c].copy.messages = chat.messages
  BY <1>2, <1>3, <1>6 DEF SessionInv, FileInv
<1>8. ASSUME restarts = 0 PROVE Account(c)'
  <2>1. Early(c) /\ ~Asking(c)' /\ ~Telling(c)' /\ ~Ending(c)' /\ call'[c].at # "failed"
    BY <1>4, <1>6 DEF Early, Asking, Telling, Ending, Saving
  <2>2. Account(c) /\ ChatKeeps
    BY <1>1, <1>8 DEF SessionInv, ChatKeeps
  <2> QED BY <1>3, <1>8, <2>1, <2>2, AccountMoves
<1> QED BY <1>1, <1>2, <1>3, <1>6, <1>7, <1>8, PlainStep

\* The handshake fails: the input is closed before the mutex is released.
LEMMA HandshakeFailsKeeps == ASSUME SessionInv, NEW c \in Prompts, HandshakeFails(c) PROVE SessionInv'
<1>1. /\ call[c].at \in {"initialize", "resume", "new"} /\ peer' = [peer EXCEPT ![c] = Close(@)]
      /\ mu' = None /\ Fails(c)
      /\ UNCHANGED <<up, restarts, session, chat, file, busy, collector, collected>>
  BY DEF HandshakeFails, HandshakeFailed, At, hostVars, chatVars, collectVars
<1>2. TypeOK /\ Control /\ c \in Calls
  BY DEF SessionInv, Calls
<1>3. Moves(c, "done", "done") /\ ~call'[c].ok
  BY <1>1, <1>2, FailsFacts
<1>4. call'[c].at = "done"
  BY <1>3 DEF Moves
<1>5. mu = c /\ session = None /\ ~Settled /\ peer[c] \in Peer
  BY <1>1, <1>2, StageOf
<1>6. Stage(c)' /\ ~Working(c) /\ ~Opening(c)'
  BY <1>1, <1>4 DEF Stage, Opening, Shaking, Installing, Using, Saving, Working, Asking, Telling
<1>7. Account(c)'
  BY <1>3, <1>4, AccountNext DEF Early, Asking, Telling, Ending, Saving, Opening, Shaking, Installing
<1>8. Globals' /\ peer'[c].stdin = "closed"
  <2>1. Close(peer[c]) \in Peer /\ Close(peer[c]).stdin = "closed"
    BY <1>5, CloseType, InputStays
  <2>2. peer' \in [Prompts -> Peer] /\ peer'[c].stdin = "closed"
    BY <1>1, <1>2, <2>1 DEF TypeOK
  <2> QED BY <1>1, <1>2, <2>2 DEF TypeOK, Globals
<1>9. /\ \A p \in Prompts : peer'[p].stdin = "open" => peer[p].stdin = "open" \/ p = c
      /\ \A d \in Prompts : collector'[d] = "run" => collector[d] = "run" \/ Settled'
      /\ session' # None => chat'.known
      /\ ChatKeeps
  BY <1>1, <1>2, <1>5 DEF ChatKeeps, TypeOK
<1> QED BY <1>1, <1>2, <1>3, <1>5, <1>6, <1>7, <1>8, <1>9, FullStep

\* The session goes into the map, and its entry has the messages of the copy, which are
\* all there are.
LEMMA InstallKeeps == ASSUME SessionInv, NEW c \in Prompts, Install(c) PROVE SessionInv'
<1>1. /\ call[c].at = "install" /\ session' = c
      /\ chat' = [known |-> TRUE, status |-> "ready", messages |-> call[c].copy.messages]
      /\ call' = [call EXCEPT ![c].at = "save", ![c].then = "message"]
      /\ UNCHANGED <<up, restarts, mu, peer, file, busy, collector, collected>>
  BY DEF Install, At, hostVars, collectVars
<1>2. TypeOK /\ Control /\ c \in Calls /\ "message" \in Thens /\ call[c] \in Handler
  BY DEF SessionInv, Calls, Thens, TypeOK
<1>3. Moves(c, "save", "message") /\ SameOut(c)
  BY <1>1, <1>2, SaveFacts
<1>4. call'[c].at = "save" /\ call'[c].then = "message"
  BY <1>3 DEF Moves
<1>5. mu = c /\ session = None /\ ~Settled
  BY <1>1, <1>2, StageOf
<1>6. Stage(c)' /\ ~Working(c) /\ ~Opening(c)' /\ Opening(c)
  BY <1>1, <1>4, <1>5 DEF Stage, Opening, Shaking, Installing, Using, Saving, Working, Asking, Telling
<1>7. ChatKeeps /\ chat' \in Chat /\ chat'.known /\ chat'.status # "running"
  <2>1. call[c].copy.messages = chat.messages
    BY <1>2, <1>6 DEF SessionInv, FileInv
  <2>2. chat.messages \in Seq(ChatMessage)
    BY <1>2 DEF TypeOK, Chat
  <2> QED BY <1>1, <2>1, <2>2 DEF ChatKeeps, Chat
<1>8. ASSUME restarts = 0 PROVE Account(c)'
  <2>1. Early(c) /\ ~Asking(c)' /\ ~Telling(c)' /\ ~Ending(c)' /\ call'[c].at # "failed"
    BY <1>4, <1>6 DEF Early, Asking, Telling, Ending, Saving
  <2>2. Account(c)
    BY <1>8 DEF SessionInv
  <2> QED BY <1>3, <1>7, <1>8, <2>1, <2>2, AccountMoves
<1>9. Globals'
  BY <1>1, <1>2, <1>7 DEF TypeOK, Globals
<1>10. /\ \A p \in Prompts : peer'[p].stdin = "open" => peer[p].stdin = "open" \/ p = c
       /\ \A d \in Prompts : collector'[d] = "run" => collector[d] = "run" \/ Settled'
  BY <1>1
<1> QED BY <1>1, <1>2, <1>3, <1>5, <1>6, <1>7, <1>8, <1>9, <1>10, FullStep

-----------------------------------------------------------------------------
(* saveConfig, and the handlers that change the chat.                      *)

\* The stages a handler moves through by itself.
LEMMA SaveCopiesKeeps == ASSUME SessionInv, NEW c \in Calls, SaveCopies(c) PROVE SessionInv'
<1>1. /\ call[c].at = "save"
      /\ call' = [call EXCEPT ![c].at = "open", ![c].copy = chat]
      /\ UNCHANGED <<up, restarts, mu, session, peer, chat, file, busy, collector, collected>>
  BY DEF SaveCopies, At, hostVars, sessionVars, chatVars, collectVars
<1>2. "open" \in Labels /\ TypeOK /\ Control /\ chat \in Chat
  BY DEF Labels, SessionInv, TypeOK
<1>3. Moves(c, "open", call[c].then) /\ SameOut(c) /\ call'[c].copy = chat /\ call'[c].ok = call[c].ok
  BY <1>1, <1>2, CopyFacts
<1>4. call'[c].at = "open" /\ call'[c].then = call[c].then
  BY <1>3 DEF Moves
<1>5. Stage(c)
  BY <1>2 DEF Control
<1>6. Stage(c)' /\ ~Opening(c)' /\ ~Shaking(c) /\ (Working(c) => Working(c)')
  BY <1>1, <1>4, <1>5 DEF Stage, Opening, Shaking, Installing, Using, Saving, Working, Asking, Telling, Settled
<1>7. ASSUME c \in Prompts, restarts = 0 PROVE Account(c)'
  <2>1. /\ Early(c)' = Early(c) /\ Asking(c)' = Asking(c) /\ Telling(c)' = Telling(c) /\ Ending(c)' = Ending(c)
        /\ call'[c].at # "failed"
    BY <1>1, <1>4 DEF Early, Asking, Telling, Ending, Saving, Opening, Shaking, Installing
  <2>2. Account(c) /\ ChatKeeps
    BY <1>1, <1>7 DEF SessionInv, ChatKeeps
  <2> QED BY <1>3, <1>7, <2>1, <2>2, AccountMoves
<1>8. Prefix(call'[c].copy.messages, chat.messages)
  BY <1>2, <1>3, PrefixSame DEF Chat
<1> QED BY <1>1, <1>3, <1>6, <1>7, <1>8, PlainStep

\* saveConfig truncates the file.
LEMMA SaveOpensKeeps == ASSUME SessionInv, NEW c \in Calls, SaveOpens(c) PROVE SessionInv'
<1>1. /\ call[c].at = "open" /\ file' = [kind |-> "empty", chat |-> NoChat] /\ Goes(c, "write")
      /\ UNCHANGED <<up, restarts, mu, session, peer, chat, busy, collector, collected>>
  BY DEF SaveOpens, At, hostVars, sessionVars, collectVars
<1>2. "write" \in Labels /\ TypeOK /\ Control /\ chat \in Chat
  BY DEF Labels, SessionInv, TypeOK
<1>3. Moves(c, "write", call[c].then) /\ SameOut(c) /\ call'[c].copy = call[c].copy /\ call'[c].ok = call[c].ok
  BY <1>1, <1>2, GoesFacts
<1>4. call'[c].at = "write" /\ call'[c].then = call[c].then
  BY <1>3 DEF Moves
<1>5. Stage(c)
  BY <1>2 DEF Control
<1>6. Stage(c)' /\ ~Opening(c)' /\ ~Shaking(c) /\ (Working(c) => Working(c)')
  BY <1>1, <1>4, <1>5 DEF Stage, Opening, Shaking, Installing, Using, Saving, Working, Asking, Telling, Settled
<1>7. ASSUME c \in Prompts, restarts = 0 PROVE Account(c)'
  <2>1. /\ Early(c)' = Early(c) /\ Asking(c)' = Asking(c) /\ Telling(c)' = Telling(c) /\ Ending(c)' = Ending(c)
        /\ call'[c].at # "failed"
    BY <1>1, <1>4 DEF Early, Asking, Telling, Ending, Saving, Opening, Shaking, Installing
  <2>2. Account(c) /\ ChatKeeps
    BY <1>1, <1>7 DEF SessionInv, ChatKeeps
  <2> QED BY <1>3, <1>7, <2>1, <2>2, AccountMoves
<1>8. Prefix(call'[c].copy.messages, chat.messages)
  BY <1>1, <1>3 DEF SessionInv, FileInv
<1>9. file' \in File /\ file'.kind # "whole"
  BY <1>1, IdleType DEF File
<1>10. Globals'
  BY <1>1, <1>2, <1>9 DEF TypeOK, Globals
<1>11. /\ \A p \in Prompts : peer'[p].stdin = "open" => peer[p].stdin = "open" \/ p = c
       /\ c \in Prompts /\ peer'[c].stdin = "open" =>
            \/ c = session' \/ Shaking(c)'
            \/ session' = session /\ ~Shaking(c) /\ peer[c].stdin = "open"
       /\ \A d \in Prompts : collector'[d] = "run" => collector[d] = "run" \/ Settled'
       /\ session' # None => chat'.known
       /\ ChatKeeps
  BY <1>1, <1>2, <1>6 DEF ChatKeeps, Control
<1> QED BY <1>1, <1>3, <1>6, <1>7, <1>8, <1>9, <1>10, <1>11, FullStep

\* saveConfig writes the file, whole or torn by another writer.
LEMMA SaveWritesKeeps == ASSUME SessionInv, NEW c \in Calls, SaveWrites(c) PROVE SessionInv'
<1> DEFINE copy == call[c].copy
<1>1. /\ call[c].at = "write"
      /\ file' = [kind |-> "whole", chat |-> copy] \/ file' = [kind |-> "torn", chat |-> NoChat]
      /\ mu' = IF call[c].then = "message" THEN None ELSE mu
      /\ UNCHANGED <<up, restarts, session, peer, chat, busy, collector, collected>>
  BY DEF SaveWrites, At, hostVars, collectVars
<1>2. TypeOK /\ Control /\ copy \in Chat /\ call[c].then \in Thens
  BY DEF SessionInv, TypeOK, Handler, Thens
<1>3. Moves(c, call[c].then, "done") /\ SameOut(c) /\ call'[c].ok = call[c].ok
  BY <1>2, SavedFacts
<1>4. call'[c].at = call[c].then /\ call'[c].then = "done"
  BY <1>3 DEF Moves
<1>5. Stage(c) /\ None \notin Prompts
  BY <1>2, SessionAssumption DEF Control
<1>6. /\ call[c].then = "message" => c \in Prompts /\ mu = c /\ session = c /\ ~Settled
      /\ call[c].then # "message" => Settled
  BY <1>1, <1>5 DEF Stage, Installing, Using, Saving, Settled
<1>7. Stage(c)' /\ ~Opening(c)' /\ ~Shaking(c) /\ (Working(c) => Working(c)')
  BY <1>1, <1>2, <1>4, <1>5, <1>6 DEF Thens, Stage, Opening, Shaking, Installing, Using, Saving, Working, Asking, Telling, Settled
<1>8. ASSUME c \in Prompts, restarts = 0 PROVE Account(c)'
  <2>1. Early(c)' => Early(c)
    BY <1>1, <1>2, <1>4 DEF Thens, Early, Saving, Opening, Shaking, Installing
  <2>2. (Asking(c)' => Asking(c)) /\ (Telling(c)' => Telling(c)) /\ (Ending(c)' => Ending(c))
    BY <1>1, <1>2, <1>4 DEF Thens, Asking, Telling, Ending, Saving
  <2>3. call'[c].at # "failed"
    BY <1>2, <1>4 DEF Thens
  <2>4. Account(c) /\ ChatKeeps
    BY <1>1, <1>8 DEF SessionInv, ChatKeeps
  <2> QED BY <1>3, <1>8, <2>1, <2>2, <2>3, <2>4, AccountMoves
<1>9. file' \in File
  BY <1>1, <1>2, IdleType DEF File
<1>10. file'.kind = "whole" => Prefix(file'.chat.messages, chat'.messages)
  <2>1. Prefix(copy.messages, chat.messages)
    BY <1>1 DEF SessionInv, FileInv
  <2> QED BY <1>1, <2>1
<1>11. Globals'
  BY <1>1, <1>2, <1>9 DEF TypeOK, Globals
<1>12. /\ \A p \in Prompts : peer'[p].stdin = "open" => peer[p].stdin = "open" \/ p = c
       /\ c \in Prompts /\ peer'[c].stdin = "open" =>
            \/ c = session' \/ Shaking(c)'
            \/ session' = session /\ ~Shaking(c) /\ peer[c].stdin = "open"
       /\ \A d \in Prompts : collector'[d] = "run" => collector[d] = "run" \/ Settled'
       /\ session' # None => chat'.known
       /\ ChatKeeps
  BY <1>1, <1>2, <1>7 DEF ChatKeeps, Control
<1>13. call[c].then \notin {"open", "write"}
  BY <1>2 DEF Thens
<1>14. \/ mu' = mu /\ session' = session
       \/ ~Settled /\ mu \in {None, c} /\ session \in {None, c}
  BY <1>1, <1>6
<1> QED BY <1>1, <1>3, <1>7, <1>8, <1>10, <1>11, <1>12, <1>13, <1>14, FullStep

\* saveConfig fails: a new session is closed before it leaves the map.
LEMMA SaveFailsKeeps == ASSUME SessionInv, NEW c \in Calls, SaveFailsAt(c) PROVE SessionInv'
<1>1. /\ SaveFails /\ call[c].at \in {"open", "write"} /\ Fails(c)
      /\ IF call[c].then = "message"
         THEN peer' = [peer EXCEPT ![c] = Close(@)] /\ session' = None /\ mu' = None
         ELSE UNCHANGED <<mu, session, peer>>
      /\ UNCHANGED <<up, restarts, chat, file, busy, collector, collected>>
  BY DEF SaveFailsAt, At, hostVars, sessionVars, chatVars, collectVars
<1>2. TypeOK /\ Control
  BY DEF SessionInv
<1>3. Moves(c, "done", "done") /\ ~call'[c].ok
  BY <1>1, <1>2, FailsFacts
<1>4. call'[c].at = "done"
  BY <1>3 DEF Moves
<1>5. Stage(c) /\ None \notin Prompts
  BY <1>2, SessionAssumption DEF Control
<1>6. call[c].then = "message" => c \in Prompts /\ mu = c /\ session = c /\ ~Settled /\ peer[c] \in Peer
  BY <1>1, <1>2, <1>5 DEF Stage, Installing, Saving, Settled, TypeOK
<1>7. Stage(c)' /\ ~Opening(c)' /\ ~Shaking(c)
  BY <1>1, <1>4 DEF Stage, Opening, Shaking, Installing, Using, Saving
<1>8. c \in Prompts => Account(c)'
  BY <1>3, <1>4, AccountNext DEF Early, Asking, Telling, Ending, Saving, Opening, Shaking, Installing
<1>9. /\ peer' \in [Prompts -> Peer]
      /\ call[c].then = "message" => peer'[c].stdin = "closed"
      /\ \A p \in Prompts : peer'[p].stdin = "open" => peer[p].stdin = "open" \/ p = c
  <2>1. CASE call[c].then = "message"
    <3>1. Close(peer[c]) \in Peer /\ Close(peer[c]).stdin = "closed"
      BY <1>6, <2>1, CloseType, InputStays
    <3> QED BY <1>1, <1>2, <1>6, <2>1, <3>1 DEF TypeOK
  <2>2. CASE call[c].then # "message"
    BY <1>1, <1>2, <2>2 DEF TypeOK
  <2> QED BY <2>1, <2>2
<1>10. Globals'
  BY <1>1, <1>2, <1>9 DEF TypeOK, Globals
<1>11. /\ c \in Prompts /\ peer'[c].stdin = "open" =>
            \/ c = session' \/ Shaking(c)'
            \/ session' = session /\ ~Shaking(c) /\ peer[c].stdin = "open"
       /\ \A d \in Prompts : collector'[d] = "run" => collector[d] = "run" \/ Settled'
       /\ session' # None => chat'.known
       /\ ChatKeeps
  BY <1>1, <1>2, <1>7, <1>9 DEF ChatKeeps, Control
<1>12. \/ mu' = mu /\ session' = session
       \/ ~Settled /\ mu \in {None, c} /\ session \in {None, c}
  BY <1>1, <1>6
<1> QED BY <1>1, <1>3, <1>7, <1>8, <1>9, <1>10, <1>11, <1>12, FullStep

-----------------------------------------------------------------------------
\* A handler with the session in use changes the chat and goes on to save it.
LEMMA ChangeStep ==
    ASSUME SessionInv, NEW c \in Calls, Settled, Using(c), Moves(c, "save", call'[c].then), call'[c].then # "message",
           UNCHANGED <<up, restarts, mu, session, peer, file, busy, collector, collected>>,
           chat' \in Chat, chat'.known, ChatKeeps \/ ChatGrows(c),
           chat'.status # "running" \/ (chat'.known /\ Working(c)'),
           c \in Prompts /\ restarts = 0 => Account(c)'
    PROVE  SessionInv'
<1>1. TypeOK /\ Control
  BY DEF SessionInv
<1>2. call'[c].at = "save"
  BY DEF Moves
<1>3. Stage(c)' /\ ~Opening(c)'
  BY <1>2 DEF Stage, Opening, Shaking, Installing, Using, Saving, Settled
<1>4. \A d \in Calls : ~Opening(d)
  BY <1>1 DEF Control, Stage, Settled
<1>5. Globals'
  BY <1>1 DEF TypeOK, Globals
<1>6. ~Shaking(c)
  BY <1>4 DEF Opening
<1>7. /\ \A p \in Prompts : peer'[p].stdin = "open" => peer[p].stdin = "open" \/ p = c
      /\ c \in Prompts /\ peer'[c].stdin = "open" =>
            \/ c = session' \/ Shaking(c)'
            \/ session' = session /\ ~Shaking(c) /\ peer[c].stdin = "open"
      /\ \A d \in Prompts : collector'[d] = "run" => collector[d] = "run" \/ Settled'
  BY <1>6
<1> QED BY <1>3, <1>4, <1>5, <1>7, FullStep

\* The chat with one more message.
LEMMA SaysFacts ==
    ASSUME chat \in Chat, NEW c \in Prompts, NEW n \in 0 .. MaxUpdates
    PROVE  /\ Says(c, n) \in Chat /\ Says(c, n).known = chat.known
           /\ \E e \in ChatMessage : /\ e.by = c /\ e.text = n
                                     /\ Says(c, n).messages = Append(chat.messages, e)
<1> DEFINE e == [by |-> c, text |-> n]
           m == Append(chat.messages, e)
<1>1. e \in ChatMessage /\ e.by = c /\ e.text = n
  BY DEF ChatMessage
<1> HIDE DEF e
<1>2. m \in Seq(ChatMessage)
  BY <1>1 DEF Chat
<1> HIDE DEF m
<1>3. Says(c, n) = [chat EXCEPT !.status = "running", !.messages = m]
  BY DEF Says, m, e
<1>4. Says(c, n) \in Chat /\ Says(c, n).known = chat.known /\ Says(c, n).messages = m
  BY <1>2, <1>3 DEF Chat
<1> QED BY <1>1, <1>4 DEF m

\* The prompt goes into the chat.
LEMMA PromptMessageKeeps == ASSUME SessionInv, NEW c \in Prompts, PromptMessage(c) PROVE SessionInv'
<1>1. /\ call[c].at = "message" /\ Change(c, Says(c, 0), "lock")
      /\ UNCHANGED <<up, restarts, mu, session, peer, file, busy, collector, collected>>
  BY DEF PromptMessage, At, hostVars, sessionVars, collectVars
<1>2. TypeOK /\ Control /\ c \in Calls /\ "lock" \in Thens /\ chat \in Chat /\ 0 \in 0 .. MaxUpdates
  BY PeerAssumption DEF SessionInv, Calls, Thens, TypeOK
<1>3. Moves(c, "save", "lock") /\ SameOut(c)
  BY <1>1, <1>2, SaveFacts DEF Change
<1>4. call'[c].at = "save" /\ call'[c].then = "lock"
  BY <1>3 DEF Moves
<1>5. Settled /\ Using(c)
  BY <1>1, <1>2, StageOf DEF Using
<1>6. chat.known
  BY <1>2, <1>5 DEF Control, Settled
<1>7. chat' = Says(c, 0)
  BY <1>1, <1>6 DEF Change
<1>8. PICK e \in ChatMessage : e.by = c /\ e.text = 0 /\ chat'.messages = Append(chat.messages, e)
  BY <1>2, <1>7, SaysFacts
<1>9. chat' \in Chat /\ chat'.known /\ ChatGrows(c)
  BY <1>2, <1>6, <1>7, <1>8, SaysFacts DEF ChatGrows
<1>10. Working(c)' /\ Asking(c)' /\ ~Early(c)' /\ ~Ending(c)' /\ call'[c].at # "failed"
  BY <1>4 DEF Working, Asking, Telling, Early, Ending, Opening, Shaking, Installing, Saving
<1>11. ASSUME restarts = 0 PROVE Account(c)'
  <2>1. call[c].kept = 0 /\ Silent(chat.messages, c)
    BY <1>1, <1>11, AccountMeans DEF SessionInv, Early
  <2>2. chat.messages \in Seq(ChatMessage) /\ call[c].outputs \in Seq(UpdateID)
    BY <1>2 DEF Chat, TypeOK, Handler
  <2>3. Told(chat'.messages, call[c].outputs, c, 0)
    BY <1>8, <2>1, <2>2, ToldFirst
  <2>4. call'[c].kept = 0 /\ call'[c].outputs = call[c].outputs
    BY <1>3, <2>1 DEF SameOut
  <2>5. 0 <= Len(call'[c].outputs)
    BY <2>2, <2>4
  <2> QED BY <1>10, <2>3, <2>4, <2>5, AccountNext
<1> QED BY <1>1, <1>2, <1>3, <1>4, <1>5, <1>9, <1>10, <1>11, ChangeStep

\* An output goes into the chat.
LEMMA PromptOutputKeeps == ASSUME SessionInv, NEW c \in Prompts, PromptOutput(c) PROVE SessionInv'
<1> DEFINE n == call[c].outputs[call[c].kept + 1]
<1>1. /\ call[c].at = "outputs" /\ chat' = IF chat.known THEN Says(c, n) ELSE chat
      /\ UNCHANGED <<up, restarts, mu, session, peer, file, busy, collector, collected>>
  BY DEF PromptOutput, At, hostVars, sessionVars, collectVars
<1>2. TypeOK /\ Control /\ c \in Calls /\ chat \in Chat
  BY DEF SessionInv, Calls, TypeOK
<1>3. /\ Moves(c, "save", "outputs") /\ call'[c].kept = call[c].kept + 1 /\ call[c].kept \in Nat
      /\ call'[c].outputs = call[c].outputs /\ call[c].outputs \in Seq(UpdateID)
      /\ n \in UpdateID /\ call[c].kept < Len(call[c].outputs)
  BY <1>2, OutputFacts
<1>4. call'[c].at = "save" /\ call'[c].then = "outputs"
  BY <1>3 DEF Moves
<1>5. Settled /\ Using(c)
  BY <1>1, <1>2, StageOf DEF Using
<1>6. chat.known
  BY <1>2, <1>5 DEF Control, Settled
<1> HIDE DEF n
<1>7. chat' = Says(c, n) /\ n \in 0 .. MaxUpdates
  BY <1>1, <1>3, <1>6, PeerAssumption DEF UpdateID
<1>8. PICK e \in ChatMessage : e.by = c /\ e.text = n /\ chat'.messages = Append(chat.messages, e)
  BY <1>2, <1>7, SaysFacts
<1>9. chat' \in Chat /\ chat'.known /\ ChatGrows(c)
  BY <1>2, <1>6, <1>7, <1>8, SaysFacts DEF ChatGrows
<1>10. Working(c)' /\ Telling(c)' /\ ~Asking(c)' /\ ~Early(c)' /\ ~Ending(c)' /\ call'[c].at # "failed"
  BY <1>4 DEF Working, Asking, Telling, Early, Ending, Opening, Shaking, Installing, Saving
<1>11. ASSUME restarts = 0 PROVE Account(c)'
  <2>1. Told(chat.messages, call[c].outputs, c, call[c].kept)
    BY <1>1, <1>11, AccountMeans DEF SessionInv, Telling
  <2>2. chat.messages \in Seq(ChatMessage)
    BY <1>2 DEF Chat
  <2>3. Told(chat'.messages, call[c].outputs, c, call[c].kept + 1)
    BY <1>3, <1>8, <2>1, <2>2, ToldNext DEF n
  <2>4. call'[c].kept <= Len(call'[c].outputs)
    BY <1>3
  <2> QED BY <1>3, <1>10, <2>3, <2>4, AccountNext
<1> QED BY <1>1, <1>2, <1>3, <1>4, <1>5, <1>9, <1>10, <1>11, ChangeStep

\* The prompt sets the status.
LEMMA PromptEndKeeps == ASSUME SessionInv, NEW c \in Prompts, PromptEnd(c) PROVE SessionInv'
<1> DEFINE result == IF call[c].ok THEN "completed" ELSE "failed"
<1>1. /\ \/ call[c].at = "outputs" /\ call[c].kept = Len(call[c].outputs)
         \/ call[c].at = "failed"
      /\ Change(c, [chat EXCEPT !.status = result], "done")
      /\ UNCHANGED <<up, restarts, mu, session, peer, file, busy, collector, collected>>
  BY DEF PromptEnd, At, hostVars, sessionVars, collectVars
<1>2. TypeOK /\ Control /\ c \in Calls /\ "done" \in Thens /\ chat \in Chat /\ result \in {"completed", "failed"}
  BY DEF SessionInv, Calls, Thens, TypeOK
<1> HIDE DEF result
<1>3. Moves(c, "save", "done") /\ SameOut(c) /\ call'[c].ok = call[c].ok
  BY <1>1, <1>2, SaveFacts DEF Change
<1>4. call'[c].at = "save" /\ call'[c].then = "done"
  BY <1>3 DEF Moves
<1>5. Settled /\ Using(c)
  BY <1>1, <1>2, StageOf DEF Using
<1>6. chat.known
  BY <1>2, <1>5 DEF Control, Settled
<1>7. chat' = [chat EXCEPT !.status = result]
  BY <1>1, <1>6 DEF Change
<1>8. chat' \in Chat /\ chat'.known /\ chat'.status # "running" /\ ChatKeeps
  BY <1>2, <1>6, <1>7 DEF Chat, ChatKeeps
<1>9. Telling(c) /\ ~Early(c)' /\ ~Asking(c)' /\ ~Telling(c)' /\ call'[c].at # "failed"
  BY <1>1, <1>4 DEF Asking, Telling, Early, Opening, Shaking, Installing, Saving
<1>10. ASSUME restarts = 0 PROVE Account(c)'
  <2>1. Account(c)
    BY <1>10 DEF SessionInv
  <2>2. call'[c].ok => call[c].kept = Len(call[c].outputs)
    BY <1>1, <1>3, <2>1 DEF Account
  <2> QED BY <1>3, <1>8, <1>9, <2>1, <2>2, AccountMoves
<1> QED BY <1>1, <1>2, <1>3, <1>4, <1>5, <1>8, <1>10, ChangeStep

\* A cancel that was granted sets the status.
LEMMA CancelSettleKeeps == ASSUME SessionInv, NEW q \in Cancels, CancelSettle(q) PROVE SessionInv'
<1>1. /\ call[q].at = "settle" /\ Change(q, [chat EXCEPT !.status = "cancelled"], "done")
      /\ UNCHANGED <<up, restarts, mu, session, peer, file, busy, collector, collected>>
  BY DEF CancelSettle, At, hostVars, sessionVars, collectVars
<1>2. TypeOK /\ Control /\ q \in Calls /\ q \notin Prompts /\ "done" \in Thens /\ chat \in Chat
  BY SessionAssumption DEF SessionInv, Calls, Thens, TypeOK
<1>3. Moves(q, "save", "done")
  BY <1>1, <1>2, SaveFacts DEF Change
<1>4. call'[q].then = "done"
  BY <1>3 DEF Moves
<1>5. Settled /\ Using(q)
  BY <1>1, <1>2 DEF Using, Control, Stage
<1>6. chat' = [chat EXCEPT !.status = "cancelled"]
  BY <1>1, <1>2, <1>5 DEF Change, Control, Settled
<1>7. chat' \in Chat /\ chat'.known /\ chat'.status # "running" /\ ChatKeeps
  BY <1>2, <1>5, <1>6 DEF Chat, ChatKeeps, Control, Settled
<1> QED BY <1>1, <1>2, <1>3, <1>4, <1>5, <1>7, ChangeStep

-----------------------------------------------------------------------------
(* The other steps of a prompt, the collectors and the cancels.            *)

\* The prompt takes the mutex of the session and starts its collector.
LEMMA PromptLockKeeps == ASSUME SessionInv, NEW c \in Prompts, PromptLock(c) PROVE SessionInv'
<1>1. /\ call[c].at = "lock" /\ Goes(c, "ask") /\ busy' = c
      /\ collector' = [collector EXCEPT ![c] = "run"]
      /\ UNCHANGED <<up, restarts, mu, session, peer, chat, file, collected>>
  BY DEF PromptLock, At, hostVars, sessionVars, chatVars
<1>2. TypeOK /\ Control /\ c \in Calls /\ "ask" \in Labels
  BY DEF SessionInv, Calls, Labels
<1>3. Moves(c, "ask", call[c].then) /\ SameOut(c)
  BY <1>1, <1>2, GoesFacts
<1>4. call'[c].at = "ask"
  BY <1>3 DEF Moves
<1>5. Settled
  BY <1>1, <1>2, StageOf
<1>6. Stage(c)' /\ ~Opening(c)' /\ ~Shaking(c) /\ Working(c)'
  BY <1>1, <1>4, <1>5 DEF Stage, Opening, Shaking, Installing, Using, Saving, Working, Asking, Telling, Settled
<1>7. ASSUME restarts = 0 PROVE Account(c)'
  <2>1. Asking(c) /\ ~Early(c)' /\ ~Telling(c)' /\ ~Ending(c)' /\ call'[c].at # "failed"
    BY <1>1, <1>4 DEF Early, Asking, Telling, Ending, Saving, Opening, Shaking, Installing
  <2>2. Account(c) /\ ChatKeeps
    BY <1>1, <1>7 DEF SessionInv, ChatKeeps
  <2> QED BY <1>3, <2>1, <2>2, AccountMoves
<1>8. Globals'
  BY <1>1, <1>2 DEF TypeOK, Globals
<1>9. /\ \A p \in Prompts : peer'[p].stdin = "open" => peer[p].stdin = "open" \/ p = c
      /\ peer'[c].stdin = "open" => c = session' \/ Shaking(c)' \/ (session' = session /\ ~Shaking(c) /\ peer[c].stdin = "open")
      /\ \A d \in Prompts : collector'[d] = "run" => collector[d] = "run" \/ Settled'
      /\ session' # None => chat'.known
      /\ ChatKeeps
  BY <1>1, <1>2, <1>5, <1>6 DEF ChatKeeps, Settled, Control
<1> QED BY <1>1, <1>2, <1>3, <1>6, <1>7, <1>8, <1>9, FullStep

\* A prompt or a cancel writes its request to the process of the session.
LEMMA AskedPeer ==
    ASSUME TypeOK, session \in Prompts, peer' = [peer EXCEPT ![session] = Request(@)]
    PROVE  /\ peer' \in [Prompts -> Peer] /\ peer[session].nextID + 1 \in Nat
           /\ \A p \in Prompts : peer'[p].stdin = peer[p].stdin
<1>1. peer[session] \in Peer /\ peer' = [peer EXCEPT ![session] = Request(peer[session])]
  BY DEF TypeOK
<1>2. Request(peer[session]) \in Peer /\ peer[session].nextID + 1 \in Nat
      /\ Request(peer[session]).stdin = peer[session].stdin
  BY <1>1, RequestType, InputStays
<1> DEFINE k == Request(peer[session])
<1> HIDE DEF k
<1>3. peer' = [peer EXCEPT ![session] = k] /\ k \in Peer /\ k.stdin = peer[session].stdin
  BY <1>1, <1>2 DEF k
<1> QED BY <1>2, <1>3 DEF TypeOK

\* The prompt is written to the process.
LEMMA PromptAskKeeps == ASSUME SessionInv, NEW c \in Prompts, PromptAsk(c) PROVE SessionInv'
<1> DEFINE a == IF CanWrite(peer[session]) THEN "wait" ELSE "drain"
           id == peer[session].nextID + 1
<1>1. /\ call[c].at = "ask" /\ peer' = [peer EXCEPT ![session] = Request(@)]
      /\ call' = [call EXCEPT ![c].at = a, ![c].id = id, ![c].ok = FALSE]
      /\ UNCHANGED <<up, restarts, mu, session, chat, file, busy, collector, collected>>
  BY DEF PromptAsk, At, hostVars, chatVars, collectVars
<1>2. TypeOK /\ Control /\ c \in Calls /\ a \in {"wait", "drain"} /\ a \in Labels
  BY DEF SessionInv, Calls, Labels
<1>3. Settled /\ session \in Prompts
  BY <1>1, <1>2, StageOf
<1>4. peer' \in [Prompts -> Peer] /\ id \in Nat /\ \A p \in Prompts : peer'[p].stdin = peer[p].stdin
  BY <1>1, <1>2, <1>3, AskedPeer
<1> HIDE DEF a, id
<1>5. Moves(c, a, call[c].then) /\ SameOut(c)
  BY <1>1, <1>2, <1>4, AskFacts
<1>6. call'[c].at \in {"wait", "drain"}
  BY <1>2, <1>5 DEF Moves
<1>7. Stage(c)' /\ ~Opening(c)' /\ ~Shaking(c) /\ Working(c)'
  BY <1>1, <1>3, <1>6 DEF Stage, Opening, Shaking, Installing, Using, Saving, Working, Asking, Telling, Settled
<1>8. ASSUME restarts = 0 PROVE Account(c)'
  <2>1. Asking(c) /\ ~Early(c)' /\ ~Telling(c)' /\ ~Ending(c)' /\ call'[c].at # "failed"
    BY <1>1, <1>6 DEF Early, Asking, Telling, Ending, Saving, Opening, Shaking, Installing
  <2>2. Account(c) /\ ChatKeeps
    BY <1>1, <1>8 DEF SessionInv, ChatKeeps
  <2> QED BY <1>5, <2>1, <2>2, AccountMoves
<1>9. Globals'
  BY <1>1, <1>2, <1>4 DEF TypeOK, Globals
<1>10. /\ \A p \in Prompts : peer'[p].stdin = "open" => peer[p].stdin = "open" \/ p = c
       /\ peer'[c].stdin = "open" => c = session' \/ Shaking(c)' \/ (session' = session /\ ~Shaking(c) /\ peer[c].stdin = "open")
       /\ \A d \in Prompts : collector'[d] = "run" => collector[d] = "run" \/ Settled'
       /\ session' # None => chat'.known
       /\ ChatKeeps
  BY <1>1, <1>2, <1>4, <1>7 DEF ChatKeeps, Control
<1>11. a \notin {"open", "write"}
  BY <1>2
<1> QED BY <1>1, <1>2, <1>5, <1>7, <1>8, <1>9, <1>10, <1>11, FullStep

\* A prompt with its request out moves on and stays there.
LEMMA AskingStep ==
    ASSUME SessionInv, NEW c \in Prompts, Asking(c), call[c].at \in {"wait", "drain"},
           NEW a \in {"drain", "gather"}, NEW next, Moves(c, a, next), SameOut(c),
           UNCHANGED <<up, restarts, mu, session, peer, chat, file, busy, collector, collected>>
    PROVE  SessionInv'
<1>1. TypeOK /\ Control /\ c \in Calls
  BY DEF SessionInv, Calls
<1>2. Settled
  BY <1>1, StageOf
<1>3. call'[c].at \in {"drain", "gather"}
  BY DEF Moves
<1>4. Stage(c)' /\ ~Opening(c)' /\ ~Shaking(c) /\ Working(c)'
  BY <1>2, <1>3 DEF Stage, Opening, Shaking, Installing, Using, Saving, Working, Asking, Telling, Settled
<1>5. ASSUME restarts = 0 PROVE Account(c)'
  <2>1. Asking(c) /\ ~Early(c)' /\ ~Telling(c)' /\ ~Ending(c)' /\ call'[c].at # "failed"
    BY <1>3 DEF Early, Telling, Ending, Saving, Opening, Shaking, Installing
  <2>2. Account(c) /\ ChatKeeps
    BY <1>5 DEF SessionInv, ChatKeeps
  <2> QED BY <2>1, <2>2, AccountMoves
<1>6. a \notin {"open", "write"}
  OBVIOUS
<1> QED BY <1>1, <1>4, <1>5, <1>6, PlainStep

\* The prompt is answered, refused or given up.
LEMMA PromptAnsweredKeeps == ASSUME SessionInv, NEW c \in Prompts, PromptAnswered(c) PROVE SessionInv'
<1>1. PICK granted \in BOOLEAN : call' = [call EXCEPT ![c].at = "drain", ![c].id = 0, ![c].ok = granted]
  BY DEF PromptAnswered
<1>2. call[c].at = "wait" /\ UNCHANGED <<up, restarts, mu, session, peer, chat, file, busy, collector, collected>>
  BY DEF PromptAnswered, At, hostVars, sessionVars, chatVars, collectVars
<1>3. TypeOK /\ c \in Calls /\ "drain" \in Labels /\ 0 \in Nat
  BY DEF SessionInv, Calls, Labels
<1>4. Moves(c, "drain", call[c].then) /\ SameOut(c)
  BY <1>1, <1>3, AskFacts
<1> QED BY <1>2, <1>4, AskingStep DEF Asking

\* The prompt stops its collector.
LEMMA PromptStopKeeps == ASSUME SessionInv, NEW c \in Prompts, PromptStop(c) PROVE SessionInv'
<1>1. /\ call[c].at = "drain" /\ Goes(c, "gather")
      /\ UNCHANGED <<up, restarts, mu, session, peer, chat, file, busy, collector, collected>>
  BY DEF PromptStop, At, hostVars, sessionVars, chatVars, collectVars
<1>2. TypeOK /\ c \in Calls /\ "gather" \in Labels
  BY DEF SessionInv, Calls, Labels
<1>3. Moves(c, "gather", call[c].then) /\ SameOut(c)
  BY <1>1, <1>2, GoesFacts
<1> QED BY <1>1, <1>3, AskingStep DEF Asking

\* The prompt takes an output from its collector.
LEMMA PromptGatherKeeps == ASSUME SessionInv, NEW c \in Prompts, PromptGather(c) PROVE SessionInv'
<1>1. /\ call[c].at = "gather"
      /\ UNCHANGED <<up, restarts, mu, session, peer, chat, file, busy, collector>>
  BY DEF PromptGather, At, hostVars, sessionVars, chatVars
<1>2. TypeOK /\ Control /\ c \in Calls
  BY DEF SessionInv, Calls
<1>3. /\ Moves(c, "gather", call[c].then) /\ call'[c].kept = call[c].kept
      /\ Len(call[c].outputs) <= Len(call'[c].outputs)
      /\ collected' \in [Prompts -> Seq(UpdateID)]
  BY <1>2, GatherFacts
<1>4. call'[c].at = "gather"
  BY <1>3 DEF Moves
<1>5. Settled
  BY <1>1, <1>2, StageOf
<1>6. Stage(c)' /\ ~Opening(c)' /\ ~Shaking(c) /\ Working(c)'
  BY <1>1, <1>4, <1>5 DEF Stage, Opening, Shaking, Installing, Using, Saving, Working, Asking, Telling, Settled
<1>7. ASSUME restarts = 0 PROVE Account(c)'
  <2>1. Asking(c) /\ ~Early(c)' /\ ~Telling(c)' /\ ~Ending(c)' /\ call'[c].at # "failed"
    BY <1>1, <1>4 DEF Early, Asking, Telling, Ending, Saving, Opening, Shaking, Installing
  <2>2. call[c].kept = 0 /\ Told(chat.messages, call[c].outputs, c, call[c].kept)
    BY <1>7, <2>1, AccountMeans DEF SessionInv
  <2>3. Told(chat.messages, call[c].outputs, c, 0)
    BY <2>2
  <2>4. Told(chat.messages, call'[c].outputs, c, 0)
    BY <2>3, ToldOutputs
  <2>5. call'[c].outputs \in Seq(UpdateID)
    BY <1>2, <1>3 DEF Moves, Handler
  <2>6. call'[c].kept = 0 /\ 0 <= Len(call'[c].outputs)
    BY <1>3, <2>2, <2>5
  <2>7. chat' = chat
    BY <1>1
  <2> QED BY <2>1, <2>4, <2>6, <2>7, AccountNext
<1>8. Globals'
  BY <1>1, <1>2, <1>3 DEF TypeOK, Globals
<1>9. /\ \A p \in Prompts : peer'[p].stdin = "open" => peer[p].stdin = "open" \/ p = c
      /\ peer'[c].stdin = "open" => c = session' \/ Shaking(c)' \/ (session' = session /\ ~Shaking(c) /\ peer[c].stdin = "open")
      /\ \A d \in Prompts : collector'[d] = "run" => collector[d] = "run" \/ Settled'
      /\ session' # None => chat'.known
      /\ ChatKeeps
  BY <1>1, <1>2, <1>6 DEF ChatKeeps, Control
<1> QED BY <1>1, <1>2, <1>3, <1>6, <1>7, <1>8, <1>9, FullStep

\* The prompt has all its outputs and releases the session.
LEMMA PromptGatheredKeeps == ASSUME SessionInv, NEW c \in Prompts, PromptGathered(c) PROVE SessionInv'
<1> DEFINE a == IF call[c].ok THEN "outputs" ELSE "failed"
<1>1. /\ call[c].at = "gather" /\ busy' = None /\ Goes(c, a)
      /\ UNCHANGED <<up, restarts, mu, session, peer, chat, file, collector, collected>>
  BY DEF PromptGathered, At, hostVars, sessionVars, chatVars
<1>2. TypeOK /\ Control /\ c \in Calls /\ a \in Labels /\ a \in {"outputs", "failed"} /\ (a = "failed" <=> ~call[c].ok)
  BY DEF SessionInv, Calls, Labels
<1> HIDE DEF a
<1>3. Moves(c, a, call[c].then) /\ SameOut(c) /\ call'[c].ok = call[c].ok
  BY <1>1, <1>2, GoesFacts
<1>4. call'[c].at \in {"outputs", "failed"} /\ (call'[c].at = "failed" => ~call'[c].ok)
  BY <1>2, <1>3 DEF Moves
<1>5. Settled
  BY <1>1, <1>2, StageOf
<1>6. Stage(c)' /\ ~Opening(c)' /\ ~Shaking(c) /\ Working(c)'
  BY <1>1, <1>4, <1>5 DEF Stage, Opening, Shaking, Installing, Using, Saving, Working, Asking, Telling, Settled
<1>7. ASSUME restarts = 0 PROVE Account(c)'
  <2>1. Asking(c) /\ ~Early(c)' /\ ~Asking(c)' /\ ~Ending(c)'
    BY <1>1, <1>4 DEF Early, Asking, Ending, Saving, Opening, Shaking, Installing
  <2>2. Account(c) /\ ChatKeeps
    BY <1>1, <1>7 DEF SessionInv, ChatKeeps
  <2> QED BY <1>3, <1>4, <2>1, <2>2, AccountMoves
<1>8. Globals'
  BY <1>1, <1>2 DEF TypeOK, Globals
<1>9. /\ \A p \in Prompts : peer'[p].stdin = "open" => peer[p].stdin = "open" \/ p = c
      /\ peer'[c].stdin = "open" => c = session' \/ Shaking(c)' \/ (session' = session /\ ~Shaking(c) /\ peer[c].stdin = "open")
      /\ \A d \in Prompts : collector'[d] = "run" => collector[d] = "run" \/ Settled'
      /\ session' # None => chat'.known
      /\ ChatKeeps
  BY <1>1, <1>2, <1>6 DEF ChatKeeps, Control
<1>10. a \notin {"open", "write"}
  BY <1>2
<1> QED BY <1>1, <1>2, <1>3, <1>6, <1>7, <1>8, <1>9, <1>10, FullStep

-----------------------------------------------------------------------------
\* What neither a handler nor the chat nor the file takes part in.
LEMMA QuietStep ==
    ASSUME SessionInv, UNCHANGED <<up, restarts, mu, session, chat, file, call, busy>>,
           peer' \in [Prompts -> Peer], collector' \in [Prompts -> {"none", "run", "end"}],
           collected' \in [Prompts -> Seq(UpdateID)],
           \A p \in Prompts : peer'[p].stdin = "open" => peer[p].stdin = "open",
           \A d \in Prompts : collector'[d] = "run" => collector[d] = "run"
    PROVE  SessionInv'
<1>1. TypeOK' /\ Control'
  BY PeerControl DEF SessionInv
<1>2. FileInv'
  BY DEF SessionInv, FileInv, Opening, Shaking
<1>3. restarts' = 0 => Running'
  BY DEF SessionInv, Running, Asking, Telling, Saving
<1>4. ASSUME restarts' = 0, NEW c \in Prompts PROVE Account(c)'
  <2>1. Account(c)
    BY <1>4 DEF SessionInv
  <2>2. Early(c)' = Early(c) /\ Asking(c)' = Asking(c) /\ Telling(c)' = Telling(c) /\ Ending(c)' = Ending(c)
    BY DEF Early, Asking, Telling, Ending, Saving, Opening, Shaking, Installing
  <2> QED BY <2>1, <2>2, AccountMeans, AccountNext
<1> QED BY <1>1, <1>2, <1>3, <1>4 DEF SessionInv

\* The collector takes an update.
LEMMA CollectTakeKeeps == ASSUME SessionInv, NEW c \in Prompts, CollectTake(c) PROVE SessionInv'
<1>1. /\ collector[c] = "run" /\ peer[session].notes # <<>>
      /\ collected' = [collected EXCEPT ![c] = Append(@, Head(peer[session].notes))]
      /\ peer' = [peer EXCEPT ![session] = TakeNote(@)]
      /\ UNCHANGED <<up, restarts, mu, session, chat, file, call, busy, collector>>
  BY DEF CollectTake, hostVars, chatVars
<1>2. TypeOK /\ session \in Prompts
  BY <1>1 DEF SessionInv, Control, Settled, TypeOK
<1>3. PICK k : k = TakeNote(peer[session])
  OBVIOUS
<1>4. k \in Peer /\ k.stdin = peer[session].stdin /\ Head(peer[session].notes) \in UpdateID
  BY <1>1, <1>2, <1>3, TakeNoteType, InputStays DEF TypeOK
<1>5. peer' = [peer EXCEPT ![session] = k]
  BY <1>1, <1>3
<1>6. peer' \in [Prompts -> Peer] /\ \A p \in Prompts : peer'[p].stdin = peer[p].stdin
  BY <1>2, <1>4, <1>5 DEF TypeOK
<1>7. PICK s : s = Append(collected[c], Head(peer[session].notes))
  OBVIOUS
<1>8. s \in Seq(UpdateID)
  BY <1>2, <1>4, <1>7 DEF TypeOK
<1>9. collected' \in [Prompts -> Seq(UpdateID)]
  BY <1>1, <1>2, <1>7, <1>8 DEF TypeOK
<1>10. collector' \in [Prompts -> {"none", "run", "end"}]
  BY <1>1, <1>2 DEF TypeOK
<1> QED BY <1>1, <1>6, <1>9, <1>10, QuietStep

\* The collector ends.
LEMMA CollectEndKeeps == ASSUME SessionInv, NEW c \in Prompts, CollectEnd(c) PROVE SessionInv'
<1>1. /\ collector' = [collector EXCEPT ![c] = "end"]
      /\ UNCHANGED <<up, restarts, mu, session, peer, chat, file, call, busy, collected>>
  BY DEF CollectEnd, hostVars, sessionVars, chatVars
<1>2. TypeOK
  BY DEF SessionInv
<1> QED BY <1>1, <1>2, QuietStep DEF TypeOK

\* The client reads a message of the process.
LEMMA ReadPeerKeeps == ASSUME SessionInv, NEW p \in Prompts, ReadPeer(p) PROVE SessionInv'
<1>1. /\ CanRead(peer[p]) /\ peer' = [peer EXCEPT ![p] = Read(@)]
      /\ UNCHANGED <<up, restarts, mu, session, chat, file, call, busy, collector, collected>>
  BY DEF ReadPeer, hostVars, chatVars, collectVars
<1>2. TypeOK
  BY DEF SessionInv
<1>3. PICK k : k = Read(peer[p])
  OBVIOUS
<1>4. k \in Peer /\ k.stdin = peer[p].stdin
  BY <1>1, <1>2, <1>3, ReadType, ReadInput DEF TypeOK
<1>5. peer' = [peer EXCEPT ![p] = k]
  BY <1>1, <1>3
<1> QED BY <1>1, <1>2, <1>4, <1>5, QuietStep DEF TypeOK

\* The process answers, tells, asks or exits.
LEMMA PeerBehavesKeeps == ASSUME SessionInv, NEW p \in Prompts, PeerBehaves(p) PROVE SessionInv'
<1>1. UNCHANGED <<up, restarts, mu, session, chat, file, call, busy, collector, collected>>
  BY DEF PeerBehaves, hostVars, chatVars, collectVars
<1>2. TypeOK /\ peer[p] \in Peer
  BY DEF SessionInv, TypeOK
<1>3. \E k \in Behaves(peer[p]) \cup {Exit(peer[p])} : peer' = [peer EXCEPT ![p] = k]
  BY DEF PeerBehaves
<1>4. PICK k \in Behaves(peer[p]) \cup {Exit(peer[p])} : peer' = [peer EXCEPT ![p] = k]
  BY <1>3
<1>5. k \in Peer /\ k.stdin = peer[p].stdin
  BY <1>2, BehaveType, BehaveInput, ExitType, InputStays
<1> QED BY <1>1, <1>2, <1>4, <1>5, QuietStep DEF TypeOK

-----------------------------------------------------------------------------
\* A cancel moves on and changes nothing else.
LEMMA CancelStep ==
    ASSUME SessionInv, NEW q \in Cancels, NEW a \in {"done", "cancel", "wait", "settle"}, NEW next, Moves(q, a, next),
           UNCHANGED <<up, restarts, mu, session, chat, file, busy, collector, collected>>,
           peer' \in [Prompts -> Peer], \A p \in Prompts : peer'[p].stdin = peer[p].stdin,
           a # "done" => Settled
    PROVE  SessionInv'
<1>1. TypeOK /\ Control /\ q \in Calls /\ q \notin Prompts
  BY SessionAssumption DEF SessionInv, Calls
<1>2. call'[q].at = a
  BY DEF Moves
<1>3. Stage(q)' /\ ~Opening(q)' /\ ~Working(q)
  BY <1>1, <1>2 DEF Stage, Opening, Shaking, Installing, Using, Saving, Working, Settled
<1>4. Globals'
  BY <1>1 DEF TypeOK, Globals
<1>5. /\ \A p \in Prompts : peer'[p].stdin = "open" => peer[p].stdin = "open" \/ p = q
      /\ \A d \in Prompts : collector'[d] = "run" => collector[d] = "run" \/ Settled'
      /\ session' # None => chat'.known
      /\ ChatKeeps
  BY <1>1 DEF ChatKeeps, Control
<1>6. a \notin {"open", "write"}
  OBVIOUS
<1> QED BY <1>1, <1>3, <1>4, <1>5, <1>6, FullStep

\* A cancel looks for the session.
LEMMA CancelLookKeeps == ASSUME SessionInv, NEW q \in Cancels, CancelLook(q) PROVE SessionInv'
<1> DEFINE a == IF session = None THEN "done" ELSE "cancel"
<1>1. /\ mu = None /\ Goes(q, a)
      /\ UNCHANGED <<up, restarts, mu, session, peer, chat, file, busy, collector, collected>>
  BY DEF CancelLook, hostVars, sessionVars, chatVars, collectVars
<1>2. TypeOK /\ q \in Calls /\ a \in Labels /\ a \in {"done", "cancel"} /\ (a # "done" => Settled)
  BY <1>1 DEF SessionInv, Calls, Labels, Settled
<1> HIDE DEF a
<1>3. Moves(q, a, call[q].then)
  BY <1>1, <1>2, GoesFacts
<1>4. peer' \in [Prompts -> Peer]
  BY <1>1, <1>2 DEF TypeOK
<1> QED BY <1>1, <1>2, <1>3, <1>4, CancelStep

\* A cancel is written to the process.
LEMMA CancelAskKeeps == ASSUME SessionInv, NEW q \in Cancels, CancelAsk(q) PROVE SessionInv'
<1> DEFINE a == IF CanWrite(peer[session]) THEN "wait" ELSE "done"
           id == peer[session].nextID + 1
<1>1. /\ call[q].at = "cancel" /\ peer' = [peer EXCEPT ![session] = Request(@)]
      /\ call' = [call EXCEPT ![q].at = a, ![q].id = id]
      /\ UNCHANGED <<up, restarts, mu, session, chat, file, busy, collector, collected>>
  BY DEF CancelAsk, At, hostVars, chatVars, collectVars
<1>2. TypeOK /\ Control /\ q \in Calls /\ a \in Labels /\ a \in {"wait", "done"}
  BY DEF SessionInv, Calls, Labels
<1>3. Settled /\ session \in Prompts
  BY <1>1, <1>2 DEF Control, Stage, Using, Settled, TypeOK
<1>4. peer' \in [Prompts -> Peer] /\ id \in Nat /\ \A p \in Prompts : peer'[p].stdin = peer[p].stdin
  BY <1>1, <1>2, <1>3, AskedPeer
<1> HIDE DEF a, id
<1>5. Moves(q, a, call[q].then)
  BY <1>1, <1>2, <1>4, WaitFacts
<1> QED BY <1>1, <1>2, <1>3, <1>4, <1>5, CancelStep

\* A cancel is granted, refused or given up.
LEMMA CancelAnsweredKeeps == ASSUME SessionInv, NEW q \in Cancels, CancelAnswered(q) PROVE SessionInv'
<1>1. /\ call[q].at = "wait"
      /\ UNCHANGED <<up, restarts, mu, session, peer, chat, file, busy, collector, collected>>
  BY DEF CancelAnswered, At, hostVars, sessionVars, chatVars, collectVars
<1>2. TypeOK /\ Control /\ q \in Calls /\ "settle" \in Labels /\ 0 \in Nat /\ peer' \in [Prompts -> Peer]
  BY <1>1 DEF SessionInv, Calls, Labels, TypeOK
<1>3. Settled
  BY <1>1, <1>2 DEF Control, Stage, Using
<1>4. CASE Fails(q)
  BY <1>1, <1>2, <1>4, FailsFacts, CancelStep
<1>5. CASE call' = [call EXCEPT ![q].at = "settle", ![q].id = 0, ![q].ok = TRUE]
  <2>1. Moves(q, "settle", call[q].then)
    BY <1>2, <1>5, AskFacts
  <2> QED BY <1>1, <1>2, <1>3, <2>1, CancelStep
<1> QED BY <1>4, <1>5 DEF CancelAnswered

-----------------------------------------------------------------------------
(* Restarts, and the theorems.                                             *)

\* The next process of the host agent starts from the file, with no handler of the old one left.
LEMMA RestartKeeps == ASSUME SessionInv, Restart PROVE SessionInv'
<1>1. TypeOK /\ FileInv
  BY DEF SessionInv
<1>2. restarts' \in 0 .. MaxRestarts /\ restarts' # 0 /\ up' \in BOOLEAN
  BY <1>1, SessionAssumption DEF Restart, TypeOK
<1>3. mu' = None /\ session' = None /\ busy' = None /\ file' = file
  BY DEF Restart
<1>4. chat' \in Chat /\ file \in File /\ (file.kind = "whole" => chat' = file.chat)
  BY <1>1 DEF Restart, TypeOK, File
<1>5. peer' \in [Prompts -> Peer] /\ \A p \in Prompts : peer'[p].stdin = "closed"
  <2>1. \A k \in Peer : [Close(k) EXCEPT !.reading = FALSE] \in Peer /\ [Close(k) EXCEPT !.reading = FALSE].stdin = "closed"
    BY DEF Close, Peer
  <2> QED BY <1>1, <2>1 DEF Restart, TypeOK
<1>6. call' \in [Calls -> Handler] /\ \A d \in Calls : call'[d].at \in {"idle", "done"}
  <2>1. [IdleCall EXCEPT !.at = "done"] \in Handler /\ [IdleCall EXCEPT !.at = "done"].at = "done"
    BY IdleType DEF IdleCall
  <2>2. PICK h : h = [IdleCall EXCEPT !.at = "done"]
    OBVIOUS
  <2>3. call' = [d \in Calls |-> IF call[d].at = "idle" THEN call[d] ELSE h]
    BY <2>2 DEF Restart
  <2> QED BY <1>1, <2>1, <2>2, <2>3 DEF TypeOK
<1>7. collector' \in [Prompts -> {"none", "run", "end"}] /\ \A d \in Prompts : collector'[d] # "run"
  BY <1>1 DEF Restart, TypeOK
<1>8. collected' \in [Prompts -> Seq(UpdateID)]
  <2>1. << >> \in Seq(UpdateID)
    OBVIOUS
  <2> QED BY <2>1 DEF Restart
<1>9. TypeOK'
  BY <1>2, <1>3, <1>4, <1>5, <1>6, <1>7, <1>8 DEF TypeOK
<1>10. Control'
  <2>1. \A d \in Calls : Stage(d)'
    BY <1>6 DEF Stage, Opening, Shaking, Installing, Using, Saving
  <2> QED BY <1>3, <1>5, <1>7, <2>1 DEF Control
<1>11. FileInv'
  <2>1. file.kind = "whole" => Prefix(file.chat.messages, chat'.messages)
    BY <1>4, PrefixSame DEF File, Chat
  <2>2. \A d \in Calls : call'[d].at \notin {"open", "write"} /\ ~Opening(d)'
    BY <1>6 DEF Opening, Shaking
  <2> QED BY <1>3, <2>1, <2>2 DEF FileInv
<1> QED BY <1>2, <1>9, <1>10, <1>11 DEF SessionInv

\* The invariant holds in the beginning.
LEMMA SessionStarts == Init => SessionInv
<1> SUFFICES ASSUME Init PROVE SessionInv
  OBVIOUS
<1>1. /\ up = TRUE /\ restarts = 0 /\ mu = None /\ session = None /\ busy = None
      /\ \A p \in Prompts : peer[p] = NoPeer
      /\ peer = [p \in Prompts |-> NoPeer]
      /\ chat = NoChat /\ file = [kind |-> "whole", chat |-> NoChat]
      /\ call = [d \in Calls |-> IdleCall]
      /\ collector = [d \in Prompts |-> "none"] /\ collected = [d \in Prompts |-> <<>>]
  BY DEF Init
<1>2. \A d \in Calls : call[d] = IdleCall /\ call[d].at = "idle" /\ call[d].kept = 0
  BY <1>1 DEF IdleCall
<1>3. TypeOK
  <2>1. << >> \in Seq(UpdateID) /\ 0 \in 0 .. MaxRestarts
    BY SessionAssumption
  <2>2. peer \in [Prompts -> Peer] /\ call \in [Calls -> Handler]
    BY <1>1, IdleType, SpawnType
  <2>3. chat \in Chat /\ file \in File
    BY <1>1, IdleType DEF File
  <2> QED BY <1>1, <2>1, <2>2, <2>3 DEF TypeOK
<1>4. Control
  <2>1. \A d \in Calls : Stage(d)
    BY <1>2 DEF Stage, Opening, Shaking, Installing, Using, Saving
  <2>2. NoPeer.stdin = "closed"
    BY DEF NoPeer
  <2> QED BY <1>1, <2>1, <2>2 DEF Control
<1>5. chat.messages = <<>> /\ chat.status = "draft" /\ file.chat.messages = chat.messages /\ chat.messages \in Seq(ChatMessage)
  BY <1>1, <1>3 DEF NoChat, TypeOK, Chat
<1>6. FileInv
  <2>1. Prefix(file.chat.messages, chat.messages)
    BY <1>5, PrefixSame
  <2> QED BY <1>2, <2>1 DEF FileInv, Opening, Shaking
<1>7. Running
  BY <1>5 DEF Running
<1>8. ASSUME NEW d \in Prompts PROVE Account(d)
  <2>1. ~Asking(d) /\ ~Telling(d) /\ ~Ending(d) /\ call[d].at # "failed" /\ call[d].kept = 0
    BY <1>2 DEF Asking, Telling, Ending, Saving, Calls
  <2>2. \A i \in DOMAIN chat.messages : chat.messages[i].by # d
    BY <1>5
  <2> QED BY <2>1, <2>2 DEF Account
<1> QED BY <1>3, <1>4, <1>6, <1>7, <1>8 DEF SessionInv

\* Every step keeps the invariant.
LEMMA SessionSteps == SessionInv /\ [Next]_vars => SessionInv'
<1> SUFFICES ASSUME SessionInv, [Next]_vars PROVE SessionInv'
  OBVIOUS
<1>1. CASE UNCHANGED vars
  <2>1. UNCHANGED <<up, restarts, mu, session, peer, chat, file, call, busy, collector, collected>>
    BY <1>1 DEF vars, hostVars, sessionVars, chatVars, collectVars
  <2> QED BY <2>1, QuietStep DEF SessionInv, TypeOK
<1>2. ASSUME NEW c \in Calls, Begin(c) \/ Save(c) PROVE SessionInv'
  BY <1>2, BeginKeeps, SaveCopiesKeeps, SaveOpensKeeps, SaveWritesKeeps, SaveFailsKeeps DEF Save
<1>3. ASSUME NEW c \in Prompts, OpenSession(c) PROVE SessionInv'
  BY <1>3, SessionFoundKeeps, SessionMissedKeeps, FactoryFailsKeeps, FactoryStartsKeeps, InitializedKeeps,
     ResumeRefusedKeeps, OpenedKeeps, HandshakeFailsKeeps, InstallKeeps DEF OpenSession
<1>4. ASSUME NEW c \in Prompts, Prompt(c) PROVE SessionInv'
  BY <1>4, PromptMessageKeeps, PromptLockKeeps, PromptAskKeeps, PromptAnsweredKeeps, PromptStopKeeps,
     PromptGatherKeeps, PromptGatheredKeeps, PromptOutputKeeps, PromptEndKeeps DEF Prompt
<1>5. ASSUME NEW c \in Prompts, Collect(c) \/ ReadPeer(c) \/ PeerBehaves(c) PROVE SessionInv'
  BY <1>5, CollectTakeKeeps, CollectEndKeeps, ReadPeerKeeps, PeerBehavesKeeps DEF Collect
<1>6. ASSUME NEW q \in Cancels, Cancel(q) PROVE SessionInv'
  BY <1>6, CancelLookKeeps, CancelAskKeeps, CancelAnsweredKeeps, CancelSettleKeeps DEF Cancel
<1>7. CASE Restart
  BY <1>7, RestartKeeps
<1>8. Prompts \subseteq Calls /\ Cancels \subseteq Calls
  BY DEF Calls
<1> QED BY <1>1, <1>2, <1>3, <1>4, <1>5, <1>6, <1>7, <1>8 DEF Next

\* The invariant holds of every reachable state.
THEOREM SessionInvariant == Spec => []SessionInv
BY SessionStarts, SessionSteps, PTL DEF Spec

\* Every variable of the host agent's chat keeps its type.
THEOREM SessionTypes == Spec => []TypeOK
<1>1. SessionInv => TypeOK
  BY DEF SessionInv
<1> QED BY <1>1, SessionInvariant, PTL

\* However many prompts of a chat arrive at once and whatever fails, one agent process at
\* most has its input open: the mutex is held from the look into the map until the session is
\* usable, and whoever gives up closes the input first.
THEOREM PeerSafe == Spec => []OnePeer
<1>1. SessionInv => OnePeer
  <2> SUFFICES ASSUME SessionInv, NEW p \in Prompts, NEW q \in Prompts, p # q,
                      peer[p].stdin = "open", peer[q].stdin = "open"
               PROVE  FALSE
    BY DEF OnePeer
  <2>1. (p = session \/ Shaking(p)) /\ (q = session \/ Shaking(q)) /\ TypeOK /\ Control
    BY DEF SessionInv, Control
  <2>2. \A d \in Prompts : d # None /\ (Shaking(d) => mu = d /\ session = None)
    BY <2>1, SessionAssumption DEF Control, Stage, Opening, Calls
  <2> QED BY <2>1, <2>2
<1> QED BY <1>1, SessionInvariant, PTL

\* What a prompt was answered with stays in the chat, behind the prompt and in order, whatever
\* other prompts and cancels change in between.
THEOREM AnswersKept == Spec => []AnsweredIsKept
<1>1. SessionInv => AnsweredIsKept
  <2> SUFFICES ASSUME SessionInv, NEW c \in Prompts, restarts = 0, call[c].at = "done", call[c].ok
               PROVE  Holds(c, Len(call[c].outputs))
    BY DEF AnsweredIsKept
  <2>1. Account(c)
    BY DEF SessionInv
  <2> QED BY <2>1 DEF Account, Ending
<1> QED BY <1>1, SessionInvariant, PTL

\* A readable file is an earlier state of the conversation, with saves that overtake each
\* other, that fail, and after any number of restarts.
THEOREM FileSafe == Spec => []FileBehind
<1>1. SessionInv => FileBehind
  <2> SUFFICES ASSUME SessionInv, file.kind = "whole" PROVE IsPrefix(file.chat.messages, chat.messages)
    BY DEF FileBehind
  <2>1. file.chat.messages \in Seq(ChatMessage) /\ chat.messages \in Seq(ChatMessage)
    BY DEF SessionInv, TypeOK, File, Chat
  <2>2. Prefix(file.chat.messages, chat.messages)
    BY DEF SessionInv, FileInv
  <2> QED BY <2>1, <2>2, PrefixMeans
<1> QED BY <1>1, SessionInvariant, PTL

\* With every handler done and no failed save, the chat is not left running.
THEOREM ChatSettled == Spec => []ChatSettles
<1>1. SessionInv => ChatSettles
  <2> SUFFICES ASSUME SessionInv, restarts = 0, ~SaveFails, \A c \in Calls : call[c].at \in {"idle", "done"},
                      chat.status = "running"
               PROVE  FALSE
    BY DEF ChatSettles
  <2>1. PICK c \in Prompts : Asking(c) \/ Telling(c)
    BY DEF SessionInv, Running
  <2>2. call[c].at \in {"idle", "done"}
    BY DEF Calls
  <2> QED BY <2>1, <2>2 DEF Asking, Telling, Saving
<1> QED BY <1>1, SessionInvariant, PTL

================================================================================
