------------------------------ MODULE HostSession ------------------------------
(***************************************************************************)
(* One local chat of the host agent (internal/hostagent/agent_sessions.go, *)
(* agent_session_history.go, config.go): prompts and cancels of one        *)
(* session key share one peer, one entry of the configuration in memory    *)
(* and the configuration file.  A peer is named after the prompt that      *)
(* opened it.                                                              *)
(***************************************************************************)
EXTENDS ACPPeer, SequencesExt

CONSTANTS
    Prompts,      \* requests to promptAgent
    Cancels,      \* requests to cancelAgentSession
    MaxRestarts,  \* bound: restarts of the host agent
    SaveFails,    \* may a write of the file fail?
    None          \* no prompt

ASSUME SessionAssumption ==
    /\ MaxRestarts \in Nat
    /\ SaveFails \in BOOLEAN
    /\ Prompts \cap Cancels = {} /\ None \notin Prompts

Calls == Prompts \cup Cancels

VARIABLES
    up,         \* the host agent runs
    restarts,
    mu,         \* holder of s.sessionMu across localAgentSession
    session,    \* s.sessions[key]: None or the prompt whose peer it is
    peer,       \* the peer each prompt has opened
    chat,       \* the session's entry in s.config
    file,       \* runspace-local.json
    call,       \* the handler of each request
    busy,       \* holder of session.mu
    collector,  \* the goroutine collectSessionNotifications of each prompt
    collected   \* its channel

hostVars == <<up, restarts>>
sessionVars == <<mu, session, peer>>
chatVars == <<chat, file>>
collectVars == <<busy, collector, collected>>
vars == <<hostVars, sessionVars, chatVars, call, collectVars>>

\* A message of the chat: the prompt itself or an update its agent sent.
ChatMessage == [by : Prompts, text : 0 .. MaxUpdates]

Chat ==
    [known : BOOLEAN,       \* Sessions has the key
     status : {"draft", "ready", "running", "completed", "failed", "cancelled"},
     messages : Seq(ChatMessage)]

NoChat == [known |-> FALSE, status |-> "draft", messages |-> <<>>]

File == [kind : {"whole", "empty", "torn"}, chat : Chat]

\* A handler: where it is, the request it waits for, the copy of the chat it
\* has taken, what follows the write of the file, whether it succeeds so far,
\* its outputs and how many of them it has put into the chat.
Handler ==
    [at : {"idle", "sessions", "factory", "initialize", "resume", "new", "install", "message",
           "lock", "ask", "wait", "drain", "gather", "outputs", "failed", "cancel", "settle",
           "save", "open", "write", "done"},
     id : Nat, copy : Chat, then : {"message", "lock", "outputs", "done"},
     ok : BOOLEAN, outputs : Seq(UpdateID), kept : Nat]

IdleCall ==
    [at |-> "idle", id |-> 0, copy |-> NoChat, then |-> "done", ok |-> FALSE,
     outputs |-> <<>>, kept |-> 0]

TypeOK ==
    /\ up \in BOOLEAN /\ restarts \in 0 .. MaxRestarts
    /\ mu \in Prompts \cup {None} /\ session \in Prompts \cup {None}
    /\ peer \in [Prompts -> Peer]
    /\ chat \in Chat /\ file \in File
    /\ call \in [Calls -> Handler]
    /\ busy \in Prompts \cup {None}
    /\ collector \in [Prompts -> {"none", "run", "end"}]
    /\ collected \in [Prompts -> Seq(UpdateID)]

Init ==
    /\ up = TRUE /\ restarts = 0
    /\ mu = None /\ session = None
    /\ peer = [c \in Prompts |-> NoPeer]
    /\ chat = NoChat /\ file = [kind |-> "whole", chat |-> NoChat]
    /\ call = [c \in Calls |-> IdleCall]
    /\ busy = None
    /\ collector = [c \in Prompts |-> "none"] /\ collected = [c \in Prompts |-> <<>>]

At(c, label) == up /\ call[c].at = label
Goes(c, label) == call' = [call EXCEPT ![c].at = label]

\* The handler answers with an error, and its locals are gone.
Fails(c) == call' = [call EXCEPT ![c] = [IdleCall EXCEPT !.at = "done"]]

\* A change of the chat under s.mu, then saveConfig, then next.  Without an entry
\* in the configuration replaceUserSessionLocked changes nothing.
Change(c, entry, next) ==
    /\ chat' = IF chat.known THEN entry ELSE chat
    /\ call' = [call EXCEPT ![c].at = "save", ![c].then = next]

Says(c, text) ==
    [chat EXCEPT !.status = "running", !.messages = Append(@, [by |-> c, text |-> text])]

-----------------------------------------------------------------------------
(* localAgentSession: s.sessionMu is held from here to the new session.    *)

Begin(c) ==
    /\ At(c, "idle")
    /\ Goes(c, "sessions")
    /\ UNCHANGED <<hostVars, sessionVars, chatVars, collectVars>>

SessionFound(c) ==
    /\ At(c, "sessions") /\ mu = None
    /\ session # None
    /\ Goes(c, "message")
    /\ UNCHANGED <<hostVars, sessionVars, chatVars, collectVars>>

\* Mutant: the mutex is taken for the look into the map only.
SessionMissedUnlocked(c) ==
    /\ At(c, "sessions")
    /\ session = None
    /\ mu' = c
    /\ call' = [call EXCEPT ![c].at = "factory", ![c].copy = chat]
    /\ UNCHANGED <<hostVars, session, peer, chatVars, collectVars>>

SessionMissed(c) ==
    /\ At(c, "sessions") /\ mu = None
    /\ session = None
    /\ mu' = c
    /\ call' = [call EXCEPT ![c].at = "factory", ![c].copy = chat]
    /\ UNCHANGED <<hostVars, session, peer, chatVars, collectVars>>

\* The agent or the folder is not there, or the process does not start.
FactoryFails(c) ==
    /\ At(c, "factory")
    /\ mu' = None
    /\ Fails(c)
    /\ UNCHANGED <<hostVars, session, peer, chatVars, collectVars>>

\* The process starts, and Initialize sends the first request.  No context ends
\* the waits of the handshake.
FactoryStarts(c) ==
    /\ At(c, "factory")
    /\ peer' = [peer EXCEPT ![c] = Request(Spawned)]
    /\ call' = [call EXCEPT ![c].at = "initialize", ![c].id = 1]
    /\ UNCHANGED <<hostVars, mu, session, chatVars, collectVars>>

Initialized(c) ==
    /\ At(c, "initialize")
    /\ Granted(peer[c], 1) /\ CanWrite(peer[c])
    /\ peer' = [peer EXCEPT ![c] = Request(@)]
    /\ call' = [call EXCEPT ![c].at = IF call[c].copy.known THEN "resume" ELSE "new", ![c].id = 2]
    /\ UNCHANGED <<hostVars, mu, session, chatVars, collectVars>>

\* An agent that cannot resume the session is asked for a new one.
ResumeRefused(c) ==
    /\ At(c, "resume")
    /\ Refused(peer[c], 2) /\ CanWrite(peer[c])
    /\ peer' = [peer EXCEPT ![c] = Request(@)]
    /\ call' = [call EXCEPT ![c].at = "new", ![c].id = 3]
    /\ UNCHANGED <<hostVars, mu, session, chatVars, collectVars>>

Opened(c) ==
    /\ At(c, "resume") \/ At(c, "new")
    /\ Granted(peer[c], call[c].id)
    /\ call' = [call EXCEPT ![c].at = "install", ![c].id = 0]
    /\ UNCHANGED <<hostVars, sessionVars, chatVars, collectVars>>

\* A handshake fails by an error in the answer or by a request that cannot be
\* written.
HandshakeFailed(c) ==
    \/ At(c, "initialize") /\ (Refused(peer[c], 1) \/ (Granted(peer[c], 1) /\ ~CanWrite(peer[c])))
    \/ At(c, "resume") /\ Refused(peer[c], 2) /\ ~CanWrite(peer[c])
    \/ At(c, "new") /\ Refused(peer[c], call[c].id)

\* Mutant: the mutex is not released.
HandshakeFailsLocked(c) ==
    /\ HandshakeFailed(c)
    /\ peer' = [peer EXCEPT ![c] = Close(@)]
    /\ Fails(c)
    /\ UNCHANGED <<hostVars, mu, session, chatVars, collectVars>>

HandshakeFails(c) ==
    /\ HandshakeFailed(c)
    /\ peer' = [peer EXCEPT ![c] = Close(@)]
    /\ mu' = None
    /\ Fails(c)
    /\ UNCHANGED <<hostVars, session, chatVars, collectVars>>

\* Mutant: the new entry has no messages.
InstallForgets(c) ==
    /\ At(c, "install")
    /\ session' = c
    /\ chat' = [known |-> TRUE, status |-> "ready", messages |-> <<>>]
    /\ call' = [call EXCEPT ![c].at = "save", ![c].then = "message"]
    /\ UNCHANGED <<hostVars, mu, peer, file, collectVars>>

\* The entry keeps the messages it had when the mutex was taken.
Install(c) ==
    /\ At(c, "install")
    /\ session' = c
    /\ chat' = [known |-> TRUE, status |-> "ready", messages |-> call[c].copy.messages]
    /\ call' = [call EXCEPT ![c].at = "save", ![c].then = "message"]
    /\ UNCHANGED <<hostVars, mu, peer, file, collectVars>>

OpenSession(c) ==
    \/ SessionFound(c) \/ SessionMissed(c) \/ FactoryFails(c) \/ FactoryStarts(c)
    \/ Initialized(c) \/ ResumeRefused(c) \/ Opened(c) \/ HandshakeFails(c) \/ Install(c)

-----------------------------------------------------------------------------
(* saveConfig: the configuration is copied under s.mu, and the file is     *)
(* truncated and written under no lock at all.                             *)

SaveCopies(c) ==
    /\ At(c, "save")
    /\ call' = [call EXCEPT ![c].at = "open", ![c].copy = chat]
    /\ UNCHANGED <<hostVars, sessionVars, chatVars, collectVars>>

SaveOpens(c) ==
    /\ At(c, "open")
    /\ file' = [kind |-> "empty", chat |-> NoChat]
    /\ Goes(c, "write")
    /\ UNCHANGED <<hostVars, sessionVars, chat, collectVars>>

\* Without the lock somebody may have written since the file was truncated: then
\* the longer of the two contents leaves its end behind the shorter one.
Fits(copy) == file.kind = "whole" => Len(file.chat.messages) <= Len(copy.messages)

Tears(copy) ==
    \/ file.kind = "torn"
    \/ /\ file.kind = "whole" /\ file.chat # copy
       /\ Len(file.chat.messages) >= Len(copy.messages)

\* Mutant: the configuration in memory becomes what was written.
SaveWritesBack(c) ==
    /\ At(c, "write")
    /\ \/ Fits(call[c].copy) /\ file' = [kind |-> "whole", chat |-> call[c].copy]
       \/ Tears(call[c].copy) /\ file' = [kind |-> "torn", chat |-> NoChat]
    /\ mu' = IF call[c].then = "message" THEN None ELSE mu
    /\ call' = [call EXCEPT ![c].at = call[c].then, ![c].then = "done", ![c].copy = NoChat]
    /\ chat' = call[c].copy
    /\ UNCHANGED <<hostVars, session, peer, collectVars>>

\* The new session is usable from here on.
SaveWrites(c) ==
    /\ At(c, "write")
    /\ \/ Fits(call[c].copy) /\ file' = [kind |-> "whole", chat |-> call[c].copy]
       \/ Tears(call[c].copy) /\ file' = [kind |-> "torn", chat |-> NoChat]
    /\ mu' = IF call[c].then = "message" THEN None ELSE mu
    /\ call' = [call EXCEPT ![c].at = call[c].then, ![c].then = "done", ![c].copy = NoChat]
    /\ UNCHANGED <<hostVars, session, peer, chat, collectVars>>

\* An error on the way ends the handler; a new session is taken back.
SaveFailsAt(c) ==
    /\ SaveFails
    /\ At(c, "open") \/ At(c, "write")
    /\ Fails(c)
    /\ IF call[c].then = "message"
       THEN /\ peer' = [peer EXCEPT ![c] = Close(@)]
            /\ session' = None /\ mu' = None
       ELSE UNCHANGED sessionVars
    /\ UNCHANGED <<hostVars, chatVars, collectVars>>

Save(c) == SaveCopies(c) \/ SaveOpens(c) \/ SaveWrites(c) \/ SaveFailsAt(c)

-----------------------------------------------------------------------------
(* promptAgent and promptSession.                                          *)

PromptMessage(c) ==
    /\ At(c, "message")
    /\ Change(c, Says(c, 0), "lock")
    /\ UNCHANGED <<hostVars, sessionVars, file, collectVars>>

PromptLock(c) ==
    /\ At(c, "lock") /\ busy = None
    /\ busy' = c
    /\ collector' = [collector EXCEPT ![c] = "run"]
    /\ Goes(c, "ask")
    /\ UNCHANGED <<hostVars, sessionVars, chatVars, collected>>

PromptAsk(c) ==
    /\ At(c, "ask")
    /\ peer' = [peer EXCEPT ![session] = Request(@)]
    /\ call' = [call EXCEPT ![c].at = IF CanWrite(peer[session]) THEN "wait" ELSE "drain",
                            ![c].id = peer[session].nextID + 1, ![c].ok = FALSE]
    /\ UNCHANGED <<hostVars, mu, session, chatVars, collectVars>>

\* Mutant: no context ends the wait.
PromptAnsweredOnly(c) ==
    /\ At(c, "wait")
    /\ \E granted \in BOOLEAN :
        /\ IF granted THEN Granted(peer[session], call[c].id) ELSE Refused(peer[session], call[c].id)
        /\ call' = [call EXCEPT ![c].at = "drain", ![c].id = 0, ![c].ok = granted]
    /\ UNCHANGED <<hostVars, sessionVars, chatVars, collectVars>>

\* The prompt is answered or refused, or the context is done: the client has left
\* or the two minutes of the gateway are over.
PromptAnswered(c) ==
    /\ At(c, "wait")
    /\ \E granted \in BOOLEAN :
        /\ granted => Granted(peer[session], call[c].id)
        /\ call' = [call EXCEPT ![c].at = "drain", ![c].id = 0, ![c].ok = granted]
    /\ UNCHANGED <<hostVars, sessionVars, chatVars, collectVars>>

\* 75 ms have passed, or the context is done: the collector is told to stop.
PromptStop(c) ==
    /\ At(c, "drain")
    /\ Goes(c, "gather")
    /\ UNCHANGED <<hostVars, sessionVars, chatVars, collectVars>>

PromptGather(c) ==
    /\ At(c, "gather")
    /\ collected[c] # <<>>
    /\ call' = [call EXCEPT ![c].outputs = Append(@, Head(collected[c]))]
    /\ collected' = [collected EXCEPT ![c] = Tail(@)]
    /\ UNCHANGED <<hostVars, sessionVars, chatVars, busy, collector>>

PromptGathered(c) ==
    /\ At(c, "gather")
    /\ collected[c] = <<>>
    /\ busy' = None
    /\ Goes(c, IF call[c].ok THEN "outputs" ELSE "failed")
    /\ UNCHANGED <<hostVars, sessionVars, chatVars, collector, collected>>

PromptOutput(c) ==
    /\ At(c, "outputs")
    /\ call[c].kept < Len(call[c].outputs)
    /\ chat' = IF chat.known THEN Says(c, call[c].outputs[call[c].kept + 1]) ELSE chat
    /\ call' = [call EXCEPT ![c].at = "save", ![c].then = "outputs", ![c].kept = @ + 1]
    /\ UNCHANGED <<hostVars, sessionVars, file, collectVars>>

\* Mutant: a failed prompt leaves the status alone.
PromptEndQuiet(c) ==
    /\ \/ /\ At(c, "outputs") /\ call[c].kept = Len(call[c].outputs)
          /\ Change(c, [chat EXCEPT !.status = "completed"], "done")
       \/ /\ At(c, "failed")
          /\ Goes(c, "done")
          /\ UNCHANGED chat
    /\ UNCHANGED <<hostVars, sessionVars, file, collectVars>>

PromptEnd(c) ==
    /\ \/ At(c, "outputs") /\ call[c].kept = Len(call[c].outputs)
       \/ At(c, "failed")
    /\ Change(c, [chat EXCEPT !.status = IF call[c].ok THEN "completed" ELSE "failed"], "done")
    /\ UNCHANGED <<hostVars, sessionVars, file, collectVars>>

Prompt(c) ==
    \/ PromptMessage(c) \/ PromptLock(c) \/ PromptAsk(c) \/ PromptAnswered(c) \/ PromptStop(c)
    \/ PromptGather(c) \/ PromptGathered(c) \/ PromptOutput(c) \/ PromptEnd(c)

\* The collector stops when it is told to, or at the end of the notifications;
\* while both are ready it may take one more, which then nobody gathers.
CollectTake(c) ==
    /\ up /\ collector[c] = "run"
    /\ peer[session].notes # <<>>
    /\ collected' = [collected EXCEPT ![c] = Append(@, Head(peer[session].notes))]
    /\ peer' = [peer EXCEPT ![session] = TakeNote(@)]
    /\ UNCHANGED <<hostVars, mu, session, chatVars, call, busy, collector>>

CollectEnd(c) ==
    /\ up /\ collector[c] = "run"
    /\ call[c].at \notin {"ask", "wait", "drain"} \/ NotesOver(peer[session])
    /\ collector' = [collector EXCEPT ![c] = "end"]
    /\ UNCHANGED <<hostVars, sessionVars, chatVars, call, busy, collected>>

Collect(c) == CollectTake(c) \/ CollectEnd(c)

-----------------------------------------------------------------------------
(* cancelAgentSession.                                                     *)

CancelLook(q) ==
    /\ At(q, "sessions") /\ mu = None
    /\ Goes(q, IF session = None THEN "done" ELSE "cancel")
    /\ UNCHANGED <<hostVars, sessionVars, chatVars, collectVars>>

CancelAsk(q) ==
    /\ At(q, "cancel")
    /\ peer' = [peer EXCEPT ![session] = Request(@)]
    /\ call' = [call EXCEPT ![q].at = IF CanWrite(peer[session]) THEN "wait" ELSE "done",
                            ![q].id = peer[session].nextID + 1]
    /\ UNCHANGED <<hostVars, mu, session, chatVars, collectVars>>

\* An error, or the end of the context, leaves the chat alone.
CancelAnswered(q) ==
    /\ At(q, "wait")
    /\ \/ /\ Granted(peer[session], call[q].id)
          /\ call' = [call EXCEPT ![q].at = "settle", ![q].id = 0, ![q].ok = TRUE]
       \/ Fails(q)
    /\ UNCHANGED <<hostVars, sessionVars, chatVars, collectVars>>

CancelSettle(q) ==
    /\ At(q, "settle")
    /\ Change(q, [chat EXCEPT !.status = "cancelled"], "done")
    /\ UNCHANGED <<hostVars, sessionVars, file, collectVars>>

Cancel(q) == CancelLook(q) \/ CancelAsk(q) \/ CancelAnswered(q) \/ CancelSettle(q)

-----------------------------------------------------------------------------
(* The world around: agents and restarts.                                  *)

ReadPeer(p) ==
    /\ up /\ CanRead(peer[p])
    /\ peer' = [peer EXCEPT ![p] = Read(@)]
    /\ UNCHANGED <<hostVars, mu, session, chatVars, call, collectVars>>

PeerBehaves(p) ==
    /\ \/ \E c \in Behaves(peer[p]) : peer' = [peer EXCEPT ![p] = c]
       \/ /\ peer[p].proc = "alive"
          /\ peer' = [peer EXCEPT ![p] = Exit(@)]
    /\ UNCHANGED <<hostVars, mu, session, chatVars, call, collectVars>>

\* The process of the host agent ends at any moment and another one reads the
\* file.  It does not start over a file it cannot decode.
Restart ==
    /\ restarts < MaxRestarts
    /\ restarts' = restarts + 1
    /\ up' = (file.kind = "whole")
    /\ chat' = IF file.kind = "whole" THEN file.chat ELSE chat
    /\ mu' = None /\ session' = None
    /\ peer' = [p \in Prompts |-> [Close(peer[p]) EXCEPT !.reading = FALSE]]
    /\ call' = [c \in Calls |-> IF call[c].at = "idle" THEN call[c] ELSE [IdleCall EXCEPT !.at = "done"]]
    /\ busy' = None
    /\ collector' = [c \in Prompts |-> IF collector[c] = "run" THEN "end" ELSE collector[c]]
    /\ collected' = [c \in Prompts |-> <<>>]
    /\ UNCHANGED file

Next ==
    \/ \E c \in Prompts :
        \/ Begin(c) \/ OpenSession(c) \/ Save(c) \/ Prompt(c) \/ Collect(c)
        \/ ReadPeer(c) \/ PeerBehaves(c)
    \/ \E q \in Cancels : Begin(q) \/ Save(q) \/ Cancel(q)
    \/ Restart

Spec == Init /\ [][Next]_vars

-----------------------------------------------------------------------------
(* Properties.                                                             *)

\* However many prompts of a chat arrive at once, and whatever fails on the way,
\* one agent process at most has its input open.
OnePeer ==
    \A p, q \in Prompts : p # q => ~(peer[p].stdin = "open" /\ peer[q].stdin = "open")

\* The messages of prompt c in the chat are the prompt and its first n outputs, in
\* this order, with the messages of others in between.
Holds(c, n) ==
    \E place \in [0 .. n -> DOMAIN chat.messages] :
        /\ \A i, j \in 0 .. n : i < j => place[i] < place[j]
        /\ {i \in DOMAIN chat.messages : chat.messages[i].by = c} = {place[k] : k \in 0 .. n}
        /\ \A k \in 0 .. n :
            chat.messages[place[k]].text = IF k = 0 THEN 0 ELSE call[c].outputs[k]

\* What a prompt was answered with is in the chat, behind the prompt and in the
\* order of the agent, whatever other handlers have changed since.
AnsweredIsKept ==
    \A c \in Prompts :
        (restarts = 0 /\ call[c].at = "done" /\ call[c].ok) => Holds(c, Len(call[c].outputs))

\* The file holds an earlier state of the conversation, never another one, also
\* after a restart and with saves that overtake each other.
FileBehind == file.kind = "whole" => IsPrefix(file.chat.messages, chat.messages)

\* When every handler has ended and no save has failed, the chat is not running.
ChatSettles ==
    (restarts = 0 /\ ~SaveFails /\ \A c \in Calls : call[c].at \in {"idle", "done"}) =>
        chat.status # "running"

\* Only the silence of the agent in the handshake keeps s.sessionMu, which every
\* prompt, every cancel and the health check of every user take.
MutexFreed ==
    \A c \in Prompts :
        \/ []<>(mu # c)
        \/ <>[](call[c].at \in {"initialize", "resume", "new"} /\ ~Answered(peer[c], call[c].id))

\* A request that has its session returns, whatever the agent does, and the
\* goroutine of a prompt does not outlive it for long.
AcceptedReturns ==
    /\ \A c \in Calls : (call[c].at \in {"message", "cancel"}) ~> (call[c].at = "done")
    /\ \A c \in Prompts : (call[c].at = "done") ~> (collector[c] # "run")
================================================================================
