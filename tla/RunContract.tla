----------------------------- MODULE RunContract -----------------------------
(***************************************************************************)
(* The lifecycle contract of an agent run: the states of                   *)
(* contracts.RunState and the transitions contracts.TransitionRun allows   *)
(* (internal/contracts/run.go).                                            *)
(***************************************************************************)

RunState == {"queued", "running", "stopping", "succeeded", "failed", "cancelled"}

\* The table `allowed` of TransitionRun.
Allowed ==
    {<<"queued", "running">>, <<"queued", "cancelled">>,
     <<"running", "stopping">>, <<"running", "succeeded">>,
     <<"running", "failed">>, <<"running", "cancelled">>,
     <<"stopping", "cancelled">>, <<"stopping", "failed">>}

\* TransitionRun returns nil: staying put is always allowed.
TransitionRun(from, to) == from = to \/ <<from, to>> \in Allowed

\* A state no transition leaves.
TerminalState == {s \in RunState : \A t \in RunState : TransitionRun(s, t) => t = s}

\* Some sequence of allowed transitions leads from one state to the other.
\* The longest path, queued -> running -> stopping -> cancelled, has 3 steps.
LeadsTo(from, to) ==
    \E a, b \in RunState :
        TransitionRun(from, a) /\ TransitionRun(a, b) /\ TransitionRun(b, to)

=============================================================================
