------------------------------ MODULE Gateway ------------------------------
(***************************************************************************)
(* What the services of the gateway have in common: requests, served by    *)
(* goroutines of their own, over maps in memory and rows in PostgreSQL.    *)
(* call[p] is the request of goroutine p between two of its steps (a       *)
(* critical section of the service's mutex, a statement to the database),  *)
(* a record with the request under op, the next step under at, and what    *)
(* the goroutine carries.  A restart keeps the rows and nothing else.      *)
(***************************************************************************)
EXTENDS Naturals, FiniteSets, Sequences, TLC

CONSTANTS
    Callers,        \* goroutines that serve requests
    MaxRequests,    \* bound on the requests of a behaviour
    MaxRestarts,    \* bound on the restarts of the gateway
    Nothing         \* no entry, no row, no request

ASSUME GatewayAssumption ==
    /\ MaxRequests \in Nat
    /\ MaxRestarts \in Nat

VARIABLES
    call,           \* call[p]: the request p serves, or Nothing
    requests,       \* requests so far
    restarts        \* restarts so far

gatewayVars == <<call, requests, restarts>>

\* A request that one critical section answers, or whose later steps follow.
Asks(p) ==
    /\ call[p] = Nothing
    /\ requests < MaxRequests
    /\ requests' = requests + 1
    /\ UNCHANGED restarts

Answers(p) == Asks(p) /\ UNCHANGED call
Begins(p, request) == Asks(p) /\ call' = [call EXCEPT ![p] = request]

\* A step of a request under way, which goes on, or ends.
At(p, op, step) == call[p] # Nothing /\ call[p].op = op /\ call[p].at = step
Goes(p, request) == call' = [call EXCEPT ![p] = request] /\ UNCHANGED <<requests, restarts>>
GoesTo(p, step) == Goes(p, [call[p] EXCEPT !.at = step])
Returns(p) == Goes(p, Nothing)

\* A behaviour may have fewer requests than the bound.
GatewayInit(spent) ==
    /\ call = [p \in Callers |-> Nothing]
    /\ requests = spent
    /\ restarts = 0

GatewayRestart ==
    /\ restarts < MaxRestarts
    /\ restarts' = restarts + 1
    /\ call' = [p \in Callers |-> Nothing]
    /\ UNCHANGED requests
=============================================================================
