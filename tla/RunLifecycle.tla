---------------------------- MODULE RunLifecycle ----------------------------
(***************************************************************************)
(* What the run service promises, without saying how: each run has a       *)
(* status that moves along the contract and a durable record that trails   *)
(* behind it.  A reader of the record may see an old status, even an older *)
(* one than the reader before it; never one the run cannot have had.       *)
(***************************************************************************)
EXTENDS RunContract

CONSTANTS
    Runs,   \* run IDs
    None    \* not a run state: no such run

VARIABLES status, record

Init ==
    /\ status = [r \in Runs |-> None]
    /\ record = [r \in Runs |-> None]

\* The record takes a status the run may have had.
Trails(s, r) == s \in RunState /\ status[r] # None /\ LeadsTo(s, status[r])

Create(r) ==
    /\ status[r] = None
    /\ status' = [status EXCEPT ![r] = "queued"]
    /\ UNCHANGED record

Advance(r) ==
    /\ \E t \in RunState :
        /\ status[r] # None
        /\ TransitionRun(status[r], t)
        /\ status' = [status EXCEPT ![r] = t]
    /\ UNCHANGED record

Persist(r) ==
    /\ \E s \in RunState :
        /\ Trails(s, r)
        /\ record' = [record EXCEPT ![r] = s]
    /\ UNCHANGED status

\* The end of a run may be recorded at once.
Finish(r) ==
    \E t \in RunState :
        /\ status[r] # None
        /\ TransitionRun(status[r], t)
        /\ status' = [status EXCEPT ![r] = t]
        /\ record' = [record EXCEPT ![r] = t]

Next == \E r \in Runs : Create(r) \/ Advance(r) \/ Persist(r) \/ Finish(r)

Spec == Init /\ [][Next]_<<status, record>>

=============================================================================
