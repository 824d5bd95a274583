------------------------------ MODULE SyncLease ------------------------------
(***************************************************************************)
(* What the lock service promises the rest of the program, without clocks: *)
(* the contract of src/lock/service.py that SourceService and the Celery   *)
(* task are written against.  A running synchronisation holds its source   *)
(* until it leaves by itself; a lease is only ever lost by a task that     *)
(* runs no more.                                                           *)
(***************************************************************************)

CONSTANTS Sources, Tasks, NoTask, SourceOf

VARIABLES
    holder,   \* holder[s]: the task the lock of source s belongs to
    phase     \* phase[t]: "queued", "running" or "ended"

vars == <<holder, phase>>

Init ==
    /\ holder = [s \in Sources |-> NoTask]
    /\ phase = [t \in Tasks |-> "queued"]

\* acquire_lock returns a lock.
Enter(t) ==
    /\ phase[t] = "queued"
    /\ holder[SourceOf[t]] = NoTask
    /\ holder' = [holder EXCEPT ![SourceOf[t]] = t]
    /\ phase' = [phase EXCEPT ![t] = "running"]

\* acquire_lock raises ResourceLockedException.
TurnAway(t) ==
    /\ phase[t] = "queued"
    /\ holder[SourceOf[t]] # NoTask
    /\ phase' = [phase EXCEPT ![t] = "ended"]
    /\ UNCHANGED holder

\* release_lock at the end of the task.
Leave(t) ==
    /\ phase[t] = "running"
    /\ holder[SourceOf[t]] = t
    /\ holder' = [holder EXCEPT ![SourceOf[t]] = NoTask]
    /\ phase' = [phase EXCEPT ![t] = "ended"]

\* The worker dies and leaves the lock behind.
Crash(t) ==
    /\ phase[t] = "running"
    /\ phase' = [phase EXCEPT ![t] = "ended"]
    /\ UNCHANGED holder

\* Abandoned locks expire.
Lapse(S) ==
    /\ \A s \in S : holder[s] # NoTask /\ phase[holder[s]] = "ended"
    /\ holder' = [s \in Sources |-> IF s \in S THEN NoTask ELSE holder[s]]
    /\ UNCHANGED phase

Next ==
    \/ \E t \in Tasks : Enter(t) \/ TurnAway(t) \/ Leave(t) \/ Crash(t)
    \/ \E S \in SUBSET Sources : Lapse(S)

Spec == Init /\ [][Next]_vars

=============================================================================
