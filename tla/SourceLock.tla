----------------------------- MODULE SourceLock -----------------------------
(***************************************************************************)
(* The per-source lock of src/lock/service.py as the Celery task of        *)
(* src/tasks/sync_source.py uses it, with the clock made explicit.         *)
(*                                                                         *)
(* A worker process takes the Redis key "lock:<source>" with SET NX PX,    *)
(* then runs ONE event loop that holds two coroutines: the synchronisation *)
(* and LockService.renew_lock.  Document-store, metadata-store and         *)
(* embedding calls are synchronous, so while the synchronisation executes  *)
(* them the renewal coroutine cannot run however overdue it is.  What the  *)
(* module answers is under which timing the lock still covers the whole    *)
(* synchronisation, and what remains true when the timing fails.           *)
(*                                                                         *)
(* Time is discrete: Tick lets one unit pass on every key and every timer. *)
(***************************************************************************)
EXTENDS Integers

CONSTANTS
    Sources,          \* source names, hence lock names
    Tasks,            \* Celery task ids
    NoTask,           \* "the key does not exist"
    SourceOf,         \* the source_name argument of each task
    LockTimeout,      \* acquire_lock(timeout=120)
    ExtendTime,       \* renew_lock(extend_time=120)
    RenewalInterval,  \* renew_lock(renewal_interval=30)
    MaxStretch,       \* longest the loop runs the sync's steps in one turn
    MaxTtl,           \* bound: remaining time to live saturates here
    RedisErrors       \* may a Redis call of the renewal or release fail?

ASSUME NoTaskAssumption == NoTask \notin Tasks
ASSUME SourceOfAssumption == SourceOf \in [Tasks -> Sources]
ASSUME TimingAssumption ==
    /\ LockTimeout \in Nat \ {0}
    /\ ExtendTime \in Nat
    /\ RenewalInterval \in Nat \ {0}
    /\ MaxStretch \in Nat
    /\ MaxTtl \in Nat
    /\ LockTimeout <= MaxTtl
ASSUME RedisErrorsAssumption == RedisErrors \in BOOLEAN

VARIABLES
    owner,    \* owner[s]: the token in the lock key of s, NoTask if no key
    ttl,      \* ttl[s]: its remaining time to live, 0 if no key
    pc,       \* pc[t]: how far the worker process of task t is
    renewal,  \* renewal[t]: state of its renewal coroutine
    wake,     \* wake[t]: time left in the coroutine's asyncio.sleep
    stretch   \* stretch[t]: time since the loop last gave the sync control

vars == <<owner, ttl, pc, renewal, wake, stretch>>

(***************************************************************************)
(* "waiting": the sync is suspended on an await, the loop is free.         *)
(* "busy": the sync holds the loop (or has not started it yet, or has      *)
(* left it and is on its way to release_lock: same thread, no renewal).    *)
(***************************************************************************)
PCs == {"queued", "busy", "waiting", "done", "refused", "killed"}

(***************************************************************************)
(* "unborn": created by create_task, first step not yet run by the loop.   *)
(* "behind"/"next": its sleep is over and it sits in the ready queue of    *)
(* the loop, behind a step of the sync or at the head.                     *)
(***************************************************************************)
RenewalStates == {"unborn", "asleep", "behind", "next", "gone"}

Running(t) == pc[t] \in {"busy", "waiting"}

\* LockService.lock_exists: what the API looks at before update and delete.
LockExists(s) == owner[s] # NoTask

\* redis-py compares the token on the server before it extends or deletes.
Owns(t) == owner[SourceOf[t]] = t

\* Mutant: extend replaces the time to live (replace_ttl=True).
MutantExtended(left) == ExtendTime

\* Lock.extend adds to what is left of the time to live (replace_ttl=False).
Extended(left) ==
    IF left + ExtendTime <= MaxTtl THEN left + ExtendTime ELSE MaxTtl

Init ==
    /\ owner = [s \in Sources |-> NoTask]
    /\ ttl = [s \in Sources |-> 0]
    /\ pc = [t \in Tasks |-> "queued"]
    /\ renewal = [t \in Tasks |-> "gone"]
    /\ wake = [t \in Tasks |-> 0]
    /\ stretch = [t \in Tasks |-> 0]

-----------------------------------------------------------------------------
(* The worker process. *)

\* Mutant: a plain SET, without NX.
MutantAcquire(t) ==
    /\ pc[t] = "queued"
    /\ owner' = [owner EXCEPT ![SourceOf[t]] = t]
    /\ ttl' = [ttl EXCEPT ![SourceOf[t]] = LockTimeout]
    /\ pc' = [pc EXCEPT ![t] = "busy"]
    /\ renewal' = [renewal EXCEPT ![t] = "unborn"]
    /\ stretch' = [stretch EXCEPT ![t] = 0]
    /\ UNCHANGED wake

\* Mutant: SET NX without PX, a key that never expires.
MutantAcquireForever(t) ==
    /\ pc[t] = "queued"
    /\ ~LockExists(SourceOf[t])
    /\ owner' = [owner EXCEPT ![SourceOf[t]] = t]
    /\ pc' = [pc EXCEPT ![t] = "busy"]
    /\ renewal' = [renewal EXCEPT ![t] = "unborn"]
    /\ stretch' = [stretch EXCEPT ![t] = 0]
    /\ UNCHANGED <<ttl, wake>>

\* A worker picks the task up and SET NX succeeds.
Acquire(t) ==
    /\ pc[t] = "queued"
    /\ ~LockExists(SourceOf[t])
    /\ owner' = [owner EXCEPT ![SourceOf[t]] = t]
    /\ ttl' = [ttl EXCEPT ![SourceOf[t]] = LockTimeout]
    /\ pc' = [pc EXCEPT ![t] = "busy"]
    /\ renewal' = [renewal EXCEPT ![t] = "unborn"]
    /\ stretch' = [stretch EXCEPT ![t] = 0]
    /\ UNCHANGED wake

\* Mutant: the finally block releases a lock the task never acquired.
MutantRefuse(t) ==
    /\ pc[t] = "queued"
    /\ LockExists(SourceOf[t])
    /\ pc' = [pc EXCEPT ![t] = "refused"]
    /\ owner' = [owner EXCEPT ![SourceOf[t]] = NoTask]
    /\ ttl' = [ttl EXCEPT ![SourceOf[t]] = 0]
    /\ UNCHANGED <<renewal, wake, stretch>>

\* SET NX fails: ResourceLockedException, the task ends and releases nothing.
Refuse(t) ==
    /\ pc[t] = "queued"
    /\ LockExists(SourceOf[t])
    /\ pc' = [pc EXCEPT ![t] = "refused"]
    /\ UNCHANGED <<owner, ttl, renewal, wake, stretch>>

\* Mutant: the renewal coroutine is created and never scheduled.
MutantSuspend(t) ==
    /\ pc[t] = "busy"
    /\ pc' = [pc EXCEPT ![t] = "waiting"]
    /\ UNCHANGED <<owner, ttl, renewal, wake, stretch>>

\* The sync awaits. The first suspension is when the renewal coroutine,
\* already in the ready queue, starts its first sleep.
Suspend(t) ==
    /\ pc[t] = "busy"
    /\ pc' = [pc EXCEPT ![t] = "waiting"]
    /\ IF renewal[t] = "unborn"
         THEN /\ renewal' = [renewal EXCEPT ![t] = "asleep"]
              /\ wake' = [wake EXCEPT ![t] = RenewalInterval]
         ELSE UNCHANGED <<renewal, wake>>
    /\ UNCHANGED <<owner, ttl, stretch>>

\* The awaited result is there and the loop resumes the sync. A renewal at
\* the head of the ready queue, or a timer that is due, is served first.
Resume(t) ==
    /\ pc[t] = "waiting"
    /\ renewal[t] # "next"
    /\ ~(renewal[t] = "asleep" /\ wake[t] = 0)
    /\ pc' = [pc EXCEPT ![t] = "busy"]
    /\ stretch' = [stretch EXCEPT ![t] = 0]
    /\ renewal' = [renewal EXCEPT ![t] = IF @ = "behind" THEN "next" ELSE @]
    /\ UNCHANGED <<owner, ttl, wake>>

\* The sleep is over. I/O that became ready in the same turn of the loop
\* puts steps of the sync ahead of the renewal. The loop runs all of them
\* before it looks at timers again: together they are one stretch.
SleepOver(t) ==
    /\ pc[t] = "waiting"
    /\ renewal[t] = "asleep"
    /\ wake[t] = 0
    /\ \E place \in {"behind", "next"} :
         renewal' = [renewal EXCEPT ![t] = place]
    /\ UNCHANGED <<owner, ttl, pc, wake, stretch>>

\* Mutant: the two intervals of renew_lock swapped.
MutantRenewSwapped(t) ==
    /\ pc[t] = "waiting"
    /\ renewal[t] = "next"
    /\ Owns(t)
    /\ ttl' = [ttl EXCEPT ![SourceOf[t]] = @ + RenewalInterval]
    /\ renewal' = [renewal EXCEPT ![t] = "asleep"]
    /\ wake' = [wake EXCEPT ![t] = ExtendTime]
    /\ UNCHANGED <<owner, pc, stretch>>

\* Mutant: extend does not compare the token.
MutantRenewUnowned(t) ==
    /\ pc[t] = "waiting"
    /\ renewal[t] = "next"
    /\ LockExists(SourceOf[t])
    /\ ttl' = [ttl EXCEPT ![SourceOf[t]] = Extended(@)]
    /\ renewal' = [renewal EXCEPT ![t] = "asleep"]
    /\ wake' = [wake EXCEPT ![t] = RenewalInterval]
    /\ UNCHANGED <<owner, pc, stretch>>

\* lock.extend by the owner, and back to sleep.
Renew(t) ==
    /\ pc[t] = "waiting"
    /\ renewal[t] = "next"
    /\ Owns(t)
    /\ ttl' = [ttl EXCEPT ![SourceOf[t]] = Extended(@)]
    /\ renewal' = [renewal EXCEPT ![t] = "asleep"]
    /\ wake' = [wake EXCEPT ![t] = RenewalInterval]
    /\ UNCHANGED <<owner, pc, stretch>>

\* lock.extend raises. LockError (the token is gone) breaks out of the loop;
\* any other Redis error ends the coroutine unhandled, also when the server
\* had extended the key and only its reply was lost. The sync goes on.
RenewFails(t) ==
    /\ pc[t] = "waiting"
    /\ renewal[t] = "next"
    /\ ~Owns(t) \/ RedisErrors
    /\ \/ UNCHANGED ttl
       \/ Owns(t) /\ ttl' = [ttl EXCEPT ![SourceOf[t]] = Extended(@)]
    /\ renewal' = [renewal EXCEPT ![t] = "gone"]
    /\ UNCHANGED <<owner, pc, wake, stretch>>

\* Mutant: release deletes the key whatever token it holds.
MutantFinish(t) ==
    /\ pc[t] = "busy"
    /\ pc' = [pc EXCEPT ![t] = "done"]
    /\ renewal' = [renewal EXCEPT ![t] = "gone"]
    /\ owner' = [owner EXCEPT ![SourceOf[t]] = NoTask]
    /\ ttl' = [ttl EXCEPT ![SourceOf[t]] = 0]
    /\ UNCHANGED <<wake, stretch>>

\* The sync returns or raises: the renewal is cancelled, the loop closed,
\* release_lock deletes the key if it still holds this task's token.
Finish(t) ==
    /\ pc[t] = "busy"
    /\ pc' = [pc EXCEPT ![t] = "done"]
    /\ renewal' = [renewal EXCEPT ![t] = "gone"]
    /\ IF Owns(t)
         THEN /\ owner' = [owner EXCEPT ![SourceOf[t]] = NoTask]
              /\ ttl' = [ttl EXCEPT ![SourceOf[t]] = 0]
         ELSE UNCHANGED <<owner, ttl>>
    /\ UNCHANGED <<wake, stretch>>

\* The same, but the release fails on the connection and the key stays.
FinishUnreleased(t) ==
    /\ RedisErrors
    /\ pc[t] = "busy"
    /\ pc' = [pc EXCEPT ![t] = "done"]
    /\ renewal' = [renewal EXCEPT ![t] = "gone"]
    /\ UNCHANGED <<owner, ttl, wake, stretch>>

\* revoke(terminate=True), out of memory, a lost host: the process dies
\* without its finally block and the key stays until it expires.
Kill(t) ==
    /\ Running(t)
    /\ pc' = [pc EXCEPT ![t] = "killed"]
    /\ renewal' = [renewal EXCEPT ![t] = "gone"]
    /\ UNCHANGED <<owner, ttl, wake, stretch>>

-----------------------------------------------------------------------------
(* Time. *)

\* A free loop serves a due timer and the head of its queue at once.
LoopIdle(t) ==
    pc[t] = "waiting" =>
        /\ renewal[t] \notin {"behind", "next"}
        /\ ~(renewal[t] = "asleep" /\ wake[t] = 0)

\* The steps of the sync in one turn of the loop, those of concurrent fetch
\* tasks counted together, last no longer than MaxStretch.
StretchGoesOn(t) == pc[t] = "busy" => stretch[t] < MaxStretch

\* Redis drops a key whose time to live runs out.
Tick ==
    /\ \A t \in Tasks : LoopIdle(t) /\ StretchGoesOn(t)
    /\ ttl' = [s \in Sources |-> IF ttl[s] = 0 THEN 0 ELSE ttl[s] - 1]
    /\ owner' = [s \in Sources |-> IF ttl[s] = 1 THEN NoTask ELSE owner[s]]
    /\ wake' = [t \in Tasks |->
                  IF renewal[t] = "asleep" /\ wake[t] > 0
                    THEN wake[t] - 1 ELSE wake[t]]
    /\ stretch' = [t \in Tasks |->
                     IF pc[t] = "busy" THEN stretch[t] + 1 ELSE stretch[t]]
    /\ UNCHANGED <<pc, renewal>>

Next ==
    \/ Tick
    \/ \E t \in Tasks :
         \/ Acquire(t)
         \/ Refuse(t)
         \/ Suspend(t)
         \/ Resume(t)
         \/ SleepOver(t)
         \/ Renew(t)
         \/ RenewFails(t)
         \/ Finish(t)
         \/ FinishUnreleased(t)
         \/ Kill(t)

Spec == Init /\ [][Next]_vars

(***************************************************************************)
(* Fairness: the clock runs, a free loop serves its ready queue, a         *)
(* synchronous stretch ends.  Nothing is assumed of the awaits: an         *)
(* extraction may go on for ever.                                          *)
(***************************************************************************)
StretchEnds(t) == Suspend(t) \/ Finish(t) \/ FinishUnreleased(t)
LoopTurns(t) ==
    \/ SleepOver(t)
    \/ Renew(t)
    \/ RenewFails(t)
    \/ (renewal[t] = "behind" /\ Resume(t))

FairSpec ==
    /\ Spec
    /\ WF_vars(Tick)
    /\ \A t \in Tasks : WF_vars(StretchEnds(t)) /\ WF_vars(LoopTurns(t))

-----------------------------------------------------------------------------
(* Properties. *)

\* Types: keys, tasks and coroutines are in a state the code can put them in,
\* and no timer passes the value its call sets it to.
TypeOK ==
    /\ owner \in [Sources -> Tasks \cup {NoTask}]
    /\ ttl \in [Sources -> 0..MaxTtl]
    /\ pc \in [Tasks -> PCs]
    /\ renewal \in [Tasks -> RenewalStates]
    /\ wake \in [Tasks -> 0..RenewalInterval]
    /\ stretch \in [Tasks -> 0..MaxStretch]

(***************************************************************************)
(* The timing under which the lock does its job: no Redis error, and the   *)
(* first renewal comes before the key runs out.  It can be late by three   *)
(* stretches: the one before the loop first turns, the one under way when  *)
(* the timer fires and the one queued ahead of the renewal.  With the      *)
(* defaults 120 and 30, a stretch must stay below 30 seconds.              *)
(***************************************************************************)
Timely ==
    /\ ~RedisErrors
    /\ RenewalInterval + 3 * MaxStretch < LockTimeout
    /\ RenewalInterval + 2 * MaxStretch <= ExtendTime

\* While a synchronisation runs, its lock key exists and holds its token: the
\* lock_exists test of update_source and delete_source sees every running sync.
LockCoversSync == \A t \in Tasks : Running(t) => Owns(t)

\* Two synchronisations of one source never run at the same time.
OneSyncPerSource ==
    \A t, u \in Tasks :
        Running(t) /\ Running(u) /\ SourceOf[t] = SourceOf[u] => t = u

\* Whatever the timing: a key goes away only by expiry or in the step that
\* ends its own task, and never changes hands without having been free. A
\* task that outlived its lease cannot release its successor's lock.
NoForeignRelease ==
    [][\A s \in Sources :
         owner[s] # owner'[s] /\ LockExists(s) =>
            /\ owner'[s] = NoTask
            /\ \/ ttl[s] = 1
               \/ \E t \in Tasks :
                    owner[s] = t /\ pc[t] = "busy" /\ pc'[t] = "done"]_vars

\* Whatever the timing: a task that lost its lease never gets it back and
\* never prolongs the lease of another.
LostLeaseStaysLost ==
    [][\A t \in Tasks :
         /\ Running(t) /\ ~Owns(t) => ~Owns(t)'
         /\ Running(t) /\ ~Owns(t) /\ renewal[t] # renewal'[t] =>
              ttl'[SourceOf[t]] <= ttl[SourceOf[t]]]_vars

\* A key left behind by a killed worker, or by a release that failed, goes
\* away: the source does not stay locked.
AbandonedLockExpires ==
    \A t \in Tasks : (~Running(t) /\ Owns(t)) ~> ~Owns(t)

(***************************************************************************)
(* Under a timely schedule the service keeps the contract of SyncLease:    *)
(* the clock, the renewals and the suspensions are stutters or expiries of *)
(* abandoned locks.                                                        *)
(***************************************************************************)
PhaseOf(t) ==
    IF Running(t) THEN "running"
    ELSE IF pc[t] = "queued" THEN "queued" ELSE "ended"

Lease == INSTANCE SyncLease
           WITH holder <- owner, phase <- [t \in Tasks |-> PhaseOf(t)]

\* acquire_lock, the renewal coroutine and release_lock together behave as the
\* lease of SyncLease, whatever the clock does within the timing assumption.
ImplementsLease == Lease!Spec

-----------------------------------------------------------------------------
(* The inductive invariant behind LockCoversSync. *)

\* What is guaranteed to be left when the first sleep begins, beyond it.
Slack == LockTimeout - RenewalInterval - MaxStretch

\* A lower bound on the time to live of a running task's key, by how late
\* its renewal can be.
LeaseFloor(t) ==
    CASE renewal[t] = "unborn" -> LockTimeout - stretch[t]
      [] renewal[t] = "asleep" /\ wake[t] > 0 -> Slack + wake[t]
      [] renewal[t] = "asleep" /\ wake[t] = 0 /\ pc[t] = "busy" ->
           Slack - stretch[t]
      [] renewal[t] = "asleep" /\ wake[t] = 0 /\ pc[t] = "waiting" ->
           Slack - MaxStretch
      [] renewal[t] = "behind" -> Slack - MaxStretch
      [] renewal[t] = "next" /\ pc[t] = "busy" ->
           Slack - MaxStretch - stretch[t]
      [] OTHER -> Slack - 2 * MaxStretch

\* A running task's renewal is alive, its key is there, and what is left on
\* the key exceeds what can pass before the next renewal.
LeaseInv ==
    \A t \in Tasks : Running(t) =>
        /\ Owns(t)
        /\ renewal[t] # "gone"
        /\ renewal[t] = "unborn" => pc[t] = "busy"
        /\ renewal[t] = "behind" => pc[t] = "waiting"
        /\ ttl[SourceOf[t]] >= LeaseFloor(t)

\* A key that exists has a positive time to live (none is persistent) and
\* holds the token of a task of that source that did acquire it.
KeyInv ==
    \A s \in Sources :
        /\ owner[s] # NoTask <=> ttl[s] > 0
        /\ owner[s] # NoTask =>
             /\ SourceOf[owner[s]] = s
             /\ pc[owner[s]] \notin {"queued", "refused"}

=============================================================================
