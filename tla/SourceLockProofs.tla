-------------------------- MODULE SourceLockProofs --------------------------
(***************************************************************************)
(* Proofs about SourceLock for every set of sources and tasks and every    *)
(* value of the timing constants.                                          *)
(***************************************************************************)
EXTENDS SourceLock, TLAPS

USE NoTaskAssumption, SourceOfAssumption, TimingAssumption,
    RedisErrorsAssumption

-----------------------------------------------------------------------------
(* Types. *)

\* Every step keeps the types; needed by every proof below.
LEMMA TypeOKStep == TypeOK /\ [Next]_vars => TypeOK'
  <1> SUFFICES ASSUME TypeOK, [Next]_vars
               PROVE  TypeOK'
    OBVIOUS
  <1> USE DEF TypeOK, PCs, RenewalStates
  <1>1. CASE Tick
    <2>1. \A t \in Tasks : pc[t] = "busy" => stretch[t] < MaxStretch
      BY <1>1 DEF Tick, StretchGoesOn
    <2>2. stretch' \in [Tasks -> 0..MaxStretch]
      BY <1>1, <2>1 DEF Tick
    <2>3. wake' \in [Tasks -> 0..RenewalInterval]
      BY <1>1 DEF Tick
    <2>4. ttl' \in [Sources -> 0..MaxTtl]
      BY <1>1 DEF Tick
    <2>5. owner' \in [Sources -> Tasks \cup {NoTask}]
      BY <1>1 DEF Tick
    <2>6. QED
      BY <1>1, <2>2, <2>3, <2>4, <2>5 DEF Tick
  <1>2. ASSUME NEW t \in Tasks, Acquire(t) PROVE TypeOK'
    BY <1>2 DEF Acquire
  <1>3. ASSUME NEW t \in Tasks, Refuse(t) PROVE TypeOK'
    BY <1>3 DEF Refuse
  <1>4. ASSUME NEW t \in Tasks, Suspend(t) PROVE TypeOK'
    BY <1>4 DEF Suspend
  <1>5. ASSUME NEW t \in Tasks, Resume(t) PROVE TypeOK'
    BY <1>5 DEF Resume
  <1>6. ASSUME NEW t \in Tasks, SleepOver(t) PROVE TypeOK'
    BY <1>6 DEF SleepOver
  <1>7. ASSUME NEW t \in Tasks, Renew(t) PROVE TypeOK'
    BY <1>7 DEF Renew, Extended
  <1>8. ASSUME NEW t \in Tasks, RenewFails(t) PROVE TypeOK'
    BY <1>8 DEF RenewFails, Extended
  <1>9. ASSUME NEW t \in Tasks, Finish(t) PROVE TypeOK'
    BY <1>9 DEF Finish
  <1>10. ASSUME NEW t \in Tasks, FinishUnreleased(t) PROVE TypeOK'
    BY <1>10 DEF FinishUnreleased
  <1>11. ASSUME NEW t \in Tasks, Kill(t) PROVE TypeOK'
    BY <1>11 DEF Kill
  <1>12. CASE UNCHANGED vars
    BY <1>12 DEF vars
  <1>13. QED
    BY <1>1, <1>2, <1>3, <1>4, <1>5, <1>6, <1>7, <1>8, <1>9, <1>10, <1>11,
       <1>12 DEF Next

\* The variables of the lock and of the worker processes keep their types in
\* every run of the task code, whatever the timing.
THEOREM TypeCorrect == Spec => []TypeOK
  <1>1. Init => TypeOK
    BY DEF Init, TypeOK, PCs, RenewalStates
  <1>2. QED
    BY <1>1, TypeOKStep, PTL DEF Spec

-----------------------------------------------------------------------------
(* A key exists exactly as long as it has time to live. *)

LEMMA KeyInvStep == TypeOK /\ KeyInv /\ [Next]_vars => KeyInv'
  <1> SUFFICES ASSUME TypeOK, KeyInv, [Next]_vars
               PROVE  KeyInv'
    OBVIOUS
  <1> USE DEF TypeOK, KeyInv
  <1>1. CASE Tick
    <2>1. ASSUME NEW s \in Sources
          PROVE  /\ owner'[s] # NoTask <=> ttl'[s] > 0
                 /\ owner'[s] # NoTask => owner'[s] = owner[s]
      BY <1>1 DEF Tick
    <2>2. pc' = pc
      BY <1>1 DEF Tick
    <2>3. QED
      BY <2>1, <2>2
  <1>2. ASSUME NEW t \in Tasks, Acquire(t) PROVE KeyInv'
    BY <1>2 DEF Acquire, LockExists
  <1>3. ASSUME NEW t \in Tasks, Renew(t) PROVE KeyInv'
    BY <1>3 DEF Renew, Extended, Owns
  <1>9. ASSUME NEW t \in Tasks, RenewFails(t) PROVE KeyInv'
    BY <1>9 DEF RenewFails, Extended, Owns
  <1>4. ASSUME NEW t \in Tasks, Finish(t) PROVE KeyInv'
    BY <1>4 DEF Finish, Owns
  <1>5. ASSUME NEW t \in Tasks, Refuse(t) PROVE KeyInv'
    BY <1>5 DEF Refuse
  <1>6. ASSUME NEW t \in Tasks,
               \/ Suspend(t) \/ Resume(t) \/ SleepOver(t)
               \/ FinishUnreleased(t) \/ Kill(t)
        PROVE  KeyInv'
    BY <1>6 DEF Suspend, Resume, SleepOver, FinishUnreleased, Kill, Running
  <1>7. CASE UNCHANGED vars
    BY <1>7 DEF vars
  <1>8. QED
    BY <1>1, <1>2, <1>3, <1>4, <1>5, <1>6, <1>7, <1>9 DEF Next

\* No key is persistent, and every key names a task of its own source that
\* acquired it, in every run and whatever the timing.
THEOREM KeysWellFormed == Spec => []KeyInv
  <1>1. Init => KeyInv
    <2> SUFFICES ASSUME Init PROVE KeyInv
      OBVIOUS
    <2>1. ASSUME NEW s \in Sources
          PROVE  owner[s] = NoTask /\ ttl[s] = 0
      BY DEF Init
    <2>2. ASSUME NEW s \in Sources
          PROVE  ~(owner[s] # NoTask) /\ ~(ttl[s] > 0)
      BY <2>1
    <2>3. QED
      BY <2>2 DEF KeyInv
  <1>2. QED
    BY <1>1, KeyInvStep, TypeCorrect, PTL DEF Spec

-----------------------------------------------------------------------------
(* The lease covers the synchronisation when the timing is right. *)

\* The part of LeaseInv that speaks of one task.
Leased(t) ==
    /\ Owns(t)
    /\ renewal[t] # "gone"
    /\ renewal[t] = "unborn" => pc[t] = "busy"
    /\ renewal[t] = "behind" => pc[t] = "waiting"
    /\ ttl[SourceOf[t]] >= LeaseFloor(t)

\* A step that leaves alone a task and the key of its source leaves its
\* lease alone.
LEMMA LeasedFrame ==
  ASSUME NEW u \in Tasks, Leased(u), Running(u)',
         pc'[u] = pc[u], renewal'[u] = renewal[u], wake'[u] = wake[u],
         stretch'[u] = stretch[u],
         owner'[SourceOf[u]] = owner[SourceOf[u]],
         ttl'[SourceOf[u]] = ttl[SourceOf[u]]
  PROVE  Leased(u)'
  BY DEF Leased, Owns, LeaseFloor, Slack

\* One unit of time costs every lease at most what its floor loses, and the
\* floor stays positive: the key of a running task does not expire.
LEMMA LeasedTick ==
  ASSUME TypeOK, Timely, Tick, NEW u \in Tasks, Running(u), Leased(u)
  PROVE  Leased(u)'
  <1> DEFINE s == SourceOf[u]
  <1> USE DEF TypeOK, PCs, RenewalStates, Timely
  <1>1. /\ pc'[u] = pc[u]
        /\ renewal'[u] = renewal[u]
        /\ wake'[u] = IF renewal[u] = "asleep" /\ wake[u] > 0
                        THEN wake[u] - 1 ELSE wake[u]
        /\ stretch'[u] = IF pc[u] = "busy" THEN stretch[u] + 1 ELSE stretch[u]
        /\ ttl'[s] = IF ttl[s] = 0 THEN 0 ELSE ttl[s] - 1
        /\ owner'[s] = IF ttl[s] = 1 THEN NoTask ELSE owner[s]
    BY DEF Tick
  <1>2. /\ pc[u] \in {"busy", "waiting"}
        /\ pc[u] = "busy" => stretch[u] < MaxStretch
        /\ pc[u] = "waiting" =>
             /\ renewal[u] \notin {"behind", "next"}
             /\ ~(renewal[u] = "asleep" /\ wake[u] = 0)
    BY DEF Tick, Running, LoopIdle, StretchGoesOn
  <1>3. /\ ttl[s] \in Nat /\ wake[u] \in Nat /\ stretch[u] \in Nat
        /\ renewal[u] \in RenewalStates
    OBVIOUS
  <1>4. ttl[s] >= LeaseFloor(u) /\ LeaseFloor(u) \in Int
    BY <1>3 DEF Leased, LeaseFloor, Slack
  <1>5. ttl[s] >= 2 /\ ttl[s] - 1 >= LeaseFloor(u)'
    <2>1. CASE renewal[u] = "unborn"
      BY <2>1, <1>1, <1>2, <1>3, <1>4 DEF LeaseFloor, Slack, Leased
    <2>2. CASE renewal[u] = "asleep"
      BY <2>2, <1>1, <1>2, <1>3, <1>4 DEF LeaseFloor, Slack, Leased
    <2>3. CASE renewal[u] = "behind"
      BY <2>3, <1>1, <1>2, <1>3, <1>4 DEF LeaseFloor, Slack, Leased
    <2>4. CASE renewal[u] = "next"
      BY <2>4, <1>1, <1>2, <1>3, <1>4 DEF LeaseFloor, Slack, Leased
    <2>5. QED
      BY <2>1, <2>2, <2>3, <2>4, <1>3 DEF Leased
  <1>6. QED
    BY <1>1, <1>2, <1>3, <1>5 DEF Leased, Owns

\* A step of the worker process t itself keeps the lease of t.
LEMMA LeasedOwnStep ==
  ASSUME TypeOK, Timely, NEW t \in Tasks,
         Running(t) => Leased(t),
         \/ Acquire(t) \/ Suspend(t) \/ Resume(t) \/ SleepOver(t)
         \/ Renew(t) \/ RenewFails(t),
         Running(t)'
  PROVE  Leased(t)'
  <1> USE DEF TypeOK, PCs, RenewalStates, Timely, Leased, Owns, Running,
              LeaseFloor, Slack
  <1>1. CASE Acquire(t)
    BY <1>1 DEF Acquire
  <1>2. CASE Suspend(t)
    BY <1>2 DEF Suspend
  <1>3. CASE Resume(t)
    BY <1>3 DEF Resume
  <1>4. CASE SleepOver(t)
    BY <1>4 DEF SleepOver
  <1>5. CASE Renew(t)
    BY <1>5 DEF Renew, Extended
  <1>6. CASE RenewFails(t)
    BY <1>6 DEF RenewFails
  <1>7. QED
    BY <1>1, <1>2, <1>3, <1>4, <1>5, <1>6

\* A step of the worker process t keeps the lease of every other task: the
\* only keys it writes are free keys and its own.
LEMMA LeasedOtherStep ==
  ASSUME TypeOK, NEW t \in Tasks, NEW u \in Tasks, u # t,
         Running(u), Leased(u),
         \/ Acquire(t) \/ Refuse(t) \/ Suspend(t) \/ Resume(t)
         \/ SleepOver(t) \/ Renew(t) \/ RenewFails(t) \/ Finish(t)
         \/ FinishUnreleased(t) \/ Kill(t)
  PROVE  Leased(u)'
  <1>1. owner[SourceOf[u]] = u /\ u # NoTask
    BY DEF Leased, Owns
  <1>2. /\ pc'[u] = pc[u] /\ renewal'[u] = renewal[u]
        /\ wake'[u] = wake[u] /\ stretch'[u] = stretch[u]
    BY DEF TypeOK, Acquire, Refuse, Suspend, Resume, SleepOver, Renew,
           RenewFails, Finish, FinishUnreleased, Kill
  <1>3. /\ owner'[SourceOf[u]] = owner[SourceOf[u]]
        /\ ttl'[SourceOf[u]] = ttl[SourceOf[u]]
    BY <1>1 DEF TypeOK, Acquire, Refuse, Suspend, Resume, SleepOver, Renew,
           RenewFails, Finish, FinishUnreleased, Kill, Owns, LockExists
  <1>4. Running(u)'
    BY <1>2 DEF Running
  <1>5. QED
    BY <1>2, <1>3, <1>4, LeasedFrame

LEMMA LeaseInvStep ==
  Timely /\ TypeOK /\ LeaseInv /\ [Next]_vars => LeaseInv'
  <1> SUFFICES ASSUME Timely, TypeOK, LeaseInv, [Next]_vars,
                      NEW u \in Tasks, Running(u)'
               PROVE  Leased(u)'
    BY DEF LeaseInv, Leased
  <1>1. Running(u) => Leased(u)
    BY DEF LeaseInv, Leased
  <1>2. CASE Tick
    <2>1. Running(u)
      BY <1>2 DEF Tick, Running
    <2>2. QED
      BY <1>1, <1>2, <2>1, LeasedTick
  <1>3. ASSUME NEW t \in Tasks,
               \/ Acquire(t) \/ Refuse(t) \/ Suspend(t) \/ Resume(t)
               \/ SleepOver(t) \/ Renew(t) \/ RenewFails(t) \/ Finish(t)
               \/ FinishUnreleased(t) \/ Kill(t)
        PROVE  Leased(u)'
    <2>1. CASE u # t
      <3>1. Running(u)
        BY <1>3, <2>1 DEF TypeOK, Running, Acquire, Refuse, Suspend, Resume,
             SleepOver, Renew, RenewFails, Finish, FinishUnreleased, Kill
      <3>2. QED
        BY <1>1, <1>3, <2>1, <3>1, LeasedOtherStep
    <2>2. CASE u = t
      <3>1. \/ Acquire(t) \/ Suspend(t) \/ Resume(t) \/ SleepOver(t)
            \/ Renew(t) \/ RenewFails(t)
        BY <1>3, <2>2 DEF TypeOK, Running, Refuse, Finish, FinishUnreleased,
             Kill
      <3>2. QED
        BY <1>1, <2>2, <3>1, LeasedOwnStep
    <2>3. QED
      BY <2>1, <2>2
  <1>4. CASE UNCHANGED vars
    BY <1>1, <1>4, LeasedFrame DEF vars, Running
  <1>5. QED
    BY <1>2, <1>3, <1>4 DEF Next

\* Under a timely schedule every running synchronisation keeps a live renewal
\* and more time on its key than its next renewal can be late.
THEOREM LeaseHolds ==
  ASSUME Timely PROVE Spec => []LeaseInv
  <1>1. Init => LeaseInv
    BY DEF Init, LeaseInv, Running
  <1>2. TypeOK /\ LeaseInv /\ [Next]_vars => LeaseInv'
    BY LeaseInvStep
  <1>3. QED
    BY <1>1, <1>2, TypeCorrect, PTL DEF Spec

\* Under a timely schedule the API's lock_exists test sees every running
\* synchronisation: what update_source and delete_source rely on.
THEOREM LockCoversEverySync ==
  ASSUME Timely PROVE Spec => []LockCoversSync
  <1>1. LeaseInv => LockCoversSync
    BY DEF LeaseInv, LockCoversSync
  <1>2. QED
    BY <1>1, LeaseHolds, PTL

\* Under a timely schedule two workers never synchronise one source at once.
THEOREM MutualExclusion ==
  ASSUME Timely PROVE Spec => []OneSyncPerSource
  <1>1. LockCoversSync => OneSyncPerSource
    BY DEF LockCoversSync, OneSyncPerSource, Owns
  <1>2. QED
    BY <1>1, LockCoversEverySync, PTL

-----------------------------------------------------------------------------
(* The contract of SyncLease. *)

\* Every step of the timed lock is a step of the contract or a stutter.
LEMMA LeaseStep ==
  Timely /\ TypeOK /\ KeyInv /\ LeaseInv /\ LeaseInv' /\ [Next]_vars
    => [Lease!Next]_(Lease!vars)
  <1> SUFFICES ASSUME Timely, TypeOK, KeyInv, LeaseInv, LeaseInv', [Next]_vars
               PROVE  [Lease!Next]_(Lease!vars)
    OBVIOUS
  <1> DEFINE phase == [t \in Tasks |-> PhaseOf(t)]
  <1> USE DEF Lease!vars
  <1>1. CASE Tick
    <2>1. phase' = phase
      BY <1>1 DEF Tick, PhaseOf, Running
    <2>2. DEFINE S == {s \in Sources : ttl[s] = 1}
    <2>3. S \in SUBSET Sources
      OBVIOUS
    <2>4. owner' = [s \in Sources |-> IF s \in S THEN NoTask ELSE owner[s]]
      BY <1>1 DEF Tick
    <2>5. ASSUME NEW s \in S
          PROVE  owner[s] # NoTask /\ phase[owner[s]] = "ended"
      <3>1. owner[s] # NoTask /\ owner[s] \in Tasks /\ owner'[s] = NoTask
        BY <2>4 DEF KeyInv, TypeOK
      <3>2. PICK t \in Tasks : t = owner[s]
        BY <3>1
      <3>3. SourceOf[t] = s /\ pc[t] \notin {"queued", "refused"}
        BY <3>1, <3>2 DEF KeyInv
      <3>4. ~Running(t)
        <4>1. SUFFICES ASSUME Running(t) PROVE FALSE
          OBVIOUS
        <4>2. Running(t)'
          BY <1>1, <4>1 DEF Tick, Running
        <4>3. owner'[SourceOf[t]] = t
          BY <4>2 DEF LeaseInv, Owns
        <4>4. QED
          BY <3>1, <3>2, <3>3, <4>3
      <3>5. PhaseOf(t) = "ended"
        BY <3>3, <3>4 DEF PhaseOf
      <3>6. phase[t] = "ended"
        BY <3>5
      <3>7. QED
        BY <3>1, <3>2, <3>6
    <2>6. Lease!Lapse(S)
      BY <2>1, <2>4, <2>5 DEF Lease!Lapse
    <2>7. QED
      BY <2>3, <2>6 DEF Lease!Next
  <1>2. ASSUME NEW t \in Tasks, Acquire(t)
        PROVE  Lease!Next
    <2>1. phase' = [phase EXCEPT ![t] = "running"]
      BY <1>2 DEF Acquire, PhaseOf, Running, TypeOK
    <2>2. phase[t] = "queued"
      BY <1>2 DEF Acquire, PhaseOf, Running
    <2>3. Lease!Enter(t)
      BY <1>2, <2>1, <2>2 DEF Acquire, LockExists, Lease!Enter
    <2>4. QED
      BY <2>3 DEF Lease!Next
  <1>3. ASSUME NEW t \in Tasks, Refuse(t)
        PROVE  Lease!Next
    <2>1. phase' = [phase EXCEPT ![t] = "ended"]
      BY <1>3 DEF Refuse, PhaseOf, Running, TypeOK
    <2>2. phase[t] = "queued"
      BY <1>3 DEF Refuse, PhaseOf, Running
    <2>3. Lease!TurnAway(t)
      BY <1>3, <2>1, <2>2 DEF Refuse, LockExists, Lease!TurnAway
    <2>4. QED
      BY <2>3 DEF Lease!Next
  <1>4. ASSUME NEW t \in Tasks, Finish(t)
        PROVE  Lease!Next
    <2>1. phase' = [phase EXCEPT ![t] = "ended"]
      BY <1>4 DEF Finish, PhaseOf, Running, TypeOK
    <2>2. phase[t] = "running" /\ Running(t)
      BY <1>4 DEF Finish, PhaseOf, Running
    <2>3. owner[SourceOf[t]] = t
      BY <2>2 DEF LeaseInv, Owns
    <2>4. Lease!Leave(t)
      BY <1>4, <2>1, <2>2, <2>3 DEF Finish, Owns, Lease!Leave
    <2>5. QED
      BY <2>4 DEF Lease!Next
  <1>5. ASSUME NEW t \in Tasks, Kill(t)
        PROVE  Lease!Next
    <2>1. phase' = [phase EXCEPT ![t] = "ended"]
      BY <1>5 DEF Kill, PhaseOf, Running, TypeOK
    <2>2. phase[t] = "running"
      BY <1>5 DEF Kill, PhaseOf
    <2>3. Lease!Crash(t)
      BY <1>5, <2>1, <2>2 DEF Kill, Lease!Crash
    <2>4. QED
      BY <2>3 DEF Lease!Next
  <1>6. ASSUME NEW t \in Tasks,
               \/ Suspend(t) \/ Resume(t) \/ SleepOver(t)
               \/ Renew(t) \/ RenewFails(t)
        PROVE  UNCHANGED Lease!vars
    <2>1. owner' = owner
      BY <1>6 DEF Suspend, Resume, SleepOver, Renew, RenewFails
    <2>2. \A u \in Tasks : PhaseOf(u)' = PhaseOf(u)
      BY <1>6 DEF TypeOK, Suspend, Resume, SleepOver, Renew, RenewFails,
                  PhaseOf, Running
    <2>3. QED
      BY <2>1, <2>2
  <1>7. ASSUME NEW t \in Tasks, FinishUnreleased(t)
        PROVE  FALSE
    BY <1>7 DEF FinishUnreleased, Timely
  <1>8. CASE UNCHANGED vars
    BY <1>8 DEF vars, PhaseOf, Running
  <1>9. QED
    BY <1>1, <1>2, <1>3, <1>4, <1>5, <1>6, <1>7, <1>8 DEF Next

\* Under a timely schedule the Redis lock with its renewals implements the
\* contract: a lease is taken once, held to the end, lost only by the dead.
THEOREM Refinement ==
  ASSUME Timely PROVE Spec => ImplementsLease
  <1>1. Init => Lease!Init
    BY DEF Init, Lease!Init, PhaseOf, Running
  <1>2. TypeOK /\ KeyInv /\ LeaseInv /\ LeaseInv' /\ [Next]_vars
          => [Lease!Next]_(Lease!vars)
    BY LeaseStep
  <1>3. QED
    BY <1>1, <1>2, TypeCorrect, KeysWellFormed, LeaseHolds, PTL
       DEF Spec, ImplementsLease, Lease!Spec

-----------------------------------------------------------------------------
(* What holds whatever the timing. *)

\* Who holds a key changes with time, with a task that starts and with one
\* that ends and releases: renewals, refusals and deaths leave it alone.
LEMMA KeyWriters ==
  ASSUME [Next]_vars, owner' # owner
  PROVE  Tick \/ \E t \in Tasks : Acquire(t) \/ Finish(t)
  <1>1. Next
    BY DEF vars
  <1>2. ASSUME NEW t \in Tasks,
               \/ Refuse(t) \/ Suspend(t) \/ Resume(t) \/ SleepOver(t)
               \/ Renew(t) \/ RenewFails(t) \/ FinishUnreleased(t)
               \/ Kill(t)
        PROVE  FALSE
    BY <1>2 DEF Refuse, Suspend, Resume, SleepOver, Renew, RenewFails,
                FinishUnreleased, Kill
  <1>3. QED
    BY <1>1, <1>2 DEF Next

\* In every run, even one whose leases lapse under running tasks, a key is
\* freed only by its expiry or by the task whose token it holds.
THEOREM ReleaseIsOwn == Spec => NoForeignRelease
  <1> DEFINE Rightly(s) ==
        /\ owner'[s] = NoTask
        /\ \/ ttl[s] = 1
           \/ \E t \in Tasks :
                owner[s] = t /\ pc[t] = "busy" /\ pc'[t] = "done"
  <1>1. ASSUME TypeOK, [Next]_vars, NEW s \in Sources,
               owner[s] # owner'[s], LockExists(s)
        PROVE  Rightly(s)
    <2>1. CASE Tick
      BY <1>1, <2>1 DEF Tick
    <2>2. ASSUME NEW t \in Tasks, Acquire(t) \/ Finish(t)
          PROVE  Rightly(s)
      <3>1. CASE Acquire(t)  \* takes a free key, and s has a holder
        BY <1>1, <3>1 DEF Acquire, LockExists, TypeOK
      <3>2. CASE Finish(t)   \* frees its own key, if it still has it
        BY <1>1, <3>2 DEF Finish, Owns, TypeOK
      <3> QED
        BY <2>2, <3>1, <3>2
    <2> QED
      BY <1>1, <2>1, <2>2, KeyWriters
  <1>2. TypeOK /\ [Next]_vars =>
          [\A s \in Sources :
             owner[s] # owner'[s] /\ LockExists(s) => Rightly(s)]_vars
    BY <1>1
  <1>3. QED
    BY <1>2, TypeCorrect, PTL DEF Spec, NoForeignRelease

\* In every run, a task that outlived its lease never holds the key again and
\* its renewal never adds time to the key of the task that came after it.
THEOREM LostForGood == Spec => LostLeaseStaysLost
  <1> DEFINE Lost(t) ==
         /\ Running(t) /\ ~Owns(t) => ~Owns(t)'
         /\ Running(t) /\ ~Owns(t) /\ renewal[t] # renewal'[t] =>
              ttl'[SourceOf[t]] <= ttl[SourceOf[t]]
  <1>1. TypeOK /\ [Next]_vars => [\A t \in Tasks : Lost(t)]_vars
    <2> SUFFICES ASSUME TypeOK, [Next]_vars, NEW t \in Tasks,
                        Running(t), ~Owns(t)
                 PROVE  /\ ~Owns(t)'
                        /\ renewal[t] # renewal'[t] =>
                             ttl'[SourceOf[t]] <= ttl[SourceOf[t]]
      OBVIOUS
    <2>1. CASE Tick
      BY <2>1 DEF Tick, Owns
    <2>2. ASSUME NEW u \in Tasks, Acquire(u)
          PROVE  ~Owns(t)' /\ renewal[t] = renewal'[t]
      BY <2>2 DEF Acquire, Owns, Running, TypeOK
    <2>3. ASSUME NEW u \in Tasks, Renew(u)
          PROVE  ~Owns(t)' /\ renewal[t] = renewal'[t]
      BY <2>3 DEF Renew, Owns, TypeOK
    <2>4. ASSUME NEW u \in Tasks, Finish(u)
          PROVE  /\ ~Owns(t)'
                 /\ renewal[t] # renewal'[t] =>
                      ttl'[SourceOf[t]] = ttl[SourceOf[t]]
      BY <2>4 DEF Finish, Owns, TypeOK
    <2>5. ASSUME NEW u \in Tasks,
                 \/ Refuse(u) \/ Suspend(u) \/ Resume(u) \/ SleepOver(u)
                 \/ FinishUnreleased(u) \/ Kill(u)
          PROVE  owner' = owner /\ ttl' = ttl
      BY <2>5 DEF Refuse, Suspend, Resume, SleepOver, FinishUnreleased, Kill
    <2>9. ASSUME NEW u \in Tasks, RenewFails(u)
          PROVE  /\ ~Owns(t)'
                 /\ ttl'[SourceOf[t]] = ttl[SourceOf[t]] \/ renewal[t] = renewal'[t]
      BY <2>9 DEF RenewFails, Owns, TypeOK
    <2>6. ttl[SourceOf[t]] \in Int
      BY DEF TypeOK
    <2>7. CASE UNCHANGED vars
      BY <2>7 DEF vars, Owns
    <2>8. QED
      BY <2>1, <2>2, <2>3, <2>4, <2>5, <2>6, <2>7, <2>9 DEF Next, Owns, Tick
  <1>2. QED
    BY <1>1, TypeCorrect, PTL DEF Spec, LostLeaseStaysLost

=============================================================================
