------------------------- MODULE SynchClientProofs -------------------------
(***************************************************************************)
(* The safety properties of SynchClient for every number of threads,       *)
(* semaphores and locks, every initial count, and with or without the      *)
(* placeholders of the skeleton.                                           *)
(***************************************************************************)
EXTENDS SynchClient, SynchProofs

---------------------------------------------------------------------------
(* The inductive invariant *)

IInv ==
  /\ TypeOK
  /\ KernelInv
  /\ MutualExclusion
  /\ HaltOnlyWhenBlocked

\* Every step of the clients is a step of the kernel.
LEMMA StepKernel ==
  ASSUME [Next]_vars
  PROVE  KernelStep
<1>1. ASSUME NEW t \in Threads, NEW s \in Semaphores,
             ThreadP(t, s) \/ ThreadV(t, s) \/ StartIO(t, s)
      PROVE  KernelStep
  BY <1>1 DEF ThreadP, ThreadV, StartIO, KernelStep
<1>2. ASSUME NEW t \in Threads, NEW l \in Locks,
             ThreadAcquire(t, l) \/ ThreadRelease(t, l)
      PROVE  KernelStep
  BY <1>2 DEF ThreadAcquire, ThreadRelease, KernelStep
<1>3. ASSUME NEW t \in Threads, ThreadYield(t) \/ ThreadFinish(t)
      PROVE  KernelStep
  BY <1>3 DEF ThreadYield, ThreadFinish, Finish, KernelStep
<1>4. ASSUME NEW s \in Semaphores, Interrupt(s)
      PROVE  KernelStep
  BY <1>4 DEF Interrupt, KernelStep
<1>5. CASE IdleDispatch \/ IdleHalt
  BY <1>5 DEF IdleDispatch, IdleHalt, KernelStep
<1>6. CASE Stopped \/ UNCHANGED vars
  BY <1>6 DEF Stopped, KernelStep, vars
<1> QED BY <1>1, <1>2, <1>3, <1>4, <1>5, <1>6 DEF Next, ThreadStep

---------------------------------------------------------------------------
(* The parts of the invariant that are the clients' own *)

\* The pending interrupts stay counted and the held locks stay locks.
LEMMA StepType ==
  ASSUME TypeOK, KernelInv, [Next]_vars
  PROVE  TypeOK'
<1> DEFINE Rest == /\ pending' \in [Semaphores -> Nat]
                   /\ held' \in [Threads -> SUBSET Locks]
<1>1. /\ pending \in [Semaphores -> Nat]
      /\ held \in [Threads -> SUBSET Locks]
  BY DEF TypeOK
<1>2. ASSUME NEW t \in Threads, NEW s \in Semaphores,
             ThreadP(t, s) \/ ThreadV(t, s) \/ StartIO(t, s)
      PROVE  Rest
  BY <1>1, <1>2 DEF ThreadP, ThreadV, StartIO
<1>3. ASSUME NEW t \in Threads, NEW l \in Locks, ThreadAcquire(t, l)
      PROVE  Rest
  <2>1. PICK h \in SUBSET Locks : held' = [held EXCEPT ![t] = h]
    BY <1>1, <1>3 DEF ThreadAcquire
  <2> QED BY <1>1, <1>3, <2>1 DEF ThreadAcquire
<1>4. ASSUME NEW t \in Threads, NEW l \in Locks, ThreadRelease(t, l)
      PROVE  Rest
  BY <1>1, <1>4 DEF ThreadRelease
<1>5. ASSUME NEW t \in Threads, ThreadYield(t) \/ ThreadFinish(t)
      PROVE  Rest
  BY <1>1, <1>5 DEF ThreadYield, ThreadFinish
<1>6. ASSUME NEW s \in Semaphores, Interrupt(s)
      PROVE  Rest
  BY <1>1, <1>6 DEF Interrupt
<1>7. ASSUME IdleDispatch \/ IdleHalt \/ Stopped \/ UNCHANGED vars
      PROVE  Rest
  BY <1>1, <1>7 DEF IdleDispatch, IdleHalt, Stopped, vars
<1> HIDE DEF Rest
<1>8. Rest
  BY <1>2, <1>3, <1>4, <1>5, <1>6, <1>7 DEF Next, ThreadStep
<1>9. SynchTypeOK'
  BY StepKernel, KernelInvariant DEF KernelInv
<1> QED BY <1>8, <1>9 DEF Rest, TypeOK

\* A lock belongs to the one thread that holds it.
LEMMA StepHolders ==
  ASSUME TypeOK, KernelInv, MutualExclusion, [Next]_vars
  PROVE  MutualExclusion'
<1> USE ThreadsAssumption, ObjectsAssumption
<1>1. /\ is_free \in [Locks -> BOOLEAN]
      /\ owner \in [Locks -> Threads \cup {None}]
      /\ held \in [Threads -> SUBSET Locks]
      /\ waitOn \in [Threads -> Objects \cup {None}]
  BY DEF TypeOK, SynchTypeOK
<1> DEFINE Kept == UNCHANGED <<is_free, owner, held>>
<1>2. ASSUME Kept
      PROVE  MutualExclusion'
  BY <1>2 DEF MutualExclusion
<1>3. ASSUME NEW t \in Threads, NEW s \in Semaphores,
             ThreadP(t, s) \/ ThreadV(t, s) \/ StartIO(t, s)
      PROVE  Kept
  BY <1>3 DEF ThreadP, P, ThreadV, V, StartIO, synchVars, objectVars
<1>4. ASSUME NEW t \in Threads, NEW l \in Locks, ThreadAcquire(t, l)
      PROVE  MutualExclusion'
  <2>1. CASE AcquireBlock(t, l)
    <3>1. waitOn'[t] = l /\ l # None
      BY <1>1, <2>1 DEF AcquireBlock
    <3>2. UNCHANGED held
      BY <1>1, <1>4, <3>1 DEF ThreadAcquire
    <3> QED BY <2>1, <3>2 DEF AcquireBlock, MutualExclusion
  <2>2. CASE AcquireTake(t, l)
    <3>1. /\ is_free[l] = TRUE
          /\ is_free' = [is_free EXCEPT ![l] = FALSE]
          /\ owner' = [owner EXCEPT ![l] = t]
      BY <1>1, <2>2 DEF AcquireTake
    <3>2. \A u \in Threads : l \notin held[u]
      BY <3>1 DEF MutualExclusion
    <3>3. \A u \in Threads : held'[u] \subseteq held[u] \cup {l}
      BY <1>1, <1>4 DEF ThreadAcquire
    <3>4. \A u \in Threads : u # t => held'[u] = held[u]
      BY <1>1, <1>4 DEF ThreadAcquire
    <3> QED BY <1>1, <3>1, <3>2, <3>3, <3>4 DEF MutualExclusion
  <2> QED BY <1>4, <2>1, <2>2 DEF ThreadAcquire, Acquire
<1>5. ASSUME NEW t \in Threads, NEW l \in Locks, ThreadRelease(t, l)
      PROVE  MutualExclusion'
  <2>1. ReleaseHeld(l)
    BY <1>5 DEF ThreadRelease, Release, MutualExclusion
  <2>2. /\ \A u \in Threads : held'[u] \subseteq held[u]
        /\ \A u \in Threads : l \notin held'[u]
    BY <1>1, <1>5 DEF ThreadRelease, MutualExclusion
  <2>3. \A k \in Locks : k # l => is_free'[k] = is_free[k] /\ owner'[k] = owner[k]
    BY <1>1, <2>1 DEF ReleaseHeld
  <2> QED BY <1>1, <2>2, <2>3 DEF MutualExclusion
<1>6. ASSUME NEW t \in Threads, ThreadYield(t) \/ ThreadFinish(t)
      PROVE  Kept
  BY <1>6 DEF ThreadYield, Yield, ThreadFinish, Finish, objectVars
<1>7. ASSUME NEW s \in Semaphores, Interrupt(s)
      PROVE  Kept
  BY <1>7 DEF Interrupt, V
<1>8. ASSUME IdleDispatch \/ IdleHalt \/ Stopped \/ UNCHANGED vars
      PROVE  Kept
  BY <1>8 DEF IdleDispatch, Dispatch, IdleHalt, Halt, Stopped, vars, synchVars,
              objectVars
<1> HIDE DEF Kept
<1> QED BY <1>2, <1>3, <1>4, <1>5, <1>6, <1>7, <1>8 DEF Next, ThreadStep

\* Only the idle loop halts the machine, and a stopped machine stays as it is.
LEMMA StepMachine ==
  ASSUME TypeOK, [Next]_vars, machine' = "halted"
  PROVE  IdleHalt \/ UNCHANGED vars
<1> DEFINE Going == machine' \in {"on", "exit", "assert"}
<1>1. ASSUME NEW t \in Threads, NEW s \in Semaphores, ThreadP(t, s)
      PROVE  Going
  BY <1>1 DEF ThreadP, P, PBlock, PTake, Running, Sleep, SwitchTo, ReturnOrExit
<1>2. ASSUME NEW t \in Threads, NEW s \in Semaphores, ThreadV(t, s) \/ StartIO(t, s)
      PROVE  Going
  BY <1>2 DEF ThreadV, V, StartIO, AtCall, Running, ReturnOrExit, synchVars
<1>3. ASSUME NEW t \in Threads, NEW l \in Locks, ThreadAcquire(t, l)
      PROVE  Going
  BY <1>3 DEF ThreadAcquire, Acquire, AcquireBlock, AcquireTake, Running, Sleep,
              SwitchTo, ReturnOrExit
<1>4. ASSUME NEW t \in Threads, NEW l \in Locks, ThreadRelease(t, l)
      PROVE  Going
  BY <1>4 DEF ThreadRelease, Release, ReleaseHeld, AtCall, Running, ReturnOrExit
<1>5. ASSUME NEW t \in Threads, ThreadYield(t) \/ ThreadFinish(t)
      PROVE  Going
  BY <1>5 DEF ThreadYield, Yield, ThreadFinish, Finish, AtCall, Running, SwitchTo,
              ReturnOrExit
<1>6. ASSUME NEW s \in Semaphores, Interrupt(s)
      PROVE  Going
  BY <1>6 DEF Interrupt, InterruptsTaken, V, ReturnOrExit
<1>7. ASSUME IdleDispatch
      PROVE  Going
  BY <1>7 DEF IdleDispatch, Dispatch, SwitchTo, ReturnOrExit
<1> HIDE DEF Going
<1>8. Going \/ IdleHalt \/ Stopped \/ UNCHANGED vars
  BY <1>1, <1>2, <1>3, <1>4, <1>5, <1>6, <1>7 DEF Next, ThreadStep
<1> QED BY <1>8 DEF Going, Stopped

\* The machine halts only with every thread blocked.
LEMMA StepHalt ==
  ASSUME IInv, [Next]_vars
  PROVE  HaltOnlyWhenBlocked'
<1>1. SUFFICES ASSUME machine' = "halted"
               PROVE  HaltOnlyWhenBlocked'
  BY DEF HaltOnlyWhenBlocked
<1>2. CASE UNCHANGED vars
  BY <1>2 DEF IInv, HaltOnlyWhenBlocked, vars, synchVars, objectVars
<1>3. CASE IdleHalt
  <2>1. idle /\ readyList = <<>> /\ UNCHANGED <<waitOn, count, is_free>>
    BY <1>3 DEF IdleHalt, Halt, objectVars
  <2> QED BY <2>1, AllBlocked DEF IInv, HaltOnlyWhenBlocked
<1> QED BY <1>1, <1>2, <1>3, StepMachine DEF IInv

---------------------------------------------------------------------------
(* The theorems *)

\* The initial states satisfy the invariant.
LEMMA InitInvariant == Init => IInv
<1> SUFFICES ASSUME Init PROVE IInv
  OBVIOUS
<1>1. KernelInv /\ SynchTypeOK
  BY KernelInit DEF Init, KernelInv
<1>2. /\ machine = "on"
      /\ pending = [s \in Semaphores |-> 0]
      /\ held = [t \in Threads |-> {}]
  BY DEF Init, SynchInit
<1>3. TypeOK
  BY <1>1, <1>2 DEF TypeOK
<1>4. MutualExclusion /\ HaltOnlyWhenBlocked
  BY <1>2 DEF MutualExclusion, HaltOnlyWhenBlocked
<1> QED BY <1>1, <1>3, <1>4 DEF IInv

\* Every step preserves it.
LEMMA StepInvariant == IInv /\ [Next]_vars => IInv'
<1> SUFFICES ASSUME IInv, [Next]_vars PROVE IInv'
  OBVIOUS
<1>1. TypeOK /\ KernelInv /\ MutualExclusion
  BY DEF IInv
<1>2. KernelInv'
  BY <1>1, StepKernel, KernelInvariant
<1>3. TypeOK' /\ MutualExclusion'
  BY <1>1, StepType, StepHolders
<1>4. HaltOnlyWhenBlocked'
  BY StepHalt
<1> QED BY <1>2, <1>3, <1>4 DEF IInv

\* The inductive invariant holds in every reachable state, for every set of
\* threads, semaphores and locks.
THEOREM Invariant == Spec => []IInv
BY InitInvariant, StepInvariant, PTL DEF Spec

\* The state of the kernel stays well formed: counts are natural numbers and
\* queues hold threads.
THEOREM TypeCorrect == Spec => []TypeOK
<1>1. IInv => TypeOK
  BY DEF IInv
<1> QED BY <1>1, Invariant, PTL

\* No thread is ever in two queues, twice in a queue, or lost
\* (Scheduler::ReadyToRun, Thread::Sleep, the wait queues of synch.cc).
THEOREM OnePlaceCorrect == Spec => []OnePlace
<1>1. IInv => OnePlace
  BY DEF IInv, KernelInv
<1> QED BY <1>1, Invariant, PTL

\* Semaphore::V never loses a wake-up, whatever threads and interrupts do
\* between the wake-up and the moment the woken thread tests count again.
THEOREM NoLostWakeupCorrect == Spec => []NoLostWakeup
<1>1. IInv => NoLostWakeup
  BY DEF IInv, KernelInv
<1> QED BY <1>1, Invariant, PTL

\* No two threads are in the critical section of a lock.
THEOREM MutualExclusionCorrect == Spec => []MutualExclusion
<1>1. IInv => MutualExclusion
  BY DEF IInv
<1> QED BY <1>1, Invariant, PTL

\* Nobody sleeps on a lock that is free, and busy locks have an owner.
THEOREM LockQueuesCorrect == Spec => []LockQueues
<1>1. IInv => LockQueues
  BY DEF IInv, KernelInv
<1> QED BY <1>1, Invariant, PTL

\* Interrupt::Idle halts the machine only when every thread is blocked on a
\* unit that is not there or on a busy lock.
THEOREM HaltCorrect == Spec => []HaltOnlyWhenBlocked
<1>1. IInv => HaltOnlyWhenBlocked
  BY DEF IInv
<1> QED BY <1>1, Invariant, PTL

=============================================================================
