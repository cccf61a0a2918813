---------------------------- MODULE SynchClient ----------------------------
(***************************************************************************)
(* The kernel of module Synch under arbitrary clients: threads that call P *)
(* and V, take and release locks, yield, finish, and start device          *)
(* operations whose completion interrupt calls V (the way the drivers use  *)
(* their semaphores: drivers/drvDisk.cc, drivers/drvConsole.cc).  The      *)
(* clients keep to the convention of kernel/synch.h:86-87: only the thread *)
(* that acquired a lock releases it.                                       *)
(***************************************************************************)
EXTENDS Synch

CONSTANT MaxCount   \* bound on the units of a semaphore, given or announced

ASSUME MaxCountAssumption == MaxCount \in Nat

VARIABLES
  pending,  \* per semaphore, the scheduled interrupts whose handler calls V
  held      \* per thread, the locks whose Acquire returned and that the
            \* thread has not released since

vars == <<synchVars, pending, held>>

TypeOK ==
  /\ SynchTypeOK
  /\ pending \in [Semaphores -> Nat]
  /\ held \in [Threads -> SUBSET Locks]

Init ==
  /\ SynchInit
  /\ pending = [s \in Semaphores |-> 0]
  /\ held = [t \in Threads |-> {}]

---------------------------------------------------------------------------

\* A thread calls P, or goes on with a P in which it slept.
ThreadP(t, s) ==
  /\ P(t, s)
  /\ UNCHANGED <<pending, held>>

\* A thread calls V.
ThreadV(t, s) ==
  /\ AtCall(t)
  /\ count[s] + pending[s] < MaxCount
  /\ V(s)
  /\ UNCHANGED <<pending, held>>

\* A thread calls Acquire, or goes on with an Acquire in which it slept.
ThreadAcquire(t, l) ==
  /\ Acquire(t, l)
  /\ held' = [held EXCEPT ![t] = IF waitOn'[t] = None THEN @ \cup {l} ELSE @]
  /\ UNCHANGED pending

\* A thread releases a lock it acquired.
ThreadRelease(t, l) ==
  /\ l \in held[t]
  /\ Release(t, l)
  /\ held' = [held EXCEPT ![t] = @ \ {l}]
  /\ UNCHANGED pending

\* A thread gives up the processor.
ThreadYield(t) ==
  /\ Yield(t)
  /\ UNCHANGED <<pending, held>>

\* A thread ends.
ThreadFinish(t) ==
  /\ Finish(t)
  /\ UNCHANGED <<pending, held>>

\* A thread starts a device operation: Interrupt::Schedule of a handler that
\* will call V on the semaphore of the driver.
StartIO(t, s) ==
  /\ AtCall(t)
  /\ count[s] + pending[s] < MaxCount
  /\ pending' = [pending EXCEPT ![s] = @ + 1]
  /\ UNCHANGED <<synchVars, held>>

\* Interrupt::CheckIfDue fires a pending interrupt; its handler calls V.
Interrupt(s) ==
  /\ InterruptsTaken
  /\ pending[s] > 0
  /\ V(s)
  /\ pending' = [pending EXCEPT ![s] = @ - 1]
  /\ UNCHANGED held

\* The sleeping thread leaves its Idle loop.
IdleDispatch ==
  /\ Dispatch
  /\ UNCHANGED <<pending, held>>

\* The objects are the clients' own, none is deleted by Cleanup.
IdleHalt ==
  /\ Halt({})
  /\ \A s \in Semaphores : pending[s] = 0
  /\ UNCHANGED <<pending, held>>

\* The simulator has stopped.
Stopped ==
  /\ machine # "on"
  /\ UNCHANGED vars

ThreadStep(t) ==
  \/ \E s \in Semaphores : ThreadP(t, s) \/ ThreadV(t, s) \/ StartIO(t, s)
  \/ \E l \in Locks : ThreadAcquire(t, l) \/ ThreadRelease(t, l)
  \/ ThreadYield(t)
  \/ ThreadFinish(t)

Next ==
  \/ \E t \in Threads : ThreadStep(t)
  \/ \E s \in Semaphores : Interrupt(s)
  \/ IdleDispatch
  \/ IdleHalt
  \/ Stopped

Spec == Init /\ [][Next]_vars

---------------------------------------------------------------------------

\* A thread that was given a lock by Acquire owns it until it releases it:
\* no two threads are in a critical section of one lock, and the ASSERT of
\* Lock::Release does not fail for a client that keeps to the convention.
MutualExclusion ==
  \A t \in Threads : \A l \in held[t] : owner[l] = t /\ ~is_free[l]

\* The machine halts by itself (Interrupt::Idle, "No threads ready or
\* runnable") only when every thread really has something to wait for: a
\* unit that is not there, or a busy lock.
HaltOnlyWhenBlocked ==
  machine = "halted" =>
    \A t \in Threads :
      \/ waitOn[t] \in Semaphores /\ count[waitOn[t]] = 0
      \/ waitOn[t] \in Locks /\ ~is_free[waitOn[t]]

\* What kernel/synch.h:81-84 says of locks: Acquire waits until the lock is
\* free, Release wakes a waiter "or else" frees the lock.  So when everything
\* has come to rest, a thread that still waits for a lock waits for a thread
\* that holds it.
WaitersHaveHolder ==
  machine = "halted" =>
    \A t \in Threads : waitOn[t] \in Locks =>
      \E u \in Threads : waitOn[t] \in held[u]

=============================================================================
