------------------------------- MODULE Synch -------------------------------
(***************************************************************************)
(* The thread scheduler and the synchronization tools of the Nachos        *)
(* kernel: kernel/scheduler.cc, the context switches of kernel/thread.cc   *)
(* (Yield, Sleep, Finish), class Semaphore and class Lock of               *)
(* kernel/synch.cc, and what machine/interrupt.cc does when no thread can  *)
(* run (Idle, Halt).                                                       *)
(*                                                                         *)
(* The module holds the state and one operator per kernel operation.  It   *)
(* has no Next of its own: SynchClient closes it with arbitrary client     *)
(* threads, DiskDriver with the threads that are inside the disk driver.   *)
(*                                                                         *)
(* Granularity.  Every operation runs with the interrupts disabled and no  *)
(* timer is created (kernel/system.cc:100-107 is commented out), so a      *)
(* context switch happens only where the code calls Sleep or Yield.  An    *)
(* operation is therefore one atomic step up to the point where it sleeps; *)
(* a thread that was put to sleep inside P or Acquire takes up the loop of *)
(* that operation again, as a new step, when it is dispatched.             *)
(***************************************************************************)
EXTENDS Naturals, Sequences, FiniteSets

CONSTANTS
  Threads,         \* the started threads
  Semaphores,      \* the Semaphore objects
  Locks,           \* the Lock objects
  None,            \* the NULL pointer
  InitialCount,    \* initialCounter of each semaphore
  PlaceholderExit  \* TRUE: the exit(ERROR) that ends P, V, Acquire, Release
                   \* and Thread::SaveProcessorState is executed, as in the
                   \* committed files; FALSE: the same code without it

ASSUME ThreadsAssumption ==
  /\ IsFiniteSet(Threads)
  /\ None \notin Threads

ASSUME ObjectsAssumption ==
  /\ Semaphores \cap Locks = {}
  /\ None \notin Semaphores \cup Locks

ASSUME InitialCountAssumption == InitialCount \in [Semaphores -> Nat]

ASSUME PlaceholderAssumption == PlaceholderExit \in BOOLEAN

VARIABLES
  g_current_thread, \* the thread on the CPU, or the last one while idling
  readyList,        \* Scheduler::readyList
  idle,             \* the current thread is in the Idle loop of its Sleep
  waitOn,           \* the object whose P or Acquire loop a thread is inside
  count,            \* Semaphore::count
  wait_queue,       \* Semaphore::wait_queue and Lock::wait_queue
  is_free,          \* Lock::is_free
  owner,            \* Lock::owner
  machine           \* "on", or how the simulator stopped: "halted" (Halt),
                    \* "exit" (exit(ERROR)), "assert" (a failed ASSERT)

schedVars == <<g_current_thread, readyList, idle>>
objectVars == <<count, wait_queue, is_free, owner>>
synchVars == <<schedVars, waitOn, objectVars, machine>>

Objects == Semaphores \cup Locks

SynchTypeOK ==
  /\ g_current_thread \in Threads
  /\ readyList \in Seq(Threads)
  /\ idle \in BOOLEAN
  /\ waitOn \in [Threads -> Objects \cup {None}]
  /\ count \in [Semaphores -> Nat]
  /\ wait_queue \in [Objects -> Seq(Threads)]
  /\ is_free \in [Locks -> BOOLEAN]
  /\ owner \in [Locks -> Threads \cup {None}]
  /\ machine \in {"on", "halted", "exit", "assert"}

\* The threads of a queue.
Elems(q) == {q[i] : i \in 1..Len(q)}

\* No thread is twice in a queue.
NoDup(q) == \A i, j \in 1..Len(q) : q[i] = q[j] => i = j

---------------------------------------------------------------------------
(* Start-up: every thread is on the ready list but the one that runs, in   *)
(* an arbitrary order; the synchronization objects are freshly built.      *)

NewSemaphores == count = InitialCount
NewLocks == is_free = [l \in Locks |-> TRUE] /\ owner = [l \in Locks |-> None]
SynchInit ==
  /\ g_current_thread \in Threads
  /\ readyList \in [1..(Cardinality(Threads) - 1) -> Threads \ {g_current_thread}]
  /\ NoDup(readyList)
  /\ Elems(readyList) = Threads \ {g_current_thread}
  /\ idle = FALSE
  /\ waitOn = [t \in Threads |-> None]
  /\ NewSemaphores
  /\ NewLocks
  /\ wait_queue = [o \in Objects |-> <<>>]
  /\ machine = "on"

---------------------------------------------------------------------------
(* Scheduling *)

\* Thread t executes kernel or user code.
Running(t) ==
  /\ machine = "on"
  /\ ~idle
  /\ g_current_thread = t

\* Thread t runs and is not inside a P or an Acquire it has to finish first.
AtCall(t) == Running(t) /\ waitOn[t] = None

\* A pending interrupt can be delivered: the CPU idles, or the running
\* thread is outside P and Acquire, where the interrupts are disabled.
InterruptsTaken ==
  /\ machine = "on"
  /\ idle \/ waitOn[g_current_thread] = None

\* The placeholder at the end of a function of the skeleton.
ReturnOrExit == machine' = IF PlaceholderExit THEN "exit" ELSE machine

\* Scheduler::SwitchTo, to a thread of the ready list.
SwitchTo(t) ==
  /\ g_current_thread' = t
  /\ ReturnOrExit

\* Thread::Sleep after its ASSERTs, up to the first Idle.
Sleep ==
  IF readyList = <<>>
  THEN /\ idle' = TRUE
       /\ UNCHANGED <<g_current_thread, readyList, machine>>
  ELSE /\ SwitchTo(Head(readyList))
       /\ readyList' = Tail(readyList)
       /\ UNCHANGED idle

\* The loop of Thread::Sleep, after an Idle that made a thread ready: the
\* thread found may be the very one that sleeps.
Dispatch ==
  /\ machine = "on"
  /\ idle
  /\ readyList # <<>>
  /\ SwitchTo(Head(readyList))
  /\ readyList' = Tail(readyList)
  /\ idle' = FALSE
  /\ UNCHANGED <<waitOn, objectVars>>

\* Thread::Yield.
Yield(t) ==
  /\ AtCall(t)
  /\ readyList # <<>>
  /\ SwitchTo(Head(readyList))
  /\ readyList' = Append(Tail(readyList), t)
  /\ UNCHANGED <<idle, waitOn, objectVars>>

\* Thread::Finish.  It calls Sleep without disabling the interrupts, which
\* are enabled at both calls (main.cc:142, exception.cc:157): the ASSERT on
\* the interrupt level in Sleep fails.
Finish(t) ==
  /\ AtCall(t)
  /\ machine' = "assert"
  /\ UNCHANGED <<schedVars, waitOn, objectVars>>

\* Interrupt::Idle when no interrupt is pending: Interrupt::Halt, whose
\* Cleanup deletes the given objects.  The destructors of Semaphore and Lock
\* ASSERT that nobody waits.
Halt(deleted) ==
  /\ machine = "on"
  /\ idle
  /\ readyList = <<>>
  /\ machine' = IF \A o \in deleted : wait_queue[o] = <<>>
                THEN "halted" ELSE "assert"
  /\ UNCHANGED <<schedVars, waitOn, objectVars>>

---------------------------------------------------------------------------
(* Semaphores *)

\* The loop of Semaphore::P finds no unit: the thread queues up and sleeps.
PBlock(t, s) ==
  /\ count[s] = 0
  /\ wait_queue' = [wait_queue EXCEPT ![s] = Append(@, t)]
  /\ waitOn' = [waitOn EXCEPT ![t] = s]
  /\ Sleep
  /\ UNCHANGED count

\* Fault: P does not test count.
PTakeUntested(t, s) ==
  /\ count' = [count EXCEPT ![s] = @ - 1]
  /\ waitOn' = [waitOn EXCEPT ![t] = None]
  /\ ReturnOrExit
  /\ UNCHANGED <<schedVars, wait_queue>>

\* The loop ends: the thread takes a unit and P returns.
PTake(t, s) ==
  /\ count[s] # 0
  /\ count' = [count EXCEPT ![s] = @ - 1]
  /\ waitOn' = [waitOn EXCEPT ![t] = None]
  /\ ReturnOrExit
  /\ UNCHANGED <<schedVars, wait_queue>>

\* Semaphore::P from its call, or from the return of its Sleep, to the next
\* Sleep or to its end.
P(t, s) ==
  /\ Running(t)
  /\ waitOn[t] \in {None, s}
  /\ PBlock(t, s) \/ PTake(t, s)
  /\ UNCHANGED <<is_free, owner>>

\* Fault: the first waiter is made ready and stays in the queue.
WakeFirstNotRemoved(o) ==
  /\ readyList' = Append(readyList, Head(wait_queue[o]))
  /\ UNCHANGED wait_queue

\* The first waiter of an object goes to the ready list: List::Remove, then
\* Scheduler::ReadyToRun.
WakeFirst(o) ==
  /\ wait_queue' = [wait_queue EXCEPT ![o] = Tail(@)]
  /\ readyList' = Append(readyList, Head(wait_queue[o]))

\* Fault: V wakes a waiter only when the count was zero.
VWakesOnZero(s) ==
  /\ IF wait_queue[s] # <<>> /\ count[s] = 0
     THEN WakeFirst(s)
     ELSE UNCHANGED <<wait_queue, readyList>>
  /\ count' = [count EXCEPT ![s] = @ + 1]
  /\ ReturnOrExit
  /\ UNCHANGED <<g_current_thread, idle, waitOn, is_free, owner>>

\* Fault: V wakes nobody.
VWakesNobody(s) ==
  /\ count' = [count EXCEPT ![s] = @ + 1]
  /\ ReturnOrExit
  /\ UNCHANGED <<schedVars, wait_queue, waitOn, is_free, owner>>

\* Semaphore::V, by a thread or by an interrupt handler.
V(s) ==
  /\ IF wait_queue[s] # <<>>
     THEN WakeFirst(s)
     ELSE UNCHANGED <<wait_queue, readyList>>
  /\ count' = [count EXCEPT ![s] = @ + 1]
  /\ ReturnOrExit
  /\ UNCHANGED <<g_current_thread, idle, waitOn, is_free, owner>>

---------------------------------------------------------------------------
(* Locks *)

\* The loop of Lock::Acquire finds the lock busy.
AcquireBlock(t, l) ==
  /\ ~is_free[l]
  /\ wait_queue' = [wait_queue EXCEPT ![l] = Append(@, t)]
  /\ waitOn' = [waitOn EXCEPT ![t] = l]
  /\ Sleep
  /\ UNCHANGED <<is_free, owner>>

\* Fault: Acquire takes a busy lock.
AcquireTakeBusy(t, l) ==
  /\ is_free' = [is_free EXCEPT ![l] = FALSE]
  /\ owner' = [owner EXCEPT ![l] = t]
  /\ waitOn' = [waitOn EXCEPT ![t] = None]
  /\ ReturnOrExit
  /\ UNCHANGED <<schedVars, wait_queue>>

\* The loop ends: the thread takes the lock and Acquire returns.
AcquireTake(t, l) ==
  /\ is_free[l]
  /\ is_free' = [is_free EXCEPT ![l] = FALSE]
  /\ owner' = [owner EXCEPT ![l] = t]
  /\ waitOn' = [waitOn EXCEPT ![t] = None]
  /\ ReturnOrExit
  /\ UNCHANGED <<schedVars, wait_queue>>

\* Lock::Acquire, in the steps of Semaphore::P.
Acquire(t, l) ==
  /\ Running(t)
  /\ waitOn[t] \in {None, l}
  /\ AcquireBlock(t, l) \/ AcquireTake(t, l)
  /\ UNCHANGED count

\* Fault: Release frees the lock and wakes nobody.
ReleaseHeldWakesNobody(l) ==
  /\ is_free' = [is_free EXCEPT ![l] = TRUE]
  /\ owner' = [owner EXCEPT ![l] = None]
  /\ ReturnOrExit
  /\ UNCHANGED <<wait_queue, readyList>>

\* Lock::Release past its ASSERT.  With a waiter it wakes the waiter and
\* changes neither is_free nor owner.
ReleaseHeld(l) ==
  /\ IF wait_queue[l] # <<>>
     THEN /\ WakeFirst(l)
          /\ UNCHANGED <<is_free, owner>>
     ELSE /\ is_free' = [is_free EXCEPT ![l] = TRUE]
          /\ owner' = [owner EXCEPT ![l] = None]
          /\ UNCHANGED <<wait_queue, readyList>>
  /\ ReturnOrExit

\* Lock::Release: the ASSERT(isHeldByCurrentThread()), then the body.
Release(t, l) ==
  /\ AtCall(t)
  /\ IF owner[l] = t
     THEN ReleaseHeld(l)
     ELSE /\ machine' = "assert"
          /\ UNCHANGED <<readyList, wait_queue, is_free, owner>>
  /\ UNCHANGED <<g_current_thread, idle, waitOn, count>>

---------------------------------------------------------------------------
(* What the scheduler and the objects guarantee to every client. *)

\* A thread that is not on the CPU.
Parked(t) == idle \/ t # g_current_thread

\* The threads inside P or Acquire of an object that are on the CPU or on the
\* ready list: they will test count or is_free again.
Awake(o) == {t \in Threads : waitOn[t] = o /\ t \notin Elems(wait_queue[o])}

\* A thread is in exactly one place: on the CPU, once in the ready list, or
\* once in the wait queue of the one object it waits for.  A thread in two
\* places would be resumed twice from one saved context; a thread in none
\* never runs again (Scheduler::ReadyToRun, Scheduler::FindNextToRun, the
\* queues of synch.cc).
OnePlace ==
  /\ NoDup(readyList)
  /\ \A o \in Objects : NoDup(wait_queue[o])
  /\ \A o \in Objects : \A t \in Elems(wait_queue[o]) :
        waitOn[t] = o /\ t \notin Elems(readyList) /\ Parked(t)
  /\ \A t \in Elems(readyList) : Parked(t)
  /\ \A t \in Threads : Parked(t) =>
        t \in Elems(readyList) \/ \E o \in Objects : t \in Elems(wait_queue[o])

\* No wake-up is lost: while threads are queued on a semaphore, each unit of
\* its count is matched by a thread that was already woken for it and will
\* test the count again.  Semaphore::V wakes one thread per unit, P tests
\* again in a loop because another thread may take the unit first.
NoLostWakeup ==
  \A s \in Semaphores :
    wait_queue[s] # <<>> => count[s] <= Cardinality(Awake(s))

\* Nobody sleeps on a free lock unless a thread that was woken will test
\* is_free again (Lock::Acquire appends and sleeps, Lock::Release wakes or
\* frees), and a lock has an owner exactly while it is busy.
LockQueues ==
  \A l \in Locks :
    /\ wait_queue[l] # <<>> /\ is_free[l] => Awake(l) # {}
    /\ owner[l] = None <=> is_free[l]

=============================================================================
