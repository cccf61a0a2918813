-------------------------- MODULE DiskDriverProofs --------------------------
(***************************************************************************)
(* The safety properties of the disk drivers for every number of threads,  *)
(* disks and sectors, any distribution of the disks over the threads, and  *)
(* with or without the placeholders of the skeleton; and the refinement of *)
(* the abstract disk service.                                              *)
(***************************************************************************)
EXTENDS DiskDriver, SynchProofs

---------------------------------------------------------------------------
(* The inductive invariant *)

\* A thread between Acquire and Release owns the lock of its disk.
LockHeld ==
  \A t \in Threads : pc[t] \in {"request", "wait", "release"} =>
    owner[DiskLock[req[t].disk]] = t

\* A thread sleeps only on the lock or the semaphore of the disk it uses, and
\* on the semaphore only with its request in the device or done.
WaitsForOwn ==
  \A t \in Threads :
    /\ pc[t] = "acquire" => waitOn[t] \in {None, DiskLock[req[t].disk]}
    /\ pc[t] = "wait" => waitOn[t] = DiskSem[req[t].disk]
    /\ pc[t] \in {"user", "request", "release"} => waitOn[t] = None

\* When the simulator stops by itself or on an ASSERT, every thread is stuck
\* in Acquire: no request is in a device, and no caller is stranded in P
\* with its request done.
StopsOnlyAtLocks ==
  machine \in {"halted", "assert"} => \A t \in Threads : pc[t] = "acquire"

IInv ==
  /\ TypeOK
  /\ KernelInv
  /\ LockHeld
  /\ WaitsForOwn
  /\ CompletionsCounted
  /\ StopsOnlyAtLocks

\* The types of the state, one fact per variable.
LEMMA Typed ==
  ASSUME TypeOK
  PROVE  /\ waitOn \in [Threads -> Objects \cup {None}]
         /\ count \in [Semaphores -> Nat]
         /\ is_free \in [Locks -> BOOLEAN]
         /\ owner \in [Locks -> Threads \cup {None}]
         /\ pc \in [Threads -> {"user", "acquire", "request", "wait", "release"}]
         /\ req \in [Threads -> Requests]
         /\ \A t \in Threads : req[t].disk \in Disks
         /\ active \in [Disks -> BOOLEAN]
         /\ pending \in [Disks -> Nat]
BY DEF TypeOK, SynchTypeOK, Requests

\* The objects of a disk are its own.
LEMMA DiskObjects ==
  ASSUME NEW d \in Disks
  PROVE  /\ DiskLock[d] \in Locks
         /\ DiskSem[d] \in Semaphores
         /\ DiskLock[d] \in Objects /\ DiskLock[d] # None
         /\ DiskSem[d] \in Objects /\ DiskSem[d] # None
         /\ \A e \in Disks : DiskSem[d] # DiskLock[e]
         /\ \A e \in Disks : e # d => DiskLock[e] # DiskLock[d] /\ DiskSem[e] # DiskSem[d]
BY DiskAssumption, ObjectsAssumption DEF Objects

\* At most one thread is between Acquire and Release of a disk.
LEMMA OneHolder ==
  ASSUME LockHeld, NEW t \in Threads, NEW u \in Threads,
         pc[t] \in {"request", "wait", "release"},
         pc[u] \in {"request", "wait", "release"},
         req[t].disk = req[u].disk
  PROVE  t = u
BY DEF LockHeld

\* While a thread is between Acquire and Release its lock is busy.
LEMMA HolderBusy ==
  ASSUME TypeOK, KernelInv, LockHeld, NEW t \in Threads,
         pc[t] \in {"request", "wait", "release"}
  PROVE  ~is_free[DiskLock[req[t].disk]]
<1>1. req[t].disk \in Disks
  BY Typed
<1>2. DiskLock[req[t].disk] \in Locks
  BY <1>1, DiskObjects
<1>3. owner[DiskLock[req[t].disk]] # None
  BY ThreadsAssumption DEF LockHeld
<1> QED BY <1>2, <1>3 DEF KernelInv, LockQueues

\* Before its request a thread finds the device idle and no unit left over.
LEMMA RequestFindsIdle ==
  ASSUME TypeOK, LockHeld, CompletionsCounted, NEW t \in Threads, pc[t] = "request"
  PROVE  /\ ~active[req[t].disk]
         /\ pending[req[t].disk] = 0
         /\ count[DiskSem[req[t].disk]] = 0
<1> DEFINE d == req[t].disk
<1>1. d \in Disks /\ pending[d] \in Nat /\ count[DiskSem[d]] \in Nat
  BY Typed, DiskObjects
<1>2. ~\E u \in Threads : pc[u] = "wait" /\ req[u].disk = d
  BY OneHolder
<1>3. /\ count[DiskSem[d]] + pending[d] <= 1
      /\ count[DiskSem[d]] + pending[d] # 1
      /\ active[d] <=> pending[d] = 1
  BY <1>1, <1>2 DEF CompletionsCounted
<1> QED BY <1>1, <1>3

---------------------------------------------------------------------------
(* One lemma per part of the invariant *)

\* Every step of the drivers is a step of the kernel.
LEMMA StepKernel ==
  ASSUME TypeOK, [Next]_vars
  PROVE  KernelStep
<1>1. ASSUME NEW t \in Threads
      PROVE  DiskLock[req[t].disk] \in Locks /\ DiskSem[req[t].disk] \in Semaphores
  BY Typed, DiskObjects
<1>2. ASSUME NEW t \in Threads, Call(t) \/ YieldCPU(t)
      PROVE  KernelStep
  BY <1>2 DEF Call, YieldCPU, KernelStep
<1>3. ASSUME NEW t \in Threads, AcquireLock(t) \/ ReleaseLock(t)
      PROVE  KernelStep
  BY <1>1, <1>3 DEF AcquireLock, ReleaseLock, KernelStep
<1>4. ASSUME NEW t \in Threads, RequestAndWait(t) \/ Wait(t)
      PROVE  KernelStep
  BY <1>1, <1>4 DEF RequestAndWait, Wait, KernelStep
<1>5. ASSUME NEW d \in Disks, HandleInterrupt(d)
      PROVE  KernelStep
  BY <1>5, DiskObjects DEF HandleInterrupt, RequestDone, KernelStep
<1>6. CASE IdleDispatch \/ IdleHalt
  BY <1>6 DEF IdleDispatch, IdleHalt, KernelStep
<1>7. CASE Stopped \/ UNCHANGED vars
  BY <1>7 DEF Stopped, KernelStep, vars
<1> QED BY <1>2, <1>3, <1>4, <1>5, <1>6, <1>7 DEF Next, ThreadStep

\* The state of the drivers and the devices stays typed.
LEMMA StepType ==
  ASSUME TypeOK, KernelInv, [Next]_vars
  PROVE  TypeOK'
<1> DEFINE Labels == {"user", "acquire", "request", "wait", "release"}
           Rest == /\ DisksOf' \in Uses
                   /\ pc' \in [Threads -> Labels]
                   /\ req' \in [Threads -> Requests]
                   /\ data' \in [Threads -> Data]
                   /\ active' \in [Disks -> BOOLEAN]
                   /\ contents' \in [Disks -> [Sectors -> Data]]
                   /\ pending' \in [Disks -> Nat]
<1>1. /\ DisksOf \in Uses
      /\ pc \in [Threads -> Labels]
      /\ req \in [Threads -> Requests]
      /\ data \in [Threads -> Data]
      /\ active \in [Disks -> BOOLEAN]
      /\ contents \in [Disks -> [Sectors -> Data]]
      /\ pending \in [Disks -> Nat]
  BY DEF TypeOK
<1>2. ASSUME NEW t \in Threads, Call(t)
      PROVE  Rest
  BY <1>1, <1>2 DEF Call, goto
<1>3. ASSUME NEW t \in Threads, AcquireLock(t) \/ ReleaseLock(t) \/ Wait(t)
      PROVE  Rest
  BY <1>1, <1>3 DEF AcquireLock, ReleaseLock, Wait, goto
<1>4. ASSUME NEW t \in Threads, RequestAndWait(t)
      PROVE  Rest
  <2>1. CASE UNCHANGED diskVars
    BY <1>1, <2>1 DEF diskVars
  <2>2. CASE DiskRequest(t) /\ UNCHANGED <<DisksOf, req>>
    <3>1. /\ req[t].disk \in Disks
          /\ req[t].sector \in Sectors
          /\ req[t].write \in Data \cup {None}
      BY <1>1 DEF Requests
    <3>2. data' \in [Threads -> Data]
      BY <1>1, <2>2, <3>1 DEF DiskRequest
    <3>3. contents' \in [Disks -> [Sectors -> Data]]
      <4>1. CASE req[t].write = None
        BY <1>1, <2>2, <4>1 DEF DiskRequest
      <4>2. CASE req[t].write # None
        <5> DEFINE f == [contents[req[t].disk] EXCEPT ![req[t].sector] = req[t].write]
        <5>1. f \in [Sectors -> Data]
          BY <1>1, <3>1, <4>2
        <5>2. contents' = [contents EXCEPT ![req[t].disk] = f]
          BY <2>2, <4>2 DEF DiskRequest
        <5> HIDE DEF f
        <5> QED BY <1>1, <3>1, <5>1, <5>2
      <4> QED BY <4>1, <4>2
    <3>4. active' \in [Disks -> BOOLEAN] /\ pending' \in [Disks -> Nat]
      BY <1>1, <2>2, <3>1 DEF DiskRequest
    <3>5. pc' \in [Threads -> Labels]
      BY <1>1, <1>4 DEF RequestAndWait, goto, diskVars
    <3> QED BY <1>1, <2>2, <3>2, <3>3, <3>4, <3>5
  <2> QED BY <1>4, <2>1, <2>2 DEF RequestAndWait
<1>5. ASSUME NEW d \in Disks, HandleInterrupt(d)
      PROVE  Rest
  BY <1>1, <1>5 DEF HandleInterrupt
<1>6. ASSUME \/ \E t \in Threads : YieldCPU(t)
             \/ IdleDispatch \/ IdleHalt \/ Stopped \/ UNCHANGED vars
      PROVE  Rest
  BY <1>1, <1>6 DEF YieldCPU, IdleDispatch, IdleHalt, Stopped, vars, diskVars
<1> HIDE DEF Rest
<1>7. Rest
  BY <1>2, <1>3, <1>4, <1>5, <1>6 DEF Next, ThreadStep
<1>8. SynchTypeOK'
  BY StepKernel, KernelInvariant DEF KernelInv
<1> QED BY <1>7, <1>8 DEF Rest, TypeOK

\* The steps that leave the drivers' threads alone.
LEMMA QuietStep ==
  ASSUME \/ \E t \in Threads : YieldCPU(t)
         \/ IdleDispatch \/ IdleHalt \/ Stopped \/ UNCHANGED vars
  PROVE  UNCHANGED <<waitOn, count, is_free, owner, diskVars>>
BY DEF YieldCPU, Yield, IdleDispatch, Dispatch, IdleHalt, Halt, Stopped, vars,
       synchVars, objectVars

\* The lock stays with the thread that took it until that thread releases it.
LEMMA StepLockHeld ==
  ASSUME TypeOK, KernelInv, LockHeld, [Next]_vars
  PROVE  LockHeld'
<1> DEFINE Holding == {"request", "wait", "release"}
<1> USE Typed
<1>1. ASSUME UNCHANGED <<owner, req>>,
             \A u \in Threads : pc'[u] \in Holding => pc[u] \in Holding
      PROVE  LockHeld'
  BY <1>1 DEF LockHeld
<1>2. ASSUME NEW t \in Threads, Call(t)
      PROVE  LockHeld'
  <2>1. /\ pc'[t] \notin Holding
        /\ \A u \in Threads : u # t => pc'[u] = pc[u] /\ req'[u] = req[u]
        /\ UNCHANGED owner
    BY <1>2 DEF Call, goto, synchVars, objectVars
  <2> QED BY <2>1 DEF LockHeld
<1>3. ASSUME NEW t \in Threads, AcquireLock(t)
      PROVE  LockHeld'
  <2> DEFINE l == DiskLock[req[t].disk]
  <2>1. l \in Locks /\ UNCHANGED req
    BY <1>3, DiskObjects DEF AcquireLock
  <2>2. CASE ~is_free[l]
    <3>1. UNCHANGED <<owner, pc>>
      BY <1>3, <2>2 DEF AcquireLock, Acquire, AcquireBlock, AcquireTake
    <3> QED BY <1>1, <2>1, <3>1
  <2>3. CASE is_free[l]
    <3>1. owner' = [owner EXCEPT ![l] = t] /\ pc' = [pc EXCEPT ![t] = "request"]
      BY <1>3, <2>3 DEF AcquireLock, Acquire, AcquireBlock, AcquireTake, goto
    <3>2. owner'[l] = t /\ \A k \in Locks : k # l => owner'[k] = owner[k]
      BY <2>1, <3>1
    <3>3. ASSUME NEW u \in Threads, u # t, pc'[u] \in Holding
          PROVE  owner'[DiskLock[req[u].disk]] = u
      <4>1. pc[u] \in Holding
        BY <3>1, <3>3
      <4>2. /\ DiskLock[req[u].disk] \in Locks
            /\ DiskLock[req[u].disk] # l
            /\ owner[DiskLock[req[u].disk]] = u
        BY <2>3, <4>1, HolderBusy, DiskObjects DEF LockHeld
      <4> QED BY <3>2, <4>2
    <3> QED BY <2>1, <3>2, <3>3 DEF LockHeld
  <2> QED BY <2>2, <2>3
<1>4. ASSUME NEW t \in Threads, RequestAndWait(t) \/ Wait(t)
      PROVE  LockHeld'
  <2>1. UNCHANGED <<owner, req>>
    BY <1>4 DEF RequestAndWait, Wait, P, objectVars, diskVars
  <2>2. \A u \in Threads : pc'[u] \in Holding => pc[u] \in Holding
    BY <1>4 DEF RequestAndWait, Wait, goto, diskVars
  <2> QED BY <1>1, <2>1, <2>2
<1>5. ASSUME NEW t \in Threads, ReleaseLock(t)
      PROVE  LockHeld'
  <2> DEFINE l == DiskLock[req[t].disk]
  <2>1. /\ l \in Locks
        /\ owner[l] = t
        /\ UNCHANGED req
        /\ pc' = [pc EXCEPT ![t] = "user"]
    BY <1>5, DiskObjects DEF ReleaseLock, LockHeld, goto
  <2>2. \A k \in Locks : k # l => owner'[k] = owner[k]
    BY <1>5, <2>1 DEF ReleaseLock, Release, ReleaseHeld
  <2>3. ASSUME NEW u \in Threads, pc'[u] \in Holding
        PROVE  owner'[DiskLock[req[u].disk]] = u
    <3>1. u # t /\ pc[u] \in Holding
      BY <2>1, <2>3
    <3>2. owner[DiskLock[req[u].disk]] = u /\ DiskLock[req[u].disk] \in Locks
      BY <3>1, DiskObjects DEF LockHeld
    <3> QED BY <2>1, <2>2, <3>1, <3>2
  <2> QED BY <2>1, <2>3 DEF LockHeld
<1>6. ASSUME NEW d \in Disks, HandleInterrupt(d)
      PROVE  LockHeld'
  BY <1>1, <1>6 DEF HandleInterrupt, RequestDone, V
<1>7. ASSUME \/ \E t \in Threads : YieldCPU(t)
             \/ IdleDispatch \/ IdleHalt \/ Stopped \/ UNCHANGED vars
      PROVE  LockHeld'
  BY <1>1, <1>7, QuietStep DEF diskVars
<1> QED BY <1>2, <1>3, <1>4, <1>5, <1>6, <1>7 DEF Next, ThreadStep

\* A request finds the device idle and no unit left over: its caller sleeps.
LEMMA RequestSleeps ==
  ASSUME TypeOK, LockHeld, CompletionsCounted, NEW t \in Threads, RequestAndWait(t)
  PROVE  /\ pc[t] = "request"
         /\ DiskRequest(t)
         /\ PBlock(t, DiskSem[req[t].disk])
         /\ pc' = [pc EXCEPT ![t] = "wait"]
         /\ UNCHANGED <<DisksOf, req, is_free, owner>>
<1>1. ~active[req[t].disk] /\ count[DiskSem[req[t].disk]] = 0
  BY RequestFindsIdle DEF RequestAndWait
<1> QED BY <1>1 DEF RequestAndWait, P, PTake, goto

\* A thread sleeps in the call its pc tells.
LEMMA StepWaitsForOwn ==
  ASSUME TypeOK, LockHeld, CompletionsCounted, WaitsForOwn, [Next]_vars
  PROVE  WaitsForOwn'
<1> USE Typed
<1> DEFINE Fits(u) ==
      /\ pc[u] = "acquire" => waitOn[u] \in {None, DiskLock[req[u].disk]}
      /\ pc[u] = "wait" => waitOn[u] = DiskSem[req[u].disk]
      /\ pc[u] \in {"user", "request", "release"} => waitOn[u] = None
<1>1. ASSUME NEW t \in Threads, Fits(t)',
             \A u \in Threads : u # t =>
                pc'[u] = pc[u] /\ waitOn'[u] = waitOn[u] /\ req'[u] = req[u]
      PROVE  WaitsForOwn'
  BY <1>1 DEF WaitsForOwn
<1>2. ASSUME NEW t \in Threads, Call(t)
      PROVE  WaitsForOwn'
  <2>1. /\ waitOn[t] = None
        /\ pc'[t] = "acquire"
        /\ UNCHANGED waitOn
        /\ \A u \in Threads : u # t => pc'[u] = pc[u] /\ req'[u] = req[u]
    BY <1>2 DEF Call, AtCall, goto, synchVars
  <2> QED BY <1>1, <2>1
<1>3. ASSUME NEW t \in Threads, AcquireLock(t)
      PROVE  WaitsForOwn'
  <2> DEFINE l == DiskLock[req[t].disk]
  <2>1. CASE ~is_free[l]
    <3>1. /\ waitOn' = [waitOn EXCEPT ![t] = l]
          /\ pc[t] = "acquire"
          /\ UNCHANGED <<pc, req>>
      BY <1>3, <2>1 DEF AcquireLock, Acquire, AcquireBlock, AcquireTake
    <3> QED BY <1>1, <3>1
  <2>2. CASE is_free[l]
    <3>1. /\ waitOn' = [waitOn EXCEPT ![t] = None]
          /\ pc' = [pc EXCEPT ![t] = "request"]
          /\ UNCHANGED req
      BY <1>3, <2>2 DEF AcquireLock, Acquire, AcquireBlock, AcquireTake, goto
    <3> QED BY <1>1, <3>1
  <2> QED BY <2>1, <2>2
<1>4. ASSUME NEW t \in Threads, RequestAndWait(t)
      PROVE  WaitsForOwn'
  <2>1. /\ waitOn' = [waitOn EXCEPT ![t] = DiskSem[req[t].disk]]
        /\ pc' = [pc EXCEPT ![t] = "wait"]
        /\ UNCHANGED req
    BY <1>4, RequestSleeps DEF PBlock
  <2> QED BY <1>1, <2>1
<1>5. ASSUME NEW t \in Threads, Wait(t)
      PROVE  WaitsForOwn'
  <2> DEFINE s == DiskSem[req[t].disk]
  <2>1. CASE count[s] = 0
    <3>1. /\ waitOn' = [waitOn EXCEPT ![t] = s]
          /\ pc[t] = "wait"
          /\ UNCHANGED <<pc, req>>
      BY <1>5, <2>1 DEF Wait, P, PBlock, PTake
    <3> QED BY <1>1, <3>1
  <2>2. CASE count[s] # 0
    <3>1. /\ waitOn' = [waitOn EXCEPT ![t] = None]
          /\ pc' = [pc EXCEPT ![t] = "release"]
          /\ UNCHANGED req
      BY <1>5, <2>2 DEF Wait, P, PBlock, PTake, goto
    <3> QED BY <1>1, <3>1
  <2> QED BY <2>1, <2>2
<1>6. ASSUME NEW t \in Threads, ReleaseLock(t)
      PROVE  WaitsForOwn'
  <2>1. /\ waitOn[t] = None
        /\ pc' = [pc EXCEPT ![t] = "user"]
        /\ UNCHANGED <<waitOn, req>>
    BY <1>6 DEF ReleaseLock, Release, AtCall, goto
  <2> QED BY <1>1, <2>1
<1>7. ASSUME UNCHANGED <<waitOn, pc, req>>
      PROVE  WaitsForOwn'
  BY <1>7 DEF WaitsForOwn
<1>8. ASSUME NEW d \in Disks, HandleInterrupt(d)
      PROVE  WaitsForOwn'
  BY <1>7, <1>8 DEF HandleInterrupt, RequestDone, V
<1>9. ASSUME \/ \E t \in Threads : YieldCPU(t)
             \/ IdleDispatch \/ IdleHalt \/ Stopped \/ UNCHANGED vars
      PROVE  WaitsForOwn'
  BY <1>7, <1>9, QuietStep DEF diskVars
<1> QED BY <1>2, <1>3, <1>4, <1>5, <1>6, <1>8, <1>9 DEF Next, ThreadStep

\* CompletionsCounted for one disk.
CountedAt(d) ==
  /\ count[DiskSem[d]] + pending[d] <= 1
  /\ active[d] <=> pending[d] = 1
  /\ count[DiskSem[d]] + pending[d] = 1 <=>
       \E t \in Threads : pc[t] = "wait" /\ req[t].disk = d
  /\ \A t \in Threads :
       pc[t] = "release" /\ req[t].disk = d => ~active[d]

\* The units and the interrupts of a disk stay matched with its waiter.
LEMMA StepCompletions ==
  ASSUME TypeOK, LockHeld, CompletionsCounted, [Next]_vars
  PROVE  CompletionsCounted'
<1> USE Typed
<1>1. \A d \in Disks : CountedAt(d)
  BY DEF CompletionsCounted, CountedAt
<1>2. SUFFICES ASSUME NEW d \in Disks
               PROVE  CountedAt(d)'
  BY DEF CompletionsCounted, CountedAt
<1> DEFINE s == DiskSem[d]
<1>3. /\ s \in Semaphores
      /\ count[s] \in Nat
      /\ pending[d] \in Nat
      /\ \A e \in Disks : e # d => DiskSem[e] # s
  BY DiskObjects
<1> DEFINE Same == count'[s] = count[s] /\ pending'[d] = pending[d] /\ active'[d] = active[d]
           At(u, label) == pc[u] = label /\ req[u].disk = d
<1>4. ASSUME Same,
             \A u \in Threads : At(u, "wait")' <=> At(u, "wait"),
             \A u \in Threads : At(u, "release")' => At(u, "release")
      PROVE  CountedAt(d)'
  BY <1>1, <1>4 DEF CountedAt
<1>5. ASSUME NEW t \in Threads, Call(t)
      PROVE  CountedAt(d)'
  <2>1. /\ Same
        /\ pc[t] = "user" /\ pc'[t] = "acquire"
        /\ \A u \in Threads : u # t => pc'[u] = pc[u] /\ req'[u] = req[u]
    BY <1>5 DEF Call, goto, synchVars, objectVars
  <2> QED BY <1>4, <2>1
<1>6. ASSUME NEW t \in Threads, AcquireLock(t) \/ ReleaseLock(t)
      PROVE  CountedAt(d)'
  <2>1. /\ Same
        /\ pc[t] \notin {"wait"} /\ pc'[t] \notin {"wait", "release"}
        /\ \A u \in Threads : u # t => pc'[u] = pc[u]
        /\ UNCHANGED req
    BY <1>6 DEF AcquireLock, Acquire, ReleaseLock, Release, goto
  <2> QED BY <1>4, <2>1
<1>7. ASSUME NEW t \in Threads, RequestAndWait(t)
      PROVE  CountedAt(d)'
  <2>1. /\ pc[t] = "request"
        /\ DiskRequest(t)
        /\ UNCHANGED <<count, req>>
        /\ pc' = [pc EXCEPT ![t] = "wait"]
    BY <1>7, RequestSleeps DEF PBlock
  <2>2. CASE req[t].disk # d
    <3>1. Same
      BY <2>1, <2>2 DEF DiskRequest
    <3>2. \A u \in Threads : (At(u, "wait")' <=> At(u, "wait"))
                          /\ (At(u, "release")' => At(u, "release"))
      BY <2>1, <2>2
    <3> QED BY <1>4, <3>1, <3>2
  <2>3. CASE req[t].disk = d
    <3>1. pending[d] = 0 /\ count[s] = 0
      BY <2>1, <2>3, RequestFindsIdle
    <3>2. pending'[d] = 1 /\ active'[d] = TRUE /\ count'[s] = 0
      BY <1>3, <2>1, <2>3, <3>1 DEF DiskRequest
    <3>3. At(t, "wait")'
      BY <2>1, <2>3
    <3>4. \A u \in Threads : ~At(u, "release")'
      BY <2>1, <2>3, OneHolder
    <3> QED BY <3>2, <3>3, <3>4 DEF CountedAt
  <2> QED BY <2>2, <2>3
<1>8. ASSUME NEW t \in Threads, Wait(t)
      PROVE  CountedAt(d)'
  <2> DEFINE r == DiskSem[req[t].disk]
  <2>0. pc[t] = "wait" /\ UNCHANGED <<req, active, pending>>
    BY <1>8 DEF Wait
  <2>1. CASE count[r] = 0
    <3>1. UNCHANGED <<pc, count>>
      BY <1>8, <2>1 DEF Wait, P, PBlock, PTake
    <3> QED BY <1>4, <2>0, <3>1
  <2>2. CASE count[r] # 0 /\ req[t].disk # d
    <3>1. pc' = [pc EXCEPT ![t] = "release"] /\ count' = [count EXCEPT ![r] = @ - 1]
      BY <1>8, <2>2 DEF Wait, P, PBlock, PTake, goto
    <3>2. r # s
      BY <1>3, <2>2
    <3> QED BY <1>3, <1>4, <2>0, <2>2, <3>1, <3>2
  <2>3. CASE count[r] # 0 /\ req[t].disk = d
    <3>1. pc' = [pc EXCEPT ![t] = "release"] /\ count' = [count EXCEPT ![s] = @ - 1]
      BY <1>8, <2>3 DEF Wait, P, PBlock, PTake, goto
    <3>2. count[s] = 1 /\ pending[d] = 0 /\ ~active[d]
      <4>1. count[s] # 0 /\ count[s] + pending[d] <= 1 /\ (active[d] <=> pending[d] = 1)
        BY <1>1, <2>3 DEF CountedAt
      <4> QED BY <1>3, <4>1
    <3>3. count'[s] = 0 /\ pending'[d] = 0 /\ ~active'[d]
      BY <1>3, <2>0, <3>1, <3>2
    <3>4. \A u \in Threads : ~At(u, "wait")'
      BY <2>0, <2>3, <3>1, OneHolder
    <3> QED BY <3>3, <3>4 DEF CountedAt
  <2> QED BY <2>1, <2>2, <2>3
<1>9. ASSUME NEW e \in Disks, HandleInterrupt(e)
      PROVE  CountedAt(d)'
  <2>1. /\ pending[e] > 0
        /\ pending' = [pending EXCEPT ![e] = @ - 1]
        /\ active' = [active EXCEPT ![e] = FALSE]
        /\ count' = [count EXCEPT ![DiskSem[e]] = @ + 1]
        /\ UNCHANGED <<pc, req>>
    BY <1>9 DEF HandleInterrupt, RequestDone, V
  <2>2. CASE e # d
    <3>1. Same
      BY <1>3, <2>1, <2>2
    <3> QED BY <1>4, <2>1, <3>1
  <2>3. CASE e = d
    <3>1. pending[d] = 1 /\ count[s] = 0
      <4>1. pending[d] > 0 /\ count[s] + pending[d] <= 1
        BY <1>1, <2>1, <2>3 DEF CountedAt
      <4>2. \A a, b \in Nat : b > 0 /\ a + b <= 1 => b = 1 /\ a = 0
        OBVIOUS
      <4> QED BY <1>3, <4>1, <4>2
    <3>2. pending'[d] = 0 /\ count'[s] = 1 /\ ~active'[d]
      BY <1>3, <2>1, <2>3, <3>1
    <3>3. \E t \in Threads : At(t, "wait")'
      BY <1>1, <2>1, <3>1 DEF CountedAt
    <3> QED BY <3>2, <3>3 DEF CountedAt
  <2> QED BY <2>2, <2>3
<1>10. ASSUME \/ \E t \in Threads : YieldCPU(t)
              \/ IdleDispatch \/ IdleHalt \/ Stopped \/ UNCHANGED vars
       PROVE  CountedAt(d)'
  <2>1. UNCHANGED <<count, pc, req, active, pending>>
    BY <1>10, QuietStep DEF diskVars
  <2> QED BY <1>4, <2>1
<1> QED BY <1>5, <1>6, <1>7, <1>8, <1>9, <1>10 DEF Next, ThreadStep

\* The machine stops only with every thread in Acquire.
LEMMA StepStops ==
  ASSUME IInv, [Next]_vars
  PROVE  StopsOnlyAtLocks'
<1> USE Typed
<1>1. /\ TypeOK /\ KernelInv /\ LockHeld /\ WaitsForOwn /\ CompletionsCounted
      /\ StopsOnlyAtLocks
  BY DEF IInv
<1> DEFINE Going == machine' \in {"on", "exit"}
<1>2. ASSUME Going
      PROVE  StopsOnlyAtLocks'
  BY <1>2 DEF StopsOnlyAtLocks
<1>3. ASSUME NEW t \in Threads, Call(t) \/ YieldCPU(t)
      PROVE  Going
  BY <1>3 DEF Call, YieldCPU, Yield, SwitchTo, ReturnOrExit, AtCall, Running, synchVars
<1>4. ASSUME NEW t \in Threads, AcquireLock(t)
      PROVE  Going
  BY <1>4 DEF AcquireLock, Acquire, AcquireBlock, AcquireTake, Running, Sleep, SwitchTo,
              ReturnOrExit
<1>5. ASSUME NEW t \in Threads, RequestAndWait(t)
      PROVE  Going
  <2>1. machine = "on"
    BY <1>5 DEF RequestAndWait, AtCall, Running
  <2> QED BY <1>1, <1>5, <2>1, RequestSleeps DEF PBlock, Sleep, SwitchTo, ReturnOrExit
<1>6. ASSUME NEW t \in Threads, Wait(t)
      PROVE  Going
  BY <1>6 DEF Wait, P, PBlock, PTake, Running, Sleep, SwitchTo, ReturnOrExit
<1>7. ASSUME NEW t \in Threads, ReleaseLock(t)
      PROVE  Going
  <2>1. owner[DiskLock[req[t].disk]] = t
    BY <1>1, <1>7 DEF ReleaseLock, LockHeld
  <2> QED BY <1>7, <2>1 DEF ReleaseLock, Release, ReleaseHeld, AtCall, Running, ReturnOrExit
<1>8. ASSUME NEW d \in Disks, HandleInterrupt(d)
      PROVE  Going
  BY <1>8 DEF HandleInterrupt, InterruptsTaken, RequestDone, V, ReturnOrExit
<1>9. ASSUME IdleDispatch
      PROVE  Going
  BY <1>9 DEF IdleDispatch, Dispatch, SwitchTo, ReturnOrExit
<1>10. CASE IdleHalt
  <2>1. /\ idle /\ readyList = <<>>
        /\ \A d \in Disks : pending[d] = 0
        /\ UNCHANGED pc
    BY <1>10 DEF IdleHalt, Halt, diskVars
  <2>2. ASSUME NEW t \in Threads
        PROVE  pc[t] = "acquire"
    <3>1. \/ waitOn[t] \in Semaphores /\ count[waitOn[t]] = 0
          \/ waitOn[t] \in Locks
      BY <1>1, <2>1, AllBlocked
    <3>2. pc[t] \notin {"user", "request", "release"}
      BY <1>1, <3>1, ObjectsAssumption DEF WaitsForOwn
    <3>3. pc[t] # "wait"
      <4>1. SUFFICES ASSUME pc[t] = "wait"
                     PROVE  FALSE
        OBVIOUS
      <4> DEFINE d == req[t].disk
      <4>2. d \in Disks /\ DiskSem[d] \in Semaphores
        BY <1>1, DiskObjects
      <4>3. count[DiskSem[d]] = 0 /\ pending[d] = 0
        BY <1>1, <2>1, <3>1, <4>1, <4>2, ObjectsAssumption DEF WaitsForOwn
      <4>4. count[DiskSem[d]] + pending[d] = 1
        BY <1>1, <4>1, <4>2 DEF CompletionsCounted
      <4> QED BY <4>3, <4>4
    <3> QED BY <1>1, <3>2, <3>3
  <2> QED BY <2>1, <2>2 DEF StopsOnlyAtLocks
<1>11. CASE Stopped \/ UNCHANGED vars
  BY <1>1, <1>11 DEF StopsOnlyAtLocks, Stopped, vars, synchVars, diskVars
<1> HIDE DEF Going
<1> QED BY <1>2, <1>3, <1>4, <1>5, <1>6, <1>7, <1>8, <1>9, <1>10, <1>11
        DEF Next, ThreadStep

---------------------------------------------------------------------------
(* The theorems *)

\* The initial states satisfy the invariant: no semaphore of a driver has a
\* unit and no device is busy (DriverDisk::DriverDisk, Disk::Disk).
LEMMA InitInvariant == Init => IInv
<1> SUFFICES ASSUME Init PROVE IInv
  OBVIOUS
<1>1. KernelInv /\ SynchTypeOK
  BY KernelInit DEF Init, KernelInv
<1>2. /\ machine = "on"
      /\ waitOn = [t \in Threads |-> None]
      /\ count = InitialCount
      /\ DisksOf \in Uses
      /\ pc = [t \in Threads |-> "user"]
      /\ active = [d \in Disks |-> FALSE]
      /\ pending = [d \in Disks |-> 0]
  BY DEF Init, SynchInit, NewSemaphores
<1>3. TypeOK
  <2>1. PICK r \in Requests : req = [t \in Threads |-> r]
    BY DEF Init
  <2>2. PICK v \in Data : /\ data = [t \in Threads |-> v]
                          /\ contents = [d \in Disks |-> [sector \in Sectors |-> v]]
    BY DEF Init
  <2>3. req \in [Threads -> Requests] /\ data \in [Threads -> Data]
    BY <2>1, <2>2
  <2>4. contents \in [Disks -> [Sectors -> Data]]
    BY <2>2
  <2> QED BY <1>1, <1>2, <2>3, <2>4 DEF TypeOK
<1>4. LockHeld /\ WaitsForOwn /\ StopsOnlyAtLocks
  BY <1>2 DEF LockHeld, WaitsForOwn, StopsOnlyAtLocks
<1>5. CompletionsCounted
  BY <1>2, DiskAssumption DEF CompletionsCounted
<1> QED BY <1>1, <1>3, <1>4, <1>5 DEF IInv

\* Every step preserves it.
LEMMA StepInvariant == IInv /\ [Next]_vars => IInv'
<1> SUFFICES ASSUME IInv, [Next]_vars PROVE IInv'
  OBVIOUS
<1>1. TypeOK /\ KernelInv /\ LockHeld /\ WaitsForOwn /\ CompletionsCounted
  BY DEF IInv
<1>2. KernelInv'
  BY <1>1, StepKernel, KernelInvariant
<1>3. TypeOK' /\ LockHeld'
  BY <1>1, StepType, StepLockHeld
<1>4. WaitsForOwn' /\ CompletionsCounted'
  BY <1>1, StepWaitsForOwn, StepCompletions
<1>5. StopsOnlyAtLocks'
  BY StepStops
<1> QED BY <1>2, <1>3, <1>4, <1>5 DEF IInv

\* The inductive invariant of the drivers holds in every reachable state.
THEOREM Invariant == Spec => []IInv
BY InitInvariant, StepInvariant, PTL DEF Spec

\* The state of the drivers and of the devices stays well formed.
THEOREM TypeCorrect == Spec => []TypeOK
<1>1. IInv => TypeOK
  BY DEF IInv
<1> QED BY <1>1, Invariant, PTL

\* The ASSERT(!active) of Disk::ReadRequest and Disk::WriteRequest never
\* fails, for any number of threads and disks.
THEOREM OneRequestCorrect == Spec => []OneRequestAtATime
<1>1. IInv => OneRequestAtATime
  BY RequestFindsIdle DEF IInv, OneRequestAtATime
<1> QED BY <1>1, Invariant, PTL

\* No stale unit of an earlier request lets a later one through semaphore->P().
THEOREM CompletionsCorrect == Spec => []CompletionsCounted
<1>1. IInv => CompletionsCounted
  BY DEF IInv
<1> QED BY <1>1, Invariant, PTL

\* Interrupt::Halt never strands a request: when the machine stops, no thread
\* is in P of a driver and no device is at work.
THEOREM StopsCorrect == Spec => []StopsOnlyAtLocks
<1>1. IInv => StopsOnlyAtLocks
  BY DEF IInv
<1> QED BY <1>1, Invariant, PTL

---------------------------------------------------------------------------
(* The drivers implement the abstract disk service *)

\* A disk with a request in service serves the one thread that made it.
LEMMA Serves ==
  ASSUME LockHeld, NEW d \in Disks, NEW t \in Threads, InService(t, d)
  PROVE  servingBar[d] = t
<1>1. \A u \in Threads : InService(u, d) => u = t
  BY OneHolder DEF InService
<1>2. (CHOOSE u \in Threads : InService(u, d)) = t
  BY <1>1
<1> QED BY <1>2 DEF servingBar

\* The same in the next state.
LEMMA ServesNext ==
  ASSUME LockHeld', NEW d \in Disks, NEW t \in Threads, InService(t, d)'
  PROVE  servingBar'[d] = t
<1>1. \A u \in Threads : InService(u, d)' => u = t
  BY DEF InService, LockHeld
<1>2. (CHOOSE u \in Threads : InService(u, d)') = t
  BY <1>1
<1> QED BY <1>2 DEF servingBar

\* A disk without one serves nobody.
LEMMA ServesNobody ==
  ASSUME NEW d \in Disks
  PROVE  /\ (\A u \in Threads : ~InService(u, d)) => servingBar[d] = None /\ ~doneBar[d]
         /\ (\A u \in Threads : ~InService(u, d)') => servingBar'[d] = None /\ ~doneBar'[d]
BY DEF servingBar, doneBar

\* A step that leaves the requests in service at a disk as they are.
LEMMA ServesSame ==
  ASSUME NEW d \in Disks, \A u \in Threads : InService(u, d)' <=> InService(u, d)
  PROVE  /\ servingBar'[d] = servingBar[d]
         /\ active'[d] = active[d] => doneBar'[d] = doneBar[d]
<1>1. (\E u \in Threads : InService(u, d)') <=> (\E u \in Threads : InService(u, d))
  OBVIOUS
<1>2. (CHOOSE u \in Threads : InService(u, d)') = (CHOOSE u \in Threads : InService(u, d))
  OBVIOUS
<1> QED BY <1>1, <1>2 DEF servingBar, doneBar

\* The service starts with nothing in service.
LEMMA InitService == Init => Service!ServiceInit
<1> SUFFICES ASSUME Init PROVE Service!ServiceInit
  OBVIOUS
<1>1. \A t \in Threads, d \in Disks : ~InService(t, d)
  BY DEF Init, InService
<1>2. servingBar = [d \in Disks |-> None] /\ doneBar = [d \in Disks |-> FALSE]
  BY <1>1 DEF servingBar, doneBar
<1>3. contents \in [Disks -> [Sectors -> Data]] /\ data \in [Threads -> Data]
  BY InitInvariant DEF IInv, TypeOK
<1> QED BY <1>2, <1>3 DEF Service!ServiceInit

\* A request to the device starts the service of its caller.
LEMMA StartStep ==
  ASSUME IInv, IInv', NEW t \in Threads, RequestAndWait(t)
  PROVE  Service!ServiceNext
<1> DEFINE r == req[t]
<1>0. PICK d \in Disks : d = r.disk
  BY Typed DEF IInv
<1>1. /\ TypeOK /\ LockHeld /\ CompletionsCounted /\ LockHeld'
      /\ r.sector \in Sectors
      /\ r.write \in Data \cup {None}
  BY DEF IInv, TypeOK, Requests
<1>2. /\ pc[t] = "request"
      /\ DiskRequest(t)
      /\ pc' = [pc EXCEPT ![t] = "wait"]
      /\ UNCHANGED req
  BY <1>1, RequestSleeps
<1>3. \A u \in Threads : ~InService(u, d)
  BY <1>0, <1>1, <1>2, OneHolder DEF InService
<1>4. InService(t, d)' /\ active'[d]
  BY <1>0, <1>1, <1>2, Typed DEF InService, DiskRequest
<1>5. servingBar[d] = None /\ ~doneBar[d]
  BY <1>1, <1>3, ServesNobody
<1>6. servingBar'[d] = t /\ ~doneBar'[d]
  BY <1>1, <1>4, ServesNext DEF doneBar
<1>7. ASSUME NEW e \in Disks, e # d
      PROVE  servingBar'[e] = servingBar[e] /\ doneBar'[e] = doneBar[e]
  <2>1. \A u \in Threads : InService(u, e)' <=> InService(u, e)
    BY <1>0, <1>1, <1>2, <1>7, Typed DEF InService
  <2>2. active'[e] = active[e]
    BY <1>0, <1>1, <1>2, <1>7, Typed DEF DiskRequest
  <2> QED BY <2>1, <2>2, ServesSame
<1>8. servingBar' = [servingBar EXCEPT ![d] = t]
  BY <1>1, <1>6, <1>7 DEF servingBar
<1>9. doneBar' = doneBar
  <2>1. \A e \in Disks : doneBar'[e] = doneBar[e]
    BY <1>5, <1>6, <1>7 DEF doneBar
  <2> QED BY <2>1 DEF doneBar
<1>10. CASE r.write = None
  <2>1. Service!StartRead(t, d, r.sector)
    BY <1>0, <1>2, <1>5, <1>8, <1>9, <1>10 DEF DiskRequest, Service!StartRead
  <2> QED BY <1>1, <2>1 DEF Service!ServiceNext
<1>11. CASE r.write # None
  <2>1. Service!StartWrite(t, d, r.sector, r.write)
    BY <1>0, <1>2, <1>5, <1>8, <1>9, <1>11 DEF DiskRequest, Service!StartWrite
  <2>2. r.write \in Data
    BY <1>1, <1>11
  <2> QED BY <1>1, <2>1, <2>2 DEF Service!ServiceNext
<1> QED BY <1>10, <1>11

\* The interrupt announces the end of the request in service.
LEMMA CompleteStep ==
  ASSUME IInv, NEW d \in Disks, HandleInterrupt(d)
  PROVE  Service!ServiceNext
<1>1. /\ TypeOK /\ LockHeld /\ CompletionsCounted
      /\ pending[d] \in Nat
      /\ count[DiskSem[d]] \in Nat
  BY Typed, DiskObjects DEF IInv
<1>2. /\ pending[d] > 0
      /\ active' = [active EXCEPT ![d] = FALSE]
      /\ UNCHANGED <<pc, req, data, contents>>
  BY DEF HandleInterrupt
<1>3. active[d] /\ \E t \in Threads : pc[t] = "wait" /\ req[t].disk = d
  <2>1. /\ count[DiskSem[d]] + pending[d] <= 1
        /\ active[d] <=> pending[d] = 1
        /\ count[DiskSem[d]] + pending[d] = 1 <=>
             \E t \in Threads : pc[t] = "wait" /\ req[t].disk = d
    BY <1>1 DEF CompletionsCounted
  <2>2. \A a, b \in Nat : b > 0 /\ a + b <= 1 => b = 1 /\ a + b = 1
    OBVIOUS
  <2> QED BY <1>1, <1>2, <2>1, <2>2
<1>4. PICK t \in Threads : InService(t, d)
  BY <1>3 DEF InService
<1>5. servingBar[d] # None /\ ~doneBar[d]
  BY <1>1, <1>3, <1>4, Serves, ThreadsAssumption DEF doneBar
<1>6. \A e \in Disks, u \in Threads : InService(u, e)' <=> InService(u, e)
  BY <1>2 DEF InService
<1>7. servingBar' = servingBar
  <2>1. \A e \in Disks : servingBar'[e] = servingBar[e]
    BY <1>6, ServesSame
  <2> QED BY <2>1 DEF servingBar
<1>8. doneBar' = [doneBar EXCEPT ![d] = TRUE]
  <2>1. doneBar'[d] = TRUE
    BY <1>1, <1>2, <1>4, <1>6, Typed DEF doneBar
  <2>2. \A e \in Disks : e # d => doneBar'[e] = doneBar[e]
    BY <1>1, <1>2, <1>6, ServesSame, Typed
  <2> QED BY <2>1, <2>2 DEF doneBar
<1>9. Service!Complete(d)
  BY <1>2, <1>5, <1>7, <1>8 DEF Service!Complete
<1> QED BY <1>9 DEF Service!ServiceNext

\* The release of the lock lets the caller leave, its request done.
LEMMA LeaveStep ==
  ASSUME IInv, NEW t \in Threads, ReleaseLock(t)
  PROVE  Service!ServiceNext
<1>0. PICK d \in Disks : d = req[t].disk
  BY Typed DEF IInv
<1>1. /\ TypeOK /\ LockHeld /\ CompletionsCounted
      /\ pc \in [Threads -> {"user", "acquire", "request", "wait", "release"}]
  BY Typed DEF IInv
<1>2. /\ pc[t] = "release"
      /\ pc' = [pc EXCEPT ![t] = "user"]
      /\ UNCHANGED <<req, active, data, contents>>
  BY DEF ReleaseLock, goto
<1>3. InService(t, d) /\ ~active[d]
  BY <1>0, <1>2, <1>1 DEF InService, CompletionsCounted
<1>4. servingBar[d] = t /\ doneBar[d]
  BY <1>1, <1>3, Serves DEF doneBar
<1>5. \A u \in Threads : ~InService(u, d)'
  BY <1>0, <1>1, <1>2, OneHolder DEF InService
<1>6. servingBar'[d] = None /\ ~doneBar'[d]
  BY <1>1, <1>5, ServesNobody
<1>7. ASSUME NEW e \in Disks, e # d
      PROVE  servingBar'[e] = servingBar[e] /\ doneBar'[e] = doneBar[e]
  <2>1. \A u \in Threads : InService(u, e)' <=> InService(u, e)
    BY <1>0, <1>1, <1>2, <1>7 DEF InService
  <2> QED BY <1>2, <2>1, ServesSame
<1>8. servingBar' = [servingBar EXCEPT ![d] = None]
  BY <1>1, <1>6, <1>7 DEF servingBar
<1>9. doneBar' = [doneBar EXCEPT ![d] = FALSE]
  BY <1>1, <1>6, <1>7 DEF doneBar
<1>10. Service!Leave(t, d)
  BY <1>2, <1>4, <1>8, <1>9 DEF Service!Leave
<1> QED BY <1>1, <1>10 DEF Service!ServiceNext

\* Every other step is invisible to the callers of the service.
LEMMA SilentStep ==
  ASSUME IInv,
         \/ \E t \in Threads : Call(t) \/ AcquireLock(t) \/ Wait(t) \/ YieldCPU(t)
         \/ IdleDispatch \/ IdleHalt \/ Stopped \/ UNCHANGED vars
  PROVE  UNCHANGED <<servingBar, doneBar, contents, data>>
<1> USE Typed DEF IInv
<1>1. SUFFICES ASSUME UNCHANGED <<active, contents, data>>,
                      \A d \in Disks, u \in Threads : InService(u, d)' <=> InService(u, d)
               PROVE  UNCHANGED <<servingBar, doneBar, contents, data>>
  <2>1. ASSUME NEW t \in Threads, Call(t)
        PROVE  /\ UNCHANGED <<active, contents, data>>
               /\ \A d \in Disks, u \in Threads : InService(u, d)' <=> InService(u, d)
    <3>1. /\ pc[t] = "user" /\ pc'[t] = "acquire"
          /\ \A u \in Threads : u # t => pc'[u] = pc[u] /\ req'[u] = req[u]
      BY <2>1 DEF Call, goto
    <3> QED BY <2>1, <3>1 DEF Call, InService
  <2>2. ASSUME NEW t \in Threads, AcquireLock(t)
        PROVE  /\ UNCHANGED <<active, contents, data>>
               /\ \A d \in Disks, u \in Threads : InService(u, d)' <=> InService(u, d)
    BY <2>2 DEF AcquireLock, InService, goto
  <2>3. ASSUME NEW t \in Threads, Wait(t)
        PROVE  /\ UNCHANGED <<active, contents, data>>
               /\ \A d \in Disks, u \in Threads : InService(u, d)' <=> InService(u, d)
    BY <2>3 DEF Wait, InService, goto
  <2>4. ASSUME \/ \E t \in Threads : YieldCPU(t)
               \/ IdleDispatch \/ IdleHalt \/ Stopped \/ UNCHANGED vars
        PROVE  /\ UNCHANGED <<active, contents, data>>
               /\ \A d \in Disks, u \in Threads : InService(u, d)' <=> InService(u, d)
    BY <2>4, QuietStep DEF InService, diskVars
  <2> QED BY <2>1, <2>2, <2>3, <2>4
<1>2. \A d \in Disks : servingBar'[d] = servingBar[d] /\ doneBar'[d] = doneBar[d]
  BY <1>1, ServesSame
<1>3. servingBar' = servingBar
  BY <1>2 DEF servingBar
<1>4. doneBar' = doneBar
  BY <1>2 DEF doneBar
<1> QED BY <1>1, <1>3, <1>4

\* Seen from its callers each driver is a disk that serves one request at a
\* time and answers every caller after the end of that caller's own request:
\* the driver implements DiskService, for any number of threads and disks.
THEOREM ServiceCorrect == Spec => ImplementsService
<1>1. IInv /\ IInv' /\ [Next]_vars => [Service!ServiceNext]_(Service!serviceVars)
  <2> SUFFICES ASSUME IInv, IInv', [Next]_vars
               PROVE  Service!ServiceNext \/ UNCHANGED <<servingBar, doneBar, contents, data>>
    BY DEF Service!serviceVars
  <2> QED BY StartStep, CompleteStep, LeaveStep, SilentStep DEF Next, ThreadStep
<1> QED BY <1>1, InitService, Invariant, PTL
        DEF Spec, ImplementsService, Service!ServiceSpec

=============================================================================
