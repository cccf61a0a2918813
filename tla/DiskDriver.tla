---------------------------- MODULE DiskDriver -----------------------------
(***************************************************************************)
(* The synchronous disk drivers (drivers/drvDisk.cc) over the simulated    *)
(* disks (machine/disk.cc), composed with the scheduler and the            *)
(* synchronization tools of module Synch.  There is one driver for the     *)
(* file system's disk and one for the swap disk; each has its own lock and *)
(* its own semaphore, and threads call ReadSector and WriteSector.         *)
(*                                                                         *)
(* No tick of the simulated clock falls between the device request and     *)
(* the first test in P, so both are one step; the completion interrupt     *)
(* comes when the caller sleeps, or while another thread runs.             *)
(***************************************************************************)
EXTENDS Synch

CONSTANTS
  Disks,        \* the Disk objects
  DiskLock,     \* DriverDisk::lock of each disk
  DiskSem,      \* DriverDisk::semaphore of each disk
  Uses,         \* possible distributions: the disks each thread uses
  Sectors,      \* sector numbers
  Data          \* sector contents

ASSUME DiskAssumption ==
  /\ DiskLock \in [Disks -> Locks]
  /\ DiskSem \in [Disks -> Semaphores]
  /\ \A d, e \in Disks : d # e => DiskLock[d] # DiskLock[e] /\ DiskSem[d] # DiskSem[e]
  /\ \A d \in Disks : InitialCount[DiskSem[d]] = 0
  /\ Uses \subseteq [Threads -> SUBSET Disks]
  /\ None \notin Data

VARIABLES
  DisksOf,   \* the disks each thread uses, the same throughout
  pc,        \* where a thread is in ReadSector or WriteSector
  req,       \* the request a thread makes: its disk, sector and data
  data,      \* the buffer of each thread
  active,    \* Disk::active
  contents,  \* the UNIX files that simulate the disks
  pending    \* per disk, the DISK_INT interrupts scheduled

diskVars == <<DisksOf, pc, req, data, active, contents, pending>>
vars == <<synchVars, diskVars>>

\* A request reads a sector (write is None) or writes the data given.
Requests == [disk : Disks, sector : Sectors, write : Data \cup {None}]

TypeOK ==
  /\ SynchTypeOK
  /\ DisksOf \in Uses
  /\ pc \in [Threads -> {"user", "acquire", "request", "wait", "release"}]
  /\ req \in [Threads -> Requests]
  /\ data \in [Threads -> Data]
  /\ active \in [Disks -> BOOLEAN]
  /\ contents \in [Disks -> [Sectors -> Data]]
  /\ pending \in [Disks -> Nat]

Init ==
  /\ SynchInit
  /\ DisksOf \in Uses
  /\ pc = [t \in Threads |-> "user"]
  /\ \E r \in Requests : req = [t \in Threads |-> r]
  /\ \E v \in Data :
       /\ data = [t \in Threads |-> v]
       /\ contents = [d \in Disks |-> [sector \in Sectors |-> v]]
  /\ active = [d \in Disks |-> FALSE]
  /\ pending = [d \in Disks |-> 0]

goto(t, label) == pc' = [pc EXCEPT ![t] = label]

---------------------------------------------------------------------------
(* Threads in DriverDisk::ReadSector and DriverDisk::WriteSector *)

\* A thread calls ReadSector or WriteSector.
Call(t) ==
  /\ AtCall(t)
  /\ pc[t] = "user"
  /\ \E r \in Requests :
       /\ r.disk \in DisksOf[t]
       /\ req' = [req EXCEPT ![t] = r]
  /\ goto(t, "acquire")
  /\ UNCHANGED <<DisksOf, synchVars, data, active, contents, pending>>

\* lock->Acquire().
AcquireLock(t) ==
  LET l == DiskLock[req[t].disk] IN
  /\ pc[t] = "acquire"
  /\ Acquire(t, l)
  /\ IF is_free[l] THEN goto(t, "request") ELSE UNCHANGED pc
  /\ UNCHANGED <<DisksOf, req, data, active, contents, pending>>

\* Disk::ReadRequest and Disk::WriteRequest past their ASSERTs: the UNIX
\* file is accessed at once, the end of the request comes as an interrupt.
DiskRequest(t) ==
  LET r == req[t] IN
  /\ IF r.write = None
     THEN /\ data' = [data EXCEPT ![t] = contents[r.disk][r.sector]]
          /\ UNCHANGED contents
     ELSE /\ contents' = [contents EXCEPT ![r.disk][r.sector] = r.write]
          /\ data' = [data EXCEPT ![t] = r.write]
  /\ active' = [active EXCEPT ![r.disk] = TRUE]
  /\ pending' = [pending EXCEPT ![r.disk] = @ + 1]

\* Fault: the driver does not wait for the interrupt.
RequestWithoutWait(t) ==
  /\ pc[t] = "request"
  /\ AtCall(t)
  /\ ~active[req[t].disk]
  /\ DiskRequest(t)
  /\ goto(t, "release")
  /\ UNCHANGED <<DisksOf, req, synchVars>>

\* disk->ReadRequest() or disk->WriteRequest(), whose ASSERT(!active) stops
\* the simulator when it fails, then semaphore->P().
RequestAndWait(t) ==
  LET s == DiskSem[req[t].disk] IN
  /\ pc[t] = "request"
  /\ AtCall(t)
  /\ IF active[req[t].disk]
     THEN /\ machine' = "assert"
          /\ UNCHANGED <<schedVars, waitOn, objectVars, diskVars>>
     ELSE /\ DiskRequest(t)
          /\ P(t, s)
          /\ goto(t, IF count[s] = 0 THEN "wait" ELSE "release")
          /\ UNCHANGED <<DisksOf, req>>

\* semaphore->P() goes on after its Sleep.
Wait(t) ==
  LET s == DiskSem[req[t].disk] IN
  /\ pc[t] = "wait"
  /\ P(t, s)
  /\ IF count[s] = 0 THEN UNCHANGED pc ELSE goto(t, "release")
  /\ UNCHANGED <<DisksOf, req, data, active, contents, pending>>

\* lock->Release(), the end of ReadSector and WriteSector.
ReleaseLock(t) ==
  /\ pc[t] = "release"
  /\ Release(t, DiskLock[req[t].disk])
  /\ goto(t, "user")
  /\ UNCHANGED <<DisksOf, req, data, active, contents, pending>>

\* A user thread gives up the processor.
YieldCPU(t) ==
  /\ pc[t] = "user"
  /\ Yield(t)
  /\ UNCHANGED diskVars

---------------------------------------------------------------------------
(* The device and the idle loop *)

\* DriverDisk::RequestDone, the driver's part of the handler.
RequestDone(d) == V(DiskSem[d])

\* Fault: the handler does not clear active.
HandleInterruptKeepsActive(d) ==
  /\ InterruptsTaken
  /\ pending[d] > 0
  /\ pending' = [pending EXCEPT ![d] = @ - 1]
  /\ RequestDone(d)
  /\ UNCHANGED <<DisksOf, pc, req, data, active, contents>>

\* Fault: the interrupt stays on the list of pending interrupts.
HandleInterruptRepeats(d) ==
  /\ InterruptsTaken
  /\ pending[d] > 0
  /\ active' = [active EXCEPT ![d] = FALSE]
  /\ RequestDone(d)
  /\ UNCHANGED <<DisksOf, pc, req, data, contents, pending>>

\* Fault: the handler does not call RequestDone.
HandleInterruptNotSignalled(d) ==
  /\ InterruptsTaken
  /\ pending[d] > 0
  /\ pending' = [pending EXCEPT ![d] = @ - 1]
  /\ active' = [active EXCEPT ![d] = FALSE]
  /\ UNCHANGED <<DisksOf, synchVars, pc, req, data, contents>>

\* Disk::HandleInterrupt, which calls DriverDisk::RequestDone.
HandleInterrupt(d) ==
  /\ InterruptsTaken
  /\ pending[d] > 0
  /\ pending' = [pending EXCEPT ![d] = @ - 1]
  /\ active' = [active EXCEPT ![d] = FALSE]
  /\ RequestDone(d)
  /\ UNCHANGED <<DisksOf, pc, req, data, contents>>

IdleDispatch ==
  /\ Dispatch
  /\ UNCHANGED diskVars

\* Cleanup deletes both drivers, with their lock and their semaphore.
IdleHalt ==
  /\ Halt({DiskLock[d] : d \in Disks} \cup {DiskSem[d] : d \in Disks})
  /\ \A d \in Disks : pending[d] = 0
  /\ UNCHANGED diskVars

Stopped ==
  /\ machine # "on"
  /\ UNCHANGED vars

ThreadStep(t) ==
  \/ Call(t)
  \/ AcquireLock(t)
  \/ RequestAndWait(t)
  \/ Wait(t)
  \/ ReleaseLock(t)
  \/ YieldCPU(t)

Next ==
  \/ \E t \in Threads : ThreadStep(t)
  \/ \E d \in Disks : HandleInterrupt(d)
  \/ IdleDispatch
  \/ IdleHalt
  \/ Stopped

Spec == Init /\ [][Next]_vars

\* A running thread keeps executing.  Every return to the enabled level is a
\* tick of the simulated clock and an interrupt is delivered at the first tick
\* past its time, so one that can be delivered again and again is delivered
\* (strong fairness).  User threads are assumed to call the driver or to yield
\* now and then, there being no timer to preempt them.
Fairness ==
  /\ \A t \in Threads : WF_vars(ThreadStep(t))
  /\ \A d \in Disks : SF_vars(HandleInterrupt(d))
  /\ WF_vars(IdleDispatch)

FairSpec == Spec /\ Fairness

---------------------------------------------------------------------------

\* Thread t has a request in the device or done by it.
InService(t, d) == pc[t] \in {"wait", "release"} /\ req[t].disk = d

\* A disk gets one request at a time: the ASSERT(!active) of Disk::ReadRequest
\* and Disk::WriteRequest never fails, whatever the threads do while the
\* owner of the driver's lock sleeps.
OneRequestAtATime ==
  \A t \in Threads : pc[t] = "request" => ~active[req[t].disk]

\* A thread gets past semaphore->P() only when its own request has ended:
\* the semaphore carries exactly the completions not yet consumed, no stale
\* unit of an earlier request lets a later one through.
CompletionsCounted ==
  \A d \in Disks :
    /\ count[DiskSem[d]] + pending[d] <= 1
    /\ active[d] <=> pending[d] = 1
    /\ count[DiskSem[d]] + pending[d] = 1 <=>
         \E t \in Threads : pc[t] = "wait" /\ req[t].disk = d
    /\ \A t \in Threads :
         pc[t] = "release" /\ req[t].disk = d => ~active[d]

\* The state of the abstract disk service: the thread a disk serves, and whether
\* the device has announced the end of its request.
servingBar ==
  [d \in Disks |-> IF \E t \in Threads : InService(t, d)
                  THEN CHOOSE t \in Threads : InService(t, d)
                  ELSE None]
doneBar ==
  [d \in Disks |-> ~active[d] /\ \E t \in Threads : InService(t, d)]

Service == INSTANCE DiskService WITH
  serving <- servingBar, done <- doneBar, mem <- contents, buffer <- data

\* Seen from its callers each driver is a disk that serves one request at a
\* time and answers every caller after the end of that caller's request.
ImplementsService == Service!ServiceSpec

\* Every ReadSector and WriteSector of a thread that has a disk to itself returns
\* ("Return only after the data has been read", drivers/drvDisk.cc:84-85),
\* whatever the users of another disk do and even when they block for ever: the
\* interrupt comes, signals the right driver, and the machine does not halt
\* before.  Threads that share a disk can lose the lock (Synch, lock hand-off).
Alone(t) == \A u \in Threads \ {t} : DisksOf[t] \cap DisksOf[u] = {}
RequestsReturn ==
  \A t \in Threads : Alone(t) => (pc[t] # "user" ~> pc[t] = "user")

=============================================================================
