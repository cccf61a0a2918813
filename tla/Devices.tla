------------------------------- MODULE Devices -------------------------------
(***************************************************************************)
(* Simulated time and the devices that interrupt: machine/interrupt.cc     *)
(* with its list of pending interrupts, the timing of machine/disk.cc, the *)
(* timer and the serial line (ACIA), under one thread that computes in     *)
(* user and in system mode, waits for the disk and finishes.               *)
(*                                                                         *)
(* A tick and the idle loop take one step per interrupt they deliver, so   *)
(* that characters can arrive in between.  A handler runs with interrupts  *)
(* off and is one step; the machine is in SYSTEM_MODE inside it and back   *)
(* in its old mode after it.                                               *)
(***************************************************************************)
EXTENDS List, FiniteSets

CONSTANTS
  SeekTime, RotationTime,   \* SEEK_TIME, ROTATION_TIME in cycles
  SectorsPerTrack, NumTracks,
  TimerTime, CheckTime, SendTime,
  Machines,                 \* the machines looked at
  Accesses,                 \* cycles the memory accesses of an instruction may take
  MaxTicks,                 \* bound: simulated time
  MaxChars                  \* bound: characters on each direction of the line

Sectors == 0..(SectorsPerTrack * NumTracks - 1)

ASSUME DevicesAssumption ==
  /\ {SeekTime, RotationTime, SectorsPerTrack, NumTracks} \subseteq Nat \ {0}
  /\ {TimerTime, CheckTime, SendTime} \subseteq Nat \ {0}
  /\ Machines \subseteq [timer : {"none", "fixed", "random"}, acia : BOOLEAN, sectors : SUBSET Sectors]
  /\ Accesses \subseteq Nat /\ {MaxTicks, MaxChars} \subseteq Nat

VARIABLES
  totalTicks, pending, level, status, yieldOnReturn,
  old,       \* mode the outermost OneTick will restore
  at,        \* "run", in OneTick ("tick"), in Idle ("idle", "idling"), "halted", "exited"
  thread,    \* "running", "waiting" for the disk, "ready", "gone"
  disk,      \* active, lastSector, bufferInit
  request,   \* the last request: when, of what, the track before and when the head got there
  acia,      \* registers and working mode
  line,      \* characters that have arrived at the socket, not yet read from it
  arrived, put,        \* characters arrived and put so far; they are numbered
  got, sent,           \* characters the program got, and the socket sent
  machine    \* its timer, whether it has a serial line, the sectors in use

clock == <<totalTicks, pending>>
cpu == <<level, status, yieldOnReturn, old, at, thread>>
diskVars == <<disk, request>>
lineVars == <<acia, line, arrived, put, got, sent>>
vars == <<clock, cpu, diskVars, lineVars, machine>>

USER_TICK == 1
SYSTEM_TICK == 1
ACIA == [inputRegister |-> 0, inputStateRegister |-> "EMPTY",
         outputRegister |-> 0, outputStateRegister |-> "EMPTY", mode |-> {}]

-----------------------------------------------------------------------------
(* The list of pending interrupts. *)

\* The list with an interrupt fromNow cycles after now; fromNow is positive.
Schedule(list, now, fromNow, type) == SortedInsert(list, type, now + fromNow)

\* What CheckIfDue takes off the list.
toOccur == SortedRemove(pending)
Others == Left(pending)

\* fault: the timer is enough to stop, whatever else is pending.
NothingMoreToDoEarly == status = "IDLE_MODE" /\ toOccur.item = "TIMER_INT"

\* Only the time-slice timer is left and nobody runs.
NothingMoreToDo == status = "IDLE_MODE" /\ toOccur.item = "TIMER_INT" /\ IsEmpty(Others)

\* fault: an interrupt is late by one cycle.
NotFiredLate(advanceClock) ==
  ~IsEmpty(pending) =>
    (~advanceClock /\ toOccur.key >= totalTicks) \/ NothingMoreToDo

\* The machine is in no handler and CheckIfDue fires none.
NotFired(advanceClock) ==
  ~IsEmpty(pending) =>
    (~advanceClock /\ toOccur.key > totalTicks) \/ NothingMoreToDo

\* fault: the interrupt taken off the list is not put back.
PutBackNot == IF IsEmpty(pending) THEN pending ELSE Others

\* An interrupt whose time has not come goes back behind its equals.
PutBack == IF IsEmpty(pending) THEN pending
           ELSE SortedInsert(Others, toOccur.item, toOccur.key)

-----------------------------------------------------------------------------
(* The time a disk request takes. *)

Abs(n) == IF n < 0 THEN -n ELSE n

TimeToSeek(newSector) ==
  SeekTime * Abs((newSector \div SectorsPerTrack) - (disk.lastSector \div SectorsPerTrack))

\* From the end of the seek to the next sector boundary.
Rotation(newSector) ==
  LET over == (totalTicks + TimeToSeek(newSector)) % RotationTime
  IN  IF over > 0 THEN RotationTime - over ELSE 0

ModuloDiff(to, from) ==
  ((to % SectorsPerTrack) - (from % SectorsPerTrack) + SectorsPerTrack) % SectorsPerTrack

TimeAfter(newSector) == totalTicks + TimeToSeek(newSector) + Rotation(newSector)

\* The track buffer holds the sector: it has passed under the head since then.
Buffered(newSector) ==
  (TimeAfter(newSector) - disk.bufferInit) \div RotationTime
    > ModuloDiff(newSector, disk.bufferInit \div RotationTime)

ComputeLatency(newSector, writing) ==
  IF ~writing /\ TimeToSeek(newSector) = 0 /\ Buffered(newSector)
  THEN RotationTime
  ELSE TimeToSeek(newSector) + Rotation(newSector)
       + ModuloDiff(newSector, TimeAfter(newSector) \div RotationTime) * RotationTime
       + RotationTime

\* fault: a seek does not discard the track buffer.
UpdateLastKeep(newSector) == [disk EXCEPT !.active = TRUE, !.lastSector = newSector]

UpdateLast(newSector) ==
  [active |-> TRUE, lastSector |-> newSector,
   bufferInit |-> IF TimeToSeek(newSector) # 0 THEN TimeAfter(newSector) ELSE disk.bufferInit]

\* The track of a sector; when the head is on the track of a request r.
Track(sector) == sector \div SectorsPerTrack
SeekEnd(r) == IF Track(r.sector) = r.from THEN r.since
              ELSE r.issued + SeekTime * Abs(Track(r.sector) - r.from)

-----------------------------------------------------------------------------
(* The handlers: p is the list of the interrupts still pending, next where *)
(* the processor continues.                                                *)

\* Disk::HandleInterrupt and the driver's RequestDone, which wakes the thread.
HandleInterrupt(p, next) ==
  /\ pending' = p
  /\ disk' = [disk EXCEPT !.active = FALSE]
  /\ thread' = IF thread = "waiting" THEN "ready" ELSE thread
  /\ at' = next
  /\ UNCHANGED <<yieldOnReturn, lineVars>>

TimeOfNextInterrupt(kind) == IF kind = "random" THEN 1..(2 * TimerTime) ELSE {TimerTime}

\* A handler asks for a context switch at the end of the tick.
YieldOnReturn == yieldOnReturn' = TRUE

\* The timer starts again before its handler asks for a context switch.
TimerExpired(p, next) ==
  /\ \E fromNow \in TimeOfNextInterrupt(machine.timer) :
       pending' = Schedule(p, totalTicks', fromNow, "TIMER_INT")
  /\ YieldOnReturn
  /\ at' = next
  /\ UNCHANGED <<disk, thread, lineVars>>

\* The driver's handlers are placeholders that exit.
DriverCalled(interrupt, next) == IF interrupt \in acia.mode THEN "exited" ELSE next

\* Poll the socket; a character is read even if the last one was not taken.
InterruptRec(p, next) ==
  /\ pending' = Schedule(p, totalTicks', CheckTime, "ACIA_RECEIVE_INT")
  /\ IF line = <<>>
     THEN UNCHANGED <<acia, line>> /\ at' = next
     ELSE /\ acia' = [acia EXCEPT !.inputRegister = Head(line), !.inputStateRegister = "FULL"]
          /\ line' = Tail(line)
          /\ at' = DriverCalled("REC_INTERRUPT", next)
  /\ UNCHANGED <<yieldOnReturn, disk, thread, arrived, put, got, sent>>

\* fault: the output register is drained before it is sent.
InterruptEmDrained(p, next) ==
  /\ pending' = p
  /\ sent' = Append(sent, 0)
  /\ acia' = [acia EXCEPT !.outputRegister = 0, !.outputStateRegister = "EMPTY"]
  /\ at' = DriverCalled("SEND_INTERRUPT", next)
  /\ UNCHANGED <<yieldOnReturn, disk, thread, line, arrived, put, got>>

InterruptEm(p, next) ==
  /\ pending' = p
  /\ sent' = Append(sent, acia.outputRegister)
  /\ acia' = [acia EXCEPT !.outputRegister = 0, !.outputStateRegister = "EMPTY"]
  /\ at' = DriverCalled("SEND_INTERRUPT", next)
  /\ UNCHANGED <<yieldOnReturn, disk, thread, line, arrived, put, got>>

Handler(p, next) ==
  \/ toOccur.item = "DISK_INT" /\ HandleInterrupt(p, next)
  \/ toOccur.item = "TIMER_INT" /\ TimerExpired(p, next)
  \/ toOccur.item = "ACIA_RECEIVE_INT" /\ InterruptRec(p, next)
  \/ toOccur.item = "ACIA_SEND_INT" /\ InterruptEm(p, next)

\* A CheckIfDue that fires: the clock may jump to the interrupt.
CheckIfDue(advanceClock, next) ==
  /\ ~NotFired(advanceClock)
  /\ totalTicks' = IF toOccur.key > totalTicks THEN toOccur.key ELSE totalTicks
  /\ totalTicks' <= MaxTicks
  /\ Handler(Others, next)
  /\ UNCHANGED <<level, old, request, machine>>

-----------------------------------------------------------------------------
(* Time passes. *)

\* Enter OneTick in a mode, after some cycles of memory accesses.
OneTick(mode, nbcycles) ==
  /\ level = "ON" /\ totalTicks + nbcycles <= MaxTicks
  /\ totalTicks' = totalTicks + nbcycles
  /\ status' = mode /\ old' = mode
  /\ level' = "OFF"
  /\ at' = "tick"

\* The loop of OneTick.
Fire == at = "tick" /\ CheckIfDue(FALSE, "tick") /\ UNCHANGED status

Return ==
  /\ at = "tick" /\ NotFired(FALSE) /\ ~yieldOnReturn
  /\ pending' = PutBack
  /\ level' = "ON" /\ status' = old /\ at' = "run"
  /\ UNCHANGED <<totalTicks, yieldOnReturn, old, thread, diskVars, lineVars, machine>>

\* Yield turns the interrupts off and, alone on the ready list, on again.
YieldNow ==
  /\ at = "tick" /\ NotFired(FALSE) /\ yieldOnReturn
  /\ totalTicks + SYSTEM_TICK <= MaxTicks
  /\ pending' = PutBack
  /\ yieldOnReturn' = FALSE /\ status' = "SYSTEM_MODE"
  /\ totalTicks' = totalTicks + SYSTEM_TICK
  /\ UNCHANGED <<level, old, at, thread, diskVars, lineVars, machine>>

-----------------------------------------------------------------------------
(* Interrupt::Idle, called by Sleep until a thread is ready. *)

IdleFirst ==
  /\ at = "idle"
  /\ CheckIfDue(TRUE, "idling")
  /\ UNCHANGED status

\* Other interrupts that are due.
IdleMore ==
  /\ at = "idling"
  /\ CheckIfDue(FALSE, "idling")
  /\ UNCHANGED status

IdleReturn ==
  /\ at = "idling" /\ NotFired(FALSE)
  /\ pending' = PutBack
  /\ yieldOnReturn' = FALSE
  /\ IF thread = "ready"
     THEN at' = "run" /\ thread' = "running" /\ status' = "SYSTEM_MODE"
     ELSE at' = "idle" /\ status' = "IDLE_MODE" /\ UNCHANGED thread
  /\ UNCHANGED <<totalTicks, level, old, diskVars, lineVars, machine>>

\* No interrupt, or only the timer's, for which the clock has jumped.
Halt ==
  /\ at = "idle" /\ NotFired(TRUE)
  /\ totalTicks' = IF ~IsEmpty(pending) /\ toOccur.key > totalTicks THEN toOccur.key ELSE totalTicks
  /\ pending' = PutBack
  /\ at' = "halted"
  /\ UNCHANGED <<level, status, yieldOnReturn, old, thread, diskVars, lineVars, machine>>

Sleep(state) ==
  /\ at = "run" /\ level = "OFF"
  /\ thread' = state /\ status' = "IDLE_MODE" /\ at' = "idle"
  /\ UNCHANGED <<clock, level, yieldOnReturn, old, diskVars, lineVars, machine>>

\* The thread takes the semaphore of the disk driver, or ends.
WaitDisk == disk.active /\ Sleep("waiting")
Finish == Sleep("gone")

-----------------------------------------------------------------------------
(* The thread. *)

InKernel == at = "run" /\ status = "SYSTEM_MODE"

SetStatusOff ==
  /\ InKernel /\ level = "ON"
  /\ level' = "OFF"
  /\ UNCHANGED <<clock, status, yieldOnReturn, old, at, thread, diskVars, lineVars, machine>>

\* Turning the interrupts on costs a tick.
SetStatusOn ==
  /\ InKernel /\ level = "OFF" /\ totalTicks + SYSTEM_TICK <= MaxTicks
  /\ totalTicks' = totalTicks + SYSTEM_TICK
  /\ old' = status /\ at' = "tick"
  /\ UNCHANGED <<pending, level, status, yieldOnReturn, thread, diskVars, lineVars, machine>>

\* An instruction of the program: its memory accesses, then its tick.
UserInstruction ==
  /\ at = "run" /\ status = "USER_MODE"
  /\ \E cycles \in Accesses : OneTick("USER_MODE", cycles + USER_TICK)
  /\ UNCHANGED <<pending, yieldOnReturn, thread, diskVars, lineVars, machine>>

\* RaiseException, up to the call of the handler.
SyscallEnter ==
  /\ at = "run" /\ status = "USER_MODE"
  /\ status' = "SYSTEM_MODE"
  /\ UNCHANGED <<clock, level, yieldOnReturn, old, at, thread, diskVars, lineVars, machine>>

\* The end of RaiseException, and the tick of the instruction that trapped.
SyscallReturn ==
  /\ InKernel
  /\ OneTick("USER_MODE", USER_TICK)
  /\ UNCHANGED <<pending, yieldOnReturn, thread, diskVars, lineVars, machine>>

\* ReadRequest and WriteRequest; the driver makes one request at a time.
Request(sector, writing) ==
  /\ InKernel /\ ~disk.active
  /\ LET ticks == ComputeLatency(sector, writing)
     IN  pending' = Schedule(pending, totalTicks, ticks, "DISK_INT")
  /\ disk' = UpdateLast(sector)
  /\ request' = [issued |-> totalTicks, sector |-> sector, writing |-> writing,
                 from |-> Track(request.sector), since |-> SeekEnd(request)]
  /\ UNCHANGED <<totalTicks, cpu, lineVars, machine>>

ReadRequest == \E sector \in machine.sectors : Request(sector, FALSE)
WriteRequest == \E sector \in machine.sectors : Request(sector, TRUE)

-----------------------------------------------------------------------------
(* The serial line. *)

SetWorkingMode ==
  /\ InKernel /\ machine.acia
  /\ \E mod \in SUBSET {"REC_INTERRUPT", "SEND_INTERRUPT"} :
       mod # acia.mode /\ acia' = [acia EXCEPT !.mode = mod]
  /\ UNCHANGED <<clock, cpu, diskVars, line, arrived, put, got, sent, machine>>

\* GetInputStateReg and GetOutputStateReg let time pass.
GetStateReg ==
  /\ InKernel /\ machine.acia
  /\ OneTick("SYSTEM_MODE", SYSTEM_TICK)
  /\ UNCHANGED <<pending, yieldOnReturn, thread, diskVars, lineVars, machine>>

\* fault: the register keeps its character.
DrainNot == acia

Drain == [acia EXCEPT !.inputRegister = 0, !.inputStateRegister = "EMPTY"]

\* The caller is sure that there is a character.
GetChar ==
  /\ InKernel /\ acia.inputStateRegister = "FULL"
  /\ got' = Append(got, acia.inputRegister)
  /\ acia' = Drain
  /\ UNCHANGED <<clock, cpu, diskVars, line, arrived, put, sent, machine>>

SendChar(reg) ==
  /\ acia' = [reg EXCEPT !.outputStateRegister = "FULL"]
  /\ pending' = Schedule(pending, totalTicks, SendTime, "ACIA_SEND_INT")

\* The caller is sure that the register is empty.
PutChar ==
  /\ InKernel /\ machine.acia /\ acia.outputStateRegister = "EMPTY" /\ put < MaxChars
  /\ put' = put + 1
  /\ SendChar([acia EXCEPT !.outputRegister = put'])
  /\ UNCHANGED <<totalTicks, cpu, diskVars, line, arrived, got, sent, machine>>

\* A character comes to the socket.
Arrive ==
  /\ machine.acia /\ arrived < MaxChars /\ at \notin {"halted", "exited"}
  /\ arrived' = arrived + 1
  /\ line' = Append(line, arrived')
  /\ UNCHANGED <<clock, cpu, diskVars, acia, put, got, sent, machine>>

-----------------------------------------------------------------------------
\* The machine with or without a serial line, and with a timer or none.
ACIA_sysdep == IF machine.acia THEN Schedule(<<>>, 0, CheckTime, "ACIA_RECEIVE_INT") ELSE <<>>

Timer ==
  \/ machine.timer = "none" /\ pending = ACIA_sysdep
  \/ /\ machine.timer # "none"
     /\ \E fromNow \in TimeOfNextInterrupt(machine.timer) :
          pending = Schedule(ACIA_sysdep, 0, fromNow, "TIMER_INT")

Init ==
  /\ totalTicks = 0
  /\ level = "OFF" /\ status = "SYSTEM_MODE" /\ old = "SYSTEM_MODE"
  /\ yieldOnReturn = FALSE
  /\ at = "run" /\ thread = "running"
  /\ disk = [active |-> FALSE, lastSector |-> 0, bufferInit |-> 0]
  /\ request = [issued |-> 0, sector |-> 0, writing |-> FALSE, from |-> 0, since |-> 0]
  /\ line = <<>> /\ arrived = 0 /\ put = 0 /\ got = <<>> /\ sent = <<>>
  /\ acia = ACIA
  /\ machine \in Machines
  /\ Timer

Next ==
  \/ Fire \/ Return \/ YieldNow
  \/ IdleFirst \/ IdleMore \/ IdleReturn \/ Halt \/ WaitDisk \/ Finish
  \/ SetStatusOff \/ SetStatusOn \/ UserInstruction \/ SyscallEnter \/ SyscallReturn
  \/ ReadRequest \/ WriteRequest
  \/ SetWorkingMode \/ GetStateReg \/ GetChar \/ PutChar \/ Arrive

Spec == Init /\ [][Next]_vars

-----------------------------------------------------------------------------
(* Properties. *)

Types == {"DISK_INT", "TIMER_INT", "ACIA_RECEIVE_INT", "ACIA_SEND_INT"}
Characters == 1..MaxChars

\* The variables stay in their types; only characters go over the line, and
\* a register is FULL exactly when it holds one (ACIA.cc, ACIA_sysdep.cc).
TypeOK ==
  /\ totalTicks \in 0..(MaxTicks + 2 * TimerTime)
  /\ \A i \in DOMAIN pending : pending[i].key \in Nat /\ pending[i].item \in Types
  /\ level \in {"ON", "OFF"} /\ yieldOnReturn \in BOOLEAN
  /\ {status, old} \subseteq {"SYSTEM_MODE", "USER_MODE", "IDLE_MODE"}
  /\ at \in {"run", "tick", "idle", "idling", "halted", "exited"}
  /\ thread \in {"running", "waiting", "ready", "gone"}
  /\ disk.active \in BOOLEAN /\ disk.lastSector \in Sectors /\ disk.bufferInit \in Nat
  /\ machine \in Machines /\ machine.sectors \subseteq Sectors
  /\ {got[i] : i \in DOMAIN got} \cup {sent[i] : i \in DOMAIN sent} \subseteq Characters
  /\ (acia.inputStateRegister = "FULL") <=> acia.inputRegister \in Characters
  /\ (acia.outputStateRegister = "FULL") <=> acia.outputRegister \in Characters

Count(type) == Cardinality({i \in DOMAIN pending : pending[i].item = type})

\* The list of pending interrupts stays sorted and agrees with the devices: the
\* end of the request of an active disk, of the character in a full output
\* register, the next poll of the line and the next time slice are each in it
\* once, however often interrupts are taken off the list and put back
\* (interrupt.cc, CheckIfDue).
InterruptsPending ==
  /\ \A i \in 1..(Len(pending) - 1) : pending[i].key <= pending[i + 1].key
  /\ Count("DISK_INT") = IF disk.active THEN 1 ELSE 0
  /\ Count("ACIA_SEND_INT") = IF acia.outputStateRegister = "FULL" THEN 1 ELSE 0
  /\ Count("ACIA_RECEIVE_INT") = IF machine.acia THEN 1 ELSE 0
  /\ Count("TIMER_INT") = IF machine.timer = "none" THEN 0 ELSE 1

\* While a thread runs with interrupts on, no interrupt is overdue, even when a
\* tick ended in a context switch inside which other ticks passed; and the
\* thread is back in the mode it was in (interrupt.cc, OneTick).
OnTime ==
  at = "run" /\ level = "ON" =>
    /\ \A i \in DOMAIN pending : pending[i].key > totalTicks
    /\ status # "IDLE_MODE" /\ thread = "running" /\ ~yieldOnReturn

\* The n-th sector period since the start brings the sectors n % SectorsPerTrack
\* of a track under the head; no request waits for a later one than LastPass.
LastPass == MaxTicks + SeekTime * NumTracks + SectorsPerTrack
Passes(sector) == {n \in 0..LastPass : n % SectorsPerTrack = sector % SectorsPerTrack}

\* The sector has come under the head since it is on the track.  One that is
\* still passing when the request is made counts, too: the code compares whole
\* sector times from the end of the rotation (disk.cc:291, 297).
Seen(r) ==
  /\ Track(r.sector) = r.from
  /\ \E n \in Passes(r.sector) :
       n * RotationTime >= r.since /\ (n + 1) * RotationTime < r.issued + RotationTime

\* The end of a request: one sector time after it was made if it reads a sector
\* seen, else when the sector has passed for the first time since the head is on
\* the track.
EndsAt(r, time) ==
  IF ~r.writing /\ Seen(r)
  THEN time = r.issued + RotationTime
  ELSE \E n \in Passes(r.sector) :
         LET head == IF Track(r.sector) = r.from THEN r.issued ELSE SeekEnd(r)
         IN  /\ n * RotationTime >= head
             /\ time = (n + 1) * RotationTime
             /\ \A m \in Passes(r.sector) : m * RotationTime >= head => m >= n

\* A disk request ends when its sector has next passed under the head, counting
\* from the end of the seek; a read of a sector the head has passed since it is
\* on the track ends one sector time later: the arithmetic of ComputeLatency
\* and bufferInit against the disk it describes (disk.cc).
DiskTiming ==
  \A i \in DOMAIN pending : pending[i].item = "DISK_INT" => EndsAt(request, pending[i].key)

\* Every character put on the line is sent, once and in order; the characters
\* the program gets are some of those that arrived, in their order, none of
\* them twice: a character may be overwritten before it is taken, never
\* repeated (ACIA_sysdep.cc).
CharsKept ==
  /\ put = Len(sent) + (IF acia.outputStateRegister = "FULL" THEN 1 ELSE 0)
  /\ \A i \in DOMAIN sent : sent[i] = i
  /\ acia.outputStateRegister = "FULL" => acia.outputRegister = put
  /\ LET taken == IF acia.inputStateRegister = "FULL" THEN Append(got, acia.inputRegister) ELSE got
     IN  /\ \A i \in 1..(Len(taken) - 1) : taken[i] < taken[i + 1]
         /\ \A i \in DOMAIN taken, j \in DOMAIN line : taken[i] < line[j]

\* The machine stops by itself only when the last thread is gone and no request
\* or character is under way; with a serial line it never does (the comment in
\* Interrupt::Idle).
HaltOnlyWhenQuiet ==
  at = "halted" =>
    thread = "gone" /\ ~disk.active /\ acia.outputStateRegister = "EMPTY" /\ ~machine.acia

=============================================================================
