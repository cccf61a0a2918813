--------------------------- MODULE ConsoleDriver ---------------------------
(***************************************************************************)
(* The console driver (drivers/drvConsole.cc) over the simulated console   *)
(* (machine/console.cc), composed with the scheduler and the               *)
(* synchronization tools of module Synch.  Threads send strings with       *)
(* PutString and receive strings with GetString, the console calls of      *)
(* SC_WRITE and SC_READ.                                                   *)
(*                                                                         *)
(* As in the disk driver no tick of the clock falls between a request to   *)
(* the device and the first test in P that follows it, so both are one     *)
(* step; interrupts come when P has returned or while the caller sleeps.   *)
(***************************************************************************)
EXTENDS Synch
LOCAL INSTANCE FiniteSetsExt

CONSTANTS
  Get, Put,            \* the semaphores get and put of the driver
  MutexGet, MutexPut,  \* its locks
  Keys,                \* the characters of the keyboard
  NewLine,             \* '\n'
  EOF,                 \* the value of Console::incoming when it is empty
  MaxString,           \* bound on the size of a string
  MaxTyped,            \* bound on the characters typed
  MaxScreen,           \* bound on the characters displayed
  MaxTraffic,          \* bound on both together
  MaxPolls             \* bound on the read polls pending when GetString starts

ASSUME ConsoleAssumption ==
  /\ {Get, Put} \subseteq Semaphores /\ Get # Put
  /\ {MutexGet, MutexPut} \subseteq Locks /\ MutexGet # MutexPut
  /\ InitialCount[Get] = 0 /\ InitialCount[Put] = 0
  /\ {MaxString, MaxTyped, MaxScreen, MaxTraffic, MaxPolls} \subseteq Nat
  /\ EOF \notin Keys    \* the byte 0xFF, which equals EOF as a char, is not typed

VARIABLES
  pc,            \* where a thread is in PutString or GetString
  size,          \* nbcar of that call
  done,          \* i of its loop
  putBusy,       \* Console::putBusy
  incoming,      \* Console::incoming
  intState,      \* Console::intState
  pendingWrite,  \* ConsoleWriteDone interrupts scheduled
  pendingRead,   \* ConsoleReadPoll interrupts scheduled
  typed,         \* everything typed so far, the UNIX file of the keyboard
  taken,         \* how much of it the device has read
  screen,        \* per displayed character, the thread that sent it
  received       \* what GetString put into the buffers of its callers

callVars == <<pc, size, done>>
inputVars == <<incoming, intState, pendingRead, typed, taken, received>>
outputVars == <<putBusy, pendingWrite, screen>>
consoleVars == <<callVars, inputVars, outputVars>>
vars == <<synchVars, consoleVars>>

TypeOK ==
  /\ SynchTypeOK
  /\ pc \in [Threads -> {"user", "put_acquire", "put", "put_wait",
                         "get_acquire", "get_start", "get_wait", "get_char"}]
  /\ size \in [Threads -> 0..MaxString]
  /\ done \in [Threads -> 0..MaxString]
  /\ putBusy \in BOOLEAN
  /\ incoming \in Keys \cup {EOF}
  /\ intState \in BOOLEAN
  /\ pendingWrite \in Nat
  /\ pendingRead \in Nat
  /\ typed \in Seq(Keys)
  /\ taken \in 0..Len(typed)
  /\ screen \in Seq(Threads)
  /\ received \in Seq(Keys \cup {EOF})

Init ==
  /\ SynchInit
  /\ pc = [t \in Threads |-> "user"]
  /\ size = [t \in Threads |-> 0]
  /\ done = [t \in Threads |-> 0]
  /\ putBusy = FALSE
  /\ incoming = EOF
  /\ intState = FALSE
  /\ pendingWrite = 0
  /\ pendingRead = 0
  /\ typed = <<>>
  /\ taken = 0
  /\ screen = <<>>
  /\ received = <<>>

goto(t, label) == pc' = [pc EXCEPT ![t] = label]

\* A thread calls PutString or GetString for n characters.
Call(t, label, n) ==
  /\ AtCall(t)
  /\ pc[t] = "user"
  /\ size' = [size EXCEPT ![t] = n]
  /\ done' = [done EXCEPT ![t] = 0]
  /\ goto(t, label)
  /\ UNCHANGED <<synchVars, inputVars, outputVars>>

---------------------------------------------------------------------------
(* DriverConsole::PutString *)

\* The characters that the calls in progress still have to display.
Promised ==
  MapThenSumSet(LAMBDA t : size[t] - done[t],
                {t \in Threads : pc[t] \in {"put_acquire", "put", "put_wait"}})

CallPut(t, n) ==
  /\ Len(screen) + Promised + n <= MaxScreen
  /\ Len(typed) + Len(screen) + Promised + n <= MaxTraffic
  /\ Call(t, "put_acquire", n)

\* Fault: the lock is not taken.
PutWithoutLock(t) ==
  /\ pc[t] = "put_acquire"
  /\ Running(t)
  /\ goto(t, "put")
  /\ UNCHANGED <<synchVars, size, done, inputVars, outputVars>>

\* mutexput->Acquire().
PutAcquire(t) ==
  /\ pc[t] = "put_acquire"
  /\ Acquire(t, MutexPut)
  /\ IF is_free[MutexPut] THEN goto(t, "put") ELSE UNCHANGED pc
  /\ UNCHANGED <<size, done, inputVars, outputVars>>

\* Console::PutChar past its ASSERT.
PutChar(t) ==
  /\ screen' = Append(screen, t)
  /\ putBusy' = TRUE
  /\ pendingWrite' = pendingWrite + 1

\* One turn of the loop: PutChar, whose ASSERT stops the simulator when the
\* device is busy, then put->P().
PutNext(t) ==
  /\ pc[t] = "put"
  /\ done[t] < size[t]
  /\ AtCall(t)
  /\ IF putBusy
     THEN /\ machine' = "assert"
          /\ UNCHANGED <<schedVars, waitOn, objectVars, consoleVars>>
     ELSE /\ PutChar(t)
          /\ P(t, Put)
          /\ done' = [done EXCEPT ![t] = @ + 1]
          /\ goto(t, IF count[Put] = 0 THEN "put_wait" ELSE "put")
          /\ UNCHANGED <<size, inputVars>>

\* put->P() goes on after its Sleep.
PutWait(t) ==
  /\ pc[t] = "put_wait"
  /\ P(t, Put)
  /\ IF count[Put] = 0 THEN UNCHANGED pc ELSE goto(t, "put")
  /\ UNCHANGED <<size, done, inputVars, outputVars>>

\* The loop ends: mutexput->Release().
PutEnd(t) ==
  /\ pc[t] = "put"
  /\ done[t] = size[t]
  /\ Release(t, MutexPut)
  /\ goto(t, "user")
  /\ UNCHANGED <<size, done, inputVars, outputVars>>

---------------------------------------------------------------------------
(* DriverConsole::GetString *)

CallGet(t, n) ==
  /\ pendingRead <= MaxPolls
  /\ Call(t, "get_acquire", n)

\* mutexget->Acquire().
GetAcquire(t) ==
  /\ pc[t] = "get_acquire"
  /\ Acquire(t, MutexGet)
  /\ IF is_free[MutexGet] THEN goto(t, "get_start") ELSE UNCHANGED pc
  /\ UNCHANGED <<size, done, inputVars, outputVars>>

\* Polls in progress end by themselves.
DisableInterrupt == intState' = FALSE

\* The end of GetString: Console::DisableInterrupt and mutexget->Release().
GetEnd(t) ==
  /\ DisableInterrupt
  /\ Release(t, MutexGet)
  /\ goto(t, "user")

\* get->P() from its call.
GetP(t) ==
  /\ P(t, Get)
  /\ goto(t, IF count[Get] = 0 THEN "get_wait" ELSE "get_char")

\* A new chain of polls.
EnableInterrupt ==
  /\ intState' = TRUE
  /\ pendingRead' = pendingRead + 1

\* A buffer of no characters: the loop is not entered, and the poll that
\* EnableInterrupt scheduled is left behind.
GetNothing(t) ==
  /\ pc[t] = "get_start"
  /\ size[t] = 0
  /\ AtCall(t)
  /\ pendingRead' = pendingRead + 1
  /\ GetEnd(t)
  /\ UNCHANGED <<size, done, incoming, typed, taken, received, outputVars>>

\* EnableInterrupt and the first P.
GetStart(t) ==
  /\ pc[t] = "get_start"
  /\ size[t] > 0
  /\ AtCall(t)
  /\ EnableInterrupt
  /\ GetP(t)
  /\ UNCHANGED <<size, done, incoming, typed, taken, received, outputVars>>

\* get->P() goes on after its Sleep.
GetWait(t) ==
  /\ pc[t] = "get_wait"
  /\ P(t, Get)
  /\ IF count[Get] = 0 THEN UNCHANGED pc ELSE goto(t, "get_char")
  /\ UNCHANGED <<size, done, inputVars, outputVars>>

\* Console::GetChar.
GetCharKept == UNCHANGED incoming    \* fault
GetChar == incoming' = EOF

\* Console::GetChar after P returned, and the next P unless the string is
\* complete.
GetNext(t) ==
  /\ pc[t] = "get_char"
  /\ AtCall(t)
  /\ GetChar
  /\ received' = Append(received, incoming)
  /\ done' = [done EXCEPT ![t] = @ + 1]
  /\ IF done[t] + 1 = size[t] \/ incoming = NewLine
     THEN GetEnd(t)
     ELSE GetP(t) /\ UNCHANGED intState
  /\ UNCHANGED <<size, pendingRead, typed, taken, outputVars>>

---------------------------------------------------------------------------
(* The device *)

\* The driver's part of the handlers.
PutAChar == V(Put)
GetAChar == V(Get)

\* Fault: the handler does not clear putBusy.
WriteDoneBusy ==
  /\ InterruptsTaken
  /\ pendingWrite > 0
  /\ pendingWrite' = pendingWrite - 1
  /\ PutAChar
  /\ UNCHANGED <<callVars, inputVars, putBusy, screen>>

\* Console::WriteDone, which calls DriverConsole::PutAChar.
WriteDone ==
  /\ InterruptsTaken
  /\ pendingWrite > 0
  /\ pendingWrite' = pendingWrite - 1
  /\ putBusy' = FALSE
  /\ PutAChar
  /\ UNCHANGED <<callVars, inputVars, screen>>

\* There is room for a character, and one to read.
PollFile == taken < Len(typed)
CharAvailUntested == PollFile              \* fault
CharAvail == incoming = EOF /\ PollFile

\* A poll: the next one is scheduled while the console interrupt is enabled,
\* and a character for which there is room is read.
CheckCharAvail ==
  /\ InterruptsTaken
  /\ pendingRead > 0
  /\ pendingRead' = IF intState THEN pendingRead ELSE pendingRead - 1
  /\ IF CharAvail
     THEN /\ incoming' = typed[taken + 1]
          /\ taken' = taken + 1
          /\ GetAChar
     ELSE UNCHANGED <<incoming, taken, synchVars>>
  /\ UNCHANGED <<callVars, outputVars, intState, typed, received>>

\* The user of the console types a character.
Type(c) ==
  /\ Len(typed) < MaxTyped
  /\ Len(typed) + Len(screen) + Promised < MaxTraffic
  /\ machine = "on"
  /\ typed' = Append(typed, c)
  /\ UNCHANGED <<synchVars, callVars, outputVars, incoming, intState,
                 pendingRead, taken, received>>

---------------------------------------------------------------------------

\* A user thread gives up the processor.
YieldCPU(t) ==
  /\ pc[t] = "user"
  /\ Yield(t)
  /\ UNCHANGED consoleVars

IdleDispatch ==
  /\ Dispatch
  /\ UNCHANGED consoleVars

\* Cleanup deletes the driver with its locks and semaphores.
IdleHalt ==
  /\ Halt({Get, Put, MutexGet, MutexPut})
  /\ pendingRead = 0
  /\ pendingWrite = 0
  /\ UNCHANGED consoleVars

Stopped ==
  /\ machine # "on"
  /\ UNCHANGED vars

ThreadStep(t) ==
  \/ \E n \in 0..MaxString : CallPut(t, n)
  \/ \E n \in 0..MaxString : CallGet(t, n)
  \/ PutAcquire(t)
  \/ PutNext(t)
  \/ PutWait(t)
  \/ PutEnd(t)
  \/ GetAcquire(t)
  \/ GetStart(t)
  \/ GetNothing(t)
  \/ GetWait(t)
  \/ GetNext(t)
  \/ YieldCPU(t)

Next ==
  \/ \E t \in Threads : ThreadStep(t)
  \/ WriteDone
  \/ CheckCharAvail
  \/ \E c \in Keys : Type(c)
  \/ IdleDispatch
  \/ IdleHalt
  \/ Stopped

Spec == Init /\ [][Next]_vars

---------------------------------------------------------------------------

\* The ASSERT(putBusy == false) of Console::PutChar never fails: the driver
\* sends a character only after the interrupt of the one before.
PutWhenReady ==
  \A t \in Threads : pc[t] = "put" => ~putBusy /\ pendingWrite = 0 /\ count[Put] = 0

\* Strings are displayed whole: while a thread is in the loop of PutString the
\* last characters on the screen are those it has sent, whatever other
\* threads do while it sleeps.
StringsWhole ==
  \A t \in Threads : pc[t] \in {"put", "put_wait"} =>
    \A i \in 0..(done[t] - 1) : screen[Len(screen) - i] = t

\* The units of get are the characters in the device that no reader has a
\* claim on: a reader that got past get->P() finds a character, although polls
\* outlive the GetString that started them.
CharsCounted ==
  count[Get] + Cardinality({t \in Threads : pc[t] = "get_char"}) =
    IF incoming = EOF THEN 0 ELSE 1

\* Every character typed is received once and in order, over all calls of
\* GetString: what was read off the keyboard is what the callers received and
\* what is still in the buffer of the device.
CharsInOrder ==
  received \o (IF incoming = EOF THEN <<>> ELSE <<incoming>>) = SubSeq(typed, 1, taken)

\* The state of the abstract console: the thread in the loop of PutString or of
\* GetString, and what its call has still to do.
Writing(t) == pc[t] \in {"put", "put_wait"}
Reading(t) == pc[t] \in {"get_start", "get_wait", "get_char"}
writerBar == IF \E t \in Threads : Writing(t) THEN CHOOSE t \in Threads : Writing(t) ELSE None
readerBar == IF \E t \in Threads : Reading(t) THEN CHOOSE t \in Threads : Reading(t) ELSE None
left(t) == IF t = None THEN 0 ELSE size[t] - done[t]

Service == INSTANCE ConsoleService WITH
  writer <- writerBar, toSend <- left(writerBar), busy <- putBusy,
  reader <- readerBar, room <- left(readerBar)

\* Seen from its callers the driver is a console on which strings are written
\* one at a time, whole, and read one at a time, no character lost or repeated:
\* "methods in order to preserve mutual exclusion on the console device" that
\* "return only when the read or write operation is completed" (drvConsole.h).
ImplementsService == Service!ServiceSpec

=============================================================================
