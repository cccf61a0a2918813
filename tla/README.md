# A verification project for the Nachos kernel

This directory models the kernel of a Nachos teaching operating system (the
RISC-V version of the University of Rennes) in TLA+, checks the models with TLC
and proves theorems about them with TLAPS. Modules are named after the part of the
kernel they model, and definitions keep the names of the C++ code.

## 1. Inventory

Nachos is one UNIX process that simulates a machine and runs a kernel on it. The
committed tree is in the middle of its assignments: several bodies only print a
message and call `exit(ERROR)` (`Thread::Start`, `SaveProcessorState`,
`RestoreProcessorState`, `Condition::*`, `EvictPage`, `PageFault`, `Mmap`, the ACIA
driver), and finished bodies of `kernel/synch.cc` still end with that `exit`.

| part | state it keeps | operations | talks to |
|---|---|---|---|
| scheduler, threads (`kernel/scheduler.cc`, `thread.cc`) | `g_current_thread`, `readyList` | `ReadyToRun`, `FindNextToRun`, `SwitchTo`, `Yield`, `Sleep`, `Finish` | everything that blocks |
| semaphores, locks (`kernel/synch.cc`) | `count`, `is_free`, `owner`, wait queues | `P`, `V`, `Acquire`, `Release` | scheduler; `V` also from interrupt handlers |
| condition variables | a wait queue | placeholders | - |
| interrupts (`machine/interrupt.cc`) | interrupt level, clock, list of pending interrupts by time | `Schedule`, `OneTick`, `CheckIfDue`, `Idle`, `Halt` | device handlers, scheduler |
| disk and its driver (`machine/disk.cc`, `drivers/drvDisk.cc`) | `active`, head position, contents; a lock and a semaphore | `ReadRequest`, `WriteRequest`, `HandleInterrupt`; `ReadSector`, `WriteSector`, `RequestDone` | interrupts, semaphores |
| file headers, bitmap (`filesys/filehdr.cc`, `utility/bitmap.cc`) | sector numbers, marked sectors | `Allocate`, `reAllocate`, `Deallocate`, `FetchFrom`, `WriteBack`, `Find` | disk driver |
| file system, directories (`filesys/filesys.cc`, `directory.cc`) | bitmap file, directories on disk | format, `Create`, `Remove`, `Mkdir`, `Rmdir`, `Open`, `FindDir` | headers, bitmap |
| open-file table, open files (`filesys/oftable.cc`, `openfile.cc`) | `table`, `nbentry`, `numthread`, `ToBeDeleted`; a header copy per open file | `Open`, `Close`, `Remove`; `ReadAt`, `WriteAt` | file system, headers |
| console device and driver | buffers, polling interrupts; two locks, two semaphores | `PutString`, `GetString` and handlers | interrupts, semaphores |
| ACIA device and driver (`machine/ACIA.cc`, `ACIA_sysdep.cc`) | registers, working mode | `PutChar`, `GetChar`, `InterruptRec`, `InterruptEm`, polls; driver: placeholders | interrupts, host sockets |
| timer (`machine/timer.cc`) | random or fixed period | `TimerExpired`; its handler is commented out in `system.cc`: no preemption | interrupts, scheduler |
| processor (`machine/machine.cc`, `instruction.cc`) | registers, pc, the decoded instruction | `Run`, `OneInstruction`, `Decode` | MMU, exceptions |
| MMU, translation tables (`machine/mmu.cc`, `translationtable.cc`) | page table entries, main memory | `Translate`, `ReadMem`, `WriteMem` | processor, address spaces |
| physical memory, swap, page faults (`vm/`) | free list, reverse table, swap bitmap | `FindFreePage`, `FreePhysicalPage`, `UnlockPage`, `PutPageSwap`, `GetPageSwap` | address spaces, disk |
| address spaces, ELF loader, processes (`kernel/addrspace.cc`, `elf.cc`, `process.cc`) | page tables, `freePageId`, `numThreads` | load, `Alloc`, `StackAllocate`, the destructors | file system, memory |
| system calls (`kernel/exception.cc`) | table of object identifiers | one case per call | all of the above |
| user library (`userlib/libnachos.c`) | - | string, memory, number and formatting functions | system calls |
| start-up, configuration, statistics, host wrappers, tests | configuration values, counters | start-up commands; I/O | - |

Hard behaviours. Threads interleave at every `Sleep` and `Yield`; interrupt handlers
call `V` between any two steps outside `P` and `Acquire`, and while the last thread
idles inside its own `Sleep`. A woken thread runs later and finds its condition taken.
Disk requests end asynchronously. In the file system the hard part is not concurrency
but long sequences of calls over several copies of the same thing: each open file has
its own header, the table entry another, and the disk a third; names are reused while
a removed file is still open; the table and the disk fill up; the simulator stops and
restarts. In the process code it is objects that die while others hold their number or
address, and a loader that sleeps half way through an address space. In the simulated
machine it is arithmetic: times, bit fields, sign extension, the edges of a page.
`PROJECT.json` lists these hazards with the lines where they bite and the
properties that would catch them.

What makes each part correct: a thread is in exactly one place and no wake-up is lost
(scheduler, semaphores); locks exclude and waiters are served (locks); the device gets
one request at a time, and a caller leaves after the end of its own request (disk
driver); no sector has two owners and open files keep theirs (file system); an entry
lives exactly as long as somebody has the file open (table); a physical page has one
owner or is free, and carries nothing over to its next owner (memory); a process dies
with the last of its Thread objects (processes); an instruction does what the architecture says
(processor); an interrupt happens at its time and once (interrupts); a library function
writes its result and nothing else (user library).

## 2. Modules

| module | models | main state |
|---|---|---|
| `Synch` | scheduler, context switches, `Semaphore`, `Lock`, `Idle`/`Halt`, as operators | `g_current_thread`, `readyList`, `idle`, `waitOn`, `count`, `wait_queue`, `is_free`, `owner`, `machine` |
| `SynchClient` | `Synch` closed with arbitrary threads and devices | plus `pending` (interrupts), `held` (history) |
| `DiskService` | abstract: what a synchronous disk promises | `serving`, `done`, `mem`, `buffer` |
| `DiskDriver` | `DriverDisk` over `Disk` over `Synch`, both disks | plus `pc`, `req`, `data`, `active`, `contents`, `pending` |
| `ConsoleService` | abstract: what a synchronous console promises | `writer`, `toSend`, `screen`, `reader`, `room`, `typed`, `received` |
| `ConsoleDriver` | `DriverConsole` over `Console` over `Synch` | plus `pc`, `size`, `done`, `putBusy`, `incoming`, `intState`, pending interrupts, what was typed, displayed and received |
| `FileHeader` | bitmap and headers, as operators on values | - |
| `FileSystem` | formatting, directories, open-file table, open files, restart | `freeMap`, `image`, `dirs`, `table`, `nbentry`, `files`, `machine` |
| `List` | `utility/list.h`, as operators on sequences | - |
| `Devices` | simulated time, pending interrupts, disk timing, timer, serial line | `totalTicks`, `pending`, `level`, `status`, `yieldOnReturn`, `disk`, `acia` |
| `Mmu` | address translation and memory accesses, as operators | - |
| `Instruction` | the decoder, and the encoding it must invert | - |
| `RiscV` | reference: what the architecture says of each instruction | - |
| `Processor` | the interpreter over `Mmu` and `Instruction` | `int_registers`, `float_registers`, `pc`, `table`, `mem`, `instr` |
| `Processes` | physical pages, address spaces, loader, processes, threads, their system calls | `free_page_list`, `tpr`, `table`, `freePageId`, `numThreads`, `thread`, `ids`, ... |
| `UserLib` | `libnachos.c` and the string parameters of system calls | `memory`, `call` |
| `SynchProofs` | lemmas on the operators of `Synch`, with the kernel's part of the invariants | - |
| `SynchClientProofs`, `DiskDriverProofs`, `ConsoleDriverProofs`, `DevicesProofs`, `FileSystemProofs`, `ProcessesProofs` | the theorems of the module each is named after | - |
| `ListProofs` | lemmas on the lists of `List`, used by `DevicesProofs` and `ProcessesProofs` | - |
| `MCSynchClient`, `MCDiskDriver`, `MCConsoleDriver`, `MCFileSystem`, `MCDevices`, `MCProcessor`, `MCProcesses`, `MCUserLib` | values and symmetry sets for TLC | - |

Operators whose comment says "fault" (`PTakeUntested`, `findlShort`, ...) are
deliberately wrong forms of the operator they precede. No specification uses them; each
shows that some property notices that mistake.

### Scheduler and synchronization (`Synch`, `SynchClient`)

Every operation of `synch.cc` runs with interrupts disabled and there is no timer, so
an operation is one step up to the point where it sleeps. `PBlock`/`PTake` and
`AcquireBlock`/`AcquireTake` are the two ways through the loops of `P` and `Acquire`; a
thread that slept has `waitOn` set and repeats the loop when dispatched. While no thread
is ready, the thread in `Sleep` stays `g_current_thread` and idles: a handler may make
that same thread ready, which then switches to itself. `Halt` is the end of
`Interrupt::Idle` when nothing is pending, with the ASSERTs of the destructors that
`Cleanup` runs.

`PlaceholderExit` chooses between the committed files (TRUE: the first `P`, `V`,
`Acquire`, `Release` or context switch ends the simulator) and the same code without
those placeholder `exit` calls (FALSE). The runs use FALSE, as it is the logic around
the placeholders that the models are about; the theorems hold for both.

Threads are started at the beginning, as `Thread::Start` has no body. `Thread::Finish`
calls `Sleep` with the interrupts enabled at both of its callers, so the ASSERT on the
interrupt level in `Sleep` fails: `Finish` is a step that stops the simulator.
Clients release only locks they acquired, the convention of `synch.h:86-87`.
Interrupts are delivered in any order and after any delay, which covers every order of
times in the sorted list. `Idle` is over-approximated: a dispatch may happen although
further interrupts are due.

### Disk driver (`DiskDriver`, `DiskService`)

`ReadSector` and `WriteSector` are the steps acquire, request and wait, release. No tick
falls between the request and the first test of `P`, so these are one step. The data is
moved at the request, as `disk.cc` does with the UNIX file, and `HandleInterrupt` clears
`active` and calls `V`. The refinement mapping reads who is being served off `pc` and
`active`. Here the seek and rotation times are an arbitrary
delay; `Devices` has them as the code computes them.

### Console driver (`ConsoleDriver`, `ConsoleService`)

`PutString` sends a character and sleeps in `put->P()` until `WriteDone`; `GetString`
enables the polls, sleeps in `get->P()` for each character and fetches it with `GetChar`.
Interrupts may come between the return of `P` and what follows it. A poll schedules the
next one while `intState` holds, so a poll left over from one `GetString` joins the chain
that the next one starts; the model counts them. `SC_READ` passes the size of the program on
unchecked: a buffer of size 0 is among the inputs (`GetNothing`), where the loop is not
entered and the poll that `EnableInterrupt` scheduled is left behind. `MaxTraffic` bounds the
characters typed and displayed together. The keyboard is a sequence that grows at
any moment (external: the user), the screen records which thread sent each character.
`EOF` marks the empty buffer. The byte 0xFF equals it as a `char`; the keys of the run do
not contain it, and with it `CharsCounted` and `CharsInOrder` fail.

`ConsoleService` is the synchronous console of `drvConsole.h`: one string at a time is
displayed and one buffer at a time is filled, with no lock, semaphore, poll or interrupt but
the end of a character's display. The mapping reads the writer and the reader off `pc` and
what they have left off the counters of the two loops.

### File system (`FileHeader`, `FileSystem`)

Each system call, and each start-up command (`StartUp`, `Copy`), is one step: `filesys.cc:34` states that there is no synchronization for
concurrent accesses. A call that returns an error has written nothing back and is no step.
A header in memory has the sector numbers of the data and of the further header
sectors; `WriteBack` keeps only the numbers for which the header sectors have room, and
`FetchFrom` leaves the rest uninitialized, as the code does. `dirs` gives the entries of
the directory whose header is in a sector; the contents of ordinary files are left out,
only where they lie is kept. `image` remembers the header last written to a sector, also
after the sector is freed, and forgets it when file data (of `Write`, `Copy` or a new
directory) or a further header sector is written there. A write marks the sectors that
`reAllocate` found, not those the file had before.

`Spellings` are the strings that programs pass and `PathOf` what `decompname` makes of
them: the table compares strings, the directories components. `Restart` ends the simulator
(normally or after an ASSERT) and starts it on the same disk. A use of an unassigned
sector number sets `machine` to "undefined", where the model stops. A length of 0 at
position 0 after a failed growth makes `position + numBytes - 1` equal to -1, which the
unsigned `SectorSize` turns into a huge last sector: also "undefined".

Not in the model: negative sizes (rejected as out of disk), `MAX_FILE_LENGTH`, the
length of names, `FileLock`/`FileRelease` (no callers), listing.

### Simulated time and devices (`Devices`, `List`)

`Synch` and its users deliver interrupts in any order; `Devices` has the other half: the
clock, the sorted list and one thread. `OneTick` and `Idle` are split into one step per
interrupt (`at` says where they are), because characters reach the serial line in
between. `CheckIfDue` takes the first element off the list and puts it back when it is not
due, or when it is the timer and nothing else is left in the idle loop. Handlers run with
interrupts off and are one step. A tick whose timer handler asked for a context switch
yields, and ticks pass inside that yield; `old` is the mode the outermost tick restores.
The timer's handler is the one of the comment in `system.cc`; `Machines` chooses which
devices a behaviour has. `request` and the character counters are history.

The disk computes its latency with `TimeToSeek`, `ModuloDiff`, `ComputeLatency` and
`UpdateLast` including the track buffer. `DiskTiming` compares them with the disk they
describe: sector `n % SectorsPerTrack` is under the head in the n-th period. The track buffer
also has the sector that is still passing when the request is made, as the rounding in
`disk.cc:291,297` counts it; `Seen` says so.
Characters are numbers, so that losing, repeating or reordering one shows. The sockets
are external: a character arrives or not.

### Processor (`Mmu`, `Instruction`, `RiscV`, `Processor`)

The fetched word is an input: `Program` gives assembly instructions, `Instruction` encodes
them into the bit fields of the architecture manual and decodes the word as
`Instruction::Decode` does. `Processor` executes it as the `switch` of `OneInstruction`
does, with the C++ widths and conversions (`int32_t`, `uint32_t`, 128-bit products), in
registers that are 8 bytes of `ByteBits` bits each. `printDecodedInstrRISCV`, which rewrites `shamt` and
`funct7`, may or may not run first. `RiscV` states independently what each instruction
does to registers, pc and memory. The run has bytes of 2 bits: words of 8 and registers of
16 bits keep the proportions on which sign extension, truncation and shifts depend.
`float_registers` are 64-bit integers in the code, and are so here.

`Program` has legal mnemonics. The default arms of the inner `switch` statements, which
`exit(ERROR)` on an undefined `funct3` (`machine.cc:450` and five more), are left out; an
unknown opcode is in. The loads pass the address of a local of 1, 2 or 4 bytes to `ReadMem`,
which stores 8 bytes through it (`machine.cc:465-521`, `mmu.cc:95-107`): what that overwrites is
decided by the compiler, and the model takes it as harmless.

Reading the two side by side gave the divergences that `Divergent` lists: `LUI` and `AUIPC`
do not extend the sign of the word; `JALR` keeps a word of the sum and of the link; `LHU`
keeps one byte; `SLTIU` compares the low word; the `MULH` family works on the truncated
product; `MULW`, `DIVUW` and `REMUW` do not extend the sign; `SRLW` does not mask its
amount; an access of 8 bytes is checked for its first page only; a division by zero or an
overflowing one ends the simulator. `MatchesHardware` holds outside them.

### Processes and memory (`Processes`)

A thread keeps the processor until it sleeps in a disk read of the loader, yields or
finishes. `Exec` is therefore several steps: the header, then per page of a section the
physical page taken, the sleep, and the entry made valid. What a page holds is the set of
processes whose data is in it. Objects have addresses that are reused once they are deleted,
numbers of `g_object_addrs` are not: `JoinCall` finds whatever is now at the address.

`SwitchTo` has two ways on. A thread that ran before continues behind the context switch and
deletes the thread that finished (`Resume`). A thread that never ran is entered in
`StartThreadExecution`, by the context that `makecontext` prepared, and deletes nothing: the
finished thread stays an object until some thread is resumed. If another one finishes
first, `g_thread_to_be_destroyed` is overwritten, and the first keeps its object, its process
and its pages for ever. `ProcessesCounted` and `PagesPartitioned` are about Thread objects and
include such threads.

An executable with a section off the page boundary ends the simulator (`LoadStops`, status
"unaligned", apart from the assertions of which `AssertionsCorrect` speaks), and so does an
access that `Translate` refuses for its alignment or its page (`FatalAccess`). `MainEnd` is
possible at once, when no program is named.

Parts of this code are missing from the tree: `Thread::Start` only exits, `Thread::Finish`
does not enter `g_thread_to_be_destroyed`, `SwitchTo` prints where it should delete, and
nothing fills `g_alive`. The model completes them after their comments and callers, and
marks these definitions external: what the run shows is that the committed parts (loader,
`Alloc`, `StackAllocate`, `Join`, the destructors) fit together under the completion the
comments describe. Page faults and `Mmap` end the simulator, as in the tree. The first
`Alloc` of `StackAllocate` may fail unnoticed; `StackGuarded` says so.

### User library (`UserLib`)

A behaviour is one call. The loops of the string functions, of `n_atoi`, `n_read_int`,
`n_vsnprintf` and of the kernel's `GetLengthParam`/`GetStringParam` are translated as
recursive operators and compared with definitions of what they are for. `n_strcpy`, `n_memcpy` and
`n_vsnprintf` are called with null pointers as well. `StringsCorrect` promises nothing of `n_memcpy` when
the destination starts inside the source. `FormatCorrect` says what the code does at the two
edges where that is not what one would want: with a size of 0 the final 0 is written behind
the buffer, one byte more than the size; and a format that ends inside a directive is read
past its end (`past`), exactly then. After such a read nothing is promised of the rest. `n_printf`
of a null format is modelled, but not covered by a property.

## 3. Runs

| run | bounds | result |
|---|---|---|
| `synch_safety` | 4 threads, 2 semaphores, 1 lock, at most 2 units | holds, 67 536 states |
| `lock_hand_off` | 2 threads, 1 lock | violated: see below |
| `disk` | 3 threads on one disk, or 2 on one and 1 on the other; 1 sector, 2 values | holds, 195 048 states, refines `DiskService` |
| `console_safety` | 3 threads, strings of 2, buffers of 0 to 2, 2 characters typed, 3 displayed, 4 together | holds, about 927 000 states, refines `ConsoleService` |
| `file_system_safety` | names d, f, d/f; 2 open files; 2 table slots; 7 sectors, 3 of them to give; sectors of 2 bytes, files up to 3 | holds, about 164 000 states |
| `remove_alias` | 1 file under 2 spellings | violated |
| `header_growth` | sectors of 1 byte, 1 number in the first header sector | violated |
| `last_close` | 1 file | violated |
| `devices_safety` | 4 machines (timer none, fixed, random; with and without line); 2 tracks of 3 sectors; 11 ticks, 2 characters each way | holds, about 2 400 000 states |
| `processor_safety` | 2 instructions out of 201, corner values of the registers, 3 pages of 8 bytes: writable, read-only, unmapped | holds, about 411 000 states |
| `process_safety` | 3 processes and 2 threads beside the first, 6 files (2 programs, 1 with a misplaced section, 2 wrong headers, 1 missing), 5 physical pages, 7 virtual ones, 3 object numbers | holds, about 364 000 states |
| `user_library` | 5 bytes of memory over 5 values, every call; formats of 2 pieces out of 14, 22 numbers, 9 buffer sizes | holds, about 1 230 000 states |

Why the bounds suffice. Four threads give an owner, two waiters and an outsider who
takes what a woken waiter was meant to get; two units let one `V` follow another
before the first woken thread runs. Three threads on a disk give an owner asleep in `P`, a
waiter on the lock and a third that runs in between; with the third on the other disk,
interrupts of both fall into each other's operations; on the console three threads give a reader, a writer and a competitor, and two typed characters
let a poll of the first `GetString` serve the second. Three free sectors let a
directory with a file, a two-sector file, or three empty files exist, so the disk and
the table both fill up and freed sectors are reused at once; two open files give two
stale copies of one header next to the table's. Eleven ticks let a disk request follow
another on the same and on the other track, with several time slices and polls
falling due at the same tick. Two instructions let the first make a corner value
(or a modified page) the second works on; immediates with a single bit set show where the
decoder puts each bit. Five pages hold one process with two
threads or two small ones, so memory runs out while pages are freed and taken again; seven
virtual pages let a second stack fit without its guard, and let the table be too small.
Two threads and three numbers let an address serve two threads and a number outlive its
thread.

`synch_safety`, `disk` and `console_safety` check for deadlock; `Stopped` is the only way
to rest. The other models come to rest at a bound of theirs or when the simulator ends, so
their runs do not check deadlock.

What the passing runs show. `synch_safety`: each thread is on the CPU, once in the ready
list, or once in the queue of the one object it waits for (`OnePlace`); units are never
left over while threads stay queued (`NoLostWakeup`); a free lock with waiters has a
thread awake to take it (`LockQueues`); locks exclude (`MutualExclusion`); the
machine halts only when all threads are really blocked (`HaltOnlyWhenBlocked`).
`disk`: `ASSERT(!active)` cannot fail (`OneRequestAtATime`), completions match requests
one to one (`CompletionsCounted`), the driver is a `DiskService` (`ImplementsService`), and
the requests of a thread alone on its disk return (`RequestsReturn`).
`console_safety`: `ASSERT(putBusy == false)` cannot fail (`PutWhenReady`), a reader
past `P` finds a character (`CharsCounted`), what is typed is received once and in order
(`CharsInOrder`), and the driver is a `ConsoleService` (`ImplementsService`): strings are
displayed whole, and a call ends exactly when its string, line or buffer does.
`file_system_safety`: sectors in use are marked and belong to one file whatever copy of a
header was used (`SectorsOwned`); a path leads to a header and two paths to different ones
(`DirectoriesSound`); table entries count their users (`TableCounts`); `nbentry` is free
when it is used (`NextSlotFree`); a removed file cannot be reached
(`RemovedUnreachable`); nothing is freed twice (`NoAssertFails`). It uses one spelling per
file and files that fit in one header sector; the violated runs show what happens outside
these limits.
`devices_safety`: the pending list is sorted and agrees with the state of every device
(`InterruptsPending`); nothing is overdue while a thread runs (`OnTime`); a request takes
the time its sector takes to pass (`DiskTiming`); output characters are all sent, input
characters never repeated (`CharsKept`; one that is not taken in time is overwritten, as in
the code); the idle loop ends the machine only when nothing is under way
(`HaltOnlyWhenQuiet`).
`processor_safety`: the interpreter agrees with `RiscV` outside the divergences, printed or
not (`MatchesHardware`); memory changes only in writable pages, which are then marked modified
(`ModifiedPagesKnown`).
`process_safety`: each page is free or has one owner whose table points back to it
(`PagesPartitioned`); no process reads another's data except in the page its file ends in
(`OwnContents`); processes count their Thread objects and exist as long as one does
(`ProcessesCounted`); stacks have their
unmapped pages (`StackGuarded`); `Join` returns only after the thread the number was given
to has finished (`JoinNotEarly`).
`user_library`: `StringsCorrect`, `FormatCorrect`.

### What the violated runs show

1. `Lock::Release` with a waiter wakes it but leaves the lock busy with the old
   owner: the waiter sleeps again and no one can release the lock (`synch.cc:205-211`).
   For the same reason `RequestsReturn` is about threads alone on their disk.
2. A file opened as `f` and removed as `/f` loses its sectors while open.
3. `reAllocate` computes the header sectors from the old size, so the header on disk
   loses sector numbers when a file grows across the boundary.
4. The last `Close` of a removed file frees the header copy of the first `Open`; sectors
   added since are lost.

More disagreements are visible in the models and have no run of their own: with
`PlaceholderExit` the first `P`, `V`, `Acquire` or `Release` ends the simulator;
`nbentry` stays `ERROR` after the table was full once, although `Close` empties slots;
a write that finds the disk full leaves a length beyond the file's sectors; a thread that
finished is not deleted when the next one never ran (`thread.cc:160-167`), although the comment
at `scheduler.cc:123-126` puts the deletion behind every switch; `n_vsnprintf` with a length of 0 writes
its final 0 (`libnachos.c:560`), which the comment at 376-377 counts within the length; `n_printf`
compares a result of -1 as an unsigned number (`libnachos.c:622`) and would print 199 bytes that
nothing wrote; and `OpenFileTable::Remove` looks at the name only (`oftable.cc:262-296`): when an open file was
removed and its name given to a directory since, removing the name again takes that
directory out of its parent without looking whether it is empty. What is in it can no
longer be reached, so `SectorsOwned` and `DirectoriesSound` speak of the files that a
path leads to. (Seven sectors are too few for this to matter; eleven showed it.)

### Fairness

`disk` assumes weak fairness of each thread's steps (a thread that runs keeps
executing), of leaving the idle loop, and strong fairness of `HandleInterrupt`: an
interrupt can be delivered whenever the running thread is outside `P` and `Acquire` or
the CPU idles, each return to the enabled level is a tick of the simulated clock, and
`CheckIfDue` fires everything that is due, so an interrupt that can be delivered
again and again is. Without a timer, user threads must call the kernel now and then.
The other runs check safety only and assume no fairness.

## 4. Proofs

The theorems say of every value of the constants what the runs show on one. Each proof has
an inductive invariant `IInv`, found by asking what a step needs that the properties do not
say, checked with TLC on the instance of the run, and proved action by action.

| module | theorems | properties of runs |
|---|---|---|
| `SynchClientProofs` | 7 | `TypeOK`, `OnePlace`, `NoLostWakeup`, `MutualExclusion`, `LockQueues`, `HaltOnlyWhenBlocked` |
| `DiskDriverProofs` | 6 | `TypeOK`, `OneRequestAtATime`, `CompletionsCounted`, `ImplementsService` |
| `ConsoleDriverProofs` | 8 | `TypeOK`, `PutWhenReady`, `CharsCounted`, `CharsInOrder`, `ImplementsService` |
| `DevicesProofs` | 7 | `TypeOK`, `InterruptsPending`, `OnTime`, `DiskTiming`, `CharsKept`, `HaltOnlyWhenQuiet` |
| `FileSystemProofs` | 9 | `TypeOK`, `SectorsOwned`, `DirectoriesSound`, `TableCounts`, `NextSlotFree`, `RemovedUnreachable`, `NoAssertFails` |
| `ProcessesProofs` | 8 | `TypeOK`, `PagesPartitioned`, `OwnContents`, `ProcessesCounted`, `StackGuarded`, `JoinNotEarly` |

### The kernel (`SynchProofs`, `SynchClientProofs`)

For any finite set of threads, any semaphores and locks, any initial counts and both
values of `PlaceholderExit`. The invariant is the conjunction of the properties with
`BusyWhileQueued`: a lock with waiters is busy. `LockQueues` alone allows a free lock with
waiters as long as one is awake, which a step of that thread could spoil; the code never
gets there, because `Release` frees the lock only when its queue is empty.

`SynchProofs` reduces every operation to one of five movements of threads (block, return,
wake, yield, dispatch) and shows that each keeps `OnePlace`, with lemmas on appending to
and taking from queues. `NoLostWakeup` is an argument about cardinalities: while threads
are queued on a semaphore its count is at most the number of threads woken for it and
not yet back in `P`; `V` adds one to both, a `P` that takes a unit takes one from the
count and at most one from the awake threads, and the awake threads are finite.
`HaltOnlyWhenBlocked` follows from the others: at the halt nobody is ready, so by
`OnePlace` every thread is queued, no one is awake, and the counts are 0 and the locks
busy. The lemmas are stated for the operators, not for a client, so that the two drivers
take the kernel's part of their invariant (`KernelInv`) from them.

### The drivers (`DiskDriverProofs`, `ConsoleDriverProofs`)

Disk: between `Acquire` and `Release` a thread owns the lock of its disk (`LockHeld`), and it
sleeps only where its request is (`WaitsForOwn`). With `CompletionsCounted` this is
inductive: the one thread past the request accounts for the one interrupt or unit, so
the next one finds the device idle. `ServiceCorrect` is the refinement: under the mapping
of `DiskDriver` every step is a step of `DiskService` or a stutter, where a call takes effect at
the request and its caller leaves after the end of that same request, not of another.

Console: the writer's side is the same argument with one character for one request
(`PutHeld`, `PutCounted`), and `PutProgress` ties the loop's counter to the screen
(`StringsWhole`: the strings of two threads are never mixed; no run states it, as the
refinement says more). On the reader's side at most one thread is past `P` and has the claim on
the character in the device, otherwise the semaphore has its unit (`Claimed`); a waiting
reader is polled for (`Polled`); and the number of characters taken is that of those
received plus the one in the device (`Ordered`). `GetProgress` ties the loop's counter to what was
received; as a buffer may have size 0, a reader has room left only once it is in the loop.

The console's `ServiceCorrect` takes from this invariant what the abstract console has as
guards. At most one thread is inside each loop (`OneEach`), so there is a writer and a reader
to map to; the device is idle when `PutNext` sends and when `PutEnd` leaves; the character that
`GetNext` takes is the one typed after those received. Each action is then one step of
`ConsoleService` (`BeginPutStep`, `SendStep`, ...), or changes nothing it sees (`SilentStep`:
the calls, the waits, the polls, and the kernel's own steps).

Both modules also prove `StopsCorrect`, which no run states: when the simulator stops by
itself or on an ASSERT, every thread is stuck in the `Acquire` of a lock that `Release` did
not free. Nobody is left waiting for a device.

Assumptions: the objects of a driver are its own and its semaphores start at 0 (as the
constructors have it), data is not `None`, and the byte 0xFF, which equals EOF, is not typed
(`console.cc:111`, a listed hazard).

### Simulated time and devices (`ListProofs`, `DevicesProofs`)

For any latencies, periods, geometry of the disk and machines. `ListProofs` shows that
`SortedInsert` keeps the order and adds one element and `SortedRemove` takes the first. The
invariant counts: an interrupt of a type is in the list exactly while its device is at work,
and once (`PendingInv`); a place in the code fixes the interrupt level and the thread
(`Places`); the characters got, in the register and on the line are in the order of
arrival (`InputInv`). `OnTime` is kept because the clock moves only in `OneTick` and `Idle`,
and both deliver until nothing is due before a thread runs.

`DiskTiming` needs to know what the last request left behind (`DiskInv`): the head is over its
sector, and `bufferInit` is the first sector boundary since the head is on that track. From
there the proof is arithmetic over symbolic times, which the SMT solver does not do by
itself: quotients and remainders are named as numbers with `a = b*q + r` (`Division`), and
every later fact is about products (`Distinct`, `MultipleOrder`, `SameRemainder`). `RoundUp`
shows that `ComputeLatency` rounds the end of the seek up to a boundary; `NextPass` that
`ModuloDiff` is the distance to the next period in which the sector passes, so no earlier
one was missed; `FirstPass` that this period is among those `DiskTiming` looks at. A read from
the track buffer is the case in which the sector has passed since `bufferInit`. The proof
covers every geometry, including a disk of one sector per track.

### The file system (`FileSystemProofs`)

For any disk, sector size, room in the headers, directory and table sizes, any names, paths of
any length and any finite number of open files, under two limits (`Limits`): a file has
one spelling (`SpelledOnce`), and the first header sector has room for the sector numbers of
every file up to `MaxFileSize` (`HeadersFit`). Directories may be of any size: they never
grow, and `RoomForAll` shows that the header sectors `Allocate` takes hold all of their
sector numbers. Neither limit can be dropped:
`remove_alias` and `header_growth` show what the code does outside them. As a file can be
created empty and grown to any size, `HeadersFit` is what remains when no growth is to need
another header sector.

The invariant has four parts that the properties do not say.

- `Tree`: the directories that a path leads to have entries, two paths never lead to the
  same header, none to that of the root. It speaks of all paths, not only of those user
  programs spell: removing an entry cuts off everything under it. `FindDir` is a recursive
  function along the path; `WalkExists` and `WalkPrefix` show by least counterexample (over
  `LeastNatural`) that it is one and that the way to a parent is a part of the way to its
  child, which gives `DirSteps`, and `PathInduction`. `EditedPaths` then says what all
  paths lead to after one entry was changed, once for `Create`, `Mkdir`, `Remove` and `Rmdir`.
- `Own`: every copy of a header (on disk, in the table, in an open file) is complete, its
  sectors are marked and not those of the bitmap or the root, and copies of different files
  have no sector in common. Copies of the same file may differ: a write grows one of them.
  `OwnAdded` and `OwnFreed` are the two ways it changes: a copy takes clear sectors beyond
  those of an older one; the last copy of a file gives all of its sectors back. `FindClear`
  shows that `Find` returns clear sectors (`Ranked`: the elements of a finite set of numbers
  have every rank), `ReadBack` that a header that fits is read as it was written.
- `Imaged`: the header of whatever is reached or in the table is on disk, and is not
  overwritten with data (`HeadersKept`); what is in the table is no directory.
- `Named`: a file marked `ToBeDeleted` is not reached; any other in the table is reached under
  its own name or not at all (the directory it is in may have been cut off, the last of the
  disagreements in section 3); no two entries have the same sector.

They meet in `Close`: by `TableCounts` the last user's object is the last with that name, by
`Named` no path and no other entry has the sector, so `OwnFreed` applies and the ASSERT
in `BitMap::Clear` holds. `OpenDataKeptCorrect` follows from `Own`: what
`remove_alias` violates holds within the limits, so that nothing but the second spelling
is to blame there.

Assumptions beyond types: finitely many `OpenFile` objects, a disk of more than two sectors, and
`None` is no object. TLC evaluates the properties of the theorems, and checked the invariant
with its paths cut to the ones of the instance.

### Processes and memory (`ProcessesProofs`)

For any number of pages, processes, threads and object numbers, and any executables whose
sections do not overlap. The invariant has a part for control (threads against the
processor, processes against the threads in them and those that load them, numbers against
the threads they were given to, what a thread in `Join` looks at) and one for memory (the
free list without repetitions, pages and entries that point to each other, nothing mapped
beyond `freePageId`, how far a program is loaded). Of finished threads it says only that what
`g_thread_to_be_destroyed` names has finished: others may have finished and been forgotten.
The two parts meet in three places: a process is deleted only with its last Thread object; the page being read from disk is mapped and not valid
only while its loader sleeps; and stacks belong to live processes. `Cardinality` comes in
through `numThreads`, so the set of threads is finite. `AssertionsCorrect` says that the
ASSERTs of `Process::~Process` and of the physical memory cannot fail.

Assumptions beyond types: the sections of a file do not overlap (an ELF file with loadable
sections on the same page would trip the loader; the linker does not make one), `None` is no
object, and the address arithmetic does not reach its width (`MmuAssumption`).

### Only model-checked

- Liveness under fairness (`RequestsReturn`): outside the prover's reach.
- `MatchesHardware`, `ModifiedPagesKnown` and `TypeOK` of `Processor`: the module takes bit
  fields with bitwise operators, with which the prover loses its SMT backend, and its widths
  are powers of 2 with a symbolic exponent, of which the backends know not even that they are
  numbers.
- `StringsCorrect`, `FormatCorrect`: the loops of the library are recursive operators, and
  what they compute for every input is an induction over data.

## 5. Not modelled

- Condition variables, the ACIA driver, `EvictPage`, `PageFault`, `Mmap`: bodies that print
  and exit. The swap manager has no caller in the tree; the swap disk's driver is modelled.
- The file system under two callers. `filesys.cc:34` declares it unsupported, and a
  bitmap read before a sleep in the disk driver and written back after it does lose updates;
  `FileSystem` has one step per call.
- The loader beside the open-file table: executables in `Processes` do not change while
  they are loaded.
- The configuration parser, statistics, error messages, listing and printing, host
  wrappers (sockets, files, signals), the traversal of ELF section tables and the test
  programs: plain input and output, or formats without state of their own.
- The swap and I/O bits of a table entry, which only stubs use.
- Instructions with an undefined `funct3`, and the memory behind locals and arrays that the code
  overruns (`ReadMem` into a narrow local, the buffer of `WriteBack`, the 0 of `GetString`).
- Files longer than `MAX_FILE_LENGTH` and the ASSERTs that refuse them.

## 6. Plan

The safety invariants of the kernel, the drivers, the devices, the file system and the
processes are proved, and so are the refinements of the two drivers. What is worth adding:

- `Processor`: with the widths given by a table of numbers in place of powers of 2, and the bit
  fields by quotients and remainders, `ModifiedPagesKnown` would come within reach.
- `UserLib`: the string functions as recursive functions, if the prover learns to instantiate
  an induction theorem.
