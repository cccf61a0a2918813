------------------------------ MODULE Processes ------------------------------
(***************************************************************************)
(* Processes, their threads and their memory: the physical pages of        *)
(* vm/physMem.cc, the address spaces of kernel/addrspace.cc, the ELF       *)
(* loader, the life of Process and Thread objects, and the system calls    *)
(* Exec, NewThread, Join, Yield and Exit.                                  *)
(*                                                                         *)
(* One thread runs at a time and keeps the processor until it sleeps in a  *)
(* disk read of the loader, yields or finishes.  The bodies of             *)
(* Thread::Start and Thread::Finish, the deletion in Scheduler::SwitchTo   *)
(* and the list g_alive are missing from the tree; they follow their       *)
(* comments and callers.                                                   *)
(***************************************************************************)
EXTENDS Mmu, List

CONSTANTS
  Procs,            \* addresses of Process objects (each with its AddrSpace)
  Threads,          \* addresses of Thread objects
  Boot, Main,       \* the process and the thread the kernel starts with
  Files,            \* executables; a file not in the disk has no sections
  Header,           \* ELF header of a file
  Sections,         \* pages of the sections to load, in file order
  StackPages,       \* divRoundUp(UserStackSize, PageSize)
  STACK_BLANK_LEN,  \* unmapped pages below a stack
  MaxIds,           \* bound: object identifiers given out
  None

\* The pages of the sections.  aligned: its section begins on a page boundary.
Pages == [vpage : Nat, write : BOOLEAN, nobits : BOOLEAN, short : BOOLEAN, aligned : BOOLEAN]

\* The sections of an executable do not overlap: each has pages of its own.
ASSUME ProcessesAssumption ==
  /\ Boot \in Procs /\ Main \in Threads /\ IsFiniteSet(Threads)
  /\ None \notin Procs \cup Threads \cup Files
  /\ \A f \in Files :
       /\ Sections[f] \in Seq(Pages)
       /\ \A i, j \in 1 .. Len(Sections[f]) : Sections[f][i].vpage = Sections[f][j].vpage => i = j
  /\ PageSize = 1 /\ 2^AddrBits \in Nat /\ 2^AddrBits > MaxVirtPages + 1
  /\ StackPages \in Nat \ {0} /\ STACK_BLANK_LEN \in Nat /\ MaxIds \in Nat

VARIABLES
  free_page_list,  \* physical pages, the next one to use first
  tpr,             \* table of physical pages
  table,           \* translation table of each process
  freePageId,      \* first virtual page not yet allocated, of each process
  numThreads,
  proc,            \* state of each Process object
  exec_file,       \* its program
  content,         \* whose data a physical page holds; {} when it is zeroed
  thread,          \* what each Thread object is and does
  running,         \* g_current_thread, None while a switch is under way
  g_thread_to_be_destroyed,
  ids,             \* objects of g_object_addrs, the first one has number 3
  finished,        \* numbers whose thread has finished
  stacks,          \* <<process, base>> of the stacks in use
  status           \* "run", or how the kernel stopped

memory == <<free_page_list, tpr, table, freePageId, content>>
objects == <<numThreads, proc, exec_file, stacks>>
switching == <<running, g_thread_to_be_destroyed>>
names == <<ids, finished>>
vars == <<memory, objects, thread, switching, names, status>>

Old == "old"    \* data of a deleted process
NoThread == [state |-> "none", pc |-> "user", proc |-> None, child |-> None, file |-> None,
             next |-> 0, id |-> 0, target |-> None]
NoEntry == PageTableEntry(-1)
FirstId == 3
IdOf(t) == CHOOSE i \in 1 .. Len(ids) : ids[i] = t /\ i + FirstId - 1 \notin finished

TypeOK ==
  /\ free_page_list \in Seq(PhysPages)
  /\ tpr \in [PhysPages -> [free : BOOLEAN, locked : BOOLEAN,
                            owner : Procs \cup {None}, virtualPage : Nat]]
  /\ table \in [Procs -> Tables] /\ freePageId \in [Procs -> 0 .. MaxVirtPages]
  /\ numThreads \in [Procs -> 0 .. Cardinality(Threads)]
  /\ proc \in [Procs -> {"none", "loading", "live", "leaked"}]
  /\ exec_file \in [Procs -> Files \cup {None}]
  /\ content \in [PhysPages -> SUBSET (Procs \cup {Old})]
  /\ thread \in [Threads -> [state : {"none", "ready", "running", "disk", "finished"},
                             pc : {"start", "user", "header", "load", "reading", "join"},
                             proc : Procs \cup {None}, child : Procs \cup {None},
                             file : Files \cup {None}, next : Nat, id : Nat,
                             target : Threads \cup {None}]]
  /\ running \in Threads \cup {None}
  /\ g_thread_to_be_destroyed \in Threads \cup {None}
  /\ ids \in Seq(Threads) /\ Len(ids) <= MaxIds
  /\ finished \subseteq FirstId .. MaxIds + FirstId - 1
  /\ stacks \subseteq Procs \X VirtPages
  /\ status \in {"run", "halted", "exited", "full", "unaligned", "assert"}

\* Every physical page is free.
PhysicalMemManager ==
  /\ free_page_list = [i \in 1 .. NumPhysPages |-> i - 1]
  /\ tpr = [pp \in PhysPages |-> [free |-> TRUE, locked |-> FALSE, owner |-> None, virtualPage |-> 0]]

TranslationTable == [v \in VirtPages |-> NoEntry]

\* After Initialize: the main thread, in a process without program.
Init ==
  /\ PhysicalMemManager
  /\ table = [p \in Procs |-> TranslationTable]
  /\ freePageId = [p \in Procs |-> 0]
  /\ numThreads = [p \in Procs |-> IF p = Boot THEN 1 ELSE 0]
  /\ proc = [p \in Procs |-> IF p = Boot THEN "live" ELSE "none"]
  /\ exec_file = [p \in Procs |-> None]
  /\ content = [pp \in PhysPages |-> {}]
  /\ thread = [t \in Threads |-> IF t = Main THEN [NoThread EXCEPT !.state = "running", !.proc = Boot]
                                 ELSE NoThread]
  /\ running = Main /\ g_thread_to_be_destroyed = None
  /\ ids = <<>> /\ finished = {} /\ stacks = {}
  /\ status = "run"

----------------------------------------------------------------------------
(* Physical pages and virtual areas *)

\* The tests of the assertions; a failed one aborts the kernel.
ASSERT(test) == status' = IF test THEN status ELSE "assert"

FindFreePage == Remove(free_page_list)

\* A page taken for virtual page v of process p.
Taken(tp, pp, p, v) ==
  [tp EXCEPT ![pp] = [free |-> FALSE, locked |-> TRUE, owner |-> p, virtualPage |-> v]]

\* fault: Alloc does not look at the size of the table.
FitsAlways(first, numPages) == first + numPages >= 0

\* AddrSpace::Alloc: the last page of the table is never given out.
Fits(first, numPages) == first + numPages < MaxVirtPages

\* fault: the last virtual page is left out.
ValidPagesShort(p) == {v \in 0 .. freePageId[p] - 2 : table[p][v].valid}

\* The pages ~AddrSpace returns: those with a valid entry, in virtual order,
\* each put at the front of the list.
ValidPages(p) == {v \in 0 .. freePageId[p] - 1 : table[p][v].valid}
FreedList(p) ==
  LET f[v \in 0 .. MaxVirtPages] ==
        IF v = 0 THEN free_page_list
        ELSE IF v - 1 \in ValidPages(p) THEN Prepend(f[v - 1], table[p][v - 1].phys) ELSE f[v - 1]
  IN f[freePageId[p]]
FreedPages(p) == {table[p][v].phys : v \in ValidPages(p)}

----------------------------------------------------------------------------
(* The processor and the disk *)

Running(t) == status = "run" /\ running = t
User(t) == Running(t) /\ thread[t].pc = "user"
IsBoot(t) == thread[t].proc = Boot

\* The loader sleeps in the disk driver.
Sleep(t, th) ==
  /\ thread' = [thread EXCEPT ![t] = [th EXCEPT !.state = "disk"]]
  /\ running' = None

DiskDone(t) ==
  /\ status = "run" /\ thread[t].state = "disk"
  /\ thread' = [thread EXCEPT ![t].state = "ready"]
  /\ UNCHANGED <<memory, numThreads, proc, exec_file, running, g_thread_to_be_destroyed, ids, finished,
                 stacks, status>>

\* fault: the count is tested before it is decremented.
LastThreadLate(p) == numThreads[p] = 0

LastThread(p) == numThreads[p] - 1 = 0

\* ~AddrSpace
DeleteAddrSpace(p) ==
  /\ free_page_list' = FreedList(p)
  /\ tpr' = [pp \in PhysPages |->
               IF pp \in FreedPages(p)
               THEN [tpr[pp] EXCEPT !.free = TRUE, !.locked = FALSE] ELSE tpr[pp]]
  /\ table' = [table EXCEPT ![p] = TranslationTable]
  /\ freePageId' = [freePageId EXCEPT ![p] = 0]
  /\ content' = [pp \in PhysPages |->
                   IF p \in content[pp] THEN (content[pp] \ {p}) \cup {Old} ELSE content[pp]]
  /\ stacks' = {s \in stacks : s[1] # p}

\* ~Process
DeleteProcess(p) ==
  /\ ASSERT(numThreads'[p] = 0 /\ \A pp \in FreedPages(p) : ~tpr[pp].free)
  /\ proc' = [proc EXCEPT ![p] = "none"]
  /\ exec_file' = [exec_file EXCEPT ![p] = None]
  /\ DeleteAddrSpace(p)

\* ~Thread; the last thread takes the process with it.
Delete(t) ==
  LET p == thread[t].proc IN
  /\ numThreads' = [numThreads EXCEPT ![p] = @ - 1]
  /\ IF LastThread(p) THEN DeleteProcess(p)
     ELSE UNCHANGED <<memory, proc, exec_file, stacks, status>>

\* The deletion of the thread that finished, of which SwitchTo has the comment
\* and a message.
DeleteFinished ==
  \/ g_thread_to_be_destroyed = None /\ UNCHANGED <<memory, numThreads, proc, exec_file, stacks, status>>
  \/ g_thread_to_be_destroyed # None /\ Delete(g_thread_to_be_destroyed)

\* A thread that never ran is entered here, and not in the middle of SwitchTo: it
\* does not delete the thread that finished before it.
StartThreadExecution(t) ==
  /\ thread[t].pc = "start"
  /\ thread' = [thread EXCEPT ![t].state = "running", ![t].pc = "user"]
  /\ UNCHANGED <<memory, objects, g_thread_to_be_destroyed, status>>

\* The end of SwitchTo, in a thread that goes on where it was interrupted.
Resume(t) ==
  /\ thread[t].pc # "start"
  /\ g_thread_to_be_destroyed' = None
  /\ thread' = [u \in Threads |-> IF u = t THEN [thread[t] EXCEPT !.state = "running"]
                                  ELSE IF u = g_thread_to_be_destroyed THEN NoThread
                                  ELSE thread[u]]
  /\ DeleteFinished

\* Scheduler::SwitchTo
SwitchTo(t) ==
  /\ status = "run" /\ running = None /\ thread[t].state = "ready"
  /\ running' = t
  /\ StartThreadExecution(t) \/ Resume(t)
  /\ UNCHANGED <<ids, finished>>

\* Interrupt::Idle with nothing to wait for.
Idle ==
  /\ status = "run" /\ running = None
  /\ \A t \in Threads : thread[t].state \notin {"ready", "disk"}
  /\ status' = "halted"
  /\ UNCHANGED <<memory, numThreads, proc, exec_file, thread, running, g_thread_to_be_destroyed, ids,
                 finished, stacks>>

----------------------------------------------------------------------------
(* SC_EXEC: the loader *)

\* The tests of an ELF header, in their order.  faults names what is wrong with
\* the other fields of a header.
CheckHeader(h, class) ==
  IF h.class # class \/ h.faults \cap {"magic", "version"} # {} THEN "EXEC_FILE_FORMAT_ERROR"
  ELSE IF h.data # "little" THEN "WRONG_FILE_ENDIANESS"
  ELSE IF h.faults # {} THEN "EXEC_FILE_FORMAT_ERROR"
  ELSE "NO_ERROR"
CheckELF32Header(h) == CheckHeader(h, "32")
CheckELF64Header(h) == CheckHeader(h, "64")
ElfFile(h) == IF h.class = "32" THEN CheckELF32Header(h) ELSE CheckELF64Header(h)

\* The main thread loads the first program, as the system call does.
MayExec(t) == User(t) /\ (IsBoot(t) => ids = <<>>) /\ Len(ids) < MaxIds

\* The executable does not exist: the new Process object is abandoned.
ExecMissing(t, f, p) ==
  /\ MayExec(t) /\ proc[p] = "none" /\ Header[f] = None
  /\ IF IsBoot(t) THEN status' = "exited" /\ UNCHANGED proc
     ELSE proc' = [proc EXCEPT ![p] = "leaked"] /\ UNCHANGED status
  /\ UNCHANGED <<memory, numThreads, exec_file, stacks, thread, switching, names>>

ExecCall(t, f, p) ==
  /\ MayExec(t) /\ proc[p] = "none" /\ Header[f] # None
  /\ proc' = [proc EXCEPT ![p] = "loading"]
  /\ exec_file' = [exec_file EXCEPT ![p] = f]
  /\ Sleep(t, [thread[t] EXCEPT !.pc = "header", !.child = p, !.file = f])
  /\ UNCHANGED <<memory, numThreads, stacks, g_thread_to_be_destroyed, names, status>>

\* Pages up to mem_topaddr.
TopPage(f) == LET tops == {0} \cup {Sections[f][i].vpage + 1 : i \in 1 .. Len(Sections[f])}
              IN CHOOSE v \in tops : \A w \in tops : w <= v

\* The header is there: a wrong one ends the kernel, and so does a program too
\* large for the translation table.
HeaderRead(t) ==
  LET f == thread[t].file  p == thread[t].child
      good == Header[f].class \in {"32", "64"} /\ ElfFile(Header[f]) = "NO_ERROR"
      fits == Fits(0, TopPage(f))
  IN
  /\ Running(t) /\ thread[t].pc = "header"
  /\ status' = IF ~good THEN "exited" ELSE IF ~fits THEN "full" ELSE status
  /\ freePageId' = [freePageId EXCEPT ![p] = IF good /\ fits THEN TopPage(f) ELSE 0]
  /\ thread' = [thread EXCEPT ![t].pc = "load", ![t].next = 1]
  /\ UNCHANGED <<free_page_list, tpr, table, content, objects, switching, names>>

\* fault: a page is not cleared.
ZeroedNot(pages) == content

\* memset
Zeroed(pages) == [pp \in PhysPages |-> IF pp \in pages THEN {} ELSE content[pp]]

\* A page of a section: it gets a physical page, is cleared or read from the
\* file, and only then valid.
LoadPage(t) ==
  LET th == thread[t]
      p == th.child  s == Sections[th.file][th.next]  pp == Head(free_page_list)
      readable == setBitReadAllowed(table[p], s.vpage)
      allowed == IF s.write THEN setBitWriteAllowed(readable, s.vpage)
                 ELSE clearBitWriteAllowed(readable, s.vpage)
      mapped == setPhysicalPage(allowed, s.vpage, pp)
  IN
  /\ Running(t) /\ th.pc = "load" /\ th.next <= Len(Sections[th.file])
  /\ s.aligned /\ free_page_list # <<>>
  /\ ASSERT(tpr[pp].free)
  /\ free_page_list' = FindFreePage
  /\ tpr' = Taken(tpr, pp, p, s.vpage)
  /\ table' = [table EXCEPT ![p] = IF s.nobits THEN setBitValid(mapped, s.vpage) ELSE mapped]
  /\ \/ /\ s.nobits
        /\ content' = Zeroed({pp})
        /\ thread' = [thread EXCEPT ![t].next = @ + 1]
        /\ UNCHANGED running
     \/ /\ ~s.nobits
        /\ Sleep(t, [th EXCEPT !.pc = "reading"])
        /\ UNCHANGED content
  /\ UNCHANGED <<freePageId, objects, g_thread_to_be_destroyed, names>>

\* The read stops at the end of the file: the rest of a short page keeps what it
\* held.
PageRead(t) ==
  LET th == thread[t]
      p == th.child  s == Sections[th.file][th.next]  pp == getPhysicalPage(table[p], s.vpage)
  IN
  /\ Running(t) /\ th.pc = "reading"
  /\ content' = [content EXCEPT ![pp] = {p} \cup (IF s.short THEN @ ELSE {})]
  /\ table' = [table EXCEPT ![p] = setBitValid(@, s.vpage)]
  /\ thread' = [thread EXCEPT ![t].pc = "load", ![t].next = @ + 1]
  /\ UNCHANGED <<free_page_list, tpr, freePageId, objects, switching, names, status>>

\* The load stops the kernel: the next section does not begin on a page boundary,
\* which an assertion on the executable refuses, or no physical page is left.
LoadStops(t) ==
  LET th == thread[t]  s == Sections[th.file][th.next] IN
  /\ Running(t) /\ th.pc = "load" /\ th.next <= Len(Sections[th.file])
  /\ \/ ~s.aligned /\ status' = "unaligned"
     \/ s.aligned /\ free_page_list = <<>> /\ status' = "halted"
  /\ UNCHANGED <<memory, objects, thread, switching, names>>

----------------------------------------------------------------------------
(* Threads *)

\* fault: nothing is left unmapped below the stack.
StackBaseTight(p) == freePageId[p]

\* AddrSpace::StackAllocate: the result of the first Alloc, for the unmapped
\* pages, is not looked at.
StackBase(p) ==
  freePageId[p] + (IF Fits(freePageId[p], STACK_BLANK_LEN) THEN STACK_BLANK_LEN ELSE 0)

StackAllocate(p) ==
  LET base == StackBase(p)
      page(v) == free_page_list[v - base + 1]
      new == {free_page_list[i] : i \in 1 .. StackPages}
  IN
  /\ ASSERT(\A pp \in new : tpr[pp].free)
  /\ free_page_list' = SubSeq(free_page_list, StackPages + 1, Len(free_page_list))
  /\ tpr' = [pp \in PhysPages |->
               IF pp \in new
               THEN [free |-> FALSE, locked |-> TRUE, owner |-> p,
                     virtualPage |-> CHOOSE v \in base .. base + StackPages - 1 : page(v) = pp]
               ELSE tpr[pp]]
  /\ table' = [table EXCEPT ![p] = [v \in VirtPages |->
                 IF v \in base .. base + StackPages - 1
                 THEN [NoEntry EXCEPT !.phys = page(v), !.valid = TRUE, !.read = TRUE, !.write = TRUE]
                 ELSE @[v]]]
  /\ content' = Zeroed(new)
  /\ freePageId' = [freePageId EXCEPT ![p] = base + StackPages]
  /\ stacks' = stacks \cup {<<p, base>>}

\* The number of an object is its place in g_object_addrs.
AddObject(u) == Len(ids) < MaxIds /\ ids' = Append(ids, u)

SearchObject(id) == IF id < FirstId + Len(ids) THEN ids[id - FirstId + 1] ELSE None

\* new Thread, at an address that is free.
NewObject(u) == thread[u].state = "none"

\* A thread that was never switched to: its context begins in
\* StartThreadExecution.
NewThreadAt(p) == [NoThread EXCEPT !.state = "ready", !.pc = "start", !.proc = p]

\* Thread::Start, called by t: its body is missing; by its comment it attaches
\* the thread to the process, gives it a stack and makes it ready.  A stack that
\* fits no more ends the kernel.  caller is thread t after the call.
Start(t, caller, p, u) ==
  /\ numThreads' = [numThreads EXCEPT ![p] = @ + 1]
  /\ proc' = [proc EXCEPT ![p] = "live"]
  /\ thread' = [thread EXCEPT ![t] = caller, ![u] = NewThreadAt(p)]
  /\ \/ ~Fits(StackBase(p), StackPages) /\ status' = "full" /\ UNCHANGED <<memory, stacks>>
     \/ /\ Fits(StackBase(p), StackPages) /\ Len(free_page_list) < StackPages
        /\ status' = "halted" /\ UNCHANGED <<memory, stacks>>
     \/ /\ Fits(StackBase(p), StackPages) /\ Len(free_page_list) >= StackPages
        /\ StackAllocate(p)
  /\ UNCHANGED <<exec_file, switching, finished>>

\* SC_EXEC ends with a thread in the new process.
ExecEnd(t, u) ==
  LET th == thread[t] IN
  /\ Running(t) /\ th.pc = "load" /\ th.next > Len(Sections[th.file])
  /\ NewObject(u) /\ AddObject(u)
  /\ Start(t, [th EXCEPT !.pc = "user", !.child = None, !.file = None, !.next = 0], th.child, u)

\* SC_NEW_THREAD
NewThread(t, u) ==
  /\ User(t) /\ ~IsBoot(t)
  /\ NewObject(u) /\ AddObject(u)
  /\ Start(t, thread[t], thread[t].proc, u)

\* Stores to the virtual pages vs, in order, up to one that does not translate:
\* the page fault manager exits, the other exceptions halt the machine.
Stores(t, vs) ==
  LET p == thread[t].proc
      exc == [i \in DOMAIN vs |-> Translate(table[p], vs[i], 1, TRUE)]
      done == {i \in DOMAIN vs : \A j \in 1 .. i : exc[j] = "NO_EXCEPTION"}
      stored == {vs[i] : i \in done}
  IN
  /\ User(t) /\ ~IsBoot(t)
  /\ LET pages == {getPhysicalPage(table[p], v) : v \in stored} IN
     content' = [pp \in PhysPages |-> IF pp \in pages THEN content[pp] \cup {p} ELSE content[pp]]
  /\ table' = [table EXCEPT ![p] = [v \in VirtPages |->
                 IF v \in stored THEN Accessed(@, v, TRUE)[v] ELSE @[v]]]
  /\ status' = IF done = DOMAIN vs THEN status
               ELSE IF exc[Cardinality(done) + 1] = "PAGEFAULT_EXCEPTION" THEN "exited" ELSE "halted"
  /\ UNCHANGED <<free_page_list, tpr, freePageId, objects, thread, switching, names>>

UserWrite(t, v) == Stores(t, <<v>>)

\* SC_SYS_TIME: two words, the second perhaps on the page after the first.
SysTime(t, v) == \E w \in {v, v + 1} : Stores(t, <<v, w>>)

\* The kernel stops in a system call or an exception of t.
StopIn(t, how) ==
  /\ User(t) /\ ~IsBoot(t)
  /\ status' = how
  /\ UNCHANGED <<memory, objects, thread, switching, names>>

\* SC_HALT
Halt(t) == StopIn(t, "halted")

\* An access that Translate refuses before it touches a page: one of 2 or 4 bytes at
\* an address that is no multiple of its size, or a read of an unmapped page.
FatalAccess(t) == StopIn(t, "halted")

\* SC_MMAP: AddrSpace::Mmap is a body that exits; any object passes for a file.
Mmap(t, id) == SearchObject(id) # None /\ StopIn(t, "exited")

\* A number without a case among the system calls: those of the semaphore calls
\* too, whose cases are in the switch over the exceptions.
InvalidCall(t) == StopIn(t, "exited")

\* SC_YIELD
Yield(t) ==
  /\ User(t) /\ ~IsBoot(t) /\ \E u \in Threads : thread[u].state = "ready"
  /\ thread' = [thread EXCEPT ![t].state = "ready"]
  /\ running' = None
  /\ UNCHANGED <<memory, objects, g_thread_to_be_destroyed, names, status>>

\* g_alive
Alive(u) == thread[u].state \notin {"none", "finished"}

\* SC_JOIN: the object of a finished thread has been deleted, and its type is
\* read all the same: it is that of the Thread object now at this address, if any.
JoinCall(t, id) ==
  LET obj == SearchObject(id)
      isThread == obj # None /\ thread[obj].state # "none"
  IN
  /\ User(t) /\ ~IsBoot(t)
  /\ thread' = [thread EXCEPT ![t].pc = "join", ![t].id = id,
                              ![t].target = IF isThread THEN obj ELSE None]
  /\ UNCHANGED <<memory, objects, switching, names, status>>

\* fault: the ready list is searched.
WaitingReady(t) == \E u \in Threads : thread[t].target = u /\ thread[u].state = "ready"

\* Thread::Join
Waiting(t) == \E u \in Threads : thread[t].target = u /\ Alive(u)

JoinYield(t) ==
  /\ Running(t) /\ thread[t].pc = "join" /\ Waiting(t)
  /\ \E u \in Threads : thread[u].state = "ready"
  /\ thread' = [thread EXCEPT ![t].state = "ready"]
  /\ running' = None
  /\ UNCHANGED <<memory, objects, g_thread_to_be_destroyed, names, status>>

JoinReturn(t) ==
  /\ Running(t) /\ thread[t].pc = "join"
  /\ ~Waiting(t)
  /\ thread' = [thread EXCEPT ![t].pc = "user", ![t].id = 0, ![t].target = None]
  /\ UNCHANGED <<memory, objects, switching, names, status>>

\* Thread::Finish, whose body is incomplete: by its comment the thread is
\* deleted by SwitchTo.  A thread that finished before and was not deleted yet
\* is forgotten, and keeps its object, its process and the pages of that.
Finish(t) ==
  /\ thread' = [thread EXCEPT ![t].state = "finished"]
  /\ finished' = IF IsBoot(t) THEN finished ELSE finished \cup {IdOf(t) + FirstId - 1}
  /\ g_thread_to_be_destroyed' = t
  /\ running' = None
  /\ UNCHANGED <<memory, objects, ids, status>>

\* SC_EXIT
Exit(t) == User(t) /\ ~IsBoot(t) /\ Finish(t)

\* The end of main, after it started the first program or when none was named.
MainEnd(t) == User(t) /\ IsBoot(t) /\ Finish(t)

Next ==
  \/ Idle
  \/ \E t \in Threads :
       \/ DiskDone(t) \/ SwitchTo(t)
       \/ \E f \in Files, p \in Procs \ {Boot} : ExecMissing(t, f, p) \/ ExecCall(t, f, p)
       \/ HeaderRead(t) \/ LoadPage(t) \/ PageRead(t) \/ LoadStops(t)
       \/ \E u \in Threads : ExecEnd(t, u) \/ NewThread(t, u)
       \/ \E v \in 0 .. MaxVirtPages : UserWrite(t, v) \/ SysTime(t, v)
       \/ Yield(t) \/ JoinYield(t) \/ JoinReturn(t) \/ Exit(t) \/ MainEnd(t)
       \/ \E id \in FirstId .. FirstId + MaxIds : JoinCall(t, id) \/ Mmap(t, id)
       \/ Halt(t) \/ FatalAccess(t) \/ InvalidCall(t)

Spec == Init /\ [][Next]_vars

----------------------------------------------------------------------------
(* Properties *)

\* Every physical page is either in the free list, once, or belongs to one
\* virtual page of one existing address space whose entry points back to it: no
\* page serves two when loads interleave and processes end, and ~AddrSpace gives
\* back all the pages of its process.
PagesPartitioned ==
  /\ \A i, j \in 1 .. Len(free_page_list) :
       free_page_list[i] = free_page_list[j] => i = j
  /\ \A pp \in PhysPages :
       tpr[pp].free <=> \E i \in 1 .. Len(free_page_list) : free_page_list[i] = pp
  /\ \A pp \in PhysPages : ~tpr[pp].free =>
       LET p == tpr[pp].owner  v == tpr[pp].virtualPage IN
       /\ proc[p] \in {"loading", "live"} /\ v < freePageId[p]
       /\ table[p][v].phys = pp /\ table[p][v].read
  /\ \A p \in Procs, v \in VirtPages : table[p][v].valid =>
       LET pp == table[p][v].phys IN
       ~tpr[pp].free /\ tpr[pp].owner = p /\ tpr[pp].virtualPage = v

\* What a program can read is its own: a valid page holds zeroes, its image or
\* its own stores, never the data of a process that had the page before.  The
\* exception is the page the file ends in, which the loader does not clear.
OwnContents ==
  \A p \in Procs, v \in VirtPages : table[p][v].valid =>
    \/ content[table[p][v].phys] \subseteq {p}
    \/ \E i \in 1 .. Len(Sections[exec_file[p]]) :
         Sections[exec_file[p]][i].vpage = v /\ Sections[exec_file[p]][i].short

\* A process counts the Thread objects in it, those that finished and await their
\* deletion (or are never deleted) among them; it is deleted with the last of
\* these objects and not before, and one without threads is being loaded by
\* exactly one thread.
ProcessesCounted ==
  \A p \in Procs :
    /\ numThreads[p] = Cardinality({t \in Threads : thread[t].proc = p})
    /\ proc[p] = "live" <=> numThreads[p] > 0
    /\ proc[p] = "loading" <=> (numThreads[p] = 0 /\ \E t \in Threads : thread[t].child = p)
    /\ Cardinality({t \in Threads : thread[t].child = p}) <= 1

\* Below each stack there are STACK_BLANK_LEN unmapped pages that catch its
\* overflow, unless the translation table had no room for them.
StackGuarded ==
  \A s \in stacks :
    \/ \A v \in s[2] - STACK_BLANK_LEN .. s[2] - 1 :
         v \in VirtPages /\ ~table[s[1]][v].read /\ ~table[s[1]][v].write
    \/ ~Fits(s[2], STACK_BLANK_LEN)

\* Join returns only once the thread the number was given to has finished (or
\* the number was never given), also when its address serves another thread.
JoinNotEarly ==
  [][\A t \in Threads :
       thread[t].pc = "join" /\ thread'[t].pc = "user" /\ thread'[t].state = "running" =>
         thread[t].id \in finished \/ thread[t].id >= FirstId + Len(ids)]_vars

=============================================================================
