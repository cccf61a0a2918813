--------------------------- MODULE ProcessesProofs ---------------------------
(***************************************************************************)
(* The safety properties of processes, their threads and their memory, for *)
(* every number of physical and virtual pages, every set of executables    *)
(* whose sections do not overlap, and any number of processes and threads. *)
(***************************************************************************)
EXTENDS Processes, ListProofs

-----------------------------------------------------------------------------
(* The inductive invariant *)

Stages == {"header", "load", "reading"}
Unfinished(i) == i \in 1 .. Len(ids) /\ i + FirstId - 1 \notin finished

\* The states of the Thread objects against the processor: one runs, and the one
\* to be deleted has finished.  Others that finished may have been forgotten.
ThreadsInv ==
  /\ \A t \in Threads : thread[t].state = "none" => thread[t] = NoThread
  /\ \A t \in Threads : thread[t].state # "none" => thread[t].proc \in Procs
  /\ \A t \in Threads : thread[t].state = "running" <=> running = t
  /\ \A t \in Threads : g_thread_to_be_destroyed = t => thread[t].state = "finished"
  /\ \A t \in Threads : thread[t].state \in {"none", "finished"} => thread[t].pc = "user"
  /\ \A t \in Threads : thread[t].pc \in Stages <=> thread[t].child # None
  /\ \A t \in Threads : thread[t].child # Boot

\* The Process objects against the threads in them and those that load them.
ProcsInv ==
  /\ \A p \in Procs : numThreads[p] = Cardinality({t \in Threads : thread[t].proc = p})
  /\ \A p \in Procs : proc[p] = "live" <=> \E t \in Threads : thread[t].proc = p
  /\ \A p \in Procs : proc[p] = "loading" <=> \E t \in Threads : thread[t].child = p
  /\ \A t, u \in Threads : thread[t].child # None /\ thread[t].child = thread[u].child => t = u

\* A number that has not finished is that of one thread that exists.
NumbersInv ==
  /\ finished \subseteq FirstId .. Len(ids) + FirstId - 1
  /\ \A i \in 1 .. Len(ids) : Unfinished(i) => Alive(ids[i]) /\ thread[ids[i]].proc # Boot
  /\ \A i, j \in 1 .. Len(ids) : Unfinished(i) /\ Unfinished(j) /\ ids[i] = ids[j] => i = j
  /\ \A t \in Threads : Alive(t) /\ thread[t].proc # Boot =>
       \E i \in 1 .. Len(ids) : Unfinished(i) /\ ids[i] = t

\* A thread in Join looks at the thread its number was given to, unless that has
\* finished or the number was not given; then it returns before another runs.
JoinInv ==
  \A t \in Threads : thread[t].pc = "join" =>
    /\ thread[t].id \in FirstId .. FirstId + MaxIds
    /\ \/ thread[t].id \in finished
       \/ thread[t].id >= FirstId + Len(ids) /\ thread[t].target = None /\ running = t
       \/ thread[t].id < FirstId + Len(ids) /\ thread[t].target = ids[thread[t].id - FirstId + 1]

\* The free list and the table of physical pages.
FreeInv ==
  /\ \A i, j \in 1 .. Len(free_page_list) : free_page_list[i] = free_page_list[j] => i = j
  /\ \A pp \in PhysPages : tpr[pp].free <=> \E i \in 1 .. Len(free_page_list) : free_page_list[i] = pp

\* A page in use and the entry it belongs to point to each other.
MapInv ==
  /\ \A pp \in PhysPages : ~tpr[pp].free =>
       /\ tpr[pp].owner \in Procs /\ tpr[pp].virtualPage \in VirtPages
       /\ table[tpr[pp].owner][tpr[pp].virtualPage].phys = pp
       /\ table[tpr[pp].owner][tpr[pp].virtualPage].read
  /\ \A p \in Procs, v \in VirtPages : table[p][v].read =>
       /\ table[p][v].phys \in PhysPages
       /\ ~tpr[table[p][v].phys].free
       /\ tpr[table[p][v].phys].owner = p /\ tpr[table[p][v].phys].virtualPage = v
  /\ \A p \in Procs, v \in VirtPages : table[p][v].valid \/ table[p][v].write => table[p][v].read

\* Nothing is mapped beyond freePageId, and a Process object that is not in use
\* has nothing.
AreaInv ==
  /\ \A p \in Procs, v \in VirtPages : table[p][v].read => v < freePageId[p]
  /\ \A p \in Procs : proc[p] \in {"none", "leaked"} => freePageId[p] = 0
  /\ \A s \in stacks : s[2] + StackPages <= freePageId[s[1]] /\ proc[s[1]] = "live"

\* How far a program is loaded: only the page being read is mapped and not valid.
Loaded(t, v) ==
  \E i \in 1 .. Len(Sections[thread[t].file]) :
    /\ Sections[thread[t].file][i].vpage = v
    /\ i < thread[t].next \/ (i = thread[t].next /\ thread[t].pc = "reading")

ReadingPage(t, v) ==
  /\ thread[t].pc = "reading"
  /\ thread[t].next \in 1 .. Len(Sections[thread[t].file])
  /\ v = Sections[thread[t].file][thread[t].next].vpage

LoadInv ==
  /\ \A p \in Procs, v \in VirtPages : table[p][v].read /\ ~table[p][v].valid =>
       \E t \in Threads : thread[t].child = p /\ ReadingPage(t, v)
  /\ \A t \in Threads : thread[t].pc \in Stages =>
       thread[t].file \in Files /\ exec_file[thread[t].child] = thread[t].file
  /\ \A t \in Threads : thread[t].pc = "header" => freePageId[thread[t].child] = 0
  /\ \A t \in Threads : thread[t].pc \in {"load", "reading"} =>
       /\ thread[t].next >= 1
       /\ \A v \in VirtPages : table[thread[t].child][v].read => Loaded(t, v)
       /\ status = "run" => /\ freePageId[thread[t].child] = TopPage(thread[t].file)
                            /\ Fits(0, TopPage(thread[t].file))
  /\ \A t \in Threads : thread[t].pc = "reading" =>
       \E v \in VirtPages : ReadingPage(t, v) /\ table[thread[t].child][v].read

\* The assertions of the code hold.
NoAssert == status # "assert"

IInv ==
  /\ TypeOK
  /\ ThreadsInv /\ ProcsInv
  /\ NumbersInv /\ JoinInv
  /\ FreeInv /\ MapInv /\ AreaInv /\ LoadInv
  /\ OwnContents /\ StackGuarded
  /\ NoAssert

-----------------------------------------------------------------------------
(* Types *)

ThreadRecords ==
  [state : {"none", "ready", "running", "disk", "finished"},
   pc : {"start", "user", "header", "load", "reading", "join"},
   proc : Procs \cup {None}, child : Procs \cup {None},
   file : Files \cup {None}, next : Nat, id : Nat,
   target : Threads \cup {None}]

PageRecords == [free : BOOLEAN, locked : BOOLEAN, owner : Procs \cup {None}, virtualPage : Nat]

ThreadType ==
  /\ thread \in [Threads -> ThreadRecords]
  /\ running \in Threads \cup {None} /\ g_thread_to_be_destroyed \in Threads \cup {None}
  /\ ids \in Seq(Threads) /\ Len(ids) <= MaxIds
  /\ finished \subseteq FirstId .. MaxIds + FirstId - 1

ProcType ==
  /\ numThreads \in [Procs -> 0 .. Cardinality(Threads)]
  /\ proc \in [Procs -> {"none", "loading", "live", "leaked"}]

MemoryType ==
  /\ free_page_list \in Seq(PhysPages)
  /\ tpr \in [PhysPages -> PageRecords]
  /\ table \in [Procs -> Tables] /\ freePageId \in [Procs -> 0 .. MaxVirtPages]
  /\ content \in [PhysPages -> SUBSET (Procs \cup {Old})]
  /\ exec_file \in [Procs -> Files \cup {None}]
  /\ stacks \subseteq Procs \X VirtPages
  /\ status \in {"run", "halted", "exited", "full", "unaligned", "assert"}

\* The type invariant in three parts.
LEMMA TypeParts == TypeOK <=> ThreadType /\ ProcType /\ MemoryType
BY DEF TypeOK, ThreadType, ProcType, MemoryType, ThreadRecords, PageRecords

\* The constants, one fact per constant.
LEMMA Constants ==
  /\ NumPhysPages \in Nat /\ MaxVirtPages \in Nat /\ StackPages \in Nat /\ StackPages > 0
  /\ STACK_BLANK_LEN \in Nat /\ MaxIds \in Nat /\ FirstId = 3
  /\ Boot \in Procs /\ Main \in Threads
  /\ None \notin Procs /\ None \notin Threads /\ None \notin Files
  /\ PhysPages \subseteq Nat /\ VirtPages \subseteq Nat
  /\ \A v \in Nat : v < MaxVirtPages <=> v \in VirtPages
BY MmuAssumption, ProcessesAssumption DEF PhysPages, VirtPages, FirstId

\* The record of no thread, and what its fields are.
LEMMA NoThreadType ==
  /\ NoThread \in ThreadRecords
  /\ NoThread.state = "none" /\ NoThread.pc = "user" /\ NoThread.proc = None
  /\ NoThread.child = None /\ NoThread.file = None /\ NoThread.next = 0
  /\ NoThread.id = 0 /\ NoThread.target = None
BY DEF NoThread, ThreadRecords

\* The sections of an executable.
LEMMA SectionsType ==
  ASSUME NEW f \in Files
  PROVE  /\ Sections[f] \in Seq(Pages) /\ Len(Sections[f]) \in Nat
         /\ \A i \in 1 .. Len(Sections[f]) :
              /\ Sections[f][i] \in Pages
              /\ Sections[f][i].vpage \in Nat /\ Sections[f][i].write \in BOOLEAN
              /\ Sections[f][i].nobits \in BOOLEAN /\ Sections[f][i].short \in BOOLEAN
         /\ \A i, j \in 1 .. Len(Sections[f]) : Sections[f][i].vpage = Sections[f][j].vpage => i = j
<1>1. Sections[f] \in Seq(Pages)
  BY ProcessesAssumption
<1>2. \A i \in 1 .. Len(Sections[f]) : Sections[f][i] \in Pages
  BY <1>1
<1>3. \A s \in Pages : /\ s.vpage \in Nat /\ s.write \in BOOLEAN
                       /\ s.nobits \in BOOLEAN /\ s.short \in BOOLEAN
  BY DEF Pages
<1> QED BY <1>1, <1>2, <1>3, ProcessesAssumption

-----------------------------------------------------------------------------
(* Steps of a thread that stay with its own object *)

\* Thread t becomes r; the other objects and the numbers stay as they are, and
\* the thread may leave the processor or get it.
Local(t, r) ==
  /\ thread' = [thread EXCEPT ![t] = r] /\ r \in ThreadRecords
  /\ r.proc = thread[t].proc
  /\ thread[t].state \in {"running", "disk", "ready"}
  /\ \/ r.state = thread[t].state /\ running' = running
     \/ r.state \in {"ready", "disk"} /\ thread[t].state = "running" /\ running' = None
     \/ r.state = "ready" /\ thread[t].state = "disk" /\ running' = running
     \/ r.state = "running" /\ thread[t].state = "ready" /\ running = None /\ running' = t
  /\ UNCHANGED <<g_thread_to_be_destroyed, ids, finished, numThreads>>

\* The thread goes on as before as far as the loader and Join are concerned.
Paused(t, r) ==
  /\ r.pc = thread[t].pc /\ r.child = thread[t].child /\ r.file = thread[t].file
  /\ r.next = thread[t].next /\ r.id = thread[t].id /\ r.target = thread[t].target

\* The two ways to switch to a thread.
FirstRun(t) == SwitchTo(t) /\ StartThreadExecution(t)
Resumed(t) == SwitchTo(t) /\ Resume(t)

\* A thread that runs for the first time deletes nothing.
LEMMA FirstRunEffect ==
  ASSUME ThreadType, NEW t \in Threads, FirstRun(t)
  PROVE  /\ running = None /\ thread[t].pc = "start"
         /\ \E r : Local(t, r) /\ r.pc = "user" /\ r.child = thread[t].child
         /\ UNCHANGED <<memory, objects, status>>
<1>1. PICK r : r = [thread[t] EXCEPT !.state = "running", !.pc = "user"]
  OBVIOUS
<1>2. thread[t] \in ThreadRecords
  BY DEF ThreadType
<1>3. /\ r \in ThreadRecords /\ r.state = "running" /\ r.proc = thread[t].proc /\ r.pc = "user"
      /\ r.child = thread[t].child
  BY <1>1, <1>2 DEF ThreadRecords
<1>4. /\ running = None /\ running' = t /\ thread[t].state = "ready" /\ thread[t].pc = "start"
      /\ thread' = [thread EXCEPT ![t] = r]
      /\ UNCHANGED <<memory, objects, g_thread_to_be_destroyed, ids, finished, status>>
  BY <1>1, <1>2 DEF FirstRun, SwitchTo, StartThreadExecution
<1>5. Local(t, r)
  BY <1>3, <1>4 DEF Local, objects
<1> QED BY <1>3, <1>4, <1>5

\* The end of a disk request.
LEMMA DiskDoneEffect ==
  ASSUME ThreadType, NEW t \in Threads, DiskDone(t)
  PROVE  /\ status = "run"
         /\ \E r : Local(t, r) /\ Paused(t, r)
         /\ UNCHANGED <<memory, objects, status>>
<1>1. PICK r : r = [thread[t] EXCEPT !.state = "ready"]
  OBVIOUS
<1>2. thread[t] \in ThreadRecords
  BY DEF ThreadType
<1>3. /\ r \in ThreadRecords /\ r.state = "ready" /\ r.proc = thread[t].proc /\ Paused(t, r)
  BY <1>1, <1>2 DEF ThreadRecords, Paused
<1>4. thread' = [thread EXCEPT ![t] = r]
  BY <1>1 DEF DiskDone
<1>5. Local(t, r)
  BY <1>3, <1>4 DEF DiskDone, Local
<1> QED BY <1>3, <1>5 DEF DiskDone, objects

\* Yield, alone or in the loop of Join.
LEMMA YieldEffect ==
  ASSUME ThreadType, ThreadsInv, NEW t \in Threads, Yield(t) \/ JoinYield(t)
  PROVE  /\ status = "run" /\ running = t
         /\ thread[t].pc = "join" => Waiting(t)
         /\ \E r : Local(t, r) /\ Paused(t, r) /\ r.state = "ready"
         /\ UNCHANGED <<memory, objects, status>>
<1>1. PICK r : r = [thread[t] EXCEPT !.state = "ready"]
  OBVIOUS
<1>2. thread[t] \in ThreadRecords
  BY DEF ThreadType
<1>3. /\ r \in ThreadRecords /\ r.state = "ready" /\ r.proc = thread[t].proc /\ Paused(t, r)
  BY <1>1, <1>2 DEF ThreadRecords, Paused
<1>4. /\ thread' = [thread EXCEPT ![t] = r] /\ running' = None
      /\ status = "run" /\ running = t
      /\ UNCHANGED <<memory, objects, g_thread_to_be_destroyed, ids, finished, status>>
  BY <1>1 DEF Yield, JoinYield, User, Running, names
<1>5. thread[t].state = "running"
  BY <1>4 DEF ThreadsInv
<1>6. Local(t, r)
  BY <1>3, <1>4, <1>5 DEF Local, objects
<1>7. thread[t].pc = "join" => Waiting(t)
  BY DEF Yield, JoinYield, User
<1> QED BY <1>3, <1>4, <1>6, <1>7

\* The call of Join.
LEMMA JoinCallEffect ==
  ASSUME ThreadType, ThreadsInv, NEW t \in Threads, NEW id \in FirstId .. FirstId + MaxIds,
         JoinCall(t, id)
  PROVE  /\ status = "run" /\ running = t /\ thread[t].pc = "user"
         /\ \E r : /\ Local(t, r) /\ r.pc = "join" /\ r.id = id
                   /\ r.child = thread[t].child
                   /\ r.target = LET obj == SearchObject(id) IN
                        IF obj # None /\ thread[obj].state # "none" THEN obj ELSE None
         /\ running' = running
         /\ UNCHANGED <<memory, objects, status>>
<1> DEFINE obj == SearchObject(id)
<1>1. PICK goal : goal = IF obj # None /\ thread[obj].state # "none" THEN obj ELSE None
  OBVIOUS
<1>2. goal \in Threads \cup {None}
  <2>1. obj \in Threads \cup {None}
    <3>1. id < FirstId + Len(ids) => id - FirstId + 1 \in 1 .. Len(ids)
      BY Constants DEF ThreadType
    <3> QED BY <3>1 DEF SearchObject, ThreadType
  <2> QED BY <1>1, <2>1
<1>3. PICK r : r = [thread[t] EXCEPT !.pc = "join", !.id = id, !.target = goal]
  OBVIOUS
<1>4. thread[t] \in ThreadRecords /\ id \in Nat
  BY Constants DEF ThreadType
<1>5. /\ r \in ThreadRecords /\ r.state = thread[t].state /\ r.proc = thread[t].proc
      /\ r.pc = "join" /\ r.id = id /\ r.child = thread[t].child /\ r.target = goal
  BY <1>2, <1>3, <1>4 DEF ThreadRecords
<1>6. /\ thread' = [thread EXCEPT ![t] = r]
      /\ status = "run" /\ running = t /\ thread[t].pc = "user"
      /\ UNCHANGED <<memory, objects, running, g_thread_to_be_destroyed, ids, finished, status>>
  BY <1>1, <1>3 DEF JoinCall, User, Running, names, switching
<1>7. thread[t].state = "running"
  BY <1>6 DEF ThreadsInv
<1>8. Local(t, r)
  BY <1>5, <1>6, <1>7 DEF Local, objects
<1> QED BY <1>1, <1>5, <1>6, <1>8

\* The return of Join.
LEMMA JoinReturnEffect ==
  ASSUME ThreadType, ThreadsInv, NEW t \in Threads, JoinReturn(t)
  PROVE  /\ status = "run" /\ running = t /\ thread[t].pc = "join" /\ ~Waiting(t)
         /\ \E r : Local(t, r) /\ r.pc = "user" /\ r.child = thread[t].child
         /\ running' = running
         /\ UNCHANGED <<memory, objects, status>>
<1>1. PICK r : r = [thread[t] EXCEPT !.pc = "user", !.id = 0, !.target = None]
  OBVIOUS
<1>2. thread[t] \in ThreadRecords
  BY DEF ThreadType
<1>3. /\ r \in ThreadRecords /\ r.state = thread[t].state /\ r.proc = thread[t].proc
      /\ r.pc = "user" /\ r.child = thread[t].child
  BY <1>1, <1>2 DEF ThreadRecords
<1>4. /\ thread' = [thread EXCEPT ![t] = r]
      /\ status = "run" /\ running = t /\ thread[t].pc = "join" /\ ~Waiting(t)
      /\ UNCHANGED <<memory, objects, running, g_thread_to_be_destroyed, ids, finished, status>>
  BY <1>1 DEF JoinReturn, Running, names, switching
<1>5. thread[t].state = "running"
  BY <1>4 DEF ThreadsInv
<1>6. Local(t, r)
  BY <1>3, <1>4, <1>5 DEF Local, objects
<1> QED BY <1>3, <1>4, <1>6

\* The call of Exec of a file that exists.
LEMMA ExecCallEffect ==
  ASSUME ThreadType, ThreadsInv, NEW t \in Threads, NEW f \in Files, NEW p \in Procs \ {Boot},
         ExecCall(t, f, p)
  PROVE  /\ status = "run" /\ running = t /\ thread[t].pc = "user" /\ proc[p] = "none"
         /\ proc' = [proc EXCEPT ![p] = "loading"]
         /\ exec_file' = [exec_file EXCEPT ![p] = f]
         /\ \E r : /\ Local(t, r) /\ r.state = "disk" /\ r.pc = "header" /\ r.child = p
                   /\ r.file = f
         /\ UNCHANGED <<memory, stacks, status>>
<1>1. PICK r : r = [[thread[t] EXCEPT !.pc = "header", !.child = p, !.file = f]
                    EXCEPT !.state = "disk"]
  OBVIOUS
<1>2. thread[t] \in ThreadRecords
  BY DEF ThreadType
<1>3. /\ r \in ThreadRecords /\ r.state = "disk" /\ r.proc = thread[t].proc
      /\ r.pc = "header" /\ r.child = p /\ r.file = f
  BY <1>1, <1>2 DEF ThreadRecords
<1>4. /\ thread' = [thread EXCEPT ![t] = r] /\ running' = None
      /\ status = "run" /\ running = t /\ thread[t].pc = "user" /\ proc[p] = "none"
      /\ proc' = [proc EXCEPT ![p] = "loading"]
      /\ exec_file' = [exec_file EXCEPT ![p] = f]
      /\ UNCHANGED <<memory, numThreads, stacks, g_thread_to_be_destroyed, ids, finished, status>>
  BY <1>1 DEF ExecCall, Sleep, MayExec, User, Running, names
<1>5. thread[t].state = "running"
  BY <1>4 DEF ThreadsInv
<1>6. Local(t, r)
  BY <1>3, <1>4, <1>5 DEF Local
<1> QED BY <1>3, <1>4, <1>6

\* The header has been read.
LEMMA HeaderReadEffect ==
  ASSUME ThreadType, ThreadsInv, NEW t \in Threads, HeaderRead(t)
  PROVE  /\ status = "run" /\ running = t /\ thread[t].pc = "header"
         /\ thread[t].child \in Procs
         /\ \E r : /\ Local(t, r) /\ r.pc = "load" /\ r.child = thread[t].child
                   /\ r.file = thread[t].file /\ r.next = 1
         /\ running' = running
         /\ \/ status' \in {"exited", "full"}
            \/ status' = status /\ Fits(0, TopPage(thread[t].file))
         /\ \/ freePageId' = [freePageId EXCEPT ![thread[t].child] = 0]
            \/ /\ freePageId' = [freePageId EXCEPT ![thread[t].child] = TopPage(thread[t].file)]
               /\ Fits(0, TopPage(thread[t].file))
         /\ status' = "run" =>
              freePageId' = [freePageId EXCEPT ![thread[t].child] = TopPage(thread[t].file)]
         /\ UNCHANGED <<free_page_list, tpr, table, content, objects>>
<1>1. PICK r : r = [thread[t] EXCEPT !.pc = "load", !.next = 1]
  OBVIOUS
<1>2. thread[t] \in ThreadRecords
  BY DEF ThreadType
<1>3. /\ r \in ThreadRecords /\ r.state = thread[t].state /\ r.proc = thread[t].proc
      /\ r.pc = "load" /\ r.child = thread[t].child /\ r.file = thread[t].file /\ r.next = 1
  BY <1>1, <1>2 DEF ThreadRecords
<1>4. /\ status = "run" /\ running = t /\ thread[t].pc = "header"
      /\ UNCHANGED <<free_page_list, tpr, table, content, objects,
                     running, g_thread_to_be_destroyed, ids, finished>>
  BY DEF HeaderRead, Running, names, switching
<1>5. thread' = [thread EXCEPT ![t] = r]
  BY <1>1 DEF HeaderRead
<1>6. thread[t].state = "running"
  BY <1>4 DEF ThreadsInv
<1>7. Local(t, r)
  BY <1>3, <1>4, <1>5, <1>6 DEF Local, objects
<1>8. thread[t].child \in Procs
  BY <1>2, <1>4 DEF ThreadsInv, Stages, ThreadRecords
<1>9. PICK good \in BOOLEAN :
        LET fits == Fits(0, TopPage(thread[t].file)) IN
        /\ status' = IF ~good THEN "exited" ELSE IF ~fits THEN "full" ELSE status
        /\ freePageId' = [freePageId EXCEPT
             ![thread[t].child] = IF good /\ fits THEN TopPage(thread[t].file) ELSE 0]
  BY DEF HeaderRead
<1> QED BY <1>3, <1>4, <1>7, <1>8, <1>9

\* The loader has cleared a page, or begins to read one.
LEMMA LoadPageEffect ==
  ASSUME ThreadType, ThreadsInv, NEW t \in Threads, LoadPage(t)
  PROVE  /\ status = "run" /\ running = t /\ thread[t].pc = "load"
         /\ thread[t].child \in Procs
         /\ thread[t].next <= Len(Sections[thread[t].file]) /\ free_page_list # <<>>
         /\ \E r : /\ Local(t, r) /\ r.child = thread[t].child /\ r.file = thread[t].file
                   /\ IF Sections[thread[t].file][thread[t].next].nobits
                      THEN r.pc = "load" /\ r.next = thread[t].next + 1 /\ r.state = "running"
                      ELSE r.pc = "reading" /\ r.next = thread[t].next /\ r.state = "disk"
         /\ UNCHANGED <<freePageId, objects>>
<1>1. thread[t] \in ThreadRecords
  BY DEF ThreadType
<1>2. /\ status = "run" /\ running = t /\ thread[t].pc = "load"
      /\ thread[t].next <= Len(Sections[thread[t].file]) /\ free_page_list # <<>>
      /\ UNCHANGED <<freePageId, objects, g_thread_to_be_destroyed, ids, finished>>
  BY DEF LoadPage, Running, names
<1>3. thread[t].state = "running"
  BY <1>2 DEF ThreadsInv
<1>4. thread[t].child \in Procs
  BY <1>1, <1>2 DEF ThreadsInv, Stages, ThreadRecords
<1>5. CASE Sections[thread[t].file][thread[t].next].nobits
  <2>1. PICK n : n = thread[t].next + 1
    OBVIOUS
  <2>2. n \in Nat
    BY <1>1, <2>1 DEF ThreadRecords
  <2>3. PICK r : r = [thread[t] EXCEPT !.next = n]
    OBVIOUS
  <2>4. /\ r \in ThreadRecords /\ r.state = thread[t].state /\ r.proc = thread[t].proc
        /\ r.pc = thread[t].pc /\ r.child = thread[t].child /\ r.file = thread[t].file
        /\ r.next = n
    BY <1>1, <2>2, <2>3 DEF ThreadRecords
  <2>5. thread' = [thread EXCEPT ![t] = r] /\ running' = running
    BY <1>5, <2>1, <2>3 DEF LoadPage
  <2>6. Local(t, r)
    BY <1>2, <1>3, <2>4, <2>5 DEF Local, objects
  <2> QED BY <1>2, <1>3, <1>4, <1>5, <2>1, <2>4, <2>6
<1>6. CASE ~Sections[thread[t].file][thread[t].next].nobits
  <2>1. PICK r : r = [[thread[t] EXCEPT !.pc = "reading"] EXCEPT !.state = "disk"]
    OBVIOUS
  <2>2. /\ r \in ThreadRecords /\ r.state = "disk" /\ r.proc = thread[t].proc
        /\ r.pc = "reading" /\ r.child = thread[t].child /\ r.file = thread[t].file
        /\ r.next = thread[t].next
    BY <1>1, <2>1 DEF ThreadRecords
  <2>3. thread' = [thread EXCEPT ![t] = r] /\ running' = None
    BY <1>6, <2>1 DEF LoadPage, Sleep
  <2>4. Local(t, r)
    BY <1>2, <1>3, <2>2, <2>3 DEF Local, objects
  <2> QED BY <1>2, <1>4, <1>6, <2>2, <2>4
<1> QED BY <1>5, <1>6

\* The loader has read a page.
LEMMA PageReadEffect ==
  ASSUME ThreadType, ThreadsInv, NEW t \in Threads, PageRead(t)
  PROVE  /\ status = "run" /\ running = t /\ thread[t].pc = "reading"
         /\ thread[t].child \in Procs
         /\ \E r : /\ Local(t, r) /\ r.child = thread[t].child /\ r.file = thread[t].file
                   /\ r.pc = "load" /\ r.next = thread[t].next + 1 /\ r.state = "running"
         /\ UNCHANGED <<free_page_list, tpr, freePageId, objects, status>>
<1>1. thread[t] \in ThreadRecords
  BY DEF ThreadType
<1>2. /\ status = "run" /\ running = t /\ thread[t].pc = "reading"
      /\ UNCHANGED <<free_page_list, tpr, freePageId, objects,
                     running, g_thread_to_be_destroyed, ids, finished, status>>
  BY DEF PageRead, Running, names, switching
<1>3. thread[t].state = "running"
  BY <1>2 DEF ThreadsInv
<1>4. thread[t].child \in Procs
  BY <1>1, <1>2 DEF ThreadsInv, Stages, ThreadRecords
<1>5. PICK n : n = thread[t].next + 1
  OBVIOUS
<1>6. n \in Nat
  BY <1>1, <1>5 DEF ThreadRecords
<1>7. PICK r : r = [thread[t] EXCEPT !.pc = "load", !.next = n]
  OBVIOUS
<1>8. /\ r \in ThreadRecords /\ r.state = thread[t].state /\ r.proc = thread[t].proc
      /\ r.pc = "load" /\ r.child = thread[t].child /\ r.file = thread[t].file
      /\ r.next = n
  BY <1>1, <1>6, <1>7 DEF ThreadRecords
<1>9. thread' = [thread EXCEPT ![t] = r]
  BY <1>5, <1>7 DEF PageRead
<1>10. Local(t, r)
  BY <1>2, <1>3, <1>8, <1>9 DEF Local, objects
<1> QED BY <1>2, <1>3, <1>4, <1>5, <1>8, <1>10

-----------------------------------------------------------------------------
(* Threads that begin and end *)

\* Thread t gives process p a new thread u: t ends a load of p, or p is its own.
Started(t, u, p) ==
  /\ status = "run" /\ running = t /\ thread[t].state = "running" /\ thread[u].state = "none"
  /\ p \in Procs /\ p # Boot
  /\ \/ thread[t].child = p /\ thread[t].pc = "load"
        /\ thread[t].next > Len(Sections[thread[t].file])
     \/ thread[t].proc = p /\ thread[t].pc = "user" /\ thread[t].child = None
  /\ thread' \in [Threads -> ThreadRecords]
  /\ \A x \in Threads : x # t /\ x # u => thread'[x] = thread[x]
  /\ thread'[t].state = "running" /\ thread'[t].proc = thread[t].proc
  /\ thread'[t].pc = "user" /\ thread'[t].child = None
  /\ thread'[u].state = "ready" /\ thread'[u].proc = p
  /\ thread'[u].pc = "start" /\ thread'[u].child = None
  /\ Len(ids) < MaxIds /\ ids' = Append(ids, u)
  /\ numThreads' = [numThreads EXCEPT ![p] = @ + 1]
  /\ proc' = [proc EXCEPT ![p] = "live"]
  /\ UNCHANGED <<exec_file, running, g_thread_to_be_destroyed, finished>>
  /\ \/ status' \in {"full", "halted"} /\ UNCHANGED <<memory, stacks>>
     \/ /\ Fits(StackBase(p), StackPages) /\ Len(free_page_list) >= StackPages
        /\ StackAllocate(p)

\* Thread::Start, at the end of Exec and in NewThread.
LEMMA StartEffect ==
  ASSUME ThreadType, ThreadsInv, NEW t \in Threads, NEW u \in Threads,
         ExecEnd(t, u) \/ NewThread(t, u)
  PROVE  \E p : Started(t, u, p)
<1>1. thread[t] \in ThreadRecords
  BY DEF ThreadType
<1>2. /\ status = "run" /\ running = t /\ thread[u].state = "none"
      /\ Len(ids) < MaxIds /\ ids' = Append(ids, u)
  BY DEF ExecEnd, NewThread, Running, User, NewObject, AddObject
<1>3. thread[t].state = "running" /\ t # u
  BY <1>2 DEF ThreadsInv
<1>4. PICK p, r :
        /\ p \in Procs /\ Start(t, r, p, u) /\ p # Boot
        /\ r \in ThreadRecords /\ r.state = "running" /\ r.proc = thread[t].proc
        /\ r.pc = "user" /\ r.child = None
        /\ \/ thread[t].child = p /\ thread[t].pc = "load"
              /\ thread[t].next > Len(Sections[thread[t].file])
           \/ thread[t].proc = p /\ thread[t].pc = "user" /\ thread[t].child = None
  <2>1. CASE ExecEnd(t, u)
    <3>1. PICK r : r = [thread[t] EXCEPT !.pc = "user", !.child = None, !.file = None, !.next = 0]
      OBVIOUS
    <3>2. /\ r \in ThreadRecords /\ r.state = thread[t].state /\ r.proc = thread[t].proc
          /\ r.pc = "user" /\ r.child = None
      BY <1>1, <3>1 DEF ThreadRecords
    <3>3. /\ Start(t, r, thread[t].child, u) /\ thread[t].pc = "load"
          /\ thread[t].next > Len(Sections[thread[t].file])
      BY <2>1, <3>1 DEF ExecEnd
    <3>4. thread[t].child \in Procs /\ thread[t].child # Boot
      BY <1>1, <3>3 DEF ThreadsInv, Stages, ThreadRecords
    <3> QED BY <1>3, <3>2, <3>3, <3>4
  <2>2. CASE NewThread(t, u)
    <3>1. Start(t, thread[t], thread[t].proc, u) /\ thread[t].pc = "user" /\ thread[t].proc # Boot
      BY <2>2 DEF NewThread, User, IsBoot
    <3>2. thread[t].proc \in Procs
      BY <1>3 DEF ThreadsInv
    <3>3. thread[t].child = None
      BY <3>1 DEF ThreadsInv, Stages
    <3> QED BY <1>1, <1>3, <3>1, <3>2, <3>3
  <2> QED BY <2>1, <2>2
<1>5. PICK new : new = NewThreadAt(p)
  OBVIOUS
<1>6. /\ new \in ThreadRecords /\ new.state = "ready" /\ new.proc = p /\ new.pc = "start"
      /\ new.child = None
  BY <1>4, <1>5, NoThreadType DEF NewThreadAt, ThreadRecords
<1>7. /\ thread' = [thread EXCEPT ![t] = r, ![u] = new]
      /\ numThreads' = [numThreads EXCEPT ![p] = @ + 1]
      /\ proc' = [proc EXCEPT ![p] = "live"]
      /\ UNCHANGED <<exec_file, running, g_thread_to_be_destroyed, finished>>
  BY <1>4, <1>5 DEF Start, switching
<1>8. \/ status' \in {"full", "halted"} /\ UNCHANGED <<memory, stacks>>
      \/ /\ Fits(StackBase(p), StackPages) /\ Len(free_page_list) >= StackPages
         /\ StackAllocate(p)
  BY <1>4 DEF Start
<1>9. /\ thread' \in [Threads -> ThreadRecords]
      /\ thread'[t] = r /\ thread'[u] = new
      /\ \A x \in Threads : x # t /\ x # u => thread'[x] = thread[x]
  BY <1>3, <1>4, <1>6, <1>7 DEF ThreadType
<1> QED BY <1>2, <1>3, <1>4, <1>6, <1>7, <1>8, <1>9 DEF Started

\* Thread::Finish, at Exit and at the end of main.
LEMMA FinishEffect ==
  ASSUME ThreadType, ThreadsInv, NEW t \in Threads, Exit(t) \/ MainEnd(t)
  PROVE  /\ status = "run" /\ running = t /\ thread[t].pc = "user" /\ thread[t].state = "running"
         /\ thread' \in [Threads -> ThreadRecords]
         /\ \A x \in Threads : x # t => thread'[x] = thread[x]
         /\ thread'[t].state = "finished" /\ thread'[t].proc = thread[t].proc
         /\ thread'[t].pc = "user" /\ thread'[t].child = thread[t].child
         /\ finished' = IF thread[t].proc = Boot THEN finished
                        ELSE finished \cup {IdOf(t) + FirstId - 1}
         /\ g_thread_to_be_destroyed' = t /\ running' = None
         /\ UNCHANGED <<memory, objects, ids, status>>
<1>1. PICK r : r = [thread[t] EXCEPT !.state = "finished"]
  OBVIOUS
<1>2. thread[t] \in ThreadRecords
  BY DEF ThreadType
<1>3. /\ r \in ThreadRecords /\ r.state = "finished" /\ r.proc = thread[t].proc
      /\ r.pc = thread[t].pc /\ r.child = thread[t].child
  BY <1>1, <1>2 DEF ThreadRecords
<1>4. /\ status = "run" /\ running = t /\ thread[t].pc = "user" /\ Finish(t)
  BY DEF Exit, MainEnd, User, Running
<1>5. thread[t].state = "running"
  BY <1>4 DEF ThreadsInv
<1>6. thread' = [thread EXCEPT ![t] = r]
  BY <1>1, <1>4 DEF Finish
<1>7. /\ thread' \in [Threads -> ThreadRecords] /\ thread'[t] = r
      /\ \A x \in Threads : x # t => thread'[x] = thread[x]
  BY <1>3, <1>6 DEF ThreadType
<1> QED BY <1>3, <1>4, <1>5, <1>7 DEF Finish, IsBoot

\* A thread that is resumed makes the object of a finished one disappear.
LEMMA ResumedEffect ==
  ASSUME ThreadType, ThreadsInv, NEW t \in Threads, Resumed(t)
  PROVE  /\ status = "run" /\ running = None /\ thread[t].state = "ready" /\ running' = t
         /\ t # g_thread_to_be_destroyed /\ g_thread_to_be_destroyed' = None
         /\ thread' \in [Threads -> ThreadRecords]
         /\ thread'[t].state = "running" /\ thread'[t].proc = thread[t].proc
         /\ thread'[t].pc = thread[t].pc /\ thread'[t].child = thread[t].child
         /\ thread'[t].file = thread[t].file /\ thread'[t].next = thread[t].next
         /\ thread'[t].id = thread[t].id /\ thread'[t].target = thread[t].target
         /\ g_thread_to_be_destroyed \in Threads => thread'[g_thread_to_be_destroyed] = NoThread
         /\ \A x \in Threads : x # t /\ x # g_thread_to_be_destroyed => thread'[x] = thread[x]
         /\ UNCHANGED <<ids, finished>>
<1>1. PICK r : r = [thread[t] EXCEPT !.state = "running"]
  OBVIOUS
<1>2. thread[t] \in ThreadRecords
  BY DEF ThreadType
<1>3. /\ r \in ThreadRecords /\ r.state = "running" /\ r.proc = thread[t].proc
      /\ r.pc = thread[t].pc /\ r.child = thread[t].child
      /\ r.file = thread[t].file /\ r.next = thread[t].next
      /\ r.id = thread[t].id /\ r.target = thread[t].target
  BY <1>1, <1>2 DEF ThreadRecords
<1>4. /\ status = "run" /\ running = None /\ thread[t].state = "ready" /\ running' = t
      /\ g_thread_to_be_destroyed' = None /\ UNCHANGED <<ids, finished>>
      /\ thread' = [u \in Threads |-> IF u = t THEN r
                                      ELSE IF u = g_thread_to_be_destroyed THEN NoThread
                                      ELSE thread[u]]
  BY <1>1 DEF Resumed, SwitchTo, Resume
<1>5. t # g_thread_to_be_destroyed
  BY <1>4 DEF ThreadsInv
<1>6. thread' \in [Threads -> ThreadRecords]
  BY <1>3, <1>4, NoThreadType DEF ThreadType
<1> QED BY <1>3, <1>4, <1>5, <1>6

\* The steps after which every thread is as before, on the processor too.
Still ==
  /\ UNCHANGED <<thread, running, g_thread_to_be_destroyed, ids, finished, numThreads>>

\* The steps of the other kinds.
LEMMA StillEffect ==
  ASSUME NEW t \in Threads,
         \/ Idle \/ LoadStops(t) \/ Halt(t) \/ FatalAccess(t) \/ InvalidCall(t)
         \/ (\E id \in FirstId .. FirstId + MaxIds : Mmap(t, id))
         \/ UNCHANGED vars
  PROVE  /\ Still /\ UNCHANGED <<memory, proc, exec_file, stacks>>
         /\ status' = status \/ (status = "run" /\ status' \in {"halted", "exited", "unaligned"})
BY DEF Still, Idle, LoadStops, Halt, FatalAccess, InvalidCall, Mmap, StopIn, vars, memory, objects, switching,
       names, Running, User

\* A store and a failed Exec leave the threads as they are, too.
LEMMA StoresEffect ==
  ASSUME NEW t \in Threads, NEW vs, Stores(t, vs)
  PROVE  /\ Still /\ status = "run" /\ running = t /\ thread[t].proc # Boot
         /\ UNCHANGED <<free_page_list, tpr, freePageId, proc, exec_file, stacks>>
         /\ status' \in {status, "exited", "halted"}
BY DEF Stores, User, Running, IsBoot, Still, objects, switching, names

\* The file of an Exec does not exist.
LEMMA ExecMissingEffect ==
  ASSUME NEW t \in Threads, NEW f, NEW p, ExecMissing(t, f, p)
  PROVE  /\ Still /\ status = "run" /\ proc[p] = "none"
         /\ UNCHANGED <<memory, exec_file, stacks>>
         /\ \/ status' = "exited" /\ proc' = proc
            \/ status' = status /\ proc' = [proc EXCEPT ![p] = "leaked"]
BY DEF ExecMissing, MayExec, User, Running, Still, switching, names

\* Every step is of one of these kinds.
LEMMA Kinds ==
  ASSUME [Next]_vars
  PROVE  \/ \E t \in Threads :
              \/ DiskDone(t) \/ Yield(t) \/ JoinYield(t) \/ JoinReturn(t)
              \/ \E id \in FirstId .. FirstId + MaxIds : JoinCall(t, id)
              \/ \E f \in Files, p \in Procs \ {Boot} : ExecCall(t, f, p)
              \/ HeaderRead(t) \/ LoadPage(t) \/ PageRead(t)
              \/ \E u \in Threads : ExecEnd(t, u) \/ NewThread(t, u)
              \/ Exit(t) \/ MainEnd(t)
              \/ FirstRun(t) \/ Resumed(t)
              \/ \E f \in Files, p \in Procs \ {Boot} : ExecMissing(t, f, p)
              \/ \E v \in 0 .. MaxVirtPages, w \in 0 .. MaxVirtPages + 1 :
                   Stores(t, <<v>>) \/ Stores(t, <<v, w>>)
         \/ /\ Still /\ UNCHANGED <<memory, proc, exec_file, stacks>>
            /\ status' = status \/ (status = "run" /\ status' \in {"halted", "exited", "unaligned"})
<1>1. ASSUME NEW t \in Threads, NEW v \in 0 .. MaxVirtPages, UserWrite(t, v) \/ SysTime(t, v)
      PROVE  \E w \in 0 .. MaxVirtPages + 1 : Stores(t, <<v>>) \/ Stores(t, <<v, w>>)
  <2>1. v \in 0 .. MaxVirtPages + 1 /\ v + 1 \in 0 .. MaxVirtPages + 1
    BY Constants
  <2> QED BY <1>1, <2>1 DEF UserWrite, SysTime
<1>2. Main \in Threads
  BY Constants
<1>3. CASE Idle \/ UNCHANGED vars
  BY <1>2, <1>3, StillEffect
<1>4. ASSUME NEW t \in Threads,
             \/ LoadStops(t) \/ Halt(t) \/ FatalAccess(t) \/ InvalidCall(t)
             \/ (\E id \in FirstId .. FirstId + MaxIds : Mmap(t, id))
      PROVE  /\ Still /\ UNCHANGED <<memory, proc, exec_file, stacks>>
             /\ status' = status \/ (status = "run" /\ status' \in {"halted", "exited", "unaligned"})
  BY <1>4, StillEffect
<1>5. ASSUME NEW t \in Threads, SwitchTo(t)
      PROVE  FirstRun(t) \/ Resumed(t)
  BY <1>5 DEF SwitchTo, FirstRun, Resumed
<1> QED BY <1>1, <1>3, <1>4, <1>5 DEF Next

-----------------------------------------------------------------------------
(* The states of the threads *)

\* A step of one thread keeps the states and the processor in agreement.
LEMMA LocalThreads ==
  ASSUME ThreadType, ThreadsInv, NEW t \in Threads, NEW r, Local(t, r),
         r.pc \in Stages <=> r.child # None, r.child # Boot
  PROVE  ThreadType' /\ ThreadsInv'
<1>1. /\ thread' \in [Threads -> ThreadRecords] /\ thread'[t] = r
      /\ \A x \in Threads : x # t => thread'[x] = thread[x]
  BY DEF Local, ThreadType
<1>2. ThreadType'
  BY <1>1 DEF Local, ThreadType
<1>3. /\ r.state \in {"ready", "disk", "running"} /\ thread[t].state \in {"running", "disk", "ready"}
      /\ r.proc = thread[t].proc
  BY DEF Local
<1>4. \A x \in Threads : (thread'[x].state = "none" => thread'[x] = NoThread)
  BY <1>1, <1>3 DEF ThreadsInv
<1>5. \A x \in Threads : thread'[x].state # "none" => thread'[x].proc \in Procs
  BY <1>1, <1>3 DEF ThreadsInv
<1>6. \A x \in Threads : thread'[x].state = "running" <=> running' = x
  <2>1. \A x \in Threads : thread[x].state = "running" <=> running = x
    BY DEF ThreadsInv
  <2>2. CASE r.state = thread[t].state /\ running' = running
    BY <1>1, <2>1, <2>2
  <2>3. CASE r.state \in {"ready", "disk"} /\ thread[t].state = "running" /\ running' = None
    BY <1>1, <2>1, <2>3, Constants
  <2>4. CASE r.state = "ready" /\ thread[t].state = "disk" /\ running' = running
    BY <1>1, <2>1, <2>4
  <2>5. CASE r.state = "running" /\ thread[t].state = "ready" /\ running = None /\ running' = t
    BY <1>1, <2>1, <2>5, Constants
  <2> QED BY <2>2, <2>3, <2>4, <2>5 DEF Local
<1>7. \A x \in Threads : g_thread_to_be_destroyed' = x => thread'[x].state = "finished"
  BY <1>1, <1>3 DEF ThreadsInv, Local
<1>9. \A x \in Threads : thread'[x].state \in {"none", "finished"} => thread'[x].pc = "user"
  BY <1>1, <1>3 DEF ThreadsInv
<1>10. \A x \in Threads : thread'[x].pc \in Stages <=> thread'[x].child # None
  BY <1>1 DEF ThreadsInv
<1>11. \A x \in Threads : thread'[x].child # Boot
  BY <1>1 DEF ThreadsInv
<1> QED BY <1>2, <1>4, <1>5, <1>6, <1>7, <1>9, <1>10, <1>11 DEF ThreadsInv

\* The actions that are steps of one thread.
OneThread(t) ==
  \/ FirstRun(t) \/ DiskDone(t) \/ Yield(t) \/ JoinYield(t) \/ JoinReturn(t)
  \/ \E id \in FirstId .. FirstId + MaxIds : JoinCall(t, id)
  \/ \E f \in Files, p \in Procs \ {Boot} : ExecCall(t, f, p)
  \/ HeaderRead(t) \/ LoadPage(t) \/ PageRead(t)

\* Their effect: only Exec begins to load a process.
LEMMA OneThreadEffect ==
  ASSUME ThreadType, ThreadsInv, NEW t \in Threads, OneThread(t)
  PROVE  \E r : /\ Local(t, r)
                /\ r.pc \in Stages <=> r.child # None
                /\ r.child # Boot
                /\ \/ r.child = thread[t].child /\ proc' = proc
                   \/ /\ thread[t].child = None /\ r.child \in Procs
                      /\ proc[r.child] = "none"
                      /\ proc' = [proc EXCEPT ![r.child] = "loading"]
<1>1. /\ thread[t].pc \in Stages <=> thread[t].child # None
      /\ thread[t].child # Boot
  BY DEF ThreadsInv
<1>2. CASE DiskDone(t)
  BY <1>1, <1>2, DiskDoneEffect DEF Paused, objects
<1>3. CASE Yield(t) \/ JoinYield(t)
  BY <1>1, <1>3, YieldEffect DEF Paused, objects
<1>4. CASE JoinReturn(t)
  <2>1. PICK r : Local(t, r) /\ r.pc = "user" /\ r.child = thread[t].child
    BY <1>4, JoinReturnEffect
  <2>2. thread[t].pc = "join" /\ proc' = proc
    BY <1>4, JoinReturnEffect DEF objects
  <2> QED BY <1>1, <2>1, <2>2 DEF Stages
<1>5. ASSUME NEW id \in FirstId .. FirstId + MaxIds, JoinCall(t, id)
      PROVE  \E r : /\ Local(t, r) /\ (r.pc \in Stages <=> r.child # None) /\ r.child # Boot
                    /\ r.child = thread[t].child /\ proc' = proc
  <2>1. PICK r : Local(t, r) /\ r.pc = "join" /\ r.child = thread[t].child
    BY <1>5, JoinCallEffect
  <2>2. thread[t].pc = "user" /\ proc' = proc
    BY <1>5, JoinCallEffect DEF objects
  <2> QED BY <1>1, <2>1, <2>2 DEF Stages
<1>6. ASSUME NEW f \in Files, NEW p \in Procs \ {Boot}, ExecCall(t, f, p)
      PROVE  \E r : /\ Local(t, r) /\ (r.pc \in Stages <=> r.child # None) /\ r.child # Boot
                    /\ thread[t].child = None /\ r.child \in Procs /\ proc[r.child] = "none"
                    /\ proc' = [proc EXCEPT ![r.child] = "loading"]
  <2>1. PICK r : Local(t, r) /\ r.pc = "header" /\ r.child = p
    BY <1>6, ExecCallEffect
  <2>2. /\ thread[t].pc = "user" /\ proc[p] = "none" /\ proc' = [proc EXCEPT ![p] = "loading"]
    BY <1>6, ExecCallEffect
  <2> QED BY <1>1, <2>1, <2>2, Constants DEF Stages
<1>7. CASE HeaderRead(t)
  <2>1. PICK r : Local(t, r) /\ r.pc = "load" /\ r.child = thread[t].child
    BY <1>7, HeaderReadEffect
  <2>2. thread[t].pc = "header" /\ proc' = proc
    BY <1>7, HeaderReadEffect DEF objects
  <2> QED BY <1>1, <2>1, <2>2 DEF Stages
<1>8. CASE LoadPage(t)
  <2>1. PICK r : Local(t, r) /\ r.pc \in {"load", "reading"} /\ r.child = thread[t].child
    BY <1>8, LoadPageEffect
  <2>2. thread[t].pc = "load" /\ proc' = proc
    BY <1>8, LoadPageEffect DEF objects
  <2> QED BY <1>1, <2>1, <2>2 DEF Stages
<1>9. CASE PageRead(t)
  <2>1. PICK r : Local(t, r) /\ r.pc = "load" /\ r.child = thread[t].child
    BY <1>9, PageReadEffect
  <2>2. thread[t].pc = "reading" /\ proc' = proc
    BY <1>9, PageReadEffect DEF objects
  <2> QED BY <1>1, <2>1, <2>2 DEF Stages
<1>10. CASE FirstRun(t)
  <2>1. PICK r : Local(t, r) /\ r.pc = "user" /\ r.child = thread[t].child
    BY <1>10, FirstRunEffect
  <2>2. thread[t].pc = "start" /\ proc' = proc
    BY <1>10, FirstRunEffect DEF objects
  <2> QED BY <1>1, <2>1, <2>2 DEF Stages
<1> QED BY <1>2, <1>3, <1>4, <1>5, <1>6, <1>7, <1>8, <1>9, <1>10 DEF OneThread

\* A thread that begins in a process.
LEMMA StartedThreads ==
  ASSUME ThreadType, ThreadsInv, NEW t \in Threads, NEW u \in Threads, NEW p, Started(t, u, p)
  PROVE  ThreadType' /\ ThreadsInv'
<1>1. t # u
  BY DEF Started
<1>2. ids \in Seq(Threads) /\ Len(ids) \in Nat /\ ids' \in Seq(Threads) /\ Len(ids') = Len(ids) + 1
  BY DEF ThreadType, Started
<1>3. ThreadType'
  BY <1>2, Constants DEF Started, ThreadType
<1>4. \A x \in Threads : thread'[x].state = "none" => thread'[x] = NoThread
  BY DEF Started, ThreadsInv
<1>5. \A x \in Threads : thread'[x].state # "none" => thread'[x].proc \in Procs
  BY DEF Started, ThreadsInv
<1>6. \A x \in Threads : thread'[x].state = "running" <=> running' = x
  BY DEF Started, ThreadsInv
<1>7. \A x \in Threads : g_thread_to_be_destroyed' = x => thread'[x].state = "finished"
  BY DEF Started, ThreadsInv
<1>9. \A x \in Threads : thread'[x].state \in {"none", "finished"} => thread'[x].pc = "user"
  BY DEF Started, ThreadsInv
<1>10. \A x \in Threads : thread'[x].pc \in Stages <=> thread'[x].child # None
  BY DEF Started, ThreadsInv, Stages
<1>11. \A x \in Threads : thread'[x].child # Boot
  BY Constants DEF Started, ThreadsInv
<1> QED BY <1>3, <1>4, <1>5, <1>6, <1>7, <1>9, <1>10, <1>11 DEF ThreadsInv

\* The number of a thread that ends is one that was given out.
LEMMA IdOfThread ==
  ASSUME ThreadType, NumbersInv, NEW t \in Threads, Alive(t), thread[t].proc # Boot
  PROVE  IdOf(t) \in 1 .. Len(ids) /\ Unfinished(IdOf(t)) /\ ids[IdOf(t)] = t
<1>1. \E i \in 1 .. Len(ids) : ids[i] = t /\ i + FirstId - 1 \notin finished
  BY DEF NumbersInv, Unfinished
<1>2. IdOf(t) \in 1 .. Len(ids) /\ ids[IdOf(t)] = t /\ IdOf(t) + FirstId - 1 \notin finished
  BY <1>1 DEF IdOf
<1> QED BY <1>2 DEF Unfinished

\* A thread that ends.
LEMMA FinishThreads ==
  ASSUME ThreadType, ThreadsInv, NumbersInv, NEW t \in Threads, Exit(t) \/ MainEnd(t)
  PROVE  ThreadType' /\ ThreadsInv'
<1>1. /\ status = "run" /\ running = t /\ thread[t].pc = "user" /\ thread[t].state = "running"
      /\ thread' \in [Threads -> ThreadRecords]
      /\ \A x \in Threads : x # t => thread'[x] = thread[x]
      /\ thread'[t].state = "finished" /\ thread'[t].proc = thread[t].proc
      /\ thread'[t].pc = "user" /\ thread'[t].child = thread[t].child
      /\ finished' = IF thread[t].proc = Boot THEN finished
                     ELSE finished \cup {IdOf(t) + FirstId - 1}
      /\ g_thread_to_be_destroyed' = t /\ running' = None
      /\ ids' = ids
  BY FinishEffect
<1>2. finished' \subseteq FirstId .. MaxIds + FirstId - 1
  <2>1. CASE thread[t].proc = Boot
    BY <1>1, <2>1 DEF ThreadType
  <2>2. CASE thread[t].proc # Boot
    <3>1. IdOf(t) \in 1 .. Len(ids)
      BY <1>1, <2>2, IdOfThread DEF Alive
    <3>2. Len(ids) \in Nat /\ Len(ids) <= MaxIds /\ finished \subseteq FirstId .. MaxIds + FirstId - 1
      BY DEF ThreadType
    <3>3. IdOf(t) + FirstId - 1 \in FirstId .. MaxIds + FirstId - 1
      BY <3>1, <3>2, Constants
    <3> QED BY <1>1, <2>2, <3>2, <3>3
  <2> QED BY <2>1, <2>2
<1>3. ThreadType'
  BY <1>1, <1>2 DEF ThreadType
<1>5. \A x \in Threads : thread'[x].state = "none" => thread'[x] = NoThread
  BY <1>1 DEF ThreadsInv
<1>6. \A x \in Threads : thread'[x].state # "none" => thread'[x].proc \in Procs
  BY <1>1 DEF ThreadsInv
<1>7. \A x \in Threads : thread'[x].state = "running" <=> running' = x
  BY <1>1, Constants DEF ThreadsInv
<1>8. \A x \in Threads : g_thread_to_be_destroyed' = x => thread'[x].state = "finished"
  BY <1>1 DEF ThreadsInv
<1>9. \A x \in Threads : thread'[x].state \in {"none", "finished"} => thread'[x].pc = "user"
  BY <1>1 DEF ThreadsInv
<1>10. \A x \in Threads : thread'[x].pc \in Stages <=> thread'[x].child # None
  BY <1>1 DEF ThreadsInv
<1>11. \A x \in Threads : thread'[x].child # Boot
  BY <1>1 DEF ThreadsInv
<1> QED BY <1>1, <1>3, <1>5, <1>6, <1>7, <1>8, <1>9, <1>10, <1>11 DEF ThreadsInv

\* A switch to a thread that ran before.
LEMMA ResumeThreads ==
  ASSUME ThreadType, ThreadsInv, NEW t \in Threads, Resumed(t)
  PROVE  ThreadType' /\ ThreadsInv'
<1> DEFINE g == g_thread_to_be_destroyed
<1>1. /\ status = "run" /\ running = None /\ thread[t].state = "ready" /\ running' = t
      /\ t # g /\ g' = None
      /\ thread' \in [Threads -> ThreadRecords]
      /\ thread'[t].state = "running" /\ thread'[t].proc = thread[t].proc
      /\ thread'[t].pc = thread[t].pc /\ thread'[t].child = thread[t].child
      /\ g \in Threads => thread'[g] = NoThread
      /\ \A x \in Threads : x # t /\ x # g => thread'[x] = thread[x]
      /\ ids' = ids /\ finished' = finished
  BY ResumedEffect
<1>2. ThreadType'
  BY <1>1 DEF ThreadType
<1>3. \A x \in Threads : x = t \/ thread'[x] = NoThread \/ (x # g /\ thread'[x] = thread[x])
  BY <1>1
<1>4. \A x \in Threads : thread'[x].state = "none" => thread'[x] = NoThread
  BY <1>1, <1>3 DEF ThreadsInv
<1>5. \A x \in Threads : thread'[x].state # "none" => thread'[x].proc \in Procs
  BY <1>1, <1>3, NoThreadType DEF ThreadsInv
<1>6. \A x \in Threads : thread'[x].state = "running" <=> running' = x
  BY <1>1, <1>3, NoThreadType, Constants DEF ThreadsInv
<1>7. \A x \in Threads : g' = x => thread'[x].state = "finished"
  BY <1>1, Constants
<1>8. \A x \in Threads : thread'[x].state \in {"none", "finished"} => thread'[x].pc = "user"
  BY <1>1, <1>3, NoThreadType DEF ThreadsInv
<1>9. \A x \in Threads : thread'[x].pc \in Stages <=> thread'[x].child # None
  BY <1>1, <1>3, NoThreadType DEF ThreadsInv, Stages
<1>10. \A x \in Threads : thread'[x].child # Boot
  BY <1>1, <1>3, NoThreadType, Constants DEF ThreadsInv
<1> QED BY <1>1, <1>2, <1>4, <1>5, <1>6, <1>7, <1>8, <1>9, <1>10 DEF ThreadsInv

\* The kinds of steps, as far as the threads are concerned.
LEMMA ThreadKinds ==
  ASSUME [Next]_vars
  PROVE  \/ \E t \in Threads : OneThread(t)
         \/ \E t, u \in Threads : ExecEnd(t, u) \/ NewThread(t, u)
         \/ \E t \in Threads : Exit(t) \/ MainEnd(t)
         \/ \E t \in Threads : Resumed(t)
         \/ /\ Still
            /\ \/ proc' = proc
               \/ \E p \in Procs \ {Boot} :
                    proc[p] = "none" /\ proc' = [proc EXCEPT ![p] = "leaked"]
<1>1. ASSUME NEW t \in Threads, NEW f \in Files, NEW p \in Procs \ {Boot}, ExecMissing(t, f, p)
      PROVE  Still /\ (proc' = proc \/ (proc[p] = "none" /\ proc' = [proc EXCEPT ![p] = "leaked"]))
  BY <1>1, ExecMissingEffect
<1>2. ASSUME NEW t \in Threads, NEW vs, Stores(t, vs)
      PROVE  Still /\ proc' = proc
  BY <1>2, StoresEffect
<1> QED BY <1>1, <1>2, Kinds DEF OneThread

\* Every step keeps the types and the states of the threads.
LEMMA StepThreads ==
  ASSUME ThreadType, ThreadsInv, NumbersInv, [Next]_vars
  PROVE  ThreadType' /\ ThreadsInv'
<1>1. ASSUME NEW t \in Threads, OneThread(t)
      PROVE  ThreadType' /\ ThreadsInv'
  BY <1>1, OneThreadEffect, LocalThreads
<1>2. ASSUME NEW t \in Threads, NEW u \in Threads, ExecEnd(t, u) \/ NewThread(t, u)
      PROVE  ThreadType' /\ ThreadsInv'
  BY <1>2, StartEffect, StartedThreads
<1>3. ASSUME NEW t \in Threads, Exit(t) \/ MainEnd(t)
      PROVE  ThreadType' /\ ThreadsInv'
  BY <1>3, FinishThreads
<1>4. ASSUME NEW t \in Threads, Resumed(t)
      PROVE  ThreadType' /\ ThreadsInv'
  BY <1>4, ResumeThreads
<1>5. CASE Still
  BY <1>5 DEF Still, ThreadType, ThreadsInv
<1> QED BY <1>1, <1>2, <1>3, <1>4, <1>5, ThreadKinds

-----------------------------------------------------------------------------
(* Processes and the threads in them *)

Within(p) == {t \in Threads : thread[t].proc = p}

\* The threads of a process are finitely many.
LEMMA WithinFinite ==
  ASSUME NEW p
  PROVE  /\ IsFiniteSet(Within(p)) /\ Cardinality(Within(p)) \in 0 .. Cardinality(Threads)
         /\ Cardinality(Within(p)) > 0 <=> \E t \in Threads : thread[t].proc = p
         /\ IsFiniteSet(Within(p)') /\ Cardinality(Within(p)') \in 0 .. Cardinality(Threads)
         /\ Cardinality(Within(p)') > 0 <=> \E t \in Threads : thread'[t].proc = p
<1>1. IsFiniteSet(Threads) /\ Cardinality(Threads) \in Nat
  BY ProcessesAssumption, FS_CardinalityType
<1>2. ASSUME NEW S \in SUBSET Threads
      PROVE  /\ IsFiniteSet(S) /\ Cardinality(S) \in 0 .. Cardinality(Threads)
             /\ Cardinality(S) > 0 <=> S # {}
  <2>1. IsFiniteSet(S) /\ Cardinality(S) \in Nat /\ Cardinality(S) <= Cardinality(Threads)
    BY <1>1, FS_Subset, FS_CardinalityType
  <2>2. Cardinality(S) = 0 <=> S = {}
    BY <2>1, FS_EmptySet
  <2> QED BY <1>1, <2>1, <2>2
<1>3. Within(p) \in SUBSET Threads /\ Within(p)' \in SUBSET Threads
  BY DEF Within
<1>4. (Within(p) # {} <=> \E t \in Threads : thread[t].proc = p)
  BY DEF Within
<1>5. (Within(p)' # {} <=> \E t \in Threads : thread'[t].proc = p)
  BY DEF Within
<1> QED BY <1>2, <1>3, <1>4, <1>5

\* The types of the counters follow from what they count.
LEMMA CountsType ==
  ASSUME numThreads' = [p \in Procs |-> numThreads'[p]], ProcsInv'
  PROVE  numThreads' \in [Procs -> 0 .. Cardinality(Threads)]
<1>1. \A p \in Procs : numThreads'[p] = Cardinality(Within(p)')
  BY DEF ProcsInv, Within
<1>2. \A p \in Procs : numThreads'[p] \in 0 .. Cardinality(Threads)
  BY <1>1, WithinFinite
<1> QED BY <1>2

\* A step of one thread.
LEMMA LocalProcs ==
  ASSUME ThreadType, ThreadsInv, ProcType, ProcsInv, NEW t \in Threads, OneThread(t)
  PROVE  ProcType' /\ ProcsInv'
<1>1. PICK r :
        /\ Local(t, r) /\ r.child # Boot
        /\ \/ r.child = thread[t].child /\ proc' = proc
           \/ /\ thread[t].child = None /\ r.child \in Procs
              /\ proc[r.child] = "none"
              /\ proc' = [proc EXCEPT ![r.child] = "loading"]
  BY OneThreadEffect
<1>2. /\ thread'[t] = r /\ \A x \in Threads : x # t => thread'[x] = thread[x]
      /\ r.proc = thread[t].proc /\ numThreads' = numThreads
  BY <1>1 DEF Local, ThreadType
<1>3. ProcType'
  BY <1>1, <1>2 DEF ProcType
<1>4. \A x \in Threads : thread'[x].proc = thread[x].proc
  BY <1>2
<1>5. \A p \in Procs : numThreads'[p] = Cardinality({x \in Threads : thread'[x].proc = p})
  <2>1. \A p \in Procs : {x \in Threads : thread'[x].proc = p} = {x \in Threads : thread[x].proc = p}
    BY <1>4
  <2> QED BY <1>2, <2>1 DEF ProcsInv
<1>6. \A p \in Procs : proc'[p] = "live" <=> \E x \in Threads : thread'[x].proc = p
  BY <1>1, <1>4 DEF ProcsInv, ProcType
<1>7. CASE r.child = thread[t].child /\ proc' = proc
  <2>1. \A x \in Threads : thread'[x].child = thread[x].child
    BY <1>2, <1>7
  <2> QED BY <1>3, <1>5, <1>6, <1>7, <2>1 DEF ProcsInv
<1>8. CASE /\ thread[t].child = None /\ r.child \in Procs
           /\ proc[r.child] = "none"
           /\ proc' = [proc EXCEPT ![r.child] = "loading"]
  <2>1. \A x \in Threads : thread[x].child # r.child
    BY <1>8 DEF ProcsInv
  <2>2. \A p \in Procs : proc'[p] = "loading" <=> \E x \in Threads : thread'[x].child = p
    <3>1. ASSUME NEW p \in Procs
          PROVE  proc'[p] = "loading" <=> \E x \in Threads : thread'[x].child = p
      <4>1. CASE p = r.child
        BY <1>2, <1>8, <4>1 DEF ProcType
      <4>2. CASE p # r.child
        <5>1. proc'[p] = proc[p]
          BY <1>8, <4>2 DEF ProcType
        <5>2. \A x \in Threads : thread'[x].child = p <=> thread[x].child = p
          BY <1>2, <1>8, <4>2, Constants
        <5> QED BY <5>1, <5>2 DEF ProcsInv
      <4> QED BY <4>1, <4>2
    <3> QED BY <3>1
  <2>3. \A x, y \in Threads : thread'[x].child # None /\ thread'[x].child = thread'[y].child => x = y
    BY <1>2, <2>1 DEF ProcsInv
  <2> QED BY <1>3, <1>5, <1>6, <2>2, <2>3 DEF ProcsInv
<1> QED BY <1>1, <1>7, <1>8

\* A thread that begins.
LEMMA StartedProcs ==
  ASSUME ThreadType, ThreadsInv, ProcType, ProcsInv,
         NEW t \in Threads, NEW u \in Threads, NEW p, Started(t, u, p)
  PROVE  ProcType' /\ ProcsInv'
<1>1. /\ p \in Procs /\ t # u /\ thread[u] = NoThread
      /\ numThreads' = [numThreads EXCEPT ![p] = @ + 1]
      /\ proc' = [proc EXCEPT ![p] = "live"]
      /\ \A x \in Threads : x # t /\ x # u => thread'[x] = thread[x]
      /\ thread'[t].proc = thread[t].proc /\ thread'[t].child = None
      /\ thread'[u].proc = p /\ thread'[u].child = None
      /\ (thread[t].child = p \/ (thread[t].proc = p /\ thread[t].child = None))
  BY DEF Started, ThreadsInv
<1>2. thread[u].proc = None /\ thread[u].child = None /\ p # None
  BY <1>1, NoThreadType, Constants
<1>3. \A q \in Procs : numThreads'[q] = Cardinality({x \in Threads : thread'[x].proc = q})
  <2>1. ASSUME NEW q \in Procs
        PROVE  numThreads'[q] = Cardinality(Within(q)')
    <3>1. numThreads[q] = Cardinality(Within(q)) /\ numThreads[q] \in Nat
      <4>1. numThreads[q] = Cardinality(Within(q))
        BY DEF ProcsInv, Within
      <4> QED BY <4>1, WithinFinite
    <3>2. CASE q = p
      <4>1. Within(q)' = Within(q) \cup {u} /\ u \notin Within(q)
        BY <1>1, <1>2, <3>2 DEF Within
      <4>2. Cardinality(Within(q)') = Cardinality(Within(q)) + 1
        BY <4>1, WithinFinite, FS_AddElement
      <4>3. numThreads'[q] = numThreads[q] + 1
        BY <1>1, <3>2 DEF ProcType
      <4> QED BY <3>1, <4>2, <4>3
    <3>3. CASE q # p
      <4>1. \A x \in Threads : thread'[x].proc = q <=> thread[x].proc = q
        BY <1>1, <1>2, <3>3, Constants
      <4>2. Within(q)' = Within(q)
        BY <4>1 DEF Within
      <4>3. numThreads'[q] = numThreads[q]
        BY <1>1, <3>3 DEF ProcType
      <4> QED BY <3>1, <4>2, <4>3
    <3> QED BY <3>2, <3>3
  <2> QED BY <2>1 DEF Within
<1>4. \A q \in Procs : proc'[q] = "live" <=> \E x \in Threads : thread'[x].proc = q
  <2>1. ASSUME NEW q \in Procs, q # p
        PROVE  proc'[q] = "live" <=> \E x \in Threads : thread'[x].proc = q
    <3>1. \A x \in Threads : thread'[x].proc = q <=> thread[x].proc = q
      BY <1>1, <1>2, <2>1, Constants
    <3>2. proc'[q] = proc[q]
      BY <1>1, <2>1 DEF ProcType
    <3> QED BY <3>1, <3>2 DEF ProcsInv
  <2>2. proc'[p] = "live" /\ thread'[u].proc = p
    BY <1>1 DEF ProcType
  <2> QED BY <2>1, <2>2
<1>5. \A q \in Procs : proc'[q] = "loading" <=> \E x \in Threads : thread'[x].child = q
  <2>1. ASSUME NEW q \in Procs, q # p
        PROVE  proc'[q] = "loading" <=> \E x \in Threads : thread'[x].child = q
    <3>1. \A x \in Threads : thread'[x].child = q <=> thread[x].child = q
      BY <1>1, <1>2, <2>1, Constants
    <3>2. proc'[q] = proc[q]
      BY <1>1, <2>1 DEF ProcType
    <3> QED BY <3>1, <3>2 DEF ProcsInv
  <2>2. proc'[p] # "loading"
    BY <1>1 DEF ProcType
  <2>3. \A x \in Threads : thread'[x].child # p
    <3>1. CASE thread[t].child = p
      BY <1>1, <1>2, <3>1 DEF ProcsInv
    <3>2. CASE thread[t].proc = p /\ thread[t].child = None
      <4>1. proc[p] = "live"
        BY <1>1, <3>2 DEF ProcsInv
      <4>2. \A x \in Threads : thread[x].child # p
        BY <1>1, <4>1 DEF ProcsInv
      <4> QED BY <1>1, <1>2, <4>2
    <3> QED BY <1>1, <3>1, <3>2
  <2> QED BY <2>1, <2>2, <2>3
<1>6. \A x, y \in Threads : thread'[x].child # None /\ thread'[x].child = thread'[y].child => x = y
  BY <1>1 DEF ProcsInv
<1>7. ProcsInv'
  BY <1>3, <1>4, <1>5, <1>6 DEF ProcsInv
<1>8. numThreads' = [q \in Procs |-> numThreads'[q]]
  BY <1>1 DEF ProcType
<1>9. proc' \in [Procs -> {"none", "loading", "live", "leaked"}]
  BY <1>1 DEF ProcType
<1> QED BY <1>7, <1>8, <1>9, CountsType DEF ProcType

\* The effect of the end of SwitchTo on the processes.
LEMMA ResumedProcs ==
  ASSUME ThreadType, ThreadsInv, ProcType, ProcsInv, NEW t \in Threads, Resumed(t)
  PROVE  \/ /\ g_thread_to_be_destroyed = None
            /\ UNCHANGED <<memory, numThreads, proc, exec_file, stacks, status>>
         \/ \E g \in Threads, p \in Procs :
              /\ g_thread_to_be_destroyed = g /\ thread[g].proc = p /\ proc[p] = "live"
              /\ numThreads' = [numThreads EXCEPT ![p] = @ - 1]
              /\ \/ numThreads[p] - 1 = 0 /\ DeleteProcess(p)
                 \/ /\ numThreads[p] - 1 # 0
                    /\ UNCHANGED <<memory, proc, exec_file, stacks, status>>
<1>1. DeleteFinished
  BY DEF Resumed, Resume
<1>2. CASE g_thread_to_be_destroyed = None
  BY <1>1, <1>2 DEF DeleteFinished
<1>3. CASE g_thread_to_be_destroyed # None
  <2>1. PICK g \in Threads : g_thread_to_be_destroyed = g
    BY <1>3 DEF ThreadType
  <2>2. Delete(g)
    BY <1>1, <1>3, <2>1 DEF DeleteFinished
  <2>3. thread[g].state = "finished"
    BY <2>1 DEF ThreadsInv
  <2>4. PICK p \in Procs : thread[g].proc = p
    BY <2>3 DEF ThreadsInv
  <2>5. proc[p] = "live"
    BY <2>4 DEF ProcsInv
  <2>6. numThreads' = [numThreads EXCEPT ![p] = @ - 1]
    BY <2>2, <2>4 DEF Delete
  <2>7. \/ numThreads[p] - 1 = 0 /\ DeleteProcess(p)
        \/ /\ numThreads[p] - 1 # 0
           /\ UNCHANGED <<memory, proc, exec_file, stacks, status>>
    BY <2>2, <2>4 DEF Delete, LastThread
  <2> QED BY <2>1, <2>4, <2>5, <2>6, <2>7
<1> QED BY <1>2, <1>3

\* A switch, with the deletion of the thread that finished.
LEMMA ResumeCounts ==
  ASSUME ThreadType, ThreadsInv, ProcType, ProcsInv, NEW t \in Threads, Resumed(t)
  PROVE  ProcType' /\ ProcsInv'
<1>1. /\ thread'[t].proc = thread[t].proc /\ thread'[t].child = thread[t].child
      /\ t # g_thread_to_be_destroyed
      /\ (g_thread_to_be_destroyed \in Threads => thread'[g_thread_to_be_destroyed] = NoThread)
      /\ \A x \in Threads : x # t /\ x # g_thread_to_be_destroyed => thread'[x] = thread[x]
  BY ResumedEffect
<1>2. CASE g_thread_to_be_destroyed = None /\ UNCHANGED <<numThreads, proc>>
  <2>1. \A x \in Threads : thread'[x].proc = thread[x].proc /\ thread'[x].child = thread[x].child
    BY <1>1, <1>2, Constants
  <2>2. \A q \in Procs : {x \in Threads : thread'[x].proc = q} = {x \in Threads : thread[x].proc = q}
    BY <2>1
  <2>3. ProcsInv'
    BY <1>2, <2>1, <2>2 DEF ProcsInv
  <2> QED BY <1>2, <2>3 DEF ProcType
<1>3. ASSUME NEW g \in Threads, NEW p \in Procs,
             g_thread_to_be_destroyed = g, thread[g].proc = p, proc[p] = "live",
             numThreads' = [numThreads EXCEPT ![p] = @ - 1],
             \/ numThreads[p] - 1 = 0 /\ proc' = [proc EXCEPT ![p] = "none"]
             \/ numThreads[p] - 1 # 0 /\ proc' = proc
      PROVE  ProcType' /\ ProcsInv'
  <2>1. /\ \A x \in Threads : x # g => thread'[x].proc = thread[x].proc /\ thread'[x].child = thread[x].child
        /\ thread'[g].proc = None /\ thread'[g].child = None
    BY <1>1, <1>3, NoThreadType
  <2>2. thread[g].child = None
    BY <1>3 DEF ThreadsInv, Stages
  <2>3. \A x \in Threads : thread'[x].child = thread[x].child
    BY <2>1, <2>2
  <2>4. ASSUME NEW q \in Procs
        PROVE  /\ numThreads'[q] = Cardinality(Within(q)')
               /\ q # p => \A x \in Threads : thread'[x].proc = q <=> thread[x].proc = q
    <3>1. numThreads[q] = Cardinality(Within(q)) /\ numThreads[q] \in Nat
      <4>1. numThreads[q] = Cardinality(Within(q))
        BY DEF ProcsInv, Within
      <4> QED BY <4>1, WithinFinite
    <3>2. CASE q = p
      <4>1. Within(q)' = Within(q) \ {g} /\ g \in Within(q)
        BY <1>3, <2>1, <3>2, Constants DEF Within
      <4>2. Cardinality(Within(q)') = Cardinality(Within(q)) - 1
        BY <4>1, WithinFinite, FS_RemoveElement
      <4>3. numThreads'[q] = numThreads[q] - 1
        BY <1>3, <3>2 DEF ProcType
      <4> QED BY <3>1, <3>2, <4>2, <4>3
    <3>3. CASE q # p
      <4>1. \A x \in Threads : thread'[x].proc = q <=> thread[x].proc = q
        BY <1>3, <2>1, <3>3, Constants
      <4>2. Within(q)' = Within(q)
        BY <4>1 DEF Within
      <4>3. numThreads'[q] = numThreads[q]
        BY <1>3, <3>3 DEF ProcType
      <4> QED BY <3>1, <4>1, <4>2, <4>3
    <3> QED BY <3>2, <3>3
  <2>5. \A q \in Procs : numThreads'[q] = Cardinality({x \in Threads : thread'[x].proc = q})
    BY <2>4 DEF Within
  <2>6. \A q \in Procs : q # p => proc'[q] = proc[q]
    BY <1>3 DEF ProcType
  <2>7. proc'[p] = "live" <=> \E x \in Threads : thread'[x].proc = p
    <3>1. numThreads'[p] = numThreads[p] - 1 /\ numThreads[p] \in Nat /\ numThreads'[p] = Cardinality(Within(p)')
      BY <1>3, <2>4 DEF ProcType
    <3>2. Cardinality(Within(p)') \in Nat
          /\ (Cardinality(Within(p)') > 0 <=> \E x \in Threads : thread'[x].proc = p)
      BY WithinFinite
    <3>3. CASE numThreads[p] - 1 = 0 /\ proc' = [proc EXCEPT ![p] = "none"]
      <4>1. proc'[p] = "none" /\ ~(Cardinality(Within(p)') > 0)
        BY <3>1, <3>3 DEF ProcType
      <4> QED BY <3>2, <4>1
    <3>4. CASE numThreads[p] - 1 # 0 /\ proc' = proc
      <4>1. proc'[p] = "live" /\ Cardinality(Within(p)') > 0
        BY <1>3, <3>1, <3>2, <3>4
      <4> QED BY <3>2, <4>1
    <3> QED BY <1>3, <3>3, <3>4
  <2>8. \A q \in Procs : proc'[q] = "live" <=> \E x \in Threads : thread'[x].proc = q
    BY <2>4, <2>6, <2>7 DEF ProcsInv
  <2>9. proc'[p] # "loading" /\ proc[p] # "loading"
    BY <1>3 DEF ProcType
  <2>10. \A q \in Procs : proc'[q] = "loading" <=> \E x \in Threads : thread'[x].child = q
    BY <2>3, <2>6, <2>9 DEF ProcsInv
  <2>11. ProcsInv'
    <3>1. \A x, y \in Threads :
            thread'[x].child # None /\ thread'[x].child = thread'[y].child => x = y
      BY <2>3 DEF ProcsInv
    <3> HIDE <1>3
    <3> QED BY <2>5, <2>8, <2>10, <3>1 DEF ProcsInv
  <2>12. numThreads' = [q \in Procs |-> numThreads'[q]]
    BY <1>3 DEF ProcType
  <2>13. proc' \in [Procs -> {"none", "loading", "live", "leaked"}]
    BY <1>3 DEF ProcType
  <2> QED BY <2>11, <2>12, <2>13, CountsType DEF ProcType
<1> QED BY <1>2, <1>3, ResumedProcs DEF DeleteProcess

\* Every step keeps the counts.
LEMMA StepProcs ==
  ASSUME ThreadType, ThreadsInv, ProcType, ProcsInv, [Next]_vars
  PROVE  ProcType' /\ ProcsInv'
<1>1. ASSUME NEW t \in Threads, OneThread(t)
      PROVE  ProcType' /\ ProcsInv'
  BY <1>1, LocalProcs
<1>2. ASSUME NEW t \in Threads, NEW u \in Threads, ExecEnd(t, u) \/ NewThread(t, u)
      PROVE  ProcType' /\ ProcsInv'
  BY <1>2, StartEffect, StartedProcs
<1>3. ASSUME NEW t \in Threads, Exit(t) \/ MainEnd(t)
      PROVE  ProcType' /\ ProcsInv'
  <2>1. /\ \A x \in Threads : x # t => thread'[x] = thread[x]
        /\ thread'[t].proc = thread[t].proc /\ thread'[t].child = thread[t].child
        /\ numThreads' = numThreads /\ proc' = proc
    BY <1>3, FinishEffect DEF objects
  <2>2. \A x \in Threads : thread'[x].proc = thread[x].proc /\ thread'[x].child = thread[x].child
    BY <2>1
  <2>3. \A q \in Procs : {x \in Threads : thread'[x].proc = q} = {x \in Threads : thread[x].proc = q}
    BY <2>2
  <2>4. ProcsInv'
    BY <2>1, <2>2, <2>3 DEF ProcsInv
  <2> QED BY <2>1, <2>4 DEF ProcType
<1>4. ASSUME NEW t \in Threads, Resumed(t)
      PROVE  ProcType' /\ ProcsInv'
  BY <1>4, ResumeCounts
<1>5. ASSUME Still, proc' = proc \/ \E p \in Procs \ {Boot} :
                proc[p] = "none" /\ proc' = [proc EXCEPT ![p] = "leaked"]
      PROVE  ProcType' /\ ProcsInv'
  <2>1. /\ thread' = thread /\ numThreads' = numThreads
        /\ proc' \in [Procs -> {"none", "loading", "live", "leaked"}]
        /\ \A q \in Procs : proc'[q] = proc[q] \/ (proc[q] = "none" /\ proc'[q] = "leaked")
    BY <1>5 DEF Still, ProcType
  <2>2. ProcsInv'
    BY <2>1 DEF ProcsInv
  <2> QED BY <2>1, <2>2 DEF ProcType
<1> QED BY <1>1, <1>2, <1>3, <1>4, <1>5, ThreadKinds

-----------------------------------------------------------------------------
(* The numbers of the threads, and Join *)

\* A step that gives no number, and after which the same threads are alive.
LEMMA NumbersKept ==
  ASSUME ThreadType, NumbersInv, ids' = ids, finished' = finished,
         \A x \in Threads : Alive(x)' <=> Alive(x),
         \A x \in Threads : Alive(x) => thread'[x].proc = thread[x].proc
  PROVE  NumbersInv'
<1>1. \A i \in 1 .. Len(ids) : ids[i] \in Threads
  BY DEF ThreadType
<1>2. \A i : Unfinished(i)' <=> Unfinished(i)
  BY DEF Unfinished
<1>3. \A i \in 1 .. Len(ids) : Unfinished(i) => Alive(ids[i]) /\ thread[ids[i]].proc # Boot
  BY DEF NumbersInv
<1>4. \A i \in 1 .. Len(ids') : Unfinished(i)' => Alive(ids[i])' /\ thread'[ids'[i]].proc # Boot
  BY <1>1, <1>2, <1>3
<1>5. \A x \in Threads : Alive(x)' /\ thread'[x].proc # Boot =>
        \E i \in 1 .. Len(ids') : Unfinished(i)' /\ ids'[i] = x
  BY <1>2 DEF NumbersInv
<1>6. \A i, j \in 1 .. Len(ids') : Unfinished(i)' /\ Unfinished(j)' /\ ids'[i] = ids'[j] => i = j
  BY <1>2 DEF NumbersInv
<1>7. finished' \subseteq FirstId .. Len(ids') + FirstId - 1
  BY DEF NumbersInv
<1> HIDE DEF Unfinished
<1> QED BY <1>4, <1>5, <1>6, <1>7 DEF NumbersInv

\* A thread that begins gets the next number.
LEMMA StartedNumbers ==
  ASSUME ThreadType, ThreadsInv, NumbersInv,
         NEW t \in Threads, NEW u \in Threads, NEW p, Started(t, u, p)
  PROVE  NumbersInv'
<1>1. /\ p # Boot /\ t # u /\ thread[t].state = "running" /\ thread[u].state = "none"
      /\ \A x \in Threads : x # t /\ x # u => thread'[x] = thread[x]
      /\ thread'[t].state = "running" /\ thread'[t].proc = thread[t].proc
      /\ thread'[u].state = "ready" /\ thread'[u].proc = p
      /\ ids' = Append(ids, u) /\ finished' = finished
  BY DEF Started
<1>2. PICK n \in Nat : n = Len(ids)
  BY DEF ThreadType
<1>3. /\ Len(ids') = n + 1 /\ ids'[n + 1] = u
      /\ \A i \in 1 .. n : ids'[i] = ids[i] /\ ids[i] \in Threads
  BY <1>1, <1>2 DEF ThreadType
<1>4. finished \subseteq 3 .. n + 2
  BY <1>2 DEF NumbersInv, FirstId
<1>5. \A i : Unfinished(i) <=> i \in 1 .. n /\ i + 2 \notin finished
  <2>1. \A i \in 1 .. n : i + FirstId - 1 = i + 2
    BY DEF FirstId
  <2> QED BY <1>2, <2>1 DEF Unfinished
<1>6. \A i : Unfinished(i)' <=> i \in 1 .. n + 1 /\ i + 2 \notin finished
  <2>1. \A i \in 1 .. n + 1 : i + FirstId - 1 = i + 2
    BY DEF FirstId
  <2> QED BY <1>1, <1>3, <2>1 DEF Unfinished
<1>7. \A i : Unfinished(i)' <=> Unfinished(i) \/ i = n + 1
  <2>1. \A i : i \in 1 .. n + 1 <=> i \in 1 .. n \/ i = n + 1
    BY <1>2
  <2>2. n + 1 + 2 \notin finished
    BY <1>4
  <2> QED BY <1>5, <1>6, <2>1, <2>2
<1>8. ~Alive(u) /\ Alive(u)' /\ \A x \in Threads : x # u => (Alive(x)' <=> Alive(x))
  BY <1>1 DEF Alive
<1>9. \A x \in Threads : x # u => thread'[x].proc = thread[x].proc
  BY <1>1
<1>10. \A i \in 1 .. n : Unfinished(i) => Alive(ids[i]) /\ thread[ids[i]].proc # Boot /\ ids[i] # u
  BY <1>2, <1>8 DEF NumbersInv
<1>11. \A i \in 1 .. n + 1 : i \in 1 .. n \/ i = n + 1
  BY <1>2
<1>12. \A i \in 1 .. Len(ids') : Unfinished(i)' => Alive(ids[i])' /\ thread'[ids'[i]].proc # Boot
  <2>1. ASSUME NEW i \in 1 .. n + 1, Unfinished(i)'
        PROVE  Alive(ids[i])' /\ thread'[ids'[i]].proc # Boot
    <3>1. CASE i = n + 1
      <4>1. ids'[i] = u
        BY <1>3, <3>1
      <4>2. thread'[ids'[i]] = thread'[u]
        BY <4>1
      <4> QED BY <1>1, <4>2 DEF Alive
    <3>2. CASE i \in 1 .. n
      <4>1. i # n + 1
        BY <3>2
      <4>2. Alive(ids[i]) /\ thread[ids[i]].proc # Boot /\ ids[i] # u /\ ids'[i] = ids[i] /\ ids[i] \in Threads
        BY <1>3, <1>7, <1>10, <2>1, <3>2, <4>1
      <4>3. PICK x \in Threads : x = ids[i] /\ x = ids'[i]
        BY <4>2
      <4>4. Alive(x) /\ x # u /\ thread[x].proc # Boot
        BY <4>2, <4>3
      <4>5. Alive(x)' /\ thread'[x].proc # Boot
        BY <1>8, <1>9, <4>4
      <4> QED BY <4>3, <4>5 DEF Alive
    <3> QED BY <1>11, <3>1, <3>2
  <2> QED BY <1>3, <2>1
<1>13. \A i, j \in 1 .. Len(ids') : Unfinished(i)' /\ Unfinished(j)' /\ ids'[i] = ids'[j] => i = j
  BY <1>2, <1>3, <1>7, <1>10, <1>11 DEF NumbersInv
<1>14. \A x \in Threads : Alive(x)' /\ thread'[x].proc # Boot =>
         \E i \in 1 .. Len(ids') : Unfinished(i)' /\ ids'[i] = x
  <2>1. ASSUME NEW x \in Threads, Alive(x)', thread'[x].proc # Boot
        PROVE  \E i \in 1 .. n + 1 : Unfinished(i)' /\ ids'[i] = x
    <3>1. CASE x = u
      BY <1>3, <1>7, <3>1
    <3>2. CASE x # u
      <4>1. Alive(x) /\ thread[x].proc # Boot
        BY <1>8, <1>9, <2>1, <3>2
      <4>2. PICK i \in 1 .. n : Unfinished(i) /\ ids[i] = x
        BY <1>2, <4>1 DEF NumbersInv
      <4> QED BY <1>3, <1>7, <4>2
    <3> QED BY <3>1, <3>2
  <2> QED BY <1>3, <2>1
<1>15. finished' \subseteq FirstId .. Len(ids') + FirstId - 1
  BY <1>1, <1>3, <1>4 DEF FirstId
<1> QED BY <1>12, <1>13, <1>14, <1>15 DEF NumbersInv

\* A thread that ends loses its number.
LEMMA FinishNumbers ==
  ASSUME ThreadType, ThreadsInv, NumbersInv, NEW t \in Threads, Exit(t) \/ MainEnd(t)
  PROVE  NumbersInv'
<1>1. /\ thread[t].state = "running" /\ thread'[t].state = "finished"
      /\ thread'[t].proc = thread[t].proc
      /\ \A x \in Threads : x # t => thread'[x] = thread[x]
      /\ finished' = IF thread[t].proc = Boot THEN finished
                     ELSE finished \cup {IdOf(t) + FirstId - 1}
      /\ ids' = ids
  BY FinishEffect
<1>2. /\ Alive(t) /\ ~Alive(t)' /\ \A x \in Threads : x # t => (Alive(x)' <=> Alive(x))
  BY <1>1 DEF Alive
<1>3. \A x \in Threads : thread'[x].proc = thread[x].proc
  BY <1>1
<1>4. Len(ids) \in Nat /\ \A i \in 1 .. Len(ids) : ids[i] \in Threads
  BY DEF ThreadType
<1>5. \A i : Unfinished(i)' <=> Unfinished(i) /\ ids[i] # t
  <2>1. CASE thread[t].proc = Boot
    <3>1. \A i : Unfinished(i)' <=> Unfinished(i)
      BY <1>1, <2>1 DEF Unfinished
    <3>2. \A i : Unfinished(i) => ids[i] # t
      BY <2>1 DEF NumbersInv, Unfinished
    <3> QED BY <3>1, <3>2
  <2>2. CASE thread[t].proc # Boot
    <3>1. PICK k \in 1 .. Len(ids) : k = IdOf(t) /\ Unfinished(k) /\ ids[k] = t
      BY <1>2, <2>2, IdOfThread
    <3>2. finished' = finished \cup {k + FirstId - 1}
      BY <1>1, <2>2, <3>1
    <3>3. \A i \in 1 .. Len(ids) : i + FirstId - 1 = k + FirstId - 1 <=> i = k
      BY <1>4 DEF FirstId
    <3>4. \A i : Unfinished(i)' <=> Unfinished(i) /\ i # k
      BY <1>1, <3>2, <3>3 DEF Unfinished
    <3>5. \A i : Unfinished(i) /\ ids[i] = t => i = k
      BY <3>1 DEF NumbersInv, Unfinished
    <3> QED BY <3>1, <3>4, <3>5
  <2> QED BY <2>1, <2>2
<1>6. finished' \subseteq FirstId .. Len(ids') + FirstId - 1
  <2>1. CASE thread[t].proc = Boot
    BY <1>1, <2>1 DEF NumbersInv
  <2>2. CASE thread[t].proc # Boot
    <3>1. IdOf(t) \in 1 .. Len(ids)
      BY <1>2, <2>2, IdOfThread
    <3>2. IdOf(t) + FirstId - 1 \in FirstId .. Len(ids) + FirstId - 1
      BY <1>4, <3>1 DEF FirstId
    <3> QED BY <1>1, <2>2, <3>2 DEF NumbersInv
  <2> QED BY <2>1, <2>2
<1>7. ASSUME NEW i \in 1 .. Len(ids), Unfinished(i)'
      PROVE  Alive(ids[i])' /\ thread'[ids[i]].proc # Boot
  <2>1. PICK x \in Threads : x = ids[i]
    BY <1>4
  <2>2. x # t /\ Alive(x) /\ thread[x].proc # Boot
    BY <1>5, <1>7, <2>1 DEF NumbersInv
  <2>3. Alive(x)' /\ thread'[x].proc # Boot
    BY <1>2, <1>3, <2>2
  <2> QED BY <1>1, <2>1, <2>3 DEF Alive
<1>8. \A i, j \in 1 .. Len(ids) : Unfinished(i)' /\ Unfinished(j)' /\ ids[i] = ids[j] => i = j
  BY <1>5 DEF NumbersInv
<1>9. \A x \in Threads : Alive(x)' /\ thread'[x].proc # Boot =>
        \E i \in 1 .. Len(ids) : Unfinished(i)' /\ ids[i] = x
  <2>1. ASSUME NEW x \in Threads, Alive(x)', thread'[x].proc # Boot
        PROVE  \E i \in 1 .. Len(ids) : Unfinished(i)' /\ ids[i] = x
    <3>1. x # t /\ Alive(x) /\ thread[x].proc # Boot
      BY <1>2, <1>3, <2>1
    <3>2. PICK i \in 1 .. Len(ids) : Unfinished(i) /\ ids[i] = x
      BY <3>1 DEF NumbersInv
    <3> QED BY <1>5, <3>1, <3>2
  <2> QED BY <2>1
<1> QED BY <1>1, <1>6, <1>7, <1>8, <1>9 DEF NumbersInv, Alive

\* Every step keeps the numbers.
LEMMA StepNumbers ==
  ASSUME ThreadType, ThreadsInv, NumbersInv, [Next]_vars
  PROVE  NumbersInv'
<1>1. ASSUME NEW t \in Threads, OneThread(t)
      PROVE  NumbersInv'
  <2>1. PICK r : Local(t, r)
    BY <1>1, OneThreadEffect
  <2>2. /\ thread'[t] = r /\ \A x \in Threads : x # t => thread'[x] = thread[x]
        /\ r.proc = thread[t].proc /\ ids' = ids /\ finished' = finished
        /\ thread[t].state \in {"running", "disk", "ready"}
        /\ r.state \in {"running", "disk", "ready"}
    BY <2>1 DEF Local, ThreadType
  <2>3. \A x \in Threads : Alive(x)' <=> Alive(x)
    BY <2>2 DEF Alive
  <2> QED BY <2>2, <2>3, NumbersKept
<1>2. ASSUME NEW t \in Threads, NEW u \in Threads, ExecEnd(t, u) \/ NewThread(t, u)
      PROVE  NumbersInv'
  BY <1>2, StartEffect, StartedNumbers
<1>3. ASSUME NEW t \in Threads, Exit(t) \/ MainEnd(t)
      PROVE  NumbersInv'
  BY <1>3, FinishNumbers
<1>4. ASSUME NEW t \in Threads, Resumed(t)
      PROVE  NumbersInv'
  <2>1. /\ thread[t].state = "ready" /\ thread'[t].state = "running"
        /\ thread'[t].proc = thread[t].proc
        /\ (g_thread_to_be_destroyed \in Threads => thread'[g_thread_to_be_destroyed] = NoThread)
        /\ \A x \in Threads : x # t /\ x # g_thread_to_be_destroyed => thread'[x] = thread[x]
        /\ t # g_thread_to_be_destroyed
        /\ ids' = ids /\ finished' = finished
    BY <1>4, ResumedEffect
  <2>2. g_thread_to_be_destroyed \in Threads => thread[g_thread_to_be_destroyed].state = "finished"
    BY DEF ThreadsInv
  <2>3. \A x \in Threads : Alive(x)' <=> Alive(x)
    BY <2>1, <2>2, NoThreadType DEF Alive
  <2>4. \A x \in Threads : Alive(x) => thread'[x].proc = thread[x].proc
    BY <2>1, <2>2 DEF Alive
  <2> QED BY <2>1, <2>3, <2>4, NumbersKept
<1>5. CASE Still
  BY <1>5, NumbersKept DEF Still, Alive
<1> QED BY <1>1, <1>2, <1>3, <1>4, <1>5, ThreadKinds

\* What Join promises of one step.
Returns ==
  \A t \in Threads :
    thread[t].pc = "join" /\ thread'[t].pc = "user" /\ thread'[t].state = "running" =>
      thread[t].id \in finished \/ thread[t].id >= FirstId + Len(ids)

\* A step that lets no thread enter Join and no other number pass.
LEMMA JoinKept ==
  ASSUME JoinInv, ids' = ids, finished \subseteq finished',
         \A x \in Threads : thread'[x].pc = "join" =>
           /\ thread[x].pc = "join" /\ thread'[x].id = thread[x].id
           /\ thread'[x].target = thread[x].target
           /\ running = x /\ thread[x].target = None => running' = x
  PROVE  JoinInv'
<1>1. ASSUME NEW x \in Threads, thread'[x].pc = "join"
      PROVE  /\ thread'[x].id \in FirstId .. FirstId + MaxIds
             /\ \/ thread'[x].id \in finished'
                \/ thread'[x].id >= FirstId + Len(ids') /\ thread'[x].target = None /\ running' = x
                \/ /\ thread'[x].id < FirstId + Len(ids')
                   /\ thread'[x].target = ids'[thread'[x].id - FirstId + 1]
  <2>1. /\ thread[x].pc = "join" /\ thread'[x].id = thread[x].id
        /\ thread'[x].target = thread[x].target
        /\ (running = x /\ thread[x].target = None => running' = x)
    BY <1>1
  <2>2. /\ thread[x].id \in FirstId .. FirstId + MaxIds
        /\ \/ thread[x].id \in finished
           \/ thread[x].id >= FirstId + Len(ids) /\ thread[x].target = None /\ running = x
           \/ thread[x].id < FirstId + Len(ids) /\ thread[x].target = ids[thread[x].id - FirstId + 1]
    BY <2>1 DEF JoinInv
  <2> QED BY <2>1, <2>2
<1> QED BY <1>1 DEF JoinInv

\* The call of Join finds the object of the number.
LEMMA JoinCalls ==
  ASSUME ThreadType, ThreadsInv, NumbersInv, JoinInv,
         NEW t \in Threads, NEW id \in FirstId .. FirstId + MaxIds, JoinCall(t, id)
  PROVE  JoinInv' /\ Returns
<1>1. running = t /\ running' = running
  BY JoinCallEffect
<1>2. PICK r : /\ Local(t, r) /\ r.pc = "join" /\ r.id = id
               /\ r.target = LET obj == SearchObject(id) IN
                    IF obj # None /\ thread[obj].state # "none" THEN obj ELSE None
  BY JoinCallEffect
<1>3. /\ thread'[t] = r /\ \A x \in Threads : x # t => thread'[x] = thread[x]
      /\ ids' = ids /\ finished' = finished
  BY <1>2 DEF Local, ThreadType
<1>4. Len(ids) \in Nat
  BY DEF ThreadType
<1>5. \/ id \in finished
      \/ id >= FirstId + Len(ids) /\ r.target = None
      \/ id < FirstId + Len(ids) /\ r.target = ids[id - FirstId + 1]
  <2>1. CASE id >= FirstId + Len(ids)
    <3>1. ~(id < FirstId + Len(ids))
      BY <1>4, <2>1, Constants DEF FirstId
    <3> QED BY <1>2, <2>1, <3>1 DEF SearchObject
  <2>2. CASE id < FirstId + Len(ids)
    <3>1. PICK i \in 1 .. Len(ids) : i = id - FirstId + 1 /\ i + FirstId - 1 = id
      BY <1>4, <2>2, Constants DEF FirstId
    <3>2. ids[i] \in Threads /\ SearchObject(id) = ids[i]
      BY <2>2, <3>1 DEF ThreadType, SearchObject
    <3>3. id \in finished \/ Alive(ids[i])
      BY <3>1 DEF NumbersInv, Unfinished
    <3>4. CASE Alive(ids[i])
      BY <1>2, <2>2, <3>1, <3>2, <3>4, Constants DEF Alive
    <3> QED BY <3>3, <3>4
  <2> QED BY <1>4, <2>1, <2>2, Constants DEF FirstId
<1>6. ASSUME NEW x \in Threads, x # t, thread'[x].pc = "join"
      PROVE  /\ thread'[x].id \in FirstId .. FirstId + MaxIds
             /\ \/ thread'[x].id \in finished'
                \/ thread'[x].id < FirstId + Len(ids')
                   /\ thread'[x].target = ids'[thread'[x].id - FirstId + 1]
  BY <1>1, <1>3, <1>6 DEF JoinInv
<1>7. JoinInv'
  BY <1>1, <1>2, <1>3, <1>5, <1>6 DEF JoinInv
<1>8. Returns
  BY <1>2, <1>3 DEF Returns
<1> QED BY <1>7, <1>8

\* Join returns when the thread it waits for is not alive.
LEMMA JoinReturns ==
  ASSUME ThreadType, ThreadsInv, NumbersInv, JoinInv, NEW t \in Threads, JoinReturn(t)
  PROVE  JoinInv' /\ Returns
<1>1. running = t /\ running' = running /\ thread[t].pc = "join" /\ ~Waiting(t)
  BY JoinReturnEffect
<1>2. PICK r : Local(t, r) /\ r.pc = "user"
  BY JoinReturnEffect
<1>3. /\ thread'[t] = r /\ \A x \in Threads : x # t => thread'[x] = thread[x]
      /\ ids' = ids /\ finished' = finished
  BY <1>2 DEF Local, ThreadType
<1>4. JoinInv'
  BY <1>1, <1>2, <1>3, JoinKept
<1>5. thread[t].id \in finished \/ thread[t].id >= FirstId + Len(ids)
  <2>1. Len(ids) \in Nat
    BY DEF ThreadType
  <2>2. SUFFICES ASSUME thread[t].id \notin finished,
                        thread[t].id < FirstId + Len(ids),
                        thread[t].id \in FirstId .. FirstId + MaxIds,
                        thread[t].target = ids[thread[t].id - FirstId + 1]
                 PROVE  FALSE
    BY <1>1 DEF JoinInv
  <2>3. PICK i \in 1 .. Len(ids) : i = thread[t].id - FirstId + 1 /\ i + FirstId - 1 = thread[t].id
    BY <2>1, <2>2, Constants DEF FirstId
  <2>4. Alive(ids[i]) /\ ids[i] \in Threads
    BY <2>2, <2>3 DEF NumbersInv, Unfinished, ThreadType
  <2> QED BY <1>1, <2>2, <2>3, <2>4 DEF Waiting
<1>6. Returns
  BY <1>2, <1>3, <1>5 DEF Returns
<1> QED BY <1>4, <1>6

\* The other steps of one thread.
LEMMA LocalJoin ==
  ASSUME ThreadType, ThreadsInv, NumbersInv, JoinInv, NEW t \in Threads, OneThread(t)
  PROVE  JoinInv' /\ Returns
<1>1. ASSUME NEW r, Local(t, r), r.pc # "join", thread[t].pc # "join"
      PROVE  JoinInv' /\ Returns
  <2>1. /\ thread'[t] = r /\ \A x \in Threads : x # t => thread'[x] = thread[x]
        /\ ids' = ids /\ finished' = finished
    BY <1>1 DEF Local, ThreadType
  <2>2. running' = running \/ running = t \/ running = None
    BY <1>1 DEF Local, ThreadsInv
  <2>3. JoinInv'
    BY <1>1, <2>1, <2>2, Constants, JoinKept
  <2>4. Returns
    BY <1>1, <2>1 DEF Returns
  <2> QED BY <2>3, <2>4
<1>2. ASSUME NEW r, Local(t, r), Paused(t, r),
             r.pc = "join" /\ running' # running => thread[t].target # None
      PROVE  JoinInv' /\ Returns
  <2>1. /\ thread'[t] = r /\ \A x \in Threads : x # t => thread'[x] = thread[x]
        /\ ids' = ids /\ finished' = finished
        /\ r.pc = thread[t].pc /\ r.id = thread[t].id /\ r.target = thread[t].target
    BY <1>2 DEF Local, ThreadType, Paused
  <2>2. running' = running \/ running = t \/ running = None
    BY <1>2 DEF Local, ThreadsInv
  <2>3. JoinInv'
    BY <1>2, <2>1, <2>2, Constants, JoinKept
  <2>4. Returns
    BY <1>2, <2>1 DEF Returns
  <2> QED BY <2>3, <2>4
<1>3. CASE DiskDone(t)
  <2>1. PICK r : Local(t, r) /\ Paused(t, r)
    BY <1>3, DiskDoneEffect
  <2>2. thread[t].state = "disk"
    BY <1>3 DEF DiskDone
  <2>3. running' = running
    BY <2>1, <2>2 DEF Local
  <2> QED BY <1>2, <2>1, <2>3
<1>4. CASE Yield(t) \/ JoinYield(t)
  <2>1. PICK r : Local(t, r) /\ Paused(t, r)
    BY <1>4, YieldEffect
  <2>2. thread[t].pc = "join" => Waiting(t)
    BY <1>4, YieldEffect
  <2>3. r.pc = "join" => thread[t].target # None
    BY <2>1, <2>2, Constants DEF Paused, Waiting
  <2> QED BY <1>2, <2>1, <2>3
<1>5. CASE \E f \in Files, p \in Procs \ {Boot} : ExecCall(t, f, p)
  <2>1. thread[t].pc = "user" /\ \E r : Local(t, r) /\ r.pc = "header"
    BY <1>5, ExecCallEffect
  <2> QED BY <1>1, <2>1
<1>6. CASE HeaderRead(t)
  <2>1. thread[t].pc = "header" /\ \E r : Local(t, r) /\ r.pc = "load"
    BY <1>6, HeaderReadEffect
  <2> QED BY <1>1, <2>1
<1>7. CASE LoadPage(t)
  <2>1. thread[t].pc = "load" /\ \E r : Local(t, r) /\ r.pc \in {"load", "reading"}
    BY <1>7, LoadPageEffect
  <2> QED BY <1>1, <2>1
<1>8. CASE PageRead(t)
  <2>1. thread[t].pc = "reading" /\ \E r : Local(t, r) /\ r.pc = "load"
    BY <1>8, PageReadEffect
  <2> QED BY <1>1, <2>1
<1>9. CASE FirstRun(t)
  <2>1. thread[t].pc = "start" /\ \E r : Local(t, r) /\ r.pc = "user"
    BY <1>9, FirstRunEffect
  <2> QED BY <1>1, <2>1
<1> QED BY <1>3, <1>4, <1>5, <1>6, <1>7, <1>8, <1>9, JoinCalls, JoinReturns DEF OneThread

\* Every step keeps Join to the number it was given, and Join returns late enough.
LEMMA StepJoin ==
  ASSUME ThreadType, ThreadsInv, NumbersInv, JoinInv, [Next]_vars
  PROVE  JoinInv' /\ Returns
<1>1. ASSUME NEW t \in Threads, OneThread(t)
      PROVE  JoinInv' /\ Returns
  BY <1>1, LocalJoin
<1>2. ASSUME NEW t \in Threads, NEW u \in Threads, NEW p, Started(t, u, p)
      PROVE  JoinInv' /\ Returns
  <2>1. /\ running = t /\ running' = running /\ thread[u].state = "none"
        /\ thread[t].pc # "join"
        /\ \A x \in Threads : x # t /\ x # u => thread'[x] = thread[x]
        /\ thread'[t].pc = "user" /\ thread'[u].pc = "start"
        /\ ids' = Append(ids, u) /\ finished' = finished
    BY <1>2 DEF Started
  <2>2. thread[u].pc = "user"
    BY <2>1 DEF ThreadsInv
  <2>3. PICK n \in Nat : n = Len(ids)
    BY DEF ThreadType
  <2>4. Len(ids') = n + 1 /\ \A i \in 1 .. n : ids'[i] = ids[i]
    BY <2>1, <2>3 DEF ThreadType
  <2>5. ASSUME NEW x \in Threads, thread'[x].pc = "join"
        PROVE  /\ thread'[x].id \in FirstId .. FirstId + MaxIds
               /\ \/ thread'[x].id \in finished'
                  \/ /\ thread'[x].id < FirstId + Len(ids')
                     /\ thread'[x].target = ids'[thread'[x].id - FirstId + 1]
    <3>1. x # t /\ x # u /\ thread'[x] = thread[x]
      BY <2>1, <2>5
    <3>2. /\ thread[x].id \in FirstId .. FirstId + MaxIds
          /\ \/ thread[x].id \in finished
             \/ thread[x].id < FirstId + n /\ thread[x].target = ids[thread[x].id - FirstId + 1]
      BY <2>1, <2>3, <2>5, <3>1 DEF JoinInv
    <3>3. \A i \in FirstId .. FirstId + MaxIds : i < FirstId + n =>
            i < FirstId + (n + 1) /\ i - FirstId + 1 \in 1 .. n
      BY <2>3, Constants DEF FirstId
    <3> QED BY <2>1, <2>4, <3>1, <3>2, <3>3
  <2>6. JoinInv'
    BY <2>5 DEF JoinInv
  <2>7. Returns
    BY <2>1, <2>2 DEF Returns
  <2> QED BY <2>6, <2>7
<1>3. ASSUME NEW t \in Threads, Exit(t) \/ MainEnd(t)
      PROVE  JoinInv' /\ Returns
  <2>1. /\ running = t /\ thread[t].pc = "user" /\ thread'[t].pc = "user"
        /\ \A x \in Threads : x # t => thread'[x] = thread[x]
        /\ finished \subseteq finished' /\ ids' = ids
    BY <1>3, FinishEffect
  <2>2. JoinInv'
    BY <2>1, JoinKept
  <2>3. Returns
    BY <2>1 DEF Returns
  <2> QED BY <2>2, <2>3
<1>4. ASSUME NEW t \in Threads, Resumed(t)
      PROVE  JoinInv' /\ Returns
  <2>1. /\ running = None /\ thread'[t].pc = thread[t].pc
        /\ thread'[t].id = thread[t].id /\ thread'[t].target = thread[t].target
        /\ (g_thread_to_be_destroyed \in Threads => thread'[g_thread_to_be_destroyed] = NoThread)
        /\ \A x \in Threads : x # t /\ x # g_thread_to_be_destroyed => thread'[x] = thread[x]
        /\ ids' = ids /\ finished' = finished
    BY <1>4, ResumedEffect
  <2>2. g_thread_to_be_destroyed \in Threads => thread[g_thread_to_be_destroyed].pc = "user"
    BY DEF ThreadsInv
  <2>3. \A x \in Threads : running # x
    BY <2>1, Constants
  <2>4. \A x \in Threads :
          thread'[x].pc = "join" =>
            /\ thread[x].pc = "join" /\ thread'[x].id = thread[x].id
            /\ thread'[x].target = thread[x].target
    BY <2>1, <2>2, NoThreadType
  <2>5. JoinInv'
    BY <2>1, <2>3, <2>4, JoinKept
  <2>6. Returns
    BY <2>1, <2>2 DEF Returns
  <2> QED BY <2>5, <2>6
<1>5. ASSUME Still
      PROVE  JoinInv' /\ Returns
  BY <1>5, JoinKept DEF Still, Returns
<1> QED BY <1>1, <1>2, <1>3, <1>4, <1>5, StartEffect, ThreadKinds

-----------------------------------------------------------------------------
(* Memory: steps that leave it alone *)

MemInv ==
  /\ MemoryType
  /\ FreeInv /\ MapInv /\ AreaInv /\ LoadInv
  /\ OwnContents /\ StackGuarded
  /\ NoAssert

\* Thread x loads the same program as before, as far as before.
SameLoad(x) ==
  /\ thread'[x].pc = thread[x].pc /\ thread'[x].child = thread[x].child
  /\ thread'[x].file = thread[x].file /\ thread'[x].next = thread[x].next

\* What a thread that goes on loading has loaded is the same.
LEMMA SameLoaded ==
  ASSUME NEW x, SameLoad(x), NEW v
  PROVE  (Loaded(x, v)' <=> Loaded(x, v)) /\ (ReadingPage(x, v)' <=> ReadingPage(x, v))
BY DEF SameLoad, Loaded, ReadingPage

\* Nothing of the memory changes, no load begins and no read ends.
LEMMA MemoryKept ==
  ASSUME MemInv, UNCHANGED <<memory, stacks, exec_file>>,
         \A x \in Threads : thread'[x].pc \in Stages \/ thread[x].pc = "reading" => SameLoad(x),
         \A p \in Procs : proc'[p] \in {"none", "leaked"} => proc[p] \in {"none", "leaked"},
         \A p \in Procs : proc[p] = "live" => proc'[p] = "live",
         status' = status \/ status' \in {"halted", "exited", "full", "unaligned"}
  PROVE  MemInv'
<1>1. UNCHANGED <<free_page_list, tpr, table, freePageId, content, stacks, exec_file>>
  BY DEF memory
<1>2. MemoryType'
  BY <1>1 DEF MemInv, MemoryType
<1>3. FreeInv' /\ MapInv' /\ OwnContents' /\ StackGuarded'
  BY <1>1 DEF MemInv, FreeInv, MapInv, OwnContents, StackGuarded
<1>4. AreaInv'
  BY <1>1 DEF MemInv, AreaInv, MemoryType
<1>5. NoAssert'
  BY DEF MemInv, NoAssert
<1>6. \A p \in Procs, v \in VirtPages : table'[p][v].read /\ ~table'[p][v].valid =>
        \E t \in Threads : thread'[t].child = p /\ ReadingPage(t, v)'
  <2>1. ASSUME NEW p \in Procs, NEW v \in VirtPages, table[p][v].read, ~table[p][v].valid
        PROVE  \E t \in Threads : thread'[t].child = p /\ ReadingPage(t, v)'
    <3>1. PICK t \in Threads : thread[t].child = p /\ ReadingPage(t, v)
      BY <2>1 DEF MemInv, LoadInv
    <3>2. SameLoad(t)
      BY <3>1 DEF ReadingPage
    <3> QED BY <3>1, <3>2, SameLoaded DEF SameLoad
  <2> QED BY <1>1, <2>1
<1>7. \A t \in Threads : thread'[t].pc \in Stages =>
        thread'[t].file \in Files /\ exec_file'[thread'[t].child] = thread'[t].file
  BY <1>1 DEF MemInv, LoadInv, SameLoad
<1>8. \A t \in Threads : thread'[t].pc = "header" => freePageId'[thread'[t].child] = 0
  BY <1>1 DEF MemInv, LoadInv, SameLoad, Stages
<1>9. ASSUME NEW t \in Threads, thread'[t].pc \in {"load", "reading"}
      PROVE  /\ thread'[t].next >= 1
             /\ \A v \in VirtPages : table'[thread'[t].child][v].read => Loaded(t, v)'
             /\ status' = "run" => /\ freePageId'[thread'[t].child] = TopPage(thread'[t].file)
                                   /\ Fits(0, TopPage(thread'[t].file))
  <2>1. SameLoad(t)
    BY <1>9 DEF Stages
  <2>2. thread[t].pc \in {"load", "reading"}
    BY <1>9, <2>1 DEF SameLoad
  <2>3. /\ thread[t].next >= 1
        /\ \A v \in VirtPages : table[thread[t].child][v].read => Loaded(t, v)
        /\ status = "run" => /\ freePageId[thread[t].child] = TopPage(thread[t].file)
                             /\ Fits(0, TopPage(thread[t].file))
    BY <2>2 DEF MemInv, LoadInv
  <2>4. status' = "run" => status = "run"
    OBVIOUS
  <2>5. \A v : Loaded(t, v)' <=> Loaded(t, v)
    BY <2>1, SameLoaded
  <2> QED BY <1>1, <2>1, <2>3, <2>4, <2>5 DEF SameLoad
<1>10. ASSUME NEW t \in Threads, thread'[t].pc = "reading"
       PROVE  \E v \in VirtPages : ReadingPage(t, v)' /\ table'[thread'[t].child][v].read
  <2>1. SameLoad(t)
    BY <1>10 DEF Stages
  <2>2. thread[t].pc = "reading"
    BY <1>10, <2>1 DEF SameLoad
  <2>3. PICK v \in VirtPages : ReadingPage(t, v) /\ table[thread[t].child][v].read
    BY <2>2 DEF MemInv, LoadInv
  <2> QED BY <1>1, <2>1, <2>3, SameLoaded DEF SameLoad
<1>11. LoadInv'
  BY <1>6, <1>7, <1>8, <1>9, <1>10 DEF LoadInv, Fits
<1> QED BY <1>2, <1>3, <1>4, <1>5, <1>11 DEF MemInv

\* A new load, of a Process object that was not in use.
LEMMA ExecCallMemory ==
  ASSUME ThreadType, ThreadsInv, ProcType, ProcsInv, MemInv,
         NEW t \in Threads, NEW f \in Files, NEW p \in Procs \ {Boot}, ExecCall(t, f, p)
  PROVE  MemInv'
<1>1. /\ thread[t].pc = "user" /\ proc[p] = "none"
      /\ proc' = [proc EXCEPT ![p] = "loading"]
      /\ exec_file' = [exec_file EXCEPT ![p] = f]
      /\ UNCHANGED <<free_page_list, tpr, table, freePageId, content, stacks, status>>
  BY ExecCallEffect DEF memory
<1>2. PICK r : Local(t, r) /\ r.pc = "header" /\ r.child = p /\ r.file = f
  BY ExecCallEffect
<1>3. thread'[t] = r /\ \A x \in Threads : x # t => thread'[x] = thread[x]
  BY <1>2 DEF Local, ThreadType
<1>4. \A x \in Threads : x # t => SameLoad(x)
  BY <1>3 DEF SameLoad
<1>5. \A x \in Threads : thread[x].child # p
  BY <1>1 DEF ProcsInv
<1>6. freePageId[p] = 0
  BY <1>1 DEF MemInv, AreaInv
<1>7. \A v \in VirtPages : ~table[p][v].read /\ ~table[p][v].valid
  <2>1. \A v \in VirtPages : ~(v < 0)
    BY Constants
  <2>2. \A v \in VirtPages : ~table[p][v].read
    BY <1>6, <2>1 DEF MemInv, AreaInv
  <2> QED BY <2>2 DEF MemInv, MapInv
<1>8. /\ exec_file'[p] = f /\ \A q \in Procs : q # p => exec_file'[q] = exec_file[q]
      /\ proc'[p] = "loading" /\ \A q \in Procs : q # p => proc'[q] = proc[q]
  BY <1>1 DEF MemInv, MemoryType, ProcType
<1>9. MemoryType'
  BY <1>1 DEF MemInv, MemoryType
<1>10. FreeInv' /\ MapInv' /\ StackGuarded' /\ NoAssert'
  BY <1>1 DEF MemInv, FreeInv, MapInv, StackGuarded, NoAssert
<1>11. AreaInv'
  <2>1. \A s \in stacks : s[1] \in Procs /\ s[1] # p
    BY <1>1 DEF MemInv, AreaInv, MemoryType
  <2> QED BY <1>1, <1>8, <2>1 DEF MemInv, AreaInv
<1>12. OwnContents'
  BY <1>1, <1>7, <1>8 DEF MemInv, OwnContents
<1>13. \A q \in Procs, v \in VirtPages : table'[q][v].read /\ ~table'[q][v].valid =>
         \E x \in Threads : thread'[x].child = q /\ ReadingPage(x, v)'
  <2>1. ASSUME NEW q \in Procs, NEW v \in VirtPages, table[q][v].read, ~table[q][v].valid
        PROVE  \E x \in Threads : thread'[x].child = q /\ ReadingPage(x, v)'
    <3>1. PICK x \in Threads : thread[x].child = q /\ ReadingPage(x, v)
      BY <2>1 DEF MemInv, LoadInv
    <3>2. x # t
      BY <1>1, <3>1 DEF ReadingPage
    <3> QED BY <1>4, <3>1, <3>2, SameLoaded DEF SameLoad
  <2> QED BY <1>1, <2>1
<1>14. \A x \in Threads : thread'[x].pc \in Stages =>
         thread'[x].file \in Files /\ exec_file'[thread'[x].child] = thread'[x].file
  <2>1. ASSUME NEW x \in Threads, x # t, thread[x].pc \in Stages
        PROVE  thread[x].file \in Files /\ exec_file'[thread[x].child] = thread[x].file
    <3>1. thread[x].child \in Procs /\ thread[x].child # p
      BY <1>5, <2>1 DEF ThreadsInv, ThreadType, ThreadRecords
    <3> QED BY <1>8, <2>1, <3>1 DEF MemInv, LoadInv
  <2> QED BY <1>2, <1>3, <1>8, <2>1
<1>15. \A x \in Threads : thread'[x].pc = "header" => freePageId'[thread'[x].child] = 0
  BY <1>1, <1>2, <1>3, <1>6 DEF MemInv, LoadInv
<1>16. ASSUME NEW x \in Threads, thread'[x].pc \in {"load", "reading"}
       PROVE  /\ thread'[x].next >= 1
              /\ \A v \in VirtPages : table'[thread'[x].child][v].read => Loaded(x, v)'
              /\ status' = "run" => /\ freePageId'[thread'[x].child] = TopPage(thread'[x].file)
                                    /\ Fits(0, TopPage(thread'[x].file))
  <2>1. x # t
    BY <1>2, <1>3, <1>16
  <2>2. SameLoad(x) /\ thread[x].pc \in {"load", "reading"}
    BY <1>4, <1>16, <2>1 DEF SameLoad
  <2>3. \A v : Loaded(x, v)' <=> Loaded(x, v)
    BY <2>2, SameLoaded
  <2> QED BY <1>1, <2>2, <2>3 DEF MemInv, LoadInv, SameLoad
<1>17. ASSUME NEW x \in Threads, thread'[x].pc = "reading"
       PROVE  \E v \in VirtPages : ReadingPage(x, v)' /\ table'[thread'[x].child][v].read
  <2>1. x # t
    BY <1>2, <1>3, <1>17
  <2>2. SameLoad(x) /\ thread[x].pc = "reading"
    BY <1>4, <1>17, <2>1 DEF SameLoad
  <2>3. PICK v \in VirtPages : ReadingPage(x, v) /\ table[thread[x].child][v].read
    BY <2>2 DEF MemInv, LoadInv
  <2> QED BY <1>1, <2>2, <2>3, SameLoaded DEF SameLoad
<1>18. LoadInv'
  BY <1>13, <1>14, <1>15, <1>16, <1>17 DEF LoadInv, Fits
<1> QED BY <1>9, <1>10, <1>11, <1>12, <1>18 DEF MemInv

-----------------------------------------------------------------------------
(* Memory: what a step in one process means for the loads of the others *)

\* A page that is mapped and not valid is being read.
PageLoads(p, v) ==
  table[p][v].read /\ ~table[p][v].valid =>
    \E t \in Threads : thread[t].child = p /\ ReadingPage(t, v)

\* The part of LoadInv about one loader.
LoaderOK(t) ==
  /\ thread[t].pc \in Stages =>
       thread[t].file \in Files /\ exec_file[thread[t].child] = thread[t].file
  /\ thread[t].pc = "header" => freePageId[thread[t].child] = 0
  /\ thread[t].pc \in {"load", "reading"} =>
       /\ thread[t].next >= 1
       /\ \A v \in VirtPages : table[thread[t].child][v].read => Loaded(t, v)
       /\ status = "run" => /\ freePageId[thread[t].child] = TopPage(thread[t].file)
                            /\ Fits(0, TopPage(thread[t].file))
  /\ thread[t].pc = "reading" =>
       \E v \in VirtPages : ReadingPage(t, v) /\ table[thread[t].child][v].read

\* LoadInv is these two, for every page and every loader.
LEMMA LoadParts ==
  /\ LoadInv => (\A p \in Procs, v \in VirtPages : PageLoads(p, v)) /\ \A t \in Threads : LoaderOK(t)
  /\ (\A p \in Procs, v \in VirtPages : PageLoads(p, v)') /\ (\A t \in Threads : LoaderOK(t)') => LoadInv'
BY DEF LoadInv, PageLoads, LoaderOK, Fits

\* A step of thread t in process p.
LEMMA OtherLoads ==
  ASSUME ThreadType, ThreadsInv, LoadInv, NEW t \in Threads, NEW p \in Procs,
         \A x \in Threads : x # t /\ (thread'[x].pc \in Stages \/ thread[x].pc \in Stages) => SameLoad(x),
         \A x \in Threads : x # t => thread[x].child # p,
         thread[t].pc = "reading" => thread[t].child = p,
         \A q \in Procs : q # p => /\ table'[q] = table[q] /\ freePageId'[q] = freePageId[q]
                                   /\ exec_file'[q] = exec_file[q],
         status' = "run" => status = "run"
  PROVE  /\ \A x \in Threads : x # t => LoaderOK(x)'
         /\ \A q \in Procs, v \in VirtPages : q # p => PageLoads(q, v)'
<1>1. ASSUME NEW x \in Threads, x # t
      PROVE  LoaderOK(x)'
  <2>1. CASE thread'[x].pc \in Stages
    <3>1. SameLoad(x)
      BY <1>1, <2>1
    <3>2. PICK q \in Procs : thread[x].child = q /\ q # p /\ thread'[x].child = q
      BY <1>1, <2>1, <3>1 DEF SameLoad, ThreadsInv, ThreadType, ThreadRecords
    <3>3. /\ table'[q] = table[q] /\ freePageId'[q] = freePageId[q] /\ exec_file'[q] = exec_file[q]
      BY <3>2
    <3>4. /\ thread'[x].pc = thread[x].pc /\ thread'[x].file = thread[x].file
          /\ thread'[x].next = thread[x].next
      BY <3>1 DEF SameLoad
    <3>5. \A v : (Loaded(x, v)' <=> Loaded(x, v)) /\ (ReadingPage(x, v)' <=> ReadingPage(x, v))
      BY <3>1, SameLoaded
    <3>6. LoaderOK(x)
      BY LoadParts
    <3>7. thread'[x].file \in Files /\ exec_file'[thread'[x].child] = thread'[x].file
      BY <2>1, <3>2, <3>3, <3>4, <3>6 DEF LoaderOK
    <3>8. thread'[x].pc = "header" => freePageId'[thread'[x].child] = 0
      BY <3>2, <3>3, <3>4, <3>6 DEF LoaderOK
    <3>9. thread'[x].pc \in {"load", "reading"} =>
            /\ thread'[x].next >= 1
            /\ \A v \in VirtPages : table'[thread'[x].child][v].read => Loaded(x, v)'
            /\ status' = "run" => /\ freePageId'[thread'[x].child] = TopPage(thread'[x].file)
                                  /\ Fits(0, TopPage(thread'[x].file))
      BY <3>2, <3>3, <3>4, <3>5, <3>6 DEF LoaderOK
    <3>10. thread'[x].pc = "reading" =>
             \E v \in VirtPages : ReadingPage(x, v)' /\ table'[thread'[x].child][v].read
      BY <3>2, <3>3, <3>4, <3>5, <3>6 DEF LoaderOK
    <3> QED BY <3>7, <3>8, <3>9, <3>10 DEF LoaderOK, Fits
  <2>2. CASE thread'[x].pc \notin Stages
    BY <2>2 DEF LoaderOK, Stages
  <2> QED BY <2>1, <2>2
<1>2. ASSUME NEW q \in Procs, NEW v \in VirtPages, q # p
      PROVE  PageLoads(q, v)'
  <2>1. SUFFICES ASSUME table[q][v].read, ~table[q][v].valid
                 PROVE  \E x \in Threads : thread'[x].child = q /\ ReadingPage(x, v)'
    BY <1>2 DEF PageLoads
  <2>2. PICK x \in Threads : thread[x].child = q /\ ReadingPage(x, v)
    BY <2>1, LoadParts DEF PageLoads
  <2>3. x # t /\ SameLoad(x)
    BY <1>2, <2>2 DEF ReadingPage, Stages
  <2> QED BY <2>2, <2>3, SameLoaded DEF SameLoad
<1> QED BY <1>1, <1>2

\* The pages of a program end below mem_topaddr.
LEMMA TopPageBound ==
  ASSUME NEW f \in Files
  PROVE  /\ TopPage(f) \in Nat
         /\ \A i \in 1 .. Len(Sections[f]) : Sections[f][i].vpage < TopPage(f)
<1> DEFINE n == Len(Sections[f])
           tops == {0} \cup {Sections[f][i].vpage + 1 : i \in 1 .. n}
<1>1. n \in Nat /\ \A i \in 1 .. n : Sections[f][i].vpage \in Nat
  BY SectionsType
<1> DEFINE first(m) == {0} \cup {Sections[f][i].vpage + 1 : i \in 1 .. m}
           largest(m, v) == v \in first(m) /\ \A w \in first(m) : w <= v
           bad == {m \in 0 .. n : ~\E v \in Nat : largest(m, v)}
<1>2. ASSUME bad # {}
      PROVE  FALSE
  <2>1. bad \in SUBSET Nat
    BY <1>1
  <2> HIDE DEF bad
  <2>2. PICK m \in bad : \A k \in bad : m <= k
    BY <1>2, <2>1, LeastNatural
  <2>3. m \in 0 .. n /\ ~\E v \in Nat : largest(m, v)
    BY <2>2 DEF bad
  <2>4. m # 0
    <3>1. largest(0, 0)
      OBVIOUS
    <3> QED BY <2>3, <3>1
  <2>5. m - 1 \in 0 .. n /\ m \in 1 .. n /\ m - 1 \notin bad
    <3>1. m - 1 \in 0 .. n /\ m \in 1 .. n /\ ~(m <= m - 1)
      BY <1>1, <2>3, <2>4
    <3> QED BY <2>2, <3>1
  <2>6. PICK v \in Nat : largest(m - 1, v)
    BY <2>5 DEF bad
  <2>7. PICK u \in Nat : u = Sections[f][m].vpage + 1
    BY <1>1, <2>5
  <2>8. \A w : w \in first(m) <=> w \in first(m - 1) \/ w = u
    <3>1. \A i : i \in 1 .. m <=> i \in 1 .. m - 1 \/ i = m
      BY <1>1, <2>5
    <3> QED BY <2>7, <3>1
  <2>9. \A w \in first(m - 1) : w \in Nat
    <3>1. \A i \in 1 .. m - 1 : i \in 1 .. n
      BY <1>1, <2>5
    <3> QED BY <1>1, <3>1
  <2> HIDE DEF first
  <2>10. CASE u <= v
    <3>1. largest(m, v)
      BY <2>6, <2>8, <2>10
    <3> QED BY <2>3, <3>1
  <2>11. CASE v < u
    <3>1. \A w \in first(m - 1) : w <= u
      BY <2>6, <2>9, <2>11
    <3>2. largest(m, u)
      BY <2>8, <3>1
    <3> QED BY <2>3, <3>2
  <2> QED BY <2>10, <2>11
<1>3. PICK v \in Nat : largest(n, v)
  <2>1. n \in 0 .. n
    <3>1. \A k \in Nat : k \in 0 .. k
      OBVIOUS
    <3> HIDE DEF n
    <3> QED BY <1>1, <3>1
  <2>2. n \notin bad
    <3> HIDE DEF bad
    <3> QED BY <1>2
  <2> HIDE DEF largest, n
  <2> QED BY <2>1, <2>2
<1>4. \E top \in tops : \A w \in tops : w <= top
  BY <1>3
<1>5. TopPage(f) \in tops /\ \A w \in tops : w <= TopPage(f)
  BY <1>4 DEF TopPage
<1>6. \A i \in 1 .. n : Sections[f][i].vpage + 1 <= TopPage(f)
  BY <1>5
<1>7. TopPage(f) \in Nat
  BY <1>1, <1>5
<1> HIDE DEF tops
<1> QED BY <1>1, <1>6, <1>7

-----------------------------------------------------------------------------
(* Memory: the loader *)

\* The thread that loads process p: no other loads it, and it has no stack yet.
LEMMA Loader ==
  ASSUME ThreadType, ThreadsInv, ProcsInv, MemInv,
         NEW t \in Threads, NEW p \in Procs, thread[t].child = p
  PROVE  /\ proc[p] = "loading"
         /\ \A x \in Threads : x # t => thread[x].child # p
         /\ \A s \in stacks : s[1] \in Procs /\ s[1] # p
<1>1. proc[p] = "loading"
  BY DEF ProcsInv
<1>2. \A x \in Threads : x # t => thread[x].child # p
  BY Constants DEF ProcsInv
<1>3. \A s \in stacks : s[1] \in Procs /\ proc[s[1]] = "live"
  BY DEF MemInv, MemoryType, AreaInv
<1> QED BY <1>1, <1>2, <1>3

\* The header gives the size of the program.
LEMMA HeaderReadMemory ==
  ASSUME ThreadType, ThreadsInv, ProcType, ProcsInv, MemInv, NEW t \in Threads, HeaderRead(t)
  PROVE  MemInv'
<1>1. PICK p, f : p \in Procs /\ thread[t].child = p /\ thread[t].file = f
  BY HeaderReadEffect
<1>2. /\ status = "run" /\ thread[t].pc = "header"
      /\ \/ status' \in {"exited", "full"}
         \/ status' = status /\ Fits(0, TopPage(f))
      /\ \/ freePageId' = [freePageId EXCEPT ![p] = 0]
         \/ freePageId' = [freePageId EXCEPT ![p] = TopPage(f)] /\ Fits(0, TopPage(f))
      /\ status' = "run" => freePageId' = [freePageId EXCEPT ![p] = TopPage(f)]
      /\ UNCHANGED <<free_page_list, tpr, table, content, objects>>
  BY <1>1, HeaderReadEffect
<1>3. PICK r : Local(t, r) /\ r.pc = "load" /\ r.child = p /\ r.file = f /\ r.next = 1
  BY <1>1, HeaderReadEffect
<1>4. thread'[t] = r /\ \A x \in Threads : x # t => thread'[x] = thread[x]
  BY <1>3 DEF Local, ThreadType
<1>5. UNCHANGED <<numThreads, proc, exec_file, stacks>>
  BY <1>2 DEF objects
<1>6. /\ \A x \in Threads : x # t => thread[x].child # p
      /\ proc[p] = "loading"
      /\ \A s \in stacks : s[1] \in Procs /\ s[1] # p
  BY <1>1, Loader
<1>7. f \in Files /\ exec_file[p] = f /\ freePageId[p] = 0
  BY <1>1, <1>2 DEF MemInv, LoadInv, Stages
<1>8. \A v \in VirtPages : ~table[p][v].read
  <2>1. \A v \in VirtPages : ~(v < 0)
    BY Constants
  <2> QED BY <1>1, <1>7, <2>1 DEF MemInv, AreaInv
<1>9. Fits(0, TopPage(f)) => TopPage(f) \in 0 .. MaxVirtPages
  BY <1>7, TopPageBound, Constants DEF Fits
<1>10. /\ freePageId' \in [Procs -> 0 .. MaxVirtPages]
       /\ \A q \in Procs : q # p => freePageId'[q] = freePageId[q]
       /\ status' = "run" => freePageId'[p] = TopPage(f)
  <2>1. freePageId \in [Procs -> 0 .. MaxVirtPages] /\ 0 \in 0 .. MaxVirtPages
    BY Constants DEF MemInv, MemoryType
  <2> QED BY <1>1, <1>2, <1>9, <2>1
<1>11. MemoryType'
  BY <1>2, <1>5, <1>10 DEF MemInv, MemoryType
<1>12. FreeInv' /\ MapInv' /\ StackGuarded' /\ OwnContents'
  BY <1>2, <1>5 DEF MemInv, FreeInv, MapInv, StackGuarded, OwnContents
<1>13. NoAssert'
  BY <1>2 DEF MemInv, NoAssert
<1>14. AreaInv'
  <2>1. \A q \in Procs, v \in VirtPages : table[q][v].read => v < freePageId'[q]
    BY <1>8, <1>10 DEF MemInv, AreaInv
  <2>2. \A q \in Procs : proc[q] \in {"none", "leaked"} => freePageId'[q] = 0
    BY <1>6, <1>10 DEF MemInv, AreaInv
  <2>3. \A s \in stacks : s[2] + StackPages <= freePageId'[s[1]] /\ proc[s[1]] = "live"
    BY <1>6, <1>10 DEF MemInv, AreaInv
  <2> QED BY <1>2, <1>5, <2>1, <2>2, <2>3 DEF AreaInv
<1>15. /\ \A x \in Threads : x # t => LoaderOK(x)'
       /\ \A q \in Procs, v \in VirtPages : q # p => PageLoads(q, v)'
  <2>1. \A x \in Threads : x # t => SameLoad(x)
    BY <1>4 DEF SameLoad
  <2>2. thread[t].pc # "reading"
    BY <1>2
  <2>3. LoadInv
    BY DEF MemInv
  <2> QED BY <1>1, <1>2, <1>5, <1>6, <1>10, <2>1, <2>2, <2>3, OtherLoads
<1>16. LoaderOK(t)'
  <2>1. thread'[t].pc = "load" /\ thread'[t].child = p /\ thread'[t].file = f /\ thread'[t].next = 1
    BY <1>3, <1>4
  <2>2. status' = "run" => Fits(0, TopPage(f)) /\ freePageId'[p] = TopPage(f)
    BY <1>2, <1>10
  <2> QED BY <1>2, <1>5, <1>7, <1>8, <2>1, <2>2 DEF LoaderOK, Fits
<1>17. \A v \in VirtPages : PageLoads(p, v)'
  BY <1>2, <1>8 DEF PageLoads
<1>18. LoadInv'
  BY <1>15, <1>16, <1>17, LoadParts
<1> QED BY <1>11, <1>12, <1>13, <1>14, <1>18 DEF MemInv

\* Entry v of process p becomes e, the other entries stay.
Entered(p, v, e) ==
  /\ table' \in [Procs -> Tables] /\ table'[p][v] = e
  /\ \A w \in VirtPages : w # v => table'[p][w] = table[p][w]
  /\ \A q \in Procs : q # p => table'[q] = table[q]

\* An entry changed as the accessors do.
LEMMA EnteredTable ==
  ASSUME NEW p \in Procs, NEW v \in VirtPages, NEW e \in Entries, table \in [Procs -> Tables],
         table' = [table EXCEPT ![p] = [table[p] EXCEPT ![v] = e]]
  PROVE  Entered(p, v, e)
BY DEF Entered, Tables

\* The first page of the free list is taken.
TakenFirst(pp) ==
  /\ free_page_list' \in Seq(PhysPages)
  /\ \A i, j \in 1 .. Len(free_page_list') : free_page_list'[i] = free_page_list'[j] => i = j
  /\ pp \in PhysPages /\ tpr[pp].free
  /\ \A qq \in PhysPages :
       (\E i \in 1 .. Len(free_page_list') : free_page_list'[i] = qq) <=> tpr[qq].free /\ qq # pp

\* What is left of a free list without its first page.
LEMMA TakeFirst ==
  ASSUME MemoryType, FreeInv, free_page_list # <<>>, free_page_list' = FindFreePage
  PROVE  TakenFirst(Head(free_page_list))
<1>1. PICK n \in Nat : n = Len(free_page_list) /\ n > 0
  BY DEF MemoryType
<1>2. /\ free_page_list' \in Seq(PhysPages) /\ Len(free_page_list') = n - 1
      /\ \A i \in 1 .. n - 1 : free_page_list'[i] = free_page_list[i + 1]
      /\ Head(free_page_list) = free_page_list[1] /\ free_page_list[1] \in PhysPages
  BY <1>1 DEF MemoryType, FindFreePage, Remove
<1>3. \A i, j \in 1 .. n : free_page_list[i] = free_page_list[j] => i = j
  BY <1>1 DEF FreeInv
<1>4. \A i, j \in 1 .. n - 1 : free_page_list'[i] = free_page_list'[j] => i = j
  BY <1>1, <1>2, <1>3
<1>5. 1 \in 1 .. n /\ \A i \in 1 .. n : i = 1 \/ i - 1 \in 1 .. n - 1
  BY <1>1
<1>6. \A qq \in PhysPages :
        (\E i \in 1 .. n : free_page_list[i] = qq) <=>
          qq = free_page_list[1] \/ \E i \in 1 .. n - 1 : free_page_list'[i] = qq
  <2>1. ASSUME NEW i \in 1 .. n
        PROVE  free_page_list[i] = free_page_list[1]
               \/ \E j \in 1 .. n - 1 : free_page_list'[j] = free_page_list[i]
    <3>1. CASE i - 1 \in 1 .. n - 1
      <4>1. free_page_list'[i - 1] = free_page_list[i]
        BY <1>1, <1>2, <3>1
      <4> QED BY <3>1, <4>1
    <3> QED BY <1>5, <3>1
  <2>2. \A i \in 1 .. n - 1 : i + 1 \in 1 .. n
    BY <1>1
  <2> QED BY <1>2, <1>5, <2>1, <2>2
<1>7. \A i \in 1 .. n - 1 : free_page_list'[i] # free_page_list[1]
  <2>1. \A i \in 1 .. n - 1 : i + 1 \in 1 .. n /\ i + 1 # 1
    BY <1>1
  <2> QED BY <1>2, <1>3, <1>5, <2>1
<1>8. \A qq \in PhysPages : tpr[qq].free <=> \E i \in 1 .. n : free_page_list[i] = qq
  BY <1>1 DEF FreeInv
<1> QED BY <1>2, <1>4, <1>5, <1>6, <1>7, <1>8 DEF TakenFirst

\* The effect of LoadPage on the memory: page pp for virtual page v of p.
LEMMA LoadPageMap ==
  ASSUME ThreadType, ThreadsInv, ProcsInv, MemInv, NEW t \in Threads, LoadPage(t)
  PROVE  \E p \in Procs, f \in Files, v \in VirtPages, pp \in PhysPages, e \in Entries :
           /\ thread[t].child = p /\ thread[t].file = f
           /\ thread[t].next \in 1 .. Len(Sections[f])
           /\ v = Sections[f][thread[t].next].vpage
           /\ v < freePageId[p] /\ ~table[p][v].read
           /\ TakenFirst(pp)
           /\ tpr' = Taken(tpr, pp, p, v)
           /\ Entered(p, v, e) /\ e.read /\ e.phys = pp
           /\ e.valid = Sections[f][thread[t].next].nobits
           /\ content' = IF e.valid THEN Zeroed({pp}) ELSE content
           /\ status' = status
<1>1. /\ status = "run" /\ thread[t].pc = "load" /\ free_page_list # <<>>
      /\ thread[t].next <= Len(Sections[thread[t].file])
  BY LoadPageEffect
<1>2. PICK p \in Procs, f \in Files : thread[t].child = p /\ thread[t].file = f
  <2>1. thread[t].child \in Procs
    BY LoadPageEffect
  <2>2. thread[t].file \in Files
    BY <1>1 DEF MemInv, LoadInv, Stages
  <2> QED BY <2>1, <2>2
<1>3. /\ thread[t].next \in Nat /\ thread[t].next >= 1
      /\ \A w \in VirtPages : table[p][w].read => Loaded(t, w)
      /\ freePageId[p] = TopPage(f) /\ Fits(0, TopPage(f))
  <2>1. thread[t].next \in Nat
    BY DEF ThreadType, ThreadRecords
  <2> QED BY <1>1, <1>2, <2>1 DEF MemInv, LoadInv
<1>4. Len(Sections[f]) \in Nat
  BY SectionsType
<1>5. PICK i \in 1 .. Len(Sections[f]) : i = thread[t].next
  BY <1>1, <1>2, <1>3, <1>4
<1>6. PICK s : s = Sections[f][i]
  OBVIOUS
<1>7. s.vpage \in Nat /\ s.nobits \in BOOLEAN /\ s.write \in BOOLEAN /\ s.vpage < TopPage(f)
  BY <1>5, <1>6, SectionsType, TopPageBound
<1>8. PICK v \in VirtPages : v = s.vpage /\ v < freePageId[p]
  <2>1. TopPage(f) < MaxVirtPages /\ TopPage(f) \in Nat
    BY <1>3, TopPageBound, Constants DEF Fits
  <2>2. s.vpage < MaxVirtPages
    BY <1>7, <2>1, Constants
  <2> QED BY <1>3, <1>7, <2>2, Constants
<1>9. ~table[p][v].read
  <2>1. SUFFICES ASSUME Loaded(t, v) PROVE FALSE
    BY <1>3
  <2>2. PICK j \in 1 .. Len(Sections[f]) : Sections[f][j].vpage = v /\ j < thread[t].next
    BY <1>1, <1>2, <2>1 DEF Loaded
  <2>3. j = i
    BY <1>6, <1>8, <2>2, SectionsType
  <2> QED BY <1>5, <2>2, <2>3
<1>10. ~table[p][v].valid
  BY <1>9 DEF MemInv, MapInv
<1>11. PICK pp : pp = Head(free_page_list)
  OBVIOUS
<1>12. free_page_list' = FindFreePage
  BY DEF LoadPage
<1>13. TakenFirst(pp)
  BY <1>1, <1>11, <1>12, TakeFirst DEF MemInv
<1>14. pp \in PhysPages /\ tpr[pp].free /\ pp \in Int
  BY <1>13, Constants DEF TakenFirst
<1>15. table \in [Procs -> Tables] /\ table[p] \in Tables /\ table[p][v] \in Entries
  BY DEF MemInv, MemoryType, Tables
<1>16. PICK e : e = [table[p][v] EXCEPT !.read = TRUE, !.write = s.write, !.phys = pp, !.valid = s.nobits]
  OBVIOUS
<1>17. e \in Entries /\ e.read /\ e.phys = pp /\ e.valid = s.nobits
  BY <1>7, <1>14, <1>15, <1>16 DEF Entries
<1>18. table' = [table EXCEPT ![p] = [table[p] EXCEPT ![v] = e]]
  <2> DEFINE readable == setBitReadAllowed(table[p], v)
             allowed == IF s.write THEN setBitWriteAllowed(readable, v)
                        ELSE clearBitWriteAllowed(readable, v)
             mapped == setPhysicalPage(allowed, v, pp)
             new == IF s.nobits THEN setBitValid(mapped, v) ELSE mapped
  <2>1. table' = [table EXCEPT ![p] = new]
    BY <1>2, <1>5, <1>6, <1>8, <1>11 DEF LoadPage
  <2>2. readable = [table[p] EXCEPT ![v] = [table[p][v] EXCEPT !.read = TRUE]]
    BY <1>15 DEF setBitReadAllowed
  <2>3. allowed = [table[p] EXCEPT ![v] = [table[p][v] EXCEPT !.read = TRUE, !.write = s.write]]
    BY <1>7, <1>15, <2>2 DEF setBitWriteAllowed, clearBitWriteAllowed, Tables
  <2> HIDE DEF allowed
  <2>4. mapped = [table[p] EXCEPT ![v] =
                    [table[p][v] EXCEPT !.read = TRUE, !.write = s.write, !.phys = pp]]
    BY <1>15, <2>3 DEF setPhysicalPage, Tables
  <2> HIDE DEF mapped
  <2>5. new = [table[p] EXCEPT ![v] =
                 [table[p][v] EXCEPT !.read = TRUE, !.write = s.write, !.phys = pp, !.valid = s.nobits]]
    <3>1. CASE s.nobits
      BY <1>7, <1>15, <2>4, <3>1 DEF setBitValid, Tables
    <3>2. CASE ~s.nobits
      <4>1. [table[p][v] EXCEPT !.read = TRUE, !.write = s.write, !.phys = pp] =
            [table[p][v] EXCEPT !.read = TRUE, !.write = s.write, !.phys = pp, !.valid = s.nobits]
        BY <1>7, <1>10, <1>15, <3>2 DEF Entries
      <4> QED BY <2>4, <3>2, <4>1
    <3> QED BY <1>7, <3>1, <3>2
  <2> HIDE DEF new
  <2> QED BY <1>16, <2>1, <2>5
<1>19. Entered(p, v, e)
  BY <1>15, <1>17, <1>18, EnteredTable
<1>20. tpr' = Taken(tpr, pp, p, v)
  BY <1>2, <1>5, <1>6, <1>8, <1>11 DEF LoadPage
<1>21. content' = IF e.valid THEN Zeroed({pp}) ELSE content
  BY <1>2, <1>5, <1>6, <1>11, <1>17 DEF LoadPage
<1>22. status' = status
  BY <1>11, <1>14 DEF LoadPage, ASSERT
<1> QED BY <1>2, <1>5, <1>6, <1>8, <1>9, <1>13, <1>14, <1>17, <1>19, <1>20, <1>21, <1>22

\* Loading a page keeps the memory in order.
LEMMA LoadPageMemory ==
  ASSUME ThreadType, ThreadsInv, ProcType, ProcsInv, MemInv, NEW t \in Threads, LoadPage(t)
  PROVE  MemInv'
<1>1. PICK p \in Procs, f \in Files, v \in VirtPages, pp \in PhysPages, e \in Entries :
        /\ thread[t].child = p /\ thread[t].file = f
        /\ thread[t].next \in 1 .. Len(Sections[f])
        /\ v = Sections[f][thread[t].next].vpage
        /\ v < freePageId[p] /\ ~table[p][v].read
        /\ TakenFirst(pp)
        /\ tpr' = Taken(tpr, pp, p, v)
        /\ Entered(p, v, e) /\ e.read /\ e.phys = pp
        /\ e.valid = Sections[f][thread[t].next].nobits
        /\ content' = IF e.valid THEN Zeroed({pp}) ELSE content
        /\ status' = status
  BY LoadPageMap
<1>2. PICK n \in 1 .. Len(Sections[f]) : n = thread[t].next /\ n \in Nat
  BY <1>1
<1>3. /\ status = "run" /\ thread[t].pc = "load" /\ UNCHANGED <<freePageId, objects>>
  BY LoadPageEffect
<1>4. PICK r : /\ Local(t, r) /\ r.child = p /\ r.file = f
               /\ IF e.valid THEN r.pc = "load" /\ r.next = n + 1
                             ELSE r.pc = "reading" /\ r.next = n
  BY <1>1, <1>2, LoadPageEffect
<1>5. thread'[t] = r /\ \A x \in Threads : x # t => thread'[x] = thread[x]
  BY <1>4 DEF Local, ThreadType
<1>6. UNCHANGED <<numThreads, proc, exec_file, stacks>>
  BY <1>3 DEF objects
<1>7. /\ \A x \in Threads : x # t => thread[x].child # p
      /\ proc[p] = "loading"
      /\ \A s \in stacks : s[1] \in Procs /\ s[1] # p
  BY <1>1, Loader
<1>8. MemoryType /\ FreeInv /\ MapInv /\ AreaInv /\ LoadInv /\ OwnContents /\ StackGuarded /\ NoAssert
  BY DEF MemInv
<1>9. v \in Nat
  BY Constants
<1>10. /\ tpr' \in [PhysPages -> PageRecords]
       /\ ~tpr'[pp].free /\ tpr'[pp].owner = p /\ tpr'[pp].virtualPage = v
       /\ \A qq \in PhysPages : qq # pp => tpr'[qq] = tpr[qq]
  <2>1. PICK new : new = [free |-> FALSE, locked |-> TRUE, owner |-> p, virtualPage |-> v]
    OBVIOUS
  <2>2. new \in PageRecords /\ ~new.free /\ new.owner = p /\ new.virtualPage = v
    BY <1>9, <2>1 DEF PageRecords
  <2>3. tpr' = [tpr EXCEPT ![pp] = new]
    BY <1>1, <2>1 DEF Taken
  <2> QED BY <1>8, <2>2, <2>3 DEF MemoryType
<1>11. /\ table' \in [Procs -> Tables] /\ table'[p][v] = e
       /\ \A w \in VirtPages : w # v => table'[p][w] = table[p][w]
       /\ \A q \in Procs : q # p => table'[q] = table[q]
  BY <1>1 DEF Entered
<1>12. \A q \in Procs, w \in VirtPages : (q = p /\ w = v) \/ table'[q][w] = table[q][w]
  BY <1>11
<1>13. /\ free_page_list' \in Seq(PhysPages)
       /\ \A i, j \in 1 .. Len(free_page_list') : free_page_list'[i] = free_page_list'[j] => i = j
       /\ tpr[pp].free
       /\ \A qq \in PhysPages :
            (\E i \in 1 .. Len(free_page_list') : free_page_list'[i] = qq) <=> tpr[qq].free /\ qq # pp
  BY <1>1 DEF TakenFirst
<1>14. \A qq \in PhysPages : content'[qq] = content[qq] \/ (e.valid /\ qq = pp /\ content'[qq] = {})
  BY <1>1 DEF Zeroed
<1>15. MemoryType'
  <2>1. content' \in [PhysPages -> SUBSET (Procs \cup {Old})]
    BY <1>1, <1>8 DEF Zeroed, MemoryType
  <2> QED BY <1>1, <1>3, <1>6, <1>8, <1>10, <1>11, <1>13, <2>1 DEF MemoryType
<1>16. FreeInv'
  BY <1>10, <1>13 DEF FreeInv
<1>17. MapInv'
  <2>1. ASSUME NEW qq \in PhysPages, ~tpr'[qq].free
        PROVE  /\ tpr'[qq].owner \in Procs /\ tpr'[qq].virtualPage \in VirtPages
               /\ table'[tpr'[qq].owner][tpr'[qq].virtualPage].phys = qq
               /\ table'[tpr'[qq].owner][tpr'[qq].virtualPage].read
    <3>1. CASE qq = pp
      BY <1>1, <1>10, <1>11, <3>1
    <3>2. CASE qq # pp
      <4>1. PICK q \in Procs, w \in VirtPages :
              tpr[qq].owner = q /\ tpr[qq].virtualPage = w /\ table[q][w].phys = qq /\ table[q][w].read
        BY <1>8, <1>10, <2>1, <3>2 DEF MapInv
      <4>2. table'[q][w] = table[q][w]
        BY <1>1, <1>12, <4>1
      <4> QED BY <1>10, <3>2, <4>1, <4>2
    <3> QED BY <3>1, <3>2
  <2>2. ASSUME NEW q \in Procs, NEW w \in VirtPages, table'[q][w].read
        PROVE  /\ table'[q][w].phys \in PhysPages
               /\ ~tpr'[table'[q][w].phys].free
               /\ tpr'[table'[q][w].phys].owner = q /\ tpr'[table'[q][w].phys].virtualPage = w
    <3>1. CASE q = p /\ w = v
      BY <1>1, <1>10, <1>11, <3>1
    <3>2. CASE table'[q][w] = table[q][w]
      <4>1. PICK qq \in PhysPages :
              table[q][w].phys = qq /\ ~tpr[qq].free /\ tpr[qq].owner = q /\ tpr[qq].virtualPage = w
        BY <1>8, <2>2, <3>2 DEF MapInv
      <4>2. tpr'[qq] = tpr[qq]
        BY <1>10, <1>13, <4>1
      <4> QED BY <3>2, <4>1, <4>2
    <3> QED BY <1>12, <3>1, <3>2
  <2>3. \A q \in Procs, w \in VirtPages : table'[q][w].valid \/ table'[q][w].write => table'[q][w].read
    <3>1. \A q \in Procs, w \in VirtPages : table[q][w].valid \/ table[q][w].write => table[q][w].read
      BY <1>8 DEF MapInv
    <3>2. table'[p][v].read
      BY <1>1, <1>11
    <3> QED BY <1>12, <3>1, <3>2
  <2> QED BY <2>1, <2>2, <2>3 DEF MapInv
<1>18. AreaInv'
  BY <1>1, <1>3, <1>6, <1>8, <1>12 DEF AreaInv
<1>19. OwnContents'
  <2>1. ASSUME NEW q \in Procs, NEW w \in VirtPages, table'[q][w].valid
        PROVE  \/ content'[table'[q][w].phys] \subseteq {q}
               \/ \E i \in 1 .. Len(Sections[exec_file[q]]) :
                    Sections[exec_file[q]][i].vpage = w /\ Sections[exec_file[q]][i].short
    <3>1. CASE q = p /\ w = v
      <4>1. e.valid /\ table'[q][w].phys = pp
        BY <1>1, <1>11, <2>1, <3>1
      <4>2. content'[pp] = {}
        BY <1>1, <4>1 DEF Zeroed
      <4> QED BY <4>1, <4>2
    <3>2. CASE table'[q][w] = table[q][w]
      <4>1. PICK qq \in PhysPages : table[q][w].phys = qq /\ ~tpr[qq].free
        BY <1>8, <2>1, <3>2 DEF MapInv
      <4>2. content'[qq] = content[qq]
        BY <1>13, <1>14, <4>1
      <4>3. \/ content[table[q][w].phys] \subseteq {q}
            \/ \E i \in 1 .. Len(Sections[exec_file[q]]) :
                 Sections[exec_file[q]][i].vpage = w /\ Sections[exec_file[q]][i].short
        BY <1>8, <2>1, <3>2 DEF OwnContents
      <4> QED BY <3>2, <4>1, <4>2, <4>3
    <3> QED BY <1>12, <3>1, <3>2
  <2> QED BY <1>6, <2>1 DEF OwnContents
<1>20. StackGuarded'
  BY <1>6, <1>7, <1>8, <1>11 DEF StackGuarded, Fits
<1>21. NoAssert'
  BY <1>1, <1>8 DEF NoAssert
<1>22. /\ \A x \in Threads : x # t => LoaderOK(x)'
       /\ \A q \in Procs, w \in VirtPages : q # p => PageLoads(q, w)'
  <2>1. \A x \in Threads : x # t => SameLoad(x)
    BY <1>5 DEF SameLoad
  <2> QED BY <1>1, <1>3, <1>6, <1>7, <1>8, <1>11, <2>1, OtherLoads
<1>23. ASSUME NEW w \in VirtPages
       PROVE  PageLoads(p, w)'
  <2>1. CASE w = v
    <3>1. SUFFICES ASSUME ~e.valid
                   PROVE  thread'[t].child = p /\ ReadingPage(t, v)'
      BY <1>11, <2>1 DEF PageLoads
    <3> QED BY <1>1, <1>2, <1>4, <1>5, <3>1 DEF ReadingPage
  <2>2. CASE w # v
    <3>1. table[p][w].read => table[p][w].valid
      <4>1. SUFFICES ASSUME table[p][w].read, ~table[p][w].valid PROVE FALSE
        BY <1>8 DEF MemoryType, Tables, Entries
      <4>2. PICK x \in Threads : thread[x].child = p /\ thread[x].pc = "reading"
        BY <1>8, <4>1 DEF LoadInv, ReadingPage
      <4> QED BY <1>3, <1>7, <4>2
    <3> QED BY <1>11, <2>2, <3>1 DEF PageLoads
  <2> QED BY <2>1, <2>2
<1>24. LoaderOK(t)'
  <2>1. /\ thread'[t].pc \in {"load", "reading"} /\ thread'[t].child = p /\ thread'[t].file = f
        /\ thread'[t].next >= 1
    BY <1>2, <1>4, <1>5
  <2>2. ASSUME NEW w \in VirtPages, table'[p][w].read
        PROVE  Loaded(t, w)'
    <3>1. CASE w = v
      <4>1. Sections[f][n].vpage = w /\ (n < r.next \/ (n = r.next /\ r.pc = "reading"))
        BY <1>1, <1>2, <1>4, <3>1
      <4> QED BY <1>2, <1>5, <2>1, <4>1 DEF Loaded
    <3>2. CASE w # v
      <4>1. Loaded(t, w)
        BY <1>1, <1>3, <1>8, <1>11, <2>2, <3>2 DEF LoadInv
      <4>2. PICK i \in 1 .. Len(Sections[f]) : Sections[f][i].vpage = w /\ i < n
        BY <1>1, <1>2, <1>3, <4>1 DEF Loaded
      <4>3. i < r.next
        BY <1>2, <1>4, <4>2
      <4> QED BY <1>5, <2>1, <4>2, <4>3 DEF Loaded
    <3> QED BY <3>1, <3>2
  <2>3. exec_file[p] = f /\ freePageId[p] = TopPage(f) /\ Fits(0, TopPage(f))
    BY <1>1, <1>3, <1>8 DEF LoadInv, Stages
  <2>4. thread'[t].pc = "reading" => ReadingPage(t, v)' /\ table'[p][v].read
    BY <1>1, <1>2, <1>4, <1>5, <1>11 DEF ReadingPage
  <2> QED BY <1>3, <1>6, <2>1, <2>2, <2>3, <2>4 DEF LoaderOK, Fits
<1>25. LoadInv'
  BY <1>22, <1>23, <1>24, LoadParts
<1> QED BY <1>15, <1>16, <1>17, <1>18, <1>19, <1>20, <1>21, <1>25 DEF MemInv

\* The effect of PageRead on the memory: the page is valid and holds the file's data.
LEMMA PageReadMap ==
  ASSUME ThreadType, ThreadsInv, ProcsInv, MemInv, NEW t \in Threads, PageRead(t)
  PROVE  \E p \in Procs, f \in Files, v \in VirtPages, pp \in PhysPages, e \in Entries :
           /\ thread[t].child = p /\ thread[t].file = f /\ ReadingPage(t, v)
           /\ table[p][v].read /\ table[p][v].phys = pp
           /\ Entered(p, v, e) /\ e.valid /\ e.read /\ e.phys = pp
           /\ content' \in [PhysPages -> SUBSET (Procs \cup {Old})]
           /\ content'[pp] \subseteq {p} \/ Sections[f][thread[t].next].short
           /\ \A qq \in PhysPages : qq # pp => content'[qq] = content[qq]
<1>1. thread[t].pc = "reading"
  BY PageReadEffect
<1>2. PICK p \in Procs, f \in Files : thread[t].child = p /\ thread[t].file = f
  <2>1. thread[t].child \in Procs
    BY PageReadEffect
  <2>2. thread[t].file \in Files
    BY <1>1 DEF MemInv, LoadInv, Stages
  <2> QED BY <2>1, <2>2
<1>3. PICK v \in VirtPages : ReadingPage(t, v) /\ table[p][v].read
  BY <1>1, <1>2 DEF MemInv, LoadInv
<1>4. PICK s : s = Sections[f][thread[t].next]
  OBVIOUS
<1>5. s.vpage = v /\ s.short \in BOOLEAN
  BY <1>2, <1>3, <1>4, SectionsType DEF ReadingPage
<1>6. PICK pp \in PhysPages : table[p][v].phys = pp
  BY <1>3 DEF MemInv, MapInv
<1>7. table \in [Procs -> Tables] /\ table[p] \in Tables /\ table[p][v] \in Entries
  BY DEF MemInv, MemoryType, Tables
<1>8. PICK e : e = [table[p][v] EXCEPT !.valid = TRUE]
  OBVIOUS
<1>9. e \in Entries /\ e.valid /\ e.read = table[p][v].read /\ e.phys = pp
  BY <1>6, <1>7, <1>8 DEF Entries
<1>10. table' = [table EXCEPT ![p] = [table[p] EXCEPT ![v] = e]]
  BY <1>2, <1>4, <1>5, <1>7, <1>8 DEF PageRead, setBitValid
<1>11. Entered(p, v, e)
  BY <1>7, <1>9, <1>10, EnteredTable
<1>12. PICK new : new = {p} \cup (IF s.short THEN content[pp] ELSE {})
  OBVIOUS
<1>13. content \in [PhysPages -> SUBSET (Procs \cup {Old})]
  BY DEF MemInv, MemoryType
<1>14. content' = [content EXCEPT ![pp] = new]
  BY <1>2, <1>4, <1>5, <1>6, <1>12 DEF PageRead, getPhysicalPage
<1>15. new \in SUBSET (Procs \cup {Old}) /\ (new \subseteq {p} \/ s.short)
  BY <1>12, <1>13
<1>16. /\ content' \in [PhysPages -> SUBSET (Procs \cup {Old})]
       /\ content'[pp] = new /\ \A qq \in PhysPages : qq # pp => content'[qq] = content[qq]
  BY <1>13, <1>14, <1>15
<1> QED BY <1>2, <1>3, <1>4, <1>6, <1>9, <1>11, <1>15, <1>16

\* Reading a page keeps the memory in order.
LEMMA PageReadMemory ==
  ASSUME ThreadType, ThreadsInv, ProcType, ProcsInv, MemInv, NEW t \in Threads, PageRead(t)
  PROVE  MemInv'
<1>1. PICK p \in Procs, f \in Files, v \in VirtPages, pp \in PhysPages, e \in Entries :
        /\ thread[t].child = p /\ thread[t].file = f /\ ReadingPage(t, v)
        /\ table[p][v].read /\ table[p][v].phys = pp
        /\ Entered(p, v, e) /\ e.valid /\ e.read /\ e.phys = pp
        /\ content' \in [PhysPages -> SUBSET (Procs \cup {Old})]
        /\ content'[pp] \subseteq {p} \/ Sections[f][thread[t].next].short
        /\ \A qq \in PhysPages : qq # pp => content'[qq] = content[qq]
  BY PageReadMap
<1>2. PICK n \in 1 .. Len(Sections[f]) : n = thread[t].next /\ n \in Nat /\ Sections[f][n].vpage = v
  BY <1>1 DEF ReadingPage
<1>3. /\ status = "run" /\ thread[t].pc = "reading"
      /\ UNCHANGED <<free_page_list, tpr, freePageId, objects, status>>
  BY PageReadEffect
<1>4. PICK r : Local(t, r) /\ r.child = p /\ r.file = f /\ r.pc = "load" /\ r.next = n + 1
  BY <1>1, <1>2, PageReadEffect
<1>5. thread'[t] = r /\ \A x \in Threads : x # t => thread'[x] = thread[x]
  BY <1>4 DEF Local, ThreadType
<1>6. UNCHANGED <<numThreads, proc, exec_file, stacks>>
  BY <1>3 DEF objects
<1>7. /\ \A x \in Threads : x # t => thread[x].child # p
      /\ proc[p] = "loading"
      /\ \A s \in stacks : s[1] \in Procs /\ s[1] # p
  BY <1>1, Loader
<1>8. MemoryType /\ FreeInv /\ MapInv /\ AreaInv /\ LoadInv /\ OwnContents /\ StackGuarded /\ NoAssert
  BY DEF MemInv
<1>9. /\ table' \in [Procs -> Tables] /\ table'[p][v] = e
      /\ \A w \in VirtPages : w # v => table'[p][w] = table[p][w]
      /\ \A q \in Procs : q # p => table'[q] = table[q]
  BY <1>1 DEF Entered
<1>10. \A q \in Procs, w \in VirtPages : (q = p /\ w = v) \/ table'[q][w] = table[q][w]
  BY <1>9
<1>11. exec_file[p] = f /\ freePageId[p] = TopPage(f) /\ Fits(0, TopPage(f))
  BY <1>1, <1>3, <1>8 DEF LoadInv, Stages
<1>12. MemoryType'
  BY <1>1, <1>3, <1>6, <1>8, <1>9 DEF MemoryType
<1>13. FreeInv'
  BY <1>3, <1>8 DEF FreeInv
<1>14. \A q \in Procs, w \in VirtPages :
         table'[q][w].read = table[q][w].read /\ table'[q][w].phys = table[q][w].phys
  <2>1. table'[p][v].read = table[p][v].read /\ table'[p][v].phys = table[p][v].phys
    <3>1. e.read = table[p][v].read
      BY <1>1, <1>8 DEF MemoryType, Tables, Entries
    <3> QED BY <1>1, <1>9, <3>1
  <2> QED BY <1>10, <2>1
<1>15. MapInv'
  <2>1. ASSUME NEW qq \in PhysPages, ~tpr'[qq].free
        PROVE  /\ tpr'[qq].owner \in Procs /\ tpr'[qq].virtualPage \in VirtPages
               /\ table'[tpr'[qq].owner][tpr'[qq].virtualPage].phys = qq
               /\ table'[tpr'[qq].owner][tpr'[qq].virtualPage].read
    BY <1>3, <1>8, <1>14, <2>1 DEF MapInv
  <2>2. \A q \in Procs, w \in VirtPages : table'[q][w].read =>
          /\ table'[q][w].phys \in PhysPages
          /\ ~tpr'[table'[q][w].phys].free
          /\ tpr'[table'[q][w].phys].owner = q /\ tpr'[table'[q][w].phys].virtualPage = w
    BY <1>3, <1>8, <1>14 DEF MapInv
  <2>3. \A q \in Procs, w \in VirtPages : table'[q][w].valid \/ table'[q][w].write => table'[q][w].read
    <3>1. \A q \in Procs, w \in VirtPages : table[q][w].valid \/ table[q][w].write => table[q][w].read
      BY <1>8 DEF MapInv
    <3>2. table'[p][v].read
      BY <1>1, <1>9
    <3> QED BY <1>10, <3>1, <3>2
  <2> QED BY <2>1, <2>2, <2>3 DEF MapInv
<1>16. AreaInv'
  <2>1. \A q \in Procs, w \in VirtPages : table'[q][w].read => w < freePageId'[q]
    BY <1>3, <1>8, <1>14 DEF AreaInv
  <2> QED BY <1>3, <1>6, <1>8, <2>1 DEF AreaInv
<1>17. OwnContents'
  <2>1. ASSUME NEW q \in Procs, NEW w \in VirtPages, table'[q][w].valid
        PROVE  \/ content'[table'[q][w].phys] \subseteq {q}
               \/ \E i \in 1 .. Len(Sections[exec_file[q]]) :
                    Sections[exec_file[q]][i].vpage = w /\ Sections[exec_file[q]][i].short
    <3>1. CASE q = p /\ w = v
      BY <1>1, <1>2, <1>9, <1>11, <3>1
    <3>2. CASE ~(q = p /\ w = v)
      <4>1. table'[q][w] = table[q][w]
        BY <1>10, <3>2
      <4>2. table[q][w].valid /\ table[q][w].read
        BY <1>8, <2>1, <4>1 DEF MapInv
      <4>3. PICK qq \in PhysPages : table[q][w].phys = qq /\ tpr[qq].owner = q /\ tpr[qq].virtualPage = w
        BY <1>8, <4>2 DEF MapInv
      <4>4. tpr[pp].owner = p /\ tpr[pp].virtualPage = v
        BY <1>1, <1>8 DEF MapInv
      <4>5. qq # pp
        BY <3>2, <4>3, <4>4
      <4>6. content'[qq] = content[qq]
        BY <1>1, <4>5
      <4>7. \/ content[table[q][w].phys] \subseteq {q}
            \/ \E i \in 1 .. Len(Sections[exec_file[q]]) :
                 Sections[exec_file[q]][i].vpage = w /\ Sections[exec_file[q]][i].short
        BY <1>8, <4>2 DEF OwnContents
      <4> QED BY <4>1, <4>3, <4>6, <4>7
    <3> QED BY <3>1, <3>2
  <2> QED BY <1>6, <2>1 DEF OwnContents
<1>18. StackGuarded'
  BY <1>6, <1>7, <1>8, <1>9 DEF StackGuarded, Fits
<1>19. NoAssert'
  BY <1>3, <1>8 DEF NoAssert
<1>20. /\ \A x \in Threads : x # t => LoaderOK(x)'
       /\ \A q \in Procs, w \in VirtPages : q # p => PageLoads(q, w)'
  <2>1. \A x \in Threads : x # t => SameLoad(x)
    BY <1>5 DEF SameLoad
  <2> QED BY <1>1, <1>3, <1>6, <1>7, <1>8, <1>9, <2>1, OtherLoads
<1>21. ASSUME NEW w \in VirtPages
       PROVE  PageLoads(p, w)'
  <2>1. CASE w = v
    BY <1>1, <1>9, <2>1 DEF PageLoads
  <2>2. CASE w # v
    <3>1. table[p][w].read => table[p][w].valid
      <4>1. SUFFICES ASSUME table[p][w].read, ~table[p][w].valid PROVE FALSE
        BY <1>8 DEF MemoryType, Tables, Entries
      <4>2. PICK x \in Threads : thread[x].child = p /\ ReadingPage(x, w)
        BY <1>8, <4>1 DEF LoadInv
      <4>3. x = t
        BY <1>7, <4>2
      <4> QED BY <1>1, <2>2, <4>2, <4>3 DEF ReadingPage
    <3> QED BY <1>9, <2>2, <3>1 DEF PageLoads
  <2> QED BY <2>1, <2>2
<1>22. LoaderOK(t)'
  <2>1. /\ thread'[t].pc = "load" /\ thread'[t].child = p /\ thread'[t].file = f
        /\ thread'[t].next = n + 1 /\ thread'[t].next >= 1
    BY <1>2, <1>4, <1>5
  <2>2. ASSUME NEW w \in VirtPages, table'[p][w].read
        PROVE  Loaded(t, w)'
    <3>1. Loaded(t, w)
      BY <1>1, <1>3, <1>8, <1>14, <2>2 DEF LoadInv
    <3>2. PICK i \in 1 .. Len(Sections[f]) : Sections[f][i].vpage = w /\ (i < n \/ i = n)
      BY <1>1, <1>2, <3>1 DEF Loaded
    <3>3. i < n + 1
      BY <1>2, <3>2
    <3> QED BY <2>1, <3>2, <3>3 DEF Loaded
  <2> QED BY <1>3, <1>6, <1>11, <2>1, <2>2 DEF LoaderOK, Fits
<1>23. LoadInv'
  BY <1>20, <1>21, <1>22, LoadParts
<1> QED BY <1>12, <1>13, <1>15, <1>16, <1>17, <1>18, <1>19, <1>23 DEF MemInv

-----------------------------------------------------------------------------
(* Memory: stacks *)

Area(base) == base .. base + StackPages - 1

\* The pages of a new stack of process p, at virtual pages from base.
StackMapped(p, base, page) ==
  /\ page \in [Area(base) -> PhysPages]
  /\ \A v, w \in Area(base) : page[v] = page[w] => v = w
  /\ \A v \in Area(base) : tpr[page[v]].free
  /\ free_page_list' \in Seq(PhysPages)
  /\ \A i, j \in 1 .. Len(free_page_list') : free_page_list'[i] = free_page_list'[j] => i = j
  /\ \A pp \in PhysPages :
       (\E i \in 1 .. Len(free_page_list') : free_page_list'[i] = pp) <=>
         tpr[pp].free /\ \A v \in Area(base) : page[v] # pp
  /\ tpr' \in [PhysPages -> PageRecords]
  /\ \A v \in Area(base) :
       ~tpr'[page[v]].free /\ tpr'[page[v]].owner = p /\ tpr'[page[v]].virtualPage = v
  /\ \A pp \in PhysPages : (\A v \in Area(base) : page[v] # pp) => tpr'[pp] = tpr[pp]
  /\ table' \in [Procs -> Tables]
  /\ \A v \in Area(base) : table'[p][v].phys = page[v] /\ table'[p][v].read /\ table'[p][v].valid
  /\ \A v \in VirtPages : v \notin Area(base) => table'[p][v] = table[p][v]
  /\ \A q \in Procs : q # p => table'[q] = table[q]
  /\ content' \in [PhysPages -> SUBSET (Procs \cup {Old})]
  /\ \A v \in Area(base) : content'[page[v]] = {}
  /\ \A pp \in PhysPages : (\A v \in Area(base) : page[v] # pp) => content'[pp] = content[pp]

\* What StackAllocate does, when the area fits and there are enough pages.
LEMMA StackAllocateEffect ==
  ASSUME MemInv, NEW p \in Procs, Fits(StackBase(p), StackPages),
         Len(free_page_list) >= StackPages, StackAllocate(p)
  PROVE  \E base, page :
           /\ base \in Nat /\ base >= freePageId[p] /\ base + StackPages < MaxVirtPages
           /\ base = freePageId[p] + STACK_BLANK_LEN \/ ~Fits(base, STACK_BLANK_LEN)
           /\ StackMapped(p, base, page)
           /\ freePageId' = [freePageId EXCEPT ![p] = base + StackPages]
           /\ stacks' = stacks \cup {<<p, base>>}
           /\ status' = status
<1>1. MemoryType /\ FreeInv /\ MapInv /\ AreaInv /\ LoadInv /\ OwnContents /\ StackGuarded /\ NoAssert
  BY DEF MemInv
<1>2. freePageId[p] \in Nat
  BY <1>1, Constants DEF MemoryType
<1>3. PICK base \in Nat :
        /\ base = StackBase(p)
        /\ base >= freePageId[p] /\ base + StackPages < MaxVirtPages
        /\ base = freePageId[p] + STACK_BLANK_LEN \/ ~Fits(base, STACK_BLANK_LEN)
  BY <1>2, Constants DEF StackBase, Fits
<1>4. PICK n \in Nat : n = Len(free_page_list) /\ n >= StackPages
  BY <1>1 DEF MemoryType
<1>5. StackPages \in Nat /\ MaxVirtPages \in Nat
  BY Constants
<1>6. /\ \A v \in Area(base) : v \in VirtPages /\ v \in Nat /\ v - base + 1 \in 1 .. StackPages
                               /\ v - base + 1 \in 1 .. n
      /\ \A i \in 1 .. StackPages : base + i - 1 \in Area(base) /\ (base + i - 1) - base + 1 = i
      /\ \A v, w \in Area(base) : v - base + 1 = w - base + 1 => v = w
  <2>1. \A v : v \in Area(base) <=> v \in Int /\ base <= v /\ v <= base + StackPages - 1
    BY <1>5 DEF Area
  <2>2. \A v \in Area(base) : v \in Nat /\ v < MaxVirtPages
    BY <1>3, <1>5, <2>1
  <2>3. \A v \in Area(base) : v - base + 1 \in 1 .. StackPages /\ v - base + 1 \in 1 .. n
    BY <1>4, <1>5, <2>1
  <2>4. \A i \in 1 .. StackPages : base + i - 1 \in Area(base) /\ (base + i - 1) - base + 1 = i
    BY <1>5, <2>1
  <2>5. \A v, w \in Area(base) : v - base + 1 = w - base + 1 => v = w
    BY <2>2
  <2> QED BY <2>2, <2>3, <2>4, <2>5, Constants
<1>7. PICK page : page = [v \in Area(base) |-> free_page_list[v - base + 1]]
  OBVIOUS
<1>8. \A i \in 1 .. n : free_page_list[i] \in PhysPages
  BY <1>1, <1>4 DEF MemoryType
<1>9. /\ page \in [Area(base) -> PhysPages]
      /\ \A v \in Area(base) : page[v] = free_page_list[v - base + 1]
  BY <1>6, <1>7, <1>8
<1>10. \A i, j \in 1 .. n : free_page_list[i] = free_page_list[j] => i = j
  BY <1>1, <1>4 DEF FreeInv
<1>11. \A pp \in PhysPages : tpr[pp].free <=> \E i \in 1 .. n : free_page_list[i] = pp
  BY <1>1, <1>4 DEF FreeInv
<1>12. \A v, w \in Area(base) : page[v] = page[w] => v = w
  BY <1>6, <1>9, <1>10
<1>13. \A v \in Area(base) : tpr[page[v]].free
  BY <1>6, <1>9, <1>11
<1>14. PICK new : new = {free_page_list[i] : i \in 1 .. StackPages}
  OBVIOUS
<1>15. \A pp : pp \in new <=> \E v \in Area(base) : page[v] = pp
  <2>1. \A i \in 1 .. StackPages : \E v \in Area(base) : page[v] = free_page_list[i]
    <3>1. ASSUME NEW i \in 1 .. StackPages
          PROVE  \E v \in Area(base) : page[v] = free_page_list[i]
      <4>1. base + i - 1 \in Area(base) /\ page[base + i - 1] = free_page_list[i]
        BY <1>6, <1>9
      <4> QED BY <4>1
    <3> QED BY <3>1
  <2>2. \A v \in Area(base) : \E i \in 1 .. StackPages : page[v] = free_page_list[i]
    BY <1>6, <1>9
  <2> QED BY <1>14, <2>1, <2>2
<1>16. status' = status
  <2>1. \A pp \in new : tpr[pp].free
    BY <1>13, <1>15
  <2> QED BY <1>14, <2>1 DEF StackAllocate, ASSERT
<1>17. /\ free_page_list' \in Seq(PhysPages) /\ Len(free_page_list') = n - StackPages
       /\ \A i \in 1 .. n - StackPages : free_page_list'[i] = free_page_list[i + StackPages]
  <2>1. free_page_list' = SubSeq(free_page_list, StackPages + 1, n)
    BY <1>4 DEF StackAllocate
  <2>2. free_page_list \in Seq(PhysPages) /\ StackPages + 1 \in 1 .. n + 1
    BY <1>1, <1>4, <1>5 DEF MemoryType
  <2>3. /\ free_page_list' \in Seq(PhysPages) /\ Len(free_page_list') = n - (StackPages + 1) + 1
        /\ \A i \in 1 .. n - (StackPages + 1) + 1 :
             free_page_list'[i] = free_page_list[(StackPages + 1) + i - 1]
    <3>1. StackPages + 1 <= n + 1 /\ n \in StackPages .. n
      BY <1>4, <1>5
    <3> QED BY <1>4, <1>5, <2>1, <2>2, <3>1, SubSeqProperties
  <2>4. /\ n - (StackPages + 1) + 1 = n - StackPages
        /\ \A i \in 1 .. n - StackPages : (StackPages + 1) + i - 1 = i + StackPages
    BY <1>4, <1>5
  <2> QED BY <2>3, <2>4
<1>18. \A i, j \in 1 .. n - StackPages : free_page_list'[i] = free_page_list'[j] => i = j
  <2>1. \A i, j \in 1 .. n - StackPages :
          /\ i + StackPages \in 1 .. n /\ j + StackPages \in 1 .. n
          /\ i + StackPages = j + StackPages => i = j
    BY <1>4, <1>5
  <2> QED BY <1>10, <1>17, <2>1
<1>19. \A pp \in PhysPages :
         (\E i \in 1 .. n - StackPages : free_page_list'[i] = pp) <=> tpr[pp].free /\ pp \notin new
  <2>1. ASSUME NEW i \in 1 .. n - StackPages
        PROVE  tpr[free_page_list'[i]].free /\ free_page_list'[i] \notin new
    <3>1. i + StackPages \in 1 .. n /\ \A j \in 1 .. StackPages : j \in 1 .. n /\ j # i + StackPages
      BY <1>4, <1>5
    <3>2. free_page_list'[i] = free_page_list[i + StackPages]
      BY <1>17
    <3>3. \A j \in 1 .. StackPages : free_page_list[j] # free_page_list[i + StackPages]
      BY <1>10, <3>1
    <3>4. tpr[free_page_list[i + StackPages]].free
      BY <1>8, <1>11, <3>1
    <3> QED BY <1>14, <3>2, <3>3, <3>4
  <2>2. ASSUME NEW pp \in PhysPages, tpr[pp].free, pp \notin new
        PROVE  \E i \in 1 .. n - StackPages : free_page_list'[i] = pp
    <3>1. PICK j \in 1 .. n : free_page_list[j] = pp
      BY <1>11, <2>2
    <3>2. j \notin 1 .. StackPages
      BY <1>14, <2>2, <3>1
    <3>3. j - StackPages \in 1 .. n - StackPages /\ (j - StackPages) + StackPages = j
      BY <1>4, <1>5, <3>2
    <3>4. free_page_list'[j - StackPages] = pp
      BY <1>17, <3>1, <3>3
    <3> QED BY <3>3, <3>4
  <2> QED BY <2>1, <2>2
<1>20. /\ tpr' \in [PhysPages -> PageRecords]
       /\ \A v \in Area(base) :
            ~tpr'[page[v]].free /\ tpr'[page[v]].owner = p /\ tpr'[page[v]].virtualPage = v
       /\ \A pp \in PhysPages : pp \notin new => tpr'[pp] = tpr[pp]
  <2> DEFINE place(pp) == CHOOSE v \in Area(base) : free_page_list[v - base + 1] = pp
             record(pp) == [free |-> FALSE, locked |-> TRUE, owner |-> p, virtualPage |-> place(pp)]
  <2>1. tpr' = [pp \in PhysPages |-> IF pp \in new THEN record(pp) ELSE tpr[pp]]
    BY <1>3, <1>14 DEF StackAllocate, Area
  <2>2. \A v \in Area(base) : place(page[v]) = v
    BY <1>9, <1>12
  <2> HIDE DEF place
  <2>3. \A pp \in new : place(pp) \in Nat
    BY <1>6, <1>15, <2>2
  <2>4. \A pp \in new : /\ record(pp) \in PageRecords /\ ~record(pp).free /\ record(pp).owner = p
                        /\ record(pp).virtualPage = place(pp)
    BY <2>3 DEF PageRecords
  <2> HIDE DEF record
  <2>5. tpr' \in [PhysPages -> PageRecords]
    BY <1>1, <2>1, <2>4 DEF MemoryType
  <2>6. \A v \in Area(base) : tpr'[page[v]] = record(page[v]) /\ page[v] \in new
    BY <1>9, <1>15, <2>1
  <2> QED BY <2>1, <2>2, <2>4, <2>5, <2>6
<1>21. /\ table' \in [Procs -> Tables]
       /\ \A v \in Area(base) : table'[p][v].phys = page[v] /\ table'[p][v].read /\ table'[p][v].valid
       /\ \A v \in VirtPages : v \notin Area(base) => table'[p][v] = table[p][v]
       /\ \A q \in Procs : q # p => table'[q] = table[q]
  <2> DEFINE entry(pp) == [NoEntry EXCEPT !.phys = pp, !.valid = TRUE, !.read = TRUE, !.write = TRUE]
  <2>1. table' = [table EXCEPT ![p] = [v \in VirtPages |->
                    IF v \in Area(base) THEN entry(free_page_list[v - base + 1]) ELSE table[p][v]]]
    BY <1>1, <1>3 DEF StackAllocate, Area, MemoryType
  <2>2. \A pp \in PhysPages : entry(pp) \in Entries /\ entry(pp).phys = pp /\ entry(pp).read /\ entry(pp).valid
    <3>1. ASSUME NEW pp \in PhysPages
          PROVE  entry(pp) \in Entries /\ entry(pp).phys = pp /\ entry(pp).read /\ entry(pp).valid
      <4>1. NoEntry \in Entries
        BY DEF NoEntry, PageTableEntry, Entries
      <4>2. pp \in Int
        BY Constants
      <4> QED BY <4>1, <4>2 DEF Entries
    <3> QED BY <3>1
  <2> HIDE DEF entry
  <2>3. table \in [Procs -> [VirtPages -> Entries]]
    BY <1>1 DEF MemoryType, Tables
  <2>4. PICK line : line = [v \in VirtPages |-> IF v \in Area(base) THEN entry(page[v]) ELSE table[p][v]]
    OBVIOUS
  <2>5. line \in [VirtPages -> Entries]
    BY <1>9, <2>2, <2>3, <2>4
  <2>6. table' = [table EXCEPT ![p] = line]
    <3>1. \A v \in VirtPages :
            (IF v \in Area(base) THEN entry(free_page_list[v - base + 1]) ELSE table[p][v]) =
            (IF v \in Area(base) THEN entry(page[v]) ELSE table[p][v])
      BY <1>9
    <3>2. [v \in VirtPages |-> IF v \in Area(base) THEN entry(free_page_list[v - base + 1])
                               ELSE table[p][v]] = line
      BY <2>4, <3>1
    <3> QED BY <2>1, <3>2
  <2>7. table' \in [Procs -> Tables] /\ table'[p] = line /\ \A q \in Procs : q # p => table'[q] = table[q]
    BY <2>3, <2>5, <2>6 DEF Tables
  <2>8. /\ \A v \in Area(base) : line[v] = entry(page[v])
        /\ \A v \in VirtPages : v \notin Area(base) => line[v] = table[p][v]
    BY <1>6, <2>4
  <2> QED BY <1>9, <2>2, <2>7, <2>8
<1>22. /\ content' \in [PhysPages -> SUBSET (Procs \cup {Old})]
       /\ \A v \in Area(base) : content'[page[v]] = {}
       /\ \A pp \in PhysPages : pp \notin new => content'[pp] = content[pp]
  <2>1. content' = [pp \in PhysPages |-> IF pp \in new THEN {} ELSE content[pp]]
    BY <1>14 DEF StackAllocate, Zeroed
  <2> QED BY <1>1, <1>9, <1>15, <2>1 DEF MemoryType
<1>23. StackMapped(p, base, page)
  BY <1>9, <1>12, <1>13, <1>15, <1>17, <1>18, <1>19, <1>20, <1>21, <1>22 DEF StackMapped
<1>24. freePageId' = [freePageId EXCEPT ![p] = base + StackPages] /\ stacks' = stacks \cup {<<p, base>>}
  BY <1>3 DEF StackAllocate
<1> QED BY <1>3, <1>16, <1>23, <1>24

\* A new thread keeps the memory in order.
LEMMA StartedMemory ==
  ASSUME ThreadType, ThreadsInv, ProcType, ProcsInv, MemInv,
         NEW t \in Threads, NEW u \in Threads, NEW p, Started(t, u, p)
  PROVE  MemInv'
<1>1. /\ p \in Procs /\ status = "run" /\ thread[u].state = "none"
      /\ (thread[t].child = p /\ thread[t].pc = "load") \/ (thread[t].proc = p /\ thread[t].pc = "user")
      /\ \A x \in Threads : x # t /\ x # u => thread'[x] = thread[x]
      /\ thread'[t].pc = "user" /\ thread'[u].pc = "start"
      /\ proc' = [proc EXCEPT ![p] = "live"] /\ exec_file' = exec_file
  BY DEF Started
<1>2. thread[u].pc = "user"
  BY <1>1 DEF ThreadsInv
<1>3. proc'[p] = "live" /\ \A q \in Procs : q # p => proc'[q] = proc[q]
  BY <1>1 DEF ProcType
<1>4. \A x \in Threads : x # t /\ (thread'[x].pc \in Stages \/ thread[x].pc \in Stages) => SameLoad(x)
  BY <1>1, <1>2 DEF SameLoad, Stages
<1>5. CASE status' \in {"full", "halted"} /\ UNCHANGED <<memory, stacks>>
  <2>1. \A x \in Threads : thread'[x].pc \in Stages \/ thread[x].pc = "reading" => SameLoad(x)
    BY <1>1, <1>4 DEF Stages
  <2> QED BY <1>1, <1>3, <1>5, <2>1, MemoryKept
<1>6. CASE /\ Fits(StackBase(p), StackPages) /\ Len(free_page_list) >= StackPages
           /\ StackAllocate(p)
  <2>1. PICK base, page :
          /\ base \in Nat /\ base >= freePageId[p] /\ base + StackPages < MaxVirtPages
          /\ base = freePageId[p] + STACK_BLANK_LEN \/ ~Fits(base, STACK_BLANK_LEN)
          /\ StackMapped(p, base, page)
          /\ freePageId' = [freePageId EXCEPT ![p] = base + StackPages]
          /\ stacks' = stacks \cup {<<p, base>>}
          /\ status' = status
    BY <1>1, <1>6, StackAllocateEffect
  <2>2. MemoryType /\ FreeInv /\ MapInv /\ AreaInv /\ LoadInv /\ OwnContents /\ StackGuarded /\ NoAssert
    BY DEF MemInv
  <2>3. freePageId \in [Procs -> 0 .. MaxVirtPages] /\ freePageId[p] \in Nat
    BY <1>1, <2>2, Constants DEF MemoryType
  <2>4. /\ freePageId' \in [Procs -> 0 .. MaxVirtPages] /\ freePageId'[p] = base + StackPages
        /\ \A q \in Procs : q # p => freePageId'[q] = freePageId[q]
    BY <1>1, <2>1, <2>3, Constants
  <2>5. \A v \in Area(base) : v \in VirtPages /\ v \in Nat /\ v >= freePageId[p] /\ v < base + StackPages
    <3>1. \A v \in base .. base + StackPages - 1 :
            v \in Nat /\ v >= freePageId[p] /\ v < base + StackPages /\ v < MaxVirtPages
      BY <2>1, <2>3, Constants
    <3> QED BY <3>1, Constants DEF Area
  <2>6. \A x \in Threads : x # t => thread[x].child # p
    BY <1>1, Constants DEF ProcsInv
  <2>7. \A v \in VirtPages : table[p][v].read => table[p][v].valid /\ v < freePageId[p]
    <3>1. ASSUME NEW v \in VirtPages, table[p][v].read, ~table[p][v].valid PROVE FALSE
      <4>1. PICK x \in Threads : thread[x].child = p /\ thread[x].pc = "reading"
        BY <1>1, <2>2, <3>1 DEF LoadInv, ReadingPage
      <4> QED BY <1>1, <2>6, <4>1
    <3> QED BY <1>1, <2>2, <3>1 DEF AreaInv, MemoryType, Tables, Entries
  <2>8. \A v \in Area(base) : ~table[p][v].read
    BY <2>3, <2>5, <2>7
  <2>9. \A q \in Procs, w \in VirtPages : (q = p /\ w \in Area(base)) \/ table'[q][w] = table[q][w]
    BY <2>1 DEF StackMapped
  <2>10. \A v \in Area(base) : /\ page[v] \in PhysPages /\ tpr[page[v]].free
                               /\ table'[p][v].phys = page[v] /\ table'[p][v].read /\ table'[p][v].valid
                               /\ ~tpr'[page[v]].free /\ tpr'[page[v]].owner = p
                               /\ tpr'[page[v]].virtualPage = v /\ content'[page[v]] = {}
    BY <2>1 DEF StackMapped
  <2>11. \A pp \in PhysPages : ~tpr[pp].free => tpr'[pp] = tpr[pp] /\ content'[pp] = content[pp]
    <3>1. \A pp \in PhysPages : ~tpr[pp].free => \A v \in Area(base) : page[v] # pp
      BY <2>10
    <3> QED BY <2>1, <3>1 DEF StackMapped
  <2>12. MemoryType'
    <3>1. stacks' \subseteq Procs \X VirtPages
      <4>1. base \in VirtPages
        BY <2>1, Constants
      <4> QED BY <1>1, <2>1, <2>2, <4>1 DEF MemoryType
    <3> QED BY <1>1, <2>1, <2>2, <2>4, <3>1 DEF MemoryType, StackMapped
  <2>13. FreeInv'
    <3>1. \A pp \in PhysPages : tpr'[pp].free <=> tpr[pp].free /\ \A v \in Area(base) : page[v] # pp
      <4>1. ASSUME NEW pp \in PhysPages, \A v \in Area(base) : page[v] # pp
            PROVE  tpr'[pp] = tpr[pp]
        BY <2>1, <4>1 DEF StackMapped
      <4>2. ASSUME NEW pp \in PhysPages, NEW v \in Area(base), page[v] = pp
            PROVE  ~tpr'[pp].free
        BY <2>10, <4>2
      <4> QED BY <4>1, <4>2
    <3>2. /\ \A i, j \in 1 .. Len(free_page_list') : free_page_list'[i] = free_page_list'[j] => i = j
          /\ \A pp \in PhysPages :
               (\E i \in 1 .. Len(free_page_list') : free_page_list'[i] = pp) <=>
                 tpr[pp].free /\ \A v \in Area(base) : page[v] # pp
      BY <2>1 DEF StackMapped
    <3> QED BY <3>1, <3>2 DEF FreeInv
  <2>14. MapInv'
    <3>1. ASSUME NEW qq \in PhysPages, ~tpr'[qq].free
          PROVE  /\ tpr'[qq].owner \in Procs /\ tpr'[qq].virtualPage \in VirtPages
                 /\ table'[tpr'[qq].owner][tpr'[qq].virtualPage].phys = qq
                 /\ table'[tpr'[qq].owner][tpr'[qq].virtualPage].read
      <4>1. CASE \E v \in Area(base) : page[v] = qq
        <5>1. PICK v \in Area(base) : page[v] = qq
          BY <4>1
        <5> QED BY <1>1, <2>5, <2>10, <5>1
      <4>2. CASE \A v \in Area(base) : page[v] # qq
        <5>1. tpr'[qq] = tpr[qq]
          BY <2>1, <4>2 DEF StackMapped
        <5>2. PICK q \in Procs, w \in VirtPages :
                tpr[qq].owner = q /\ tpr[qq].virtualPage = w /\ table[q][w].phys = qq /\ table[q][w].read
          BY <2>2, <3>1, <5>1 DEF MapInv
        <5>3. table'[q][w] = table[q][w]
          BY <2>8, <2>9, <5>2
        <5> QED BY <5>1, <5>2, <5>3
      <4> QED BY <4>1, <4>2
    <3>2. ASSUME NEW q \in Procs, NEW w \in VirtPages, table'[q][w].read
          PROVE  /\ table'[q][w].phys \in PhysPages
                 /\ ~tpr'[table'[q][w].phys].free
                 /\ tpr'[table'[q][w].phys].owner = q /\ tpr'[table'[q][w].phys].virtualPage = w
      <4>1. CASE q = p /\ w \in Area(base)
        BY <2>10, <4>1
      <4>2. CASE table'[q][w] = table[q][w]
        <5>1. PICK qq \in PhysPages :
                table[q][w].phys = qq /\ ~tpr[qq].free /\ tpr[qq].owner = q /\ tpr[qq].virtualPage = w
          BY <2>2, <3>2, <4>2 DEF MapInv
        <5>2. tpr'[qq] = tpr[qq]
          BY <2>11, <5>1
        <5> QED BY <4>2, <5>1, <5>2
      <4> QED BY <2>9, <4>1, <4>2
    <3>3. \A q \in Procs, w \in VirtPages : table'[q][w].valid \/ table'[q][w].write => table'[q][w].read
      <4>1. \A q \in Procs, w \in VirtPages : table[q][w].valid \/ table[q][w].write => table[q][w].read
        BY <2>2 DEF MapInv
      <4> QED BY <2>9, <2>10, <4>1
    <3> QED BY <3>1, <3>2, <3>3 DEF MapInv
  <2>15. AreaInv'
    <3>1. \A v \in VirtPages : table'[p][v].read => v < base + StackPages
      <4>1. ASSUME NEW v \in VirtPages, v \notin Area(base), table'[p][v].read
            PROVE  v < base + StackPages
        <5>1. table[p][v].read
          BY <1>1, <2>9, <4>1
        <5>2. v < freePageId[p] /\ v \in Nat
          BY <2>7, <5>1, Constants
        <5> QED BY <2>1, <2>3, <5>2, Constants
      <4> QED BY <2>5, <4>1
    <3>2. \A q \in Procs, v \in VirtPages : table'[q][v].read => v < freePageId'[q]
      <4>1. ASSUME NEW q \in Procs, NEW v \in VirtPages, q # p, table'[q][v].read
            PROVE  v < freePageId'[q]
        BY <2>2, <2>4, <2>9, <4>1 DEF AreaInv
      <4> QED BY <2>4, <3>1, <4>1
    <3>3. \A q \in Procs : proc'[q] \in {"none", "leaked"} => freePageId'[q] = 0
      BY <1>3, <2>2, <2>4 DEF AreaInv
    <3>4. ASSUME NEW s \in stacks'
          PROVE  s[2] + StackPages <= freePageId'[s[1]] /\ proc'[s[1]] = "live"
      <4>1. CASE s = <<p, base>>
        BY <1>3, <2>1, <2>4, <4>1, Constants
      <4>2. CASE s \in stacks
        <5>1. /\ s[1] \in Procs /\ s[2] \in Nat /\ s[2] + StackPages <= freePageId[s[1]]
              /\ proc[s[1]] = "live"
          BY <2>2, <4>2, Constants DEF AreaInv, MemoryType
        <5>2. CASE s[1] = p
          <6>1. s[2] + StackPages <= freePageId[p]
            BY <5>1, <5>2
          <6>2. s[2] + StackPages <= base + StackPages
            BY <2>1, <2>3, <5>1, <6>1, Constants
          <6> QED BY <1>3, <2>4, <5>2, <6>2
        <5>3. CASE s[1] # p
          BY <1>3, <2>4, <5>1, <5>3
        <5> QED BY <5>2, <5>3
      <4> QED BY <2>1, <4>1, <4>2
    <3> QED BY <3>2, <3>3, <3>4 DEF AreaInv
  <2>16. OwnContents'
    <3>1. ASSUME NEW q \in Procs, NEW w \in VirtPages, table'[q][w].valid
          PROVE  \/ content'[table'[q][w].phys] \subseteq {q}
                 \/ \E i \in 1 .. Len(Sections[exec_file[q]]) :
                      Sections[exec_file[q]][i].vpage = w /\ Sections[exec_file[q]][i].short
      <4>1. CASE q = p /\ w \in Area(base)
        BY <2>10, <4>1
      <4>2. CASE table'[q][w] = table[q][w]
        <5>1. PICK qq \in PhysPages : table[q][w].phys = qq /\ ~tpr[qq].free
          BY <2>2, <3>1, <4>2 DEF MapInv
        <5>2. content'[qq] = content[qq]
          BY <2>11, <5>1
        <5>3. \/ content[table[q][w].phys] \subseteq {q}
              \/ \E i \in 1 .. Len(Sections[exec_file[q]]) :
                   Sections[exec_file[q]][i].vpage = w /\ Sections[exec_file[q]][i].short
          BY <2>2, <3>1, <4>2 DEF OwnContents
        <5> QED BY <4>2, <5>1, <5>2, <5>3
      <4> QED BY <2>9, <4>1, <4>2
    <3> QED BY <1>1, <3>1 DEF OwnContents
  <2>17. StackGuarded'
    <3>1. ASSUME NEW s \in stacks', Fits(s[2], STACK_BLANK_LEN),
                 NEW v \in s[2] - STACK_BLANK_LEN .. s[2] - 1
          PROVE  v \in VirtPages /\ ~table'[s[1]][v].read /\ ~table'[s[1]][v].write
      <4>1. CASE s = <<p, base>>
        <5>1. s[1] = p /\ s[2] = base /\ base = freePageId[p] + STACK_BLANK_LEN
          BY <2>1, <3>1, <4>1
        <5>2. v \in freePageId[p] .. base - 1
          BY <2>3, <3>1, <5>1, Constants
        <5>3. v \in Nat /\ v < MaxVirtPages /\ ~(v < freePageId[p]) /\ v < base
          BY <2>1, <2>3, <5>2, Constants
        <5>4. v \in VirtPages /\ v \notin Area(base)
          BY <2>1, <5>3, Constants DEF Area
        <5>5. ~table[p][v].read /\ ~table[p][v].write
          BY <1>1, <2>2, <2>7, <5>3, <5>4 DEF MapInv
        <5> QED BY <1>1, <2>9, <5>1, <5>4, <5>5
      <4>2. CASE s \in stacks
        <5>1. /\ s[1] \in Procs /\ s[2] \in Nat /\ s[2] + StackPages <= freePageId[s[1]]
          BY <2>2, <4>2, Constants DEF AreaInv, MemoryType
        <5>2. v \in VirtPages /\ ~table[s[1]][v].read /\ ~table[s[1]][v].write
          BY <2>2, <3>1, <4>2 DEF StackGuarded
        <5>3. ~(s[1] = p /\ v \in Area(base))
          <6>1. SUFFICES ASSUME s[1] = p, v \in Area(base) PROVE FALSE
            OBVIOUS
          <6>2. v >= freePageId[p] /\ v \in Nat /\ v <= s[2] - 1
            BY <2>5, <3>1, <5>1, <6>1, Constants
          <6>3. s[2] + StackPages <= freePageId[p]
            BY <5>1, <6>1
          <6> QED BY <2>3, <5>1, <6>2, <6>3, Constants
        <5> QED BY <2>9, <5>1, <5>2, <5>3
      <4> QED BY <2>1, <4>1, <4>2
    <3> QED BY <3>1 DEF StackGuarded, Fits
  <2>18. NoAssert'
    BY <2>1, <2>2 DEF NoAssert
  <2>19. /\ \A x \in Threads : x # t => LoaderOK(x)'
         /\ \A q \in Procs, v \in VirtPages : q # p => PageLoads(q, v)'
    <3>1. \A q \in Procs : q # p => /\ table'[q] = table[q] /\ freePageId'[q] = freePageId[q]
                                    /\ exec_file'[q] = exec_file[q]
      BY <1>1, <2>1, <2>4 DEF StackMapped
    <3>2. thread[t].pc # "reading"
      BY <1>1
    <3> QED BY <1>1, <1>4, <2>1, <2>2, <2>6, <3>1, <3>2, OtherLoads
  <2>20. LoaderOK(t)'
    BY <1>1 DEF LoaderOK, Stages
  <2>21. \A v \in VirtPages : PageLoads(p, v)'
    BY <1>1, <2>7, <2>9, <2>10 DEF PageLoads
  <2>22. LoadInv'
    BY <2>19, <2>20, <2>21, LoadParts
  <2> QED BY <2>12, <2>13, <2>14, <2>15, <2>16, <2>17, <2>18, <2>22 DEF MemInv
<1> QED BY <1>5, <1>6 DEF Started

-----------------------------------------------------------------------------
(* Memory: stores *)

\* The page of an address, with pages of one unit and addresses below 2^AddrBits.
LEMMA PageOf ==
  ASSUME NEW v \in 0 .. MaxVirtPages + 1
  PROVE  vpn(v) = v
<1>1. PICK m \in Nat : m = 2^AddrBits /\ m > MaxVirtPages + 1
  BY ProcessesAssumption
<1>2. v \in Nat /\ v < m
  BY <1>1, Constants
<1>3. v % m = v
  BY <1>2
<1>4. v \div 1 = v
  BY <1>2
<1>5. VirtAddr(v) = v
  BY <1>1, <1>3 DEF VirtAddr
<1> QED BY <1>4, <1>5, ProcessesAssumption DEF vpn

\* A store that translates is to a valid page.
LEMMA TranslatedPage ==
  ASSUME NEW tab, NEW v \in 0 .. MaxVirtPages + 1, Translate(tab, v, 1, TRUE) = "NO_EXCEPTION"
  PROVE  v \in VirtPages /\ tab[v].valid /\ tab[v].phys \in PhysPages
<1>1. vpn(v) = v
  BY PageOf
<1>2. ~(v >= MaxVirtPages) /\ tab[v].valid /\ tab[v].phys \in PhysPages
  BY <1>1 DEF Translate, getMaxNumPages, getBitValid, getPhysicalPage, Misaligned
<1>3. v \in Nat /\ v < MaxVirtPages
  BY <1>2, Constants
<1> QED BY <1>2, <1>3, Constants

\* What stores of process p change: its use bits, and its own pages.
Stored(p) ==
  /\ table' \in [Procs -> Tables]
  /\ \A q \in Procs, w \in VirtPages :
       /\ table'[q][w].phys = table[q][w].phys /\ table'[q][w].valid = table[q][w].valid
       /\ table'[q][w].read = table[q][w].read /\ table'[q][w].write = table[q][w].write
  /\ \A q \in Procs : q # p => table'[q] = table[q]
  /\ content' \in [PhysPages -> SUBSET (Procs \cup {Old})]
  /\ \A pp \in PhysPages :
       \/ content'[pp] = content[pp]
       \/ /\ content'[pp] = content[pp] \cup {p}
          /\ \E v \in VirtPages : table[p][v].valid /\ table[p][v].phys = pp

\* Stores to the pages of a process.
LEMMA StoresMap ==
  ASSUME MemoryType, NEW t \in Threads, thread[t].proc \in Procs,
         NEW vs \in Seq(0 .. MaxVirtPages + 1), Stores(t, vs)
  PROVE  Stored(thread[t].proc)
<1>1. PICK p \in Procs : p = thread[t].proc
  OBVIOUS
<1>2. PICK done :
        done = {i \in DOMAIN vs : \A j \in 1 .. i :
                  [k \in DOMAIN vs |-> Translate(table[p], vs[k], 1, TRUE)][j] = "NO_EXCEPTION"}
  OBVIOUS
<1>3. PICK stored : stored = {vs[i] : i \in done}
  OBVIOUS
<1>4. \A v \in stored : v \in VirtPages /\ table[p][v].valid /\ table[p][v].phys \in PhysPages
                        /\ vpn(v) = v
  <2>1. ASSUME NEW i \in done
        PROVE  vs[i] \in 0 .. MaxVirtPages + 1 /\ Translate(table[p], vs[i], 1, TRUE) = "NO_EXCEPTION"
    <3>1. i \in DOMAIN vs /\ i \in 1 .. Len(vs) /\ i \in 1 .. i
      BY <1>2, <2>1
    <3>2. vs[i] \in 0 .. MaxVirtPages + 1
      BY <3>1, ElementOfSeq
    <3>3. [k \in DOMAIN vs |-> Translate(table[p], vs[k], 1, TRUE)][i] = "NO_EXCEPTION"
      BY <1>2, <3>1
    <3>4. [k \in DOMAIN vs |-> Translate(table[p], vs[k], 1, TRUE)][i] = Translate(table[p], vs[i], 1, TRUE)
      BY <3>1
    <3> QED BY <3>2, <3>3, <3>4
  <2> QED BY <1>3, <2>1, TranslatedPage, PageOf
<1>5. PICK pages : pages = {table[p][v].phys : v \in stored}
  OBVIOUS
<1>6. content' = [pp \in PhysPages |-> IF pp \in pages THEN content[pp] \cup {p} ELSE content[pp]]
  BY <1>1, <1>2, <1>3, <1>5 DEF Stores, getPhysicalPage
<1>7. PICK line : line = [v \in VirtPages |-> IF v \in stored THEN Accessed(table[p], v, TRUE)[v]
                                              ELSE table[p][v]]
  OBVIOUS
<1>8. table' = [table EXCEPT ![p] = line]
  BY <1>1, <1>2, <1>3, <1>7 DEF Stores
<1>9. table \in [Procs -> [VirtPages -> Entries]]
  BY DEF MemoryType, Tables
<1>10. ASSUME NEW v \in stored
       PROVE  /\ line[v] \in Entries
              /\ line[v].phys = table[p][v].phys /\ line[v].valid = table[p][v].valid
              /\ line[v].read = table[p][v].read /\ line[v].write = table[p][v].write
  <2>1. v \in VirtPages /\ vpn(v) = v /\ table[p] \in [VirtPages -> Entries] /\ table[p][v] \in Entries
    BY <1>4, <1>9
  <2>2. Accessed(table[p], v, TRUE) = [[table[p] EXCEPT ![v].dirty = TRUE] EXCEPT ![v].used = TRUE]
    BY <2>1 DEF Accessed, setBitU, setBitM
  <2>3. PICK e : e = [[table[p][v] EXCEPT !.dirty = TRUE] EXCEPT !.used = TRUE]
    OBVIOUS
  <2>4. Accessed(table[p], v, TRUE)[v] = e
    BY <2>1, <2>2, <2>3
  <2>5. /\ e \in Entries /\ e.phys = table[p][v].phys /\ e.valid = table[p][v].valid
        /\ e.read = table[p][v].read /\ e.write = table[p][v].write
    BY <2>1, <2>3 DEF Entries
  <2> QED BY <1>7, <2>1, <2>4, <2>5
<1>11. \A v \in VirtPages : v \notin stored => line[v] = table[p][v]
  BY <1>7
<1>12. line \in [VirtPages -> Entries]
  <2>1. \A v \in VirtPages : line[v] \in Entries
    BY <1>9, <1>10, <1>11
  <2> QED BY <1>7, <2>1
<1>13. /\ table' \in [Procs -> Tables] /\ table'[p] = line
       /\ \A q \in Procs : q # p => table'[q] = table[q]
  BY <1>8, <1>9, <1>12 DEF Tables
<1>14. \A q \in Procs, w \in VirtPages :
         /\ table'[q][w].phys = table[q][w].phys /\ table'[q][w].valid = table[q][w].valid
         /\ table'[q][w].read = table[q][w].read /\ table'[q][w].write = table[q][w].write
  <2>1. \A w \in VirtPages :
          /\ line[w].phys = table[p][w].phys /\ line[w].valid = table[p][w].valid
          /\ line[w].read = table[p][w].read /\ line[w].write = table[p][w].write
    BY <1>10, <1>11
  <2> QED BY <1>13, <2>1
<1>15. content' \in [PhysPages -> SUBSET (Procs \cup {Old})]
  BY <1>6 DEF MemoryType
<1>16. \A pp \in PhysPages :
         \/ content'[pp] = content[pp]
         \/ /\ content'[pp] = content[pp] \cup {p}
            /\ \E v \in VirtPages : table[p][v].valid /\ table[p][v].phys = pp
  BY <1>4, <1>5, <1>6
<1> QED BY <1>1, <1>13, <1>14, <1>15, <1>16 DEF Stored

\* Stores keep the memory in order.
LEMMA StoresMemory ==
  ASSUME ThreadType, ThreadsInv, ProcType, ProcsInv, MemInv,
         NEW t \in Threads, NEW vs \in Seq(0 .. MaxVirtPages + 1), Stores(t, vs)
  PROVE  MemInv'
<1>1. /\ Still /\ status = "run" /\ running = t
      /\ UNCHANGED <<free_page_list, tpr, freePageId, proc, exec_file, stacks>>
      /\ status' \in {status, "exited", "halted"}
  BY StoresEffect
<1>2. MemoryType /\ FreeInv /\ MapInv /\ AreaInv /\ LoadInv /\ OwnContents /\ StackGuarded /\ NoAssert
  BY DEF MemInv
<1>3. PICK p \in Procs : p = thread[t].proc
  BY <1>1 DEF ThreadsInv
<1>4. Stored(p)
  BY <1>2, <1>3, StoresMap
<1>5. \A q \in Procs, w \in VirtPages :
        /\ table'[q][w].phys = table[q][w].phys /\ table'[q][w].valid = table[q][w].valid
        /\ table'[q][w].read = table[q][w].read /\ table'[q][w].write = table[q][w].write
  BY <1>4 DEF Stored
<1>6. thread' = thread
  BY <1>1 DEF Still
<1>7. MemoryType'
  BY <1>1, <1>2, <1>4 DEF MemoryType, Stored
<1>8. FreeInv'
  BY <1>1, <1>2 DEF FreeInv
<1>9. MapInv'
  <2>1. ASSUME NEW qq \in PhysPages, ~tpr'[qq].free
        PROVE  /\ tpr'[qq].owner \in Procs /\ tpr'[qq].virtualPage \in VirtPages
               /\ table'[tpr'[qq].owner][tpr'[qq].virtualPage].phys = qq
               /\ table'[tpr'[qq].owner][tpr'[qq].virtualPage].read
    BY <1>1, <1>2, <1>5, <2>1 DEF MapInv
  <2>2. \A q \in Procs, w \in VirtPages : table'[q][w].read =>
          /\ table'[q][w].phys \in PhysPages
          /\ ~tpr'[table'[q][w].phys].free
          /\ tpr'[table'[q][w].phys].owner = q /\ tpr'[table'[q][w].phys].virtualPage = w
    BY <1>1, <1>2, <1>5 DEF MapInv
  <2>3. \A q \in Procs, w \in VirtPages : table'[q][w].valid \/ table'[q][w].write => table'[q][w].read
    BY <1>2, <1>5 DEF MapInv
  <2> QED BY <2>1, <2>2, <2>3 DEF MapInv
<1>10. AreaInv'
  <2>1. \A q \in Procs, w \in VirtPages : table'[q][w].read => w < freePageId'[q]
    BY <1>1, <1>2, <1>5 DEF AreaInv
  <2> QED BY <1>1, <1>2, <2>1 DEF AreaInv
<1>11. OwnContents'
  <2>1. ASSUME NEW q \in Procs, NEW w \in VirtPages, table'[q][w].valid
        PROVE  \/ content'[table'[q][w].phys] \subseteq {q}
               \/ \E i \in 1 .. Len(Sections[exec_file[q]]) :
                    Sections[exec_file[q]][i].vpage = w /\ Sections[exec_file[q]][i].short
    <3>1. PICK qq \in PhysPages : table[q][w].phys = qq /\ tpr[qq].owner = q /\ table'[q][w].phys = qq
      BY <1>2, <1>5, <2>1 DEF MapInv
    <3>2. \/ content[qq] \subseteq {q}
          \/ \E i \in 1 .. Len(Sections[exec_file[q]]) :
               Sections[exec_file[q]][i].vpage = w /\ Sections[exec_file[q]][i].short
      BY <1>2, <1>5, <2>1, <3>1 DEF OwnContents
    <3>3. content'[qq] = content[qq] \/ (content'[qq] = content[qq] \cup {p} /\ p = q)
      <4>1. ASSUME NEW v \in VirtPages, table[p][v].valid, table[p][v].phys = qq
            PROVE  p = q
        BY <1>2, <3>1, <4>1 DEF MapInv
      <4> QED BY <1>4, <4>1 DEF Stored
    <3> QED BY <3>1, <3>2, <3>3
  <2> QED BY <1>1, <2>1 DEF OwnContents
<1>12. StackGuarded'
  <2>1. \A s \in stacks : s[1] \in Procs
    BY <1>2 DEF MemoryType
  <2> QED BY <1>1, <1>2, <1>5, <2>1 DEF StackGuarded, Fits
<1>13. NoAssert'
  BY <1>1, <1>2 DEF NoAssert
<1>14. proc[p] = "live"
  BY <1>3 DEF ProcsInv
<1>15. \A x \in Threads : thread[x].child # p
  BY <1>14 DEF ProcsInv
<1>16. /\ \A x \in Threads : x # t => LoaderOK(x)'
       /\ \A q \in Procs, v \in VirtPages : q # p => PageLoads(q, v)'
  <2>1. \A x \in Threads : SameLoad(x)
    BY <1>6 DEF SameLoad
  <2>2. \A q \in Procs : q # p => /\ table'[q] = table[q] /\ freePageId'[q] = freePageId[q]
                                  /\ exec_file'[q] = exec_file[q]
    BY <1>1, <1>4 DEF Stored
  <2>3. thread[t].pc # "reading"
    BY DEF Stores, User
  <2> QED BY <1>1, <1>2, <1>15, <2>1, <2>2, <2>3, OtherLoads
<1>17. LoaderOK(t)'
  <2>1. thread'[t].pc = "user"
    BY <1>6 DEF Stores, User
  <2> QED BY <2>1 DEF LoaderOK, Stages
<1>18. \A v \in VirtPages : PageLoads(p, v)'
  <2>1. \A v \in VirtPages : ~(table[p][v].read /\ ~table[p][v].valid)
    BY <1>2, <1>15 DEF LoadInv
  <2> QED BY <1>5, <2>1 DEF PageLoads
<1>19. LoadInv'
  BY <1>16, <1>17, <1>18, LoadParts
<1> QED BY <1>7, <1>8, <1>9, <1>10, <1>11, <1>12, <1>13, <1>19 DEF MemInv

-----------------------------------------------------------------------------
(* Memory: the end of a process *)

\* f starts with a and is continued by step.
StepsOn(step, n, S) == step \in [(1 .. n) \X S -> S]
Iterates(f, n, S, a, step) ==
  f \in [0 .. n -> S] /\ f[0] = a /\ \A v \in 1 .. n : f[v] = step[<<v, f[v - 1]>>]

\* A function given by its first value and its steps exists.
LEMMA Iterated ==
  ASSUME NEW S, NEW n \in Nat, NEW a \in S, NEW step, StepsOn(step, n, S)
  PROVE  \E f : Iterates(f, n, S, a, step)
<1>0. step \in [(1 .. n) \X S -> S]
  BY DEF StepsOn
<1> DEFINE ok(m, f) == f[0] = a /\ \A v \in 1 .. m : f[v] = step[<<v, f[v - 1]>>]
           bad == {m \in 0 .. n : ~\E f \in [0 .. m -> S] : ok(m, f)}
<1>1. ASSUME bad # {}
      PROVE  FALSE
  <2>1. bad \in SUBSET Nat
    OBVIOUS
  <2> HIDE DEF bad
  <2>2. PICK m \in bad : \A k \in bad : m <= k
    BY <1>1, <2>1, LeastNatural
  <2>3. m \in 0 .. n /\ ~\E f \in [0 .. m -> S] : ok(m, f)
    BY <2>2 DEF bad
  <2>4. m # 0
    <3>1. SUFFICES ASSUME m = 0 PROVE FALSE
      OBVIOUS
    <3>2. PICK f : f = [v \in 0 .. m |-> a]
      OBVIOUS
    <3>3. f \in [0 .. m -> S] /\ f[0] = a
      BY <2>3, <3>2
    <3>4. ok(m, f)
      BY <3>1, <3>3
    <3> QED BY <2>3, <3>3, <3>4
  <2>5. m - 1 \in 0 .. n /\ m \in 1 .. n /\ m - 1 \notin bad
    <3>1. m - 1 \in 0 .. n /\ m \in 1 .. n /\ ~(m <= m - 1)
      BY <2>3, <2>4
    <3> QED BY <2>2, <3>1
  <2>6. PICK f \in [0 .. m - 1 -> S] : ok(m - 1, f)
    BY <2>5 DEF bad
  <2>7. m - 1 \in 0 .. m - 1 /\ f[m - 1] \in S
    BY <2>5
  <2>8. PICK last \in S : last = step[<<m, f[m - 1]>>]
    BY <1>0, <2>5, <2>7
  <2>9. PICK g : g = [v \in 0 .. m |-> IF v = m THEN last ELSE f[v]]
    OBVIOUS
  <2>10. \A v \in 0 .. m : v = m \/ v \in 0 .. m - 1
    BY <2>5
  <2>11. g \in [0 .. m -> S] /\ g[m] = last /\ \A v \in 0 .. m - 1 : g[v] = f[v]
    <3>1. \A v \in 0 .. m - 1 : v \in 0 .. m /\ v # m
      BY <2>5
    <3>2. m \in 0 .. m
      BY <2>5
    <3> QED BY <2>9, <2>10, <3>1, <3>2
  <2>12. g[0] = a
    <3>1. 0 \in 0 .. m - 1
      BY <2>5
    <3> QED BY <2>6, <2>11, <3>1
  <2>13. ASSUME NEW v \in 1 .. m
         PROVE  g[v] = step[<<v, g[v - 1]>>]
    <3>1. v - 1 \in 0 .. m - 1 /\ (v = m \/ (v \in 1 .. m - 1 /\ v \in 0 .. m - 1))
      BY <2>5
    <3>2. CASE v = m
      BY <2>8, <2>11, <3>1, <3>2
    <3>3. CASE v \in 1 .. m - 1 /\ v \in 0 .. m - 1
      BY <2>6, <2>11, <3>1, <3>3
    <3> QED BY <3>1, <3>2, <3>3
  <2>14. ok(m, g)
    BY <2>12, <2>13
  <2> HIDE DEF ok
  <2> QED BY <2>3, <2>11, <2>14
<1>2. n \in 0 .. n
  OBVIOUS
<1>3. n \notin bad
  <2> HIDE DEF bad
  <2> QED BY <1>1
<1> HIDE DEF ok
<1>4. PICK f \in [0 .. n -> S] : ok(n, f)
  BY <1>2, <1>3
<1> QED BY <1>4 DEF ok, Iterates

OnList(list, x) == \E i \in 1 .. Len(list) : list[i] = x
Once(list) == \A i, j \in 1 .. Len(list) : list[i] = list[j] => i = j

\* A page put at the front of a list without repetitions.
LEMMA PrependPage ==
  ASSUME NEW S, NEW list \in Seq(S), NEW item \in S, Once(list), ~OnList(list, item)
  PROVE  /\ Prepend(list, item) \in Seq(S) /\ Once(Prepend(list, item))
         /\ \A x : OnList(Prepend(list, item), x) <=> x = item \/ OnList(list, x)
<1>0. /\ \A i, j \in 1 .. Len(list) : list[i] = list[j] => i = j
      /\ \A i \in 1 .. Len(list) : list[i] # item
  BY DEF Once, OnList
<1>1. PICK n \in Nat : n = Len(list)
  OBVIOUS
<1>2. PICK new : new = Prepend(list, item)
  OBVIOUS
<1>3. <<item>> \in Seq(S) /\ Len(<<item>>) = 1 /\ <<item>>[1] = item
  OBVIOUS
<1>4. /\ new \in Seq(S) /\ Len(new) = n + 1 /\ new[1] = item
      /\ \A i \in 2 .. n + 1 : new[i] = list[i - 1]
  BY <1>1, <1>2, <1>3, ConcatProperties DEF Prepend
<1>5. \A i \in 1 .. n + 1 : i = 1 \/ (i \in 2 .. n + 1 /\ i - 1 \in 1 .. n)
  BY <1>1
<1>6. \A i, j \in 1 .. n + 1 : new[i] = new[j] => i = j
  BY <1>0, <1>1, <1>4, <1>5
<1>7. \A i \in 1 .. n : i + 1 \in 1 .. n + 1 /\ i + 1 \in 2 .. n + 1 /\ (i + 1) - 1 = i
  BY <1>1
<1>8. \A x : (\E i \in 1 .. n + 1 : new[i] = x) <=> x = item \/ \E i \in 1 .. n : list[i] = x
  <2>1. ASSUME NEW x, NEW i \in 1 .. n + 1, new[i] = x
        PROVE  x = item \/ \E j \in 1 .. n : list[j] = x
    BY <1>4, <1>5, <2>1
  <2>2. ASSUME NEW i \in 1 .. n
        PROVE  new[i + 1] = list[i]
    BY <1>4, <1>7
  <2>3. 1 \in 1 .. n + 1
    BY <1>1
  <2> QED BY <1>4, <1>7, <2>1, <2>2, <2>3
<1> QED BY <1>1, <1>2, <1>4, <1>6, <1>8 DEF Once, OnList

\* The list of free pages after the pages of p have been returned to it, one by one.
LEMMA FreedListPages ==
  ASSUME MemInv, NEW p \in Procs
  PROVE  /\ FreedList(p) \in Seq(PhysPages) /\ Once(FreedList(p))
         /\ \A pp \in PhysPages : OnList(FreedList(p), pp) <=> tpr[pp].free \/ pp \in FreedPages(p)
<1>1. MemoryType /\ FreeInv /\ MapInv /\ AreaInv
  BY DEF MemInv
<1>2. PICK N \in Nat : N = MaxVirtPages
  BY Constants
<1>3. PICK top \in 0 .. N : top = freePageId[p]
  BY <1>1, <1>2 DEF MemoryType
<1>4. PICK valid : valid = ValidPages(p)
  OBVIOUS
<1>5. \A v : v \in valid <=> v \in 0 .. top - 1 /\ table[p][v].valid
  BY <1>3, <1>4 DEF ValidPages
<1>6. \A v \in 0 .. top - 1 : v \in VirtPages /\ v < top
  BY <1>2, <1>3, Constants DEF VirtPages
<1>7. PICK phys : phys = [v \in VirtPages |-> table[p][v].phys]
  OBVIOUS
<1>8. /\ \A v \in valid : v \in VirtPages /\ phys[v] = table[p][v].phys
      /\ \A v \in valid : phys[v] \in PhysPages /\ ~tpr[phys[v]].free
      /\ \A v, w \in valid : phys[v] = phys[w] => v = w
  <2>1. \A v \in valid : /\ v \in VirtPages /\ phys[v] = table[p][v].phys /\ table[p][v].read
    BY <1>1, <1>5, <1>6, <1>7 DEF MapInv
  <2>2. \A v \in valid : /\ phys[v] \in PhysPages /\ ~tpr[phys[v]].free
                         /\ tpr[phys[v]].virtualPage = v
    BY <1>1, <2>1 DEF MapInv
  <2> QED BY <2>1, <2>2
<1>9. PICK a \in Seq(PhysPages) : a = free_page_list
  BY <1>1 DEF MemoryType
<1> DEFINE F(f) == [v \in 0 .. N |->
                      IF v = 0 THEN a
                      ELSE IF v - 1 \in valid THEN Prepend(f[v - 1], phys[v - 1]) ELSE f[v - 1]]
<1>10. \E f : f = F(f)
  <2>1. PICK step : step = [x \in (1 .. N) \X Seq(PhysPages) |->
                      IF x[1] - 1 \in valid THEN Prepend(x[2], phys[x[1] - 1]) ELSE x[2]]
    OBVIOUS
  <2>2. \A list \in Seq(PhysPages), pp \in PhysPages : Prepend(list, pp) \in Seq(PhysPages)
    BY DEF Prepend
  <2>3. step \in [(1 .. N) \X Seq(PhysPages) -> Seq(PhysPages)]
    BY <1>8, <2>1, <2>2
  <2>4. PICK f \in [0 .. N -> Seq(PhysPages)] :
          f[0] = a /\ \A v \in 1 .. N : f[v] = step[<<v, f[v - 1]>>]
    <3>1. PICK lists : lists = Seq(PhysPages)
      OBVIOUS
    <3>2. a \in lists /\ StepsOn(step, N, lists)
      BY <2>3, <3>1 DEF StepsOn
    <3>3. PICK f : Iterates(f, N, lists, a, step)
      BY <3>2, Iterated
    <3> QED BY <3>1, <3>3 DEF Iterates
  <2>5. ASSUME NEW v \in 0 .. N, v # 0
        PROVE  f[v] = IF v - 1 \in valid THEN Prepend(f[v - 1], phys[v - 1]) ELSE f[v - 1]
    <3>1. v \in 1 .. N /\ v - 1 \in 0 .. N
      BY <2>5
    <3>2. <<v, f[v - 1]>> \in (1 .. N) \X Seq(PhysPages)
      BY <3>1
    <3> QED BY <2>1, <2>4, <3>1, <3>2
  <2>6. \A v \in 0 .. N : f[v] = IF v = 0 THEN a
                        ELSE IF v - 1 \in valid THEN Prepend(f[v - 1], phys[v - 1]) ELSE f[v - 1]
    BY <2>4, <2>5
  <2> QED BY <2>6
<1>11. PICK h : h = CHOOSE f : f = F(f)
  OBVIOUS
<1>12. h = F(h)
  BY <1>10, <1>11
<1>13. FreedList(p) = h[top]
  <2> DEFINE G(f) == [v \in 0 .. MaxVirtPages |->
                        IF v = 0 THEN free_page_list
                        ELSE IF v - 1 \in ValidPages(p) THEN Prepend(f[v - 1], table[p][v - 1].phys)
                        ELSE f[v - 1]]
  <2>1. \A f : G(f) = F(f)
    <3>1. ASSUME NEW f, NEW v \in 0 .. N
          PROVE  (IF v = 0 THEN free_page_list
                  ELSE IF v - 1 \in ValidPages(p) THEN Prepend(f[v - 1], table[p][v - 1].phys)
                  ELSE f[v - 1]) =
                 (IF v = 0 THEN a
                  ELSE IF v - 1 \in valid THEN Prepend(f[v - 1], phys[v - 1]) ELSE f[v - 1])
      BY <1>4, <1>8, <1>9
    <3> QED BY <1>2, <3>1
  <2>2. FreedList(p) = (CHOOSE f : f = G(f))[top]
    BY <1>3 DEF FreedList
  <2> HIDE DEF F, G
  <2>3. (CHOOSE f : f = G(f)) = (CHOOSE f : f = F(f))
    BY <2>1
  <2> QED BY <1>11, <2>2, <2>3
<1>14. /\ h[0] = a
       /\ \A v \in 0 .. N : v # 0 =>
            h[v] = IF v - 1 \in valid THEN Prepend(h[v - 1], phys[v - 1]) ELSE h[v - 1]
  <2>1. \A v \in 0 .. N : h[v] = F(h)[v]
    BY <1>12
  <2>2. 0 \in 0 .. N
    OBVIOUS
  <2> QED BY <2>1, <2>2
<1> HIDE DEF F
<1> DEFINE below(v, pp) == \E w \in valid : w < v /\ phys[w] = pp
           good(v) == /\ h[v] \in Seq(PhysPages) /\ Once(h[v])
                      /\ \A pp \in PhysPages : OnList(h[v], pp) <=> tpr[pp].free \/ below(v, pp)
           bad == {v \in 0 .. N : ~good(v)}
<1>15. good(0)
  <2>1. Once(a) /\ \A pp \in PhysPages : OnList(a, pp) <=> tpr[pp].free
    BY <1>1, <1>9 DEF FreeInv, Once, OnList
  <2>2. \A pp : ~below(0, pp)
    BY <1>5
  <2> HIDE DEF below
  <2> QED BY <1>14, <2>1, <2>2
<1>16. ASSUME NEW v \in 0 .. N, v # 0, good(v - 1)
       PROVE  good(v)
  <2>1. v - 1 \in 0 .. N /\ \A w \in valid : w < v <=> w < v - 1 \/ w = v - 1
    BY <1>5, <1>16
  <2>2. CASE v - 1 \in valid
    <3>1. h[v] = Prepend(h[v - 1], phys[v - 1])
      BY <1>14, <1>16, <2>2
    <3>2. PICK item \in PhysPages : item = phys[v - 1] /\ ~tpr[item].free
      BY <1>8, <2>2
    <3>3. ~below(v - 1, item)
      <4>1. \A w \in valid : phys[w] = item => w = v - 1
        BY <1>8, <2>2, <3>2
      <4>2. ~(v - 1 < v - 1)
        BY <1>16
      <4> QED BY <4>1, <4>2
    <3>4. ~OnList(h[v - 1], item)
      <4> HIDE DEF below
      <4> QED BY <1>16, <3>2, <3>3
    <3>5. h[v - 1] \in Seq(PhysPages) /\ Once(h[v - 1])
      BY <1>16
    <3>6. /\ h[v] \in Seq(PhysPages) /\ Once(h[v])
          /\ \A x : OnList(h[v], x) <=> x = item \/ OnList(h[v - 1], x)
      BY <3>1, <3>2, <3>4, <3>5, PrependPage
    <3>7. \A pp : below(v, pp) <=> below(v - 1, pp) \/ pp = item
      BY <2>1, <2>2, <3>2
    <3> HIDE DEF below
    <3> QED BY <1>16, <3>6, <3>7
  <2>3. CASE v - 1 \notin valid
    <3>1. h[v] = h[v - 1]
      BY <1>14, <1>16, <2>3
    <3>2. \A pp : below(v, pp) <=> below(v - 1, pp)
      BY <2>1, <2>3
    <3> HIDE DEF below
    <3> QED BY <1>16, <3>1, <3>2
  <2> QED BY <2>2, <2>3
<1> HIDE DEF good
<1>17. ASSUME bad # {}
       PROVE  FALSE
  <2>1. bad \in SUBSET Nat
    OBVIOUS
  <2> HIDE DEF bad
  <2>2. PICK m \in bad : \A k \in bad : m <= k
    BY <1>17, <2>1, LeastNatural
  <2>3. m \in 0 .. N /\ ~good(m)
    BY <2>2 DEF bad
  <2>4. m # 0
    BY <1>15, <2>3
  <2>5. m - 1 \in 0 .. N /\ ~(m <= m - 1)
    BY <2>3, <2>4
  <2>6. good(m - 1)
    BY <2>2, <2>5 DEF bad
  <2> QED BY <1>16, <2>3, <2>4, <2>6
<1>18. good(top)
  <2>1. bad = {}
    <3> HIDE DEF bad
    <3> QED BY <1>17
  <2> QED BY <1>3, <2>1
<1>19. \A pp \in PhysPages : below(top, pp) <=> pp \in FreedPages(p)
  <2>1. \A w \in valid : w < top /\ phys[w] = table[p][w].phys
    BY <1>5, <1>6, <1>8
  <2> QED BY <1>4, <2>1 DEF FreedPages
<1> HIDE DEF below
<1> QED BY <1>13, <1>18, <1>19 DEF good

\* The last thread of p is deleted, and the process with it.
LEMMA DeleteProcessMemory ==
  ASSUME ThreadType, ThreadsInv, ProcType, ProcsInv, MemInv,
         NEW t \in Threads, Resumed(t), NEW g \in Threads, g_thread_to_be_destroyed = g,
         NEW p \in Procs, proc[p] = "live", numThreads' = [numThreads EXCEPT ![p] = @ - 1],
         numThreads[p] - 1 = 0, DeleteProcess(p)
  PROVE  MemInv'
<1>1. /\ thread'[t].pc = thread[t].pc /\ thread'[t].child = thread[t].child
      /\ thread'[t].file = thread[t].file /\ thread'[t].next = thread[t].next
      /\ thread'[g] = NoThread /\ status = "run"
      /\ \A x \in Threads : x # t /\ x # g => thread'[x] = thread[x]
  BY ResumedEffect
<1>2. thread[g].pc = "user" /\ thread'[g].pc = "user"
  BY <1>1, NoThreadType DEF ThreadsInv
<1>3. \A x \in Threads : x # g => SameLoad(x)
  BY <1>1 DEF SameLoad
<1>4. \A x \in Threads : thread[x].child # p
  BY DEF ProcsInv
<1>5. MemoryType /\ FreeInv /\ MapInv /\ AreaInv /\ LoadInv /\ OwnContents /\ StackGuarded /\ NoAssert
  BY DEF MemInv
<1>6. \A v \in VirtPages : table[p][v].read =>
        /\ table[p][v].valid /\ v < freePageId[p] /\ table[p][v].phys \in PhysPages
        /\ ~tpr[table[p][v].phys].free
  <2>1. ASSUME NEW v \in VirtPages, table[p][v].read, ~table[p][v].valid PROVE FALSE
    BY <1>4, <1>5, <2>1 DEF LoadInv
  <2>2. \A v \in VirtPages : table[p][v].valid \in BOOLEAN
    BY <1>5 DEF MemoryType, Tables, Entries
  <2> QED BY <1>5, <2>1, <2>2 DEF AreaInv, MapInv
<1>7. \A v \in ValidPages(p) : v \in VirtPages /\ table[p][v].read
  <2>1. freePageId[p] \in 0 .. MaxVirtPages
    BY <1>5 DEF MemoryType
  <2>2. \A v \in 0 .. freePageId[p] - 1 : v \in Nat /\ v < MaxVirtPages
    BY <2>1, Constants
  <2>3. \A v \in ValidPages(p) : v \in VirtPages /\ table[p][v].valid
    BY <2>2, Constants DEF ValidPages
  <2> QED BY <1>5, <2>3 DEF MapInv
<1>8. \A v \in VirtPages : table[p][v].read => v \in ValidPages(p)
  <2>1. freePageId[p] \in Nat
    BY <1>5, Constants DEF MemoryType
  <2>2. \A v \in Nat : v < freePageId[p] => v \in 0 .. freePageId[p] - 1
    BY <2>1
  <2> QED BY <1>6, <2>2, Constants DEF ValidPages
<1>9. PICK freed : freed = FreedPages(p)
  OBVIOUS
<1>10. \A pp \in freed : pp \in PhysPages /\ ~tpr[pp].free
  BY <1>6, <1>7, <1>9 DEF FreedPages
<1>11. \A pp \in PhysPages : ~tpr[pp].free => (pp \in freed <=> tpr[pp].owner = p)
  <2>1. ASSUME NEW pp \in PhysPages, ~tpr[pp].free, tpr[pp].owner = p
        PROVE  pp \in freed
    <3>1. PICK v \in VirtPages : table[p][v].phys = pp /\ table[p][v].read
      BY <1>5, <2>1 DEF MapInv
    <3> QED BY <1>8, <1>9, <3>1 DEF FreedPages
  <2>2. ASSUME NEW pp \in freed
        PROVE  tpr[pp].owner = p
    <3>1. PICK v \in ValidPages(p) : pp = table[p][v].phys
      BY <1>9, <2>2 DEF FreedPages
    <3> QED BY <1>5, <1>7, <3>1 DEF MapInv
  <2> QED BY <2>1, <2>2
<1>12. /\ status' = status
       /\ proc' = [proc EXCEPT ![p] = "none"] /\ exec_file' = [exec_file EXCEPT ![p] = None]
  <2>1. numThreads'[p] = 0
    BY DEF ProcType
  <2> QED BY <1>9, <1>10, <2>1 DEF DeleteProcess, ASSERT
<1>13. /\ proc'[p] = "none" /\ exec_file' \in [Procs -> Files \cup {None}]
       /\ \A q \in Procs : q # p => proc'[q] = proc[q] /\ exec_file'[q] = exec_file[q]
  BY <1>5, <1>12 DEF ProcType, MemoryType
<1>14. /\ free_page_list' = FreedList(p)
       /\ tpr' = [pp \in PhysPages |->
                    IF pp \in freed
                    THEN [tpr[pp] EXCEPT !.free = TRUE, !.locked = FALSE] ELSE tpr[pp]]
       /\ table' = [table EXCEPT ![p] = TranslationTable]
       /\ freePageId' = [freePageId EXCEPT ![p] = 0]
       /\ content' = [pp \in PhysPages |->
                        IF p \in content[pp] THEN (content[pp] \ {p}) \cup {Old} ELSE content[pp]]
       /\ stacks' = {s \in stacks : s[1] # p}
  BY <1>9 DEF DeleteProcess, DeleteAddrSpace
<1>15. /\ tpr' \in [PhysPages -> PageRecords]
       /\ \A pp \in PhysPages : pp \in freed => tpr'[pp].free
       /\ \A pp \in PhysPages : pp \notin freed => tpr'[pp] = tpr[pp]
  <2>1. ASSUME NEW pp \in PhysPages, NEW r, r = [tpr[pp] EXCEPT !.free = TRUE, !.locked = FALSE]
        PROVE  r \in PageRecords /\ r.free
    <3>1. tpr[pp] \in PageRecords
      BY <1>5 DEF MemoryType
    <3> QED BY <2>1, <3>1 DEF PageRecords
  <2>2. \A pp \in PhysPages : tpr[pp] \in PageRecords
    BY <1>5 DEF MemoryType
  <2> QED BY <1>14, <2>1, <2>2
<1>16. /\ NoEntry \in Entries /\ ~NoEntry.valid /\ ~NoEntry.read /\ ~NoEntry.write
  BY DEF NoEntry, PageTableEntry, Entries
<1>17. /\ table' \in [Procs -> Tables]
       /\ \A v \in VirtPages : /\ ~table'[p][v].read /\ ~table'[p][v].valid /\ ~table'[p][v].write
       /\ \A q \in Procs : q # p => table'[q] = table[q]
  <2>1. TranslationTable \in Tables
    BY <1>16 DEF TranslationTable, Tables
  <2>2. table' \in [Procs -> Tables] /\ table'[p] = TranslationTable
    BY <1>5, <1>14, <2>1 DEF MemoryType
  <2>3. \A v \in VirtPages : TranslationTable[v] = NoEntry
    BY DEF TranslationTable
  <2>4. \A q \in Procs : q # p => table'[q] = table[q]
    BY <1>5, <1>14 DEF MemoryType
  <2> QED BY <1>16, <2>2, <2>3, <2>4
<1>18. /\ freePageId' \in [Procs -> 0 .. MaxVirtPages] /\ freePageId'[p] = 0
       /\ \A q \in Procs : q # p => freePageId'[q] = freePageId[q]
  <2>1. 0 \in 0 .. MaxVirtPages
    BY Constants
  <2> QED BY <1>5, <1>14, <2>1 DEF MemoryType
<1>19. MemoryType'
  <2>1. free_page_list' \in Seq(PhysPages)
    BY <1>14, FreedListPages
  <2>2. content' \in [PhysPages -> SUBSET (Procs \cup {Old})]
    BY <1>5, <1>14 DEF MemoryType
  <2>3. stacks' \subseteq Procs \X VirtPages
    BY <1>5, <1>14 DEF MemoryType
  <2>4. status' \in {"run", "halted", "exited", "full", "unaligned", "assert"}
    BY <1>5, <1>12 DEF MemoryType
  <2> QED BY <1>13, <1>15, <1>17, <1>18, <2>1, <2>2, <2>3, <2>4 DEF MemoryType
<1>20. FreeInv'
  <2>1. PICK list : list = free_page_list' /\ list = FreedList(p)
    BY <1>14
  <2>2. Once(list) /\ \A pp \in PhysPages : OnList(list, pp) <=> tpr[pp].free \/ pp \in freed
    BY <1>9, <2>1, FreedListPages
  <2>3. \A pp \in PhysPages : tpr'[pp].free <=> tpr[pp].free \/ pp \in freed
    BY <1>10, <1>15
  <2> QED BY <2>1, <2>2, <2>3 DEF FreeInv, Once, OnList
<1>21. MapInv'
  <2>1. ASSUME NEW qq \in PhysPages, ~tpr'[qq].free
        PROVE  /\ tpr'[qq].owner \in Procs /\ tpr'[qq].virtualPage \in VirtPages
               /\ table'[tpr'[qq].owner][tpr'[qq].virtualPage].phys = qq
               /\ table'[tpr'[qq].owner][tpr'[qq].virtualPage].read
    <3>1. tpr'[qq] = tpr[qq] /\ ~tpr[qq].free /\ qq \notin freed
      BY <1>15, <2>1
    <3>2. PICK q \in Procs, w \in VirtPages :
            tpr[qq].owner = q /\ tpr[qq].virtualPage = w /\ table[q][w].phys = qq /\ table[q][w].read
      BY <1>5, <3>1 DEF MapInv
    <3>3. table'[q] = table[q]
      BY <1>11, <1>17, <3>1, <3>2
    <3> QED BY <3>1, <3>2, <3>3
  <2>2. ASSUME NEW q \in Procs, NEW w \in VirtPages, table'[q][w].read
        PROVE  /\ table'[q][w].phys \in PhysPages
               /\ ~tpr'[table'[q][w].phys].free
               /\ tpr'[table'[q][w].phys].owner = q /\ tpr'[table'[q][w].phys].virtualPage = w
    <3>1. q # p /\ table'[q] = table[q]
      BY <1>17, <2>2
    <3>2. PICK qq \in PhysPages :
            table[q][w].phys = qq /\ ~tpr[qq].free /\ tpr[qq].owner = q /\ tpr[qq].virtualPage = w
      BY <1>5, <2>2, <3>1 DEF MapInv
    <3>3. tpr'[qq] = tpr[qq]
      BY <1>11, <1>15, <3>1, <3>2
    <3> QED BY <3>1, <3>2, <3>3
  <2>3. \A q \in Procs, w \in VirtPages : table'[q][w].valid \/ table'[q][w].write => table'[q][w].read
    <3>1. \A q \in Procs, w \in VirtPages : table[q][w].valid \/ table[q][w].write => table[q][w].read
      BY <1>5 DEF MapInv
    <3> QED BY <1>17, <3>1
  <2> QED BY <2>1, <2>2, <2>3 DEF MapInv
<1>22. AreaInv'
  <2>1. \A q \in Procs, v \in VirtPages : table'[q][v].read => v < freePageId'[q]
    BY <1>5, <1>17, <1>18 DEF AreaInv
  <2>2. \A q \in Procs : proc'[q] \in {"none", "leaked"} => freePageId'[q] = 0
    BY <1>5, <1>13, <1>18 DEF AreaInv
  <2>3. ASSUME NEW s \in stacks'
        PROVE  s[2] + StackPages <= freePageId'[s[1]] /\ proc'[s[1]] = "live"
    <3>1. s \in stacks /\ s[1] \in Procs /\ s[1] # p
      BY <1>5, <1>14, <2>3 DEF MemoryType
    <3> QED BY <1>5, <1>13, <1>18, <3>1 DEF AreaInv
  <2> QED BY <2>1, <2>2, <2>3 DEF AreaInv
<1>23. OwnContents'
  <2>1. ASSUME NEW q \in Procs, NEW w \in VirtPages, table'[q][w].valid
        PROVE  \/ content'[table'[q][w].phys] \subseteq {q}
               \/ \E i \in 1 .. Len(Sections[exec_file'[q]]) :
                    Sections[exec_file'[q]][i].vpage = w /\ Sections[exec_file'[q]][i].short
    <3>1. q # p /\ table'[q] = table[q] /\ exec_file'[q] = exec_file[q]
      BY <1>13, <1>17, <2>1
    <3>2. PICK qq \in PhysPages : table[q][w].phys = qq
      BY <1>5, <2>1, <3>1 DEF MapInv
    <3>3. content[qq] \subseteq {q} => content'[qq] = content[qq]
      BY <1>14, <3>1
    <3>4. \/ content[qq] \subseteq {q}
          \/ \E i \in 1 .. Len(Sections[exec_file[q]]) :
               Sections[exec_file[q]][i].vpage = w /\ Sections[exec_file[q]][i].short
      BY <1>5, <2>1, <3>1, <3>2 DEF OwnContents
    <3> QED BY <3>1, <3>2, <3>3, <3>4
  <2> QED BY <2>1 DEF OwnContents
<1>24. StackGuarded'
  <2>1. \A s \in stacks' : s \in stacks /\ table'[s[1]] = table[s[1]]
    BY <1>5, <1>14, <1>17 DEF MemoryType
  <2> QED BY <1>5, <2>1 DEF StackGuarded, Fits
<1>25. NoAssert'
  BY <1>5, <1>12 DEF NoAssert
<1>26. /\ \A x \in Threads : x # g => LoaderOK(x)'
       /\ \A q \in Procs, v \in VirtPages : q # p => PageLoads(q, v)'
  <2>1. \A q \in Procs : q # p => /\ table'[q] = table[q] /\ freePageId'[q] = freePageId[q]
                                  /\ exec_file'[q] = exec_file[q]
    BY <1>13, <1>17, <1>18
  <2> QED BY <1>1, <1>2, <1>3, <1>4, <1>5, <2>1, OtherLoads
<1>27. LoaderOK(g)'
  BY <1>2 DEF LoaderOK, Stages
<1>28. \A v \in VirtPages : PageLoads(p, v)'
  BY <1>17 DEF PageLoads
<1>29. LoadInv'
  BY <1>26, <1>27, <1>28, LoadParts
<1> QED BY <1>19, <1>20, <1>21, <1>22, <1>23, <1>24, <1>25, <1>29 DEF MemInv

-----------------------------------------------------------------------------
(* Memory: every step *)

\* A step of one thread that changes nothing for the loader.
LEMMA LocalMemory ==
  ASSUME ThreadType, MemInv, NEW t \in Threads, NEW r, Local(t, r),
         Paused(t, r) \/ (thread[t].pc \in {"start", "user", "join"} /\ r.pc \in {"user", "join"}),
         UNCHANGED <<memory, objects, status>>
  PROVE  MemInv'
<1>1. thread'[t] = r /\ \A x \in Threads : x # t => thread'[x] = thread[x]
  BY DEF Local, ThreadType
<1>2. ASSUME NEW x \in Threads, thread'[x].pc \in Stages \/ thread[x].pc = "reading"
      PROVE  SameLoad(x)
  <2>1. CASE x = t
    BY <1>1, <1>2, <2>1 DEF Paused, SameLoad, Stages
  <2>2. CASE x # t
    BY <1>1, <2>2 DEF SameLoad
  <2> QED BY <2>1, <2>2
<1>3. UNCHANGED <<stacks, exec_file, proc>>
  BY DEF objects
<1> QED BY <1>2, <1>3, MemoryKept

\* A switch, with or without the end of a process.
LEMMA ResumedMemory ==
  ASSUME ThreadType, ThreadsInv, ProcType, ProcsInv, MemInv, NEW t \in Threads, Resumed(t)
  PROVE  MemInv'
<1>1. CASE UNCHANGED <<memory, proc, exec_file, stacks, status>>
  <2>1. ASSUME NEW x \in Threads, thread'[x].pc \in Stages \/ thread[x].pc = "reading"
        PROVE  SameLoad(x)
    <3>1. CASE x = g_thread_to_be_destroyed
      <4>1. thread'[x].pc = "user" /\ thread[x].pc = "user"
        BY <3>1, ResumedEffect, NoThreadType DEF ThreadsInv
      <4> QED BY <2>1, <4>1 DEF Stages
    <3>2. CASE x = t
      BY <3>2, ResumedEffect DEF SameLoad
    <3>3. CASE x # t /\ x # g_thread_to_be_destroyed
      BY <3>3, ResumedEffect DEF SameLoad
    <3> QED BY <3>1, <3>2, <3>3
  <2> QED BY <1>1, <2>1, MemoryKept
<1>2. ASSUME NEW g \in Threads, NEW p \in Procs, g_thread_to_be_destroyed = g, proc[p] = "live",
             numThreads' = [numThreads EXCEPT ![p] = @ - 1], numThreads[p] - 1 = 0, DeleteProcess(p)
      PROVE  MemInv'
  BY <1>2, DeleteProcessMemory
<1> QED BY <1>1, <1>2, ResumedProcs

\* Each kind of step keeps the memory as the invariant says.
LEMMA StepMemory ==
  ASSUME ThreadType, ThreadsInv, ProcType, ProcsInv, MemInv, [Next]_vars
  PROVE  MemInv'
<1>1. ASSUME NEW t \in Threads, DiskDone(t) \/ Yield(t) \/ JoinYield(t)
      PROVE  MemInv'
  <2>1. PICK r : Local(t, r) /\ Paused(t, r) /\ UNCHANGED <<memory, objects, status>>
    BY <1>1, DiskDoneEffect, YieldEffect
  <2> QED BY <2>1, LocalMemory
<1>2. ASSUME NEW t \in Threads, NEW id \in FirstId .. FirstId + MaxIds, JoinCall(t, id)
      PROVE  MemInv'
  <2>1. PICK r : Local(t, r) /\ r.pc = "join"
    BY <1>2, JoinCallEffect
  <2>2. thread[t].pc = "user" /\ UNCHANGED <<memory, objects, status>>
    BY <1>2, JoinCallEffect
  <2> QED BY <2>1, <2>2, LocalMemory
<1>3. ASSUME NEW t \in Threads, JoinReturn(t)
      PROVE  MemInv'
  <2>1. PICK r : Local(t, r) /\ r.pc = "user"
    BY <1>3, JoinReturnEffect
  <2>2. thread[t].pc = "join" /\ UNCHANGED <<memory, objects, status>>
    BY <1>3, JoinReturnEffect
  <2> QED BY <2>1, <2>2, LocalMemory
<1>4. ASSUME NEW t \in Threads, Exit(t) \/ MainEnd(t)
      PROVE  MemInv'
  <2>1. /\ thread[t].pc = "user" /\ thread'[t].pc = "user"
        /\ \A x \in Threads : x # t => thread'[x] = thread[x]
        /\ UNCHANGED <<memory, objects, status>>
    BY <1>4, FinishEffect
  <2>2. \A x \in Threads : thread'[x].pc \in Stages \/ thread[x].pc = "reading" => SameLoad(x)
    BY <2>1 DEF SameLoad, Stages
  <2>3. UNCHANGED <<stacks, exec_file, proc>>
    BY <2>1 DEF objects
  <2> QED BY <2>1, <2>2, <2>3, MemoryKept
<1>5. ASSUME NEW t \in Threads, NEW f \in Files, NEW p \in Procs \ {Boot}, ExecMissing(t, f, p)
      PROVE  MemInv'
  <2>1. /\ Still /\ proc[p] = "none" /\ UNCHANGED <<memory, exec_file, stacks>>
        /\ \/ status' = "exited" /\ proc' = proc
           \/ status' = status /\ proc' = [proc EXCEPT ![p] = "leaked"]
    BY <1>5, ExecMissingEffect
  <2>2. \A x \in Threads : SameLoad(x)
    BY <2>1 DEF Still, SameLoad
  <2>3. /\ \A q \in Procs : proc'[q] \in {"none", "leaked"} => proc[q] \in {"none", "leaked"}
        /\ \A q \in Procs : proc[q] = "live" => proc'[q] = "live"
    BY <2>1 DEF ProcType
  <2> QED BY <2>1, <2>2, <2>3, MemoryKept
<1>6. ASSUME Still, UNCHANGED <<memory, proc, exec_file, stacks>>,
             status' = status \/ (status = "run" /\ status' \in {"halted", "exited", "unaligned"})
      PROVE  MemInv'
  <2>1. \A x \in Threads : SameLoad(x)
    BY <1>6 DEF Still, SameLoad
  <2> QED BY <1>6, <2>1, MemoryKept
<1>7. ASSUME NEW t \in Threads, NEW v \in 0 .. MaxVirtPages, NEW w \in 0 .. MaxVirtPages + 1,
             Stores(t, <<v>>) \/ Stores(t, <<v, w>>)
      PROVE  MemInv'
  <2>1. v \in 0 .. MaxVirtPages + 1
    BY Constants
  <2>2. <<v>> \in Seq(0 .. MaxVirtPages + 1) /\ <<v, w>> \in Seq(0 .. MaxVirtPages + 1)
    BY <2>1
  <2> QED BY <1>7, <2>2, StoresMemory
<1>8. ASSUME NEW t \in Threads, NEW u \in Threads, ExecEnd(t, u) \/ NewThread(t, u)
      PROVE  MemInv'
  BY <1>8, StartEffect, StartedMemory
<1>9. ASSUME NEW t \in Threads, FirstRun(t)
      PROVE  MemInv'
  <2>1. PICK r : Local(t, r) /\ r.pc = "user"
    BY <1>9, FirstRunEffect
  <2>2. thread[t].pc = "start" /\ UNCHANGED <<memory, objects, status>>
    BY <1>9, FirstRunEffect
  <2> QED BY <2>1, <2>2, LocalMemory
<1> QED BY <1>1, <1>2, <1>3, <1>4, <1>5, <1>6, <1>7, <1>8, <1>9, ExecCallMemory, HeaderReadMemory,
           LoadPageMemory, PageReadMemory, ResumedMemory, Kinds

-----------------------------------------------------------------------------
(* The invariant *)

\* At the start there is the main thread and every page is free.
LEMMA InitControl ==
  ASSUME Init
  PROVE  ThreadType /\ ThreadsInv /\ ProcType /\ ProcsInv /\ NumbersInv /\ JoinInv
<1>1. PICK r : r = [NoThread EXCEPT !.state = "running", !.proc = Boot]
  OBVIOUS
<1>2. /\ r \in ThreadRecords /\ r.state = "running" /\ r.proc = Boot /\ r.pc = "user" /\ r.child = None
  BY <1>1, Constants, NoThreadType DEF ThreadRecords, NoThread
<1>3. /\ thread \in [Threads -> ThreadRecords] /\ thread[Main] = r
      /\ \A t \in Threads : t # Main => thread[t] = NoThread
  BY <1>1, <1>2, Constants, NoThreadType DEF Init
<1>4. /\ running = Main /\ g_thread_to_be_destroyed = None /\ ids = <<>> /\ finished = {}
      /\ numThreads = [p \in Procs |-> IF p = Boot THEN 1 ELSE 0]
      /\ proc = [p \in Procs |-> IF p = Boot THEN "live" ELSE "none"]
  BY DEF Init
<1>5. ids \in Seq(Threads) /\ Len(ids) = 0
  BY <1>4
<1>6. ThreadType
  BY <1>3, <1>4, <1>5, Constants DEF ThreadType
<1>7. ThreadsInv
  BY <1>2, <1>3, <1>4, Constants, NoThreadType DEF ThreadsInv, Stages
<1>8. /\ Within(Boot) = {Main} /\ \A p \in Procs : p # Boot => Within(p) = {}
  BY <1>2, <1>3, Constants, NoThreadType DEF Within
<1>9. Cardinality({Main}) = 1 /\ Cardinality({}) = 0
  BY FS_Singleton, FS_EmptySet
<1>10. \A p \in Procs : numThreads[p] = Cardinality(Within(p))
  BY <1>4, <1>8, <1>9
<1>11. ProcsInv
  <2>1. \A p \in Procs : proc[p] = "live" <=> \E t \in Threads : thread[t].proc = p
    BY <1>2, <1>3, <1>4, Constants, NoThreadType
  <2>2. \A t \in Threads : thread[t].child = None
    BY <1>2, <1>3, NoThreadType
  <2>3. \A p \in Procs : proc[p] # "loading"
    BY <1>4
  <2> QED BY <1>10, <2>1, <2>2, <2>3, Constants DEF ProcsInv, Within
<1>12. ProcType
  <2>1. \A p \in Procs : numThreads[p] \in 0 .. Cardinality(Threads)
    BY <1>10, WithinFinite
  <2> QED BY <1>4, <2>1 DEF ProcType
<1>13. NumbersInv
  <2>1. \A t \in Threads : ~(Alive(t) /\ thread[t].proc # Boot)
    BY <1>2, <1>3, NoThreadType DEF Alive
  <2>2. \A i \in 1 .. Len(ids) : FALSE
    BY <1>5
  <2> QED BY <1>4, <2>1, <2>2 DEF NumbersInv
<1>14. JoinInv
  BY <1>2, <1>3, NoThreadType DEF JoinInv
<1> QED BY <1>6, <1>7, <1>11, <1>12, <1>13, <1>14

\* The list of all pages, and empty tables.
LEMMA InitMemory ==
  ASSUME Init
  PROVE  MemInv
<1>1. PICK N \in Nat : N = NumPhysPages /\ PhysPages = 0 .. N - 1
  BY Constants DEF PhysPages
<1>2. /\ free_page_list = [i \in 1 .. N |-> i - 1]
      /\ tpr = [pp \in PhysPages |-> [free |-> TRUE, locked |-> FALSE, owner |-> None, virtualPage |-> 0]]
      /\ table = [p \in Procs |-> TranslationTable] /\ freePageId = [p \in Procs |-> 0]
      /\ exec_file = [p \in Procs |-> None] /\ content = [pp \in PhysPages |-> {}]
      /\ stacks = {} /\ status = "run"
  BY <1>1 DEF Init, PhysicalMemManager
<1>3. \A i \in 1 .. N : i - 1 \in PhysPages
  BY <1>1
<1>4. free_page_list \in Seq(PhysPages) /\ Len(free_page_list) = N
  BY <1>2, <1>3
<1>5. /\ NoEntry \in Entries /\ ~NoEntry.valid /\ ~NoEntry.read /\ ~NoEntry.write
  BY DEF NoEntry, PageTableEntry, Entries
<1>6. \A p \in Procs, v \in VirtPages : table[p][v] = NoEntry
  BY <1>2 DEF TranslationTable
<1>7. \A pp \in PhysPages : tpr[pp] \in PageRecords /\ tpr[pp].free
  BY <1>2 DEF PageRecords
<1>8. MemoryType
  <2>1. table \in [Procs -> Tables]
    BY <1>2, <1>5 DEF TranslationTable, Tables
  <2>2. freePageId \in [Procs -> 0 .. MaxVirtPages]
    <3>1. 0 \in 0 .. MaxVirtPages
      BY Constants
    <3> QED BY <1>2, <3>1
  <2>3. tpr \in [PhysPages -> PageRecords]
    BY <1>2, <1>7
  <2>4. content \in [PhysPages -> SUBSET (Procs \cup {Old})]
    BY <1>2
  <2> QED BY <1>2, <1>4, <2>1, <2>2, <2>3, <2>4 DEF MemoryType
<1>9. FreeInv
  <2>1. \A i \in 1 .. N : free_page_list[i] = i - 1
    BY <1>2
  <2>2. ASSUME NEW pp \in PhysPages
        PROVE  \E i \in 1 .. N : free_page_list[i] = pp
    <3>1. pp + 1 \in 1 .. N /\ (pp + 1) - 1 = pp
      BY <1>1
    <3> QED BY <2>1, <3>1
  <2>3. \A i, j \in 1 .. N : free_page_list[i] = free_page_list[j] => i = j
    BY <2>1
  <2> QED BY <1>4, <1>7, <2>2, <2>3 DEF FreeInv
<1>10. MapInv /\ OwnContents
  BY <1>5, <1>6, <1>7 DEF MapInv, OwnContents
<1>11. AreaInv /\ StackGuarded /\ NoAssert
  BY <1>2, <1>5, <1>6 DEF AreaInv, StackGuarded, NoAssert
<1>12. LoadInv
  <2>1. \A t \in Threads : thread[t].pc = "user"
    <3>1. PICK r : r = [NoThread EXCEPT !.state = "running", !.proc = Boot]
      OBVIOUS
    <3>2. r.pc = "user" /\ thread = [t \in Threads |-> IF t = Main THEN r ELSE NoThread]
      BY <3>1 DEF Init, NoThread
    <3> QED BY <3>2, NoThreadType
  <2> QED BY <1>5, <1>6, <2>1 DEF LoadInv, Stages
<1> QED BY <1>8, <1>9, <1>10, <1>11, <1>12 DEF MemInv

\* The invariant is that of the control and that of the memory.
LEMMA InvariantParts ==
  /\ IInv <=> /\ ThreadType /\ ThreadsInv /\ ProcType /\ ProcsInv /\ NumbersInv /\ JoinInv
              /\ MemInv
  /\ IInv' <=> /\ ThreadType' /\ ThreadsInv' /\ ProcType' /\ ProcsInv' /\ NumbersInv' /\ JoinInv'
               /\ MemInv'
<1>1. IInv <=> /\ ThreadType /\ ThreadsInv /\ ProcType /\ ProcsInv /\ NumbersInv /\ JoinInv
               /\ MemInv
  BY TypeParts DEF IInv, MemInv
<1> QED BY <1>1, PTL

\* Every state the kernel reaches satisfies the invariant.
THEOREM Invariant == Spec => []IInv
<1>1. Init => IInv
  BY InitControl, InitMemory, InvariantParts
<1>2. IInv /\ [Next]_vars => IInv'
  <2>1. SUFFICES ASSUME IInv, [Next]_vars PROVE IInv'
    OBVIOUS
  <2>2. ThreadType /\ ThreadsInv /\ ProcType /\ ProcsInv /\ NumbersInv /\ JoinInv /\ MemInv
    BY <2>1, InvariantParts
  <2>3. ThreadType' /\ ThreadsInv'
    BY <2>1, <2>2, StepThreads
  <2>4. ProcType' /\ ProcsInv'
    BY <2>1, <2>2, StepProcs
  <2>5. NumbersInv' /\ JoinInv'
    BY <2>1, <2>2, StepNumbers, StepJoin
  <2>6. MemInv'
    BY <2>1, <2>2, StepMemory
  <2> QED BY <2>3, <2>4, <2>5, <2>6, InvariantParts
<1> QED BY <1>1, <1>2, PTL DEF Spec

-----------------------------------------------------------------------------
(* The properties *)

\* The variables keep their types.
THEOREM TypeCorrect == Spec => []TypeOK
BY Invariant, PTL DEF IInv

\* No physical page is lost and none serves two virtual pages, whatever the
\* order in which loads, stacks and ends of processes interleave.
THEOREM PagesPartitionedCorrect == Spec => []PagesPartitioned
<1>1. IInv => PagesPartitioned
  <2>1. SUFFICES ASSUME IInv PROVE PagesPartitioned
    OBVIOUS
  <2>2. FreeInv /\ MapInv /\ AreaInv /\ ProcType /\ MemoryType
    BY <2>1, TypeParts DEF IInv
  <2>3. ASSUME NEW pp \in PhysPages, ~tpr[pp].free
        PROVE  /\ proc[tpr[pp].owner] \in {"loading", "live"}
               /\ tpr[pp].virtualPage < freePageId[tpr[pp].owner]
               /\ table[tpr[pp].owner][tpr[pp].virtualPage].phys = pp
               /\ table[tpr[pp].owner][tpr[pp].virtualPage].read
    <3>1. PICK p \in Procs, v \in VirtPages :
            tpr[pp].owner = p /\ tpr[pp].virtualPage = v /\ table[p][v].phys = pp /\ table[p][v].read
      BY <2>2, <2>3 DEF MapInv
    <3>2. v < freePageId[p]
      BY <2>2, <3>1 DEF AreaInv
    <3>3. ~(v < 0)
      BY Constants
    <3>4. proc[p] \in {"loading", "live"}
      BY <2>2, <3>2, <3>3 DEF AreaInv, ProcType
    <3> QED BY <3>1, <3>2, <3>4
  <2>4. ASSUME NEW p \in Procs, NEW v \in VirtPages, table[p][v].valid
        PROVE  /\ ~tpr[table[p][v].phys].free
               /\ tpr[table[p][v].phys].owner = p /\ tpr[table[p][v].phys].virtualPage = v
    BY <2>2, <2>4 DEF MapInv
  <2> QED BY <2>2, <2>3, <2>4 DEF PagesPartitioned, FreeInv
<1> QED BY <1>1, Invariant, PTL

\* A program reads its own data only, but for the page its file ends in.
THEOREM OwnContentsCorrect == Spec => []OwnContents
BY Invariant, PTL DEF IInv

\* The unmapped pages below a stack stay unmapped while other stacks and
\* programs are allocated.
THEOREM StackGuardedCorrect == Spec => []StackGuarded
BY Invariant, PTL DEF IInv

\* numThreads counts the Thread objects of a process, those that finished among
\* them; the process exists as long as one of these objects does, and a process
\* being loaded has one loader.
THEOREM ProcessesCountedCorrect == Spec => []ProcessesCounted
<1>1. IInv => ProcessesCounted
  <2>1. SUFFICES ASSUME IInv, NEW p \in Procs
                 PROVE  /\ numThreads[p] = Cardinality({t \in Threads : thread[t].proc = p})
                        /\ proc[p] = "live" <=> numThreads[p] > 0
                        /\ proc[p] = "loading" <=> (numThreads[p] = 0 /\ \E t \in Threads : thread[t].child = p)
                        /\ Cardinality({t \in Threads : thread[t].child = p}) <= 1
    BY DEF ProcessesCounted
  <2>2. ProcsInv /\ ThreadsInv /\ ProcType
    BY <2>1, TypeParts DEF IInv
  <2>3. numThreads[p] = Cardinality(Within(p)) /\ numThreads[p] \in Nat
    <3>1. numThreads[p] = Cardinality(Within(p))
      BY <2>2 DEF ProcsInv, Within
    <3>2. Cardinality(Threads) \in Nat /\ numThreads[p] \in 0 .. Cardinality(Threads)
      BY <2>2, ProcessesAssumption, FS_CardinalityType DEF ProcType
    <3> QED BY <3>1, <3>2
  <2>4. proc[p] = "live" <=> numThreads[p] > 0
    BY <2>2, <2>3, WithinFinite DEF ProcsInv
  <2>5. proc[p] = "loading" <=> (numThreads[p] = 0 /\ \E t \in Threads : thread[t].child = p)
    BY <2>2, <2>3, <2>4 DEF ProcsInv
  <2>6. Cardinality({t \in Threads : thread[t].child = p}) <= 1
    <3>1. PICK loaders : loaders = {t \in Threads : thread[t].child = p}
      OBVIOUS
    <3>2. CASE loaders = {}
      BY <3>1, <3>2, FS_EmptySet
    <3>3. CASE loaders # {}
      <4>1. PICK t \in loaders : TRUE
        BY <3>3
      <4>2. loaders = {t}
        BY <2>2, <3>1, <4>1, Constants DEF ProcsInv
      <4>3. Cardinality({t}) = 1
        BY FS_Singleton
      <4> QED BY <3>1, <4>2, <4>3
    <3> QED BY <3>2, <3>3
  <2> QED BY <2>3, <2>4, <2>5, <2>6 DEF Within
<1> QED BY <1>1, Invariant, PTL

\* Join does not return before the thread of its number has finished, also when
\* the address of that thread serves another one by then.
THEOREM JoinNotEarlyCorrect == Spec => JoinNotEarly
<1>1. IInv /\ [Next]_vars => [Returns]_vars
  BY StepJoin, InvariantParts
<1>2. Spec => [][Returns]_vars
  BY <1>1, Invariant, PTL DEF Spec
<1> QED BY <1>2 DEF JoinNotEarly, Returns

\* The assertions in ~Process, PhysicalMemManager and the loader never fail.
THEOREM AssertionsCorrect == Spec => []NoAssert
BY Invariant, PTL DEF IInv

=============================================================================
