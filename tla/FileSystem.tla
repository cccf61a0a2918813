----------------------------- MODULE FileSystem -----------------------------
(***************************************************************************)
(* The Nachos file system: directories, creation and removal of files and  *)
(* directories (filesys/filesys.cc, filesys/directory.cc), the table of    *)
(* open files (filesys/oftable.cc) and reading, writing and growing an     *)
(* open file (filesys/openfile.cc), over the headers of FileHeader.  The   *)
(* actions are the system calls Create, Open, Read, Write, Close, Remove,  *)
(* Mkdir and Rmdir of kernel/exception.cc.                                 *)
(*                                                                         *)
(* Each call is one step: the file system is written for one caller at a   *)
(* time ("there is no synchronization for concurrent accesses",            *)
(* filesys.cc:34).  A call that returns an error before it writes anything *)
(* back leaves the state as it was, so it is not a step at all.  The data  *)
(* of files is left out, what is kept is where it lies.                    *)
(***************************************************************************)
EXTENDS FileHeader

CONSTANTS
  Names,              \* file names inside a directory
  Spellings,          \* the strings user programs pass as path names
  PathOf,             \* the names each string is split into (decompname)
  Handles,            \* identifiers of OpenFile objects (ObjAddr)
  None,               \* NULL, or a name that is not in a directory
  NumDirEntries,      \* entries in a directory
  DirectoryFileSize,  \* bytes of a directory
  FreeMapFileSize,    \* bytes of the bitmap's file
  NBOFTENTRY,         \* entries in the table of open files
  MaxFileSize         \* bound on the sizes and positions user programs use

ASSUME FileSystemAssumption ==
  /\ PathOf \in [Spellings -> Seq(Names) \ {<<>>}]
  /\ {NumDirEntries, DirectoryFileSize, FreeMapFileSize, NBOFTENTRY} \subseteq Nat \ {0}
  /\ MaxFileSize \in Nat
  /\ None \notin Sectors
  /\ IsFiniteSet(Handles)
  /\ NumSectors > 2     \* the disk has the two headers and more

VARIABLES
  freeMap,  \* the marked sectors, in the file of the bitmap
  image,    \* per sector, the file header last written there, or None
  dirs,     \* per header sector of a directory, its entries
  table,    \* OpenFileTable::table
  nbentry,  \* OpenFileTable::nbentry
  files,    \* the OpenFile objects of user programs
  machine   \* "on", "assert" after a failed ASSERT, "undefined" after a use
            \* of an uninitialized sector number

diskVars == <<freeMap, image, dirs>>
tableVars == <<table, nbentry>>
vars == <<diskVars, tableVars, files, machine>>

FreeMapSector == 0
DirectorySector == 1
Slots == 0..(NBOFTENTRY - 1)
ERROR == -1

EmptyDir == [n \in Names |-> None]
EmptyTable == [i \in Slots |-> None]
NoFiles == [h \in Handles |-> None]

\* FileSystem::FileSystem(true): the two headers, then the sectors of the
\* bitmap and of the root directory.
FormatMap == {FreeMapSector, DirectorySector}
MapHeader == Allocate(FormatMap, FALSE, FreeMapFileSize)
RootHeader == Allocate(FormatMap \cup SectorsOf(MapHeader), TRUE, DirectoryFileSize)
Reserved == FormatMap \cup SectorsOf(MapHeader) \cup SectorsOf(RootHeader)

Init ==
  /\ CanAllocate(FormatMap, FreeMapFileSize)
  /\ CanAllocate(FormatMap \cup SectorsOf(MapHeader), DirectoryFileSize)
  /\ freeMap = Reserved
  /\ image = [s \in Sectors |-> CASE s = FreeMapSector -> WriteBack(MapHeader)
                                  [] s = DirectorySector -> WriteBack(RootHeader)
                                  [] OTHER -> None]
  /\ dirs = [s \in Sectors |-> IF s = DirectorySector THEN EmptyDir ELSE None]
  /\ table = EmptyTable
  /\ nbentry = 0
  /\ files = NoFiles
  /\ machine = "on"

Headers ==
  [isdir : BOOLEAN, numBytes : Nat,
   headerSectors : Seq(Sectors), dataSectors : Seq(Sectors \cup {Uninit})]

Images ==
  [isdir : BOOLEAN, numBytes : Nat, numSectors : Nat,
   headerSectors : Seq(Sectors), stored : Seq(Sectors \cup {Uninit})]

Directories == [Names -> Sectors \cup {None}]

TableEntries ==
  [name : Spellings, sector : Sectors, file : Headers, numthread : Nat, ToBeDeleted : BOOLEAN]

OpenFiles == [name : Spellings, fSector : Sectors, hdr : Headers]

\* NULL is no object.
ASSUME NoneAssumption ==
  None \notin Images /\ None \notin Directories /\ None \notin TableEntries /\ None \notin OpenFiles

TypeOK ==
  /\ freeMap \subseteq Sectors
  /\ image \in [Sectors -> Images \cup {None}]
  /\ dirs \in [Sectors -> Directories \cup {None}]
  /\ table \in [Slots -> TableEntries \cup {None}]
  /\ nbentry \in Slots \cup {ERROR}
  /\ files \in [Handles -> OpenFiles \cup {None}]
  /\ machine \in {"on", "assert", "undefined"}

---------------------------------------------------------------------------
(* Looking things up *)

\* Directory::Find in the directory whose header is in sector d.
DirFind(d, name) == dirs[d][name]

\* FileHeader::IsDir of the header in sector s.
IsDir(s) == image[s] # None /\ image[s].isdir

\* FindDir: the header sector of the directory that holds a path, or None.
FindDir(path) ==
  LET walk[i \in 0..(Len(path) - 1)] ==
        IF i = 0 THEN DirectorySector
        ELSE LET d == walk[i - 1]
                 s == IF d = None THEN None ELSE DirFind(d, path[i])
             IN IF s # None /\ IsDir(s) THEN s ELSE None
  IN walk[Len(path) - 1]

FileName(path) == path[Len(path)]

\* The header sector of a path, or None.
Lookup(path) ==
  LET d == FindDir(path) IN IF d = None THEN None ELSE DirFind(d, FileName(path))

\* What the linear searches of the table return: the first index or ERROR.
FirstOf(slots) ==
  IF slots = {} THEN ERROR ELSE CHOOSE i \in slots : \A j \in slots : i <= j

\* OpenFileTable::findl.
InTable(name) == {i \in Slots : table[i] # None /\ table[i].name = name}
findlShort(name) == FirstOf(InTable(name) \ {NBOFTENTRY - 1})    \* fault
findl(name) == FirstOf(InTable(name))

\* OpenFileTable::next_entry.
FreeSlots(tab) == {i \in Slots : tab[i] = None}
next_entryPastEnd(tab) ==                                        \* fault
  IF FreeSlots(tab) = {} THEN NBOFTENTRY ELSE FirstOf(FreeSlots(tab))
next_entryWraps(tab) ==                                          \* fault
  IF FreeSlots(tab) = {} THEN 0 ELSE FirstOf(FreeSlots(tab))
next_entry(tab) == FirstOf(FreeSlots(tab))

\* Directory::Add finds an entry that is not in use.
HasRoom(d) == Cardinality({n \in Names : dirs[d][n] # None}) < NumDirEntries

AddEntry(d, name, s) == [dirs EXCEPT ![d][name] = s]
EntryKept(d, name) == dirs                                       \* fault
RemoveEntry(d, name) == [dirs EXCEPT ![d][name] = None]

---------------------------------------------------------------------------
(* Creating files and directories *)

\* The bitmap that Create and Mkdir write back.
MapNotWritten(sector, hdr) == freeMap                            \* fault
MapWritten(sector, hdr) == freeMap \cup {sector} \cup SectorsOf(hdr)

\* The steps that FileSystem::Create and FileSystem::Mkdir share: a sector
\* for the header, an entry in the directory, sectors for the contents; the
\* three are written back when all went well.  The header goes over what was
\* in its sectors, and so does the contents if it is written, too.
NewFile(path, dir, size, filled) ==
  LET d == FindDir(path)
      sector == Find(freeMap, 1)[1]
      hdr == Allocate(freeMap \cup {sector}, dir, size)
      written == IF filled THEN SectorsOf(hdr) ELSE FurtherHeaders(hdr)
  IN /\ machine = "on"
     /\ d # None
     /\ DirFind(d, FileName(path)) = None
     /\ NumClear(freeMap) > 0
     /\ HasRoom(d)
     /\ CanAllocate(freeMap \cup {sector}, size)
     /\ image' = [s \in Sectors |-> IF s = sector THEN WriteBack(hdr)
                                     ELSE IF s \in written THEN None ELSE image[s]]
     /\ dirs' = [AddEntry(d, FileName(path), sector) EXCEPT
                   ![sector] = IF dir THEN EmptyDir ELSE None]
     /\ freeMap' = MapWritten(sector, hdr)
     /\ UNCHANGED <<tableVars, files, machine>>

\* FileSystem::Create.
Create(name, size) == NewFile(PathOf[name], FALSE, size, FALSE)

\* FileSystem::Mkdir, which writes an empty directory.
NewDirectory(path) == NewFile(path, TRUE, DirectoryFileSize, TRUE)

Mkdir(name) == NewDirectory(PathOf[name])

---------------------------------------------------------------------------
(* Removing files and directories *)

\* FileHeader::Deallocate and BitMap::Clear of the header sector succeed when
\* every sector is marked; otherwise the ASSERT fails, or the sector number
\* was never assigned.
CanDeallocate(hdr) == SectorsOf(hdr) \subseteq freeMap

Deallocated(hdr, sector) == freeMap \ (SectorsOf(hdr) \cup {sector})

StopAt(hdr) ==
  /\ machine' = IF Uninit \in SectorsOf(hdr) THEN "undefined" ELSE "assert"
  /\ UNCHANGED <<diskVars, tableVars, files>>

\* Frees a file or a directory and its entry (FileSystem::Remove and the end
\* of FileSystem::Rmdir).
FreeFile(path, sector) ==
  LET hdr == FetchFrom(image[sector]) IN
  IF CanDeallocate(hdr)
  THEN /\ freeMap' = Deallocated(hdr, sector)
       /\ dirs' = RemoveEntry(FindDir(path), FileName(path))
       /\ UNCHANGED <<image, tableVars, files, machine>>
  ELSE StopAt(hdr)

RemoveOpenKeepsEntry(name) ==                                    \* fault
  /\ machine = "on"
  /\ Lookup(PathOf[name]) # None
  /\ findl(name) # ERROR
  /\ table' = [table EXCEPT ![findl(name)].ToBeDeleted = TRUE]
  /\ UNCHANGED <<diskVars, nbentry, files, machine>>

\* OpenFileTable::Remove of a file that is in the table: it is marked, and
\* leaves its directory at once.
RemoveOpen(name) ==
  LET path == PathOf[name] IN
  /\ machine = "on"
  /\ Lookup(path) # None
  /\ findl(name) # ERROR
  /\ table' = [table EXCEPT ![findl(name)].ToBeDeleted = TRUE]
  /\ dirs' = RemoveEntry(FindDir(path), FileName(path))
  /\ UNCHANGED <<freeMap, image, nbentry, files, machine>>

\* OpenFileTable::Remove of any other file: FileSystem::Remove.
RemoveClosed(name) ==
  LET sector == Lookup(PathOf[name]) IN
  /\ machine = "on"
  /\ sector # None
  /\ findl(name) = ERROR
  /\ ~IsDir(sector)
  /\ FreeFile(PathOf[name], sector)

\* Directory::empty of the directory whose header is in sector d.
Empty(d) == \A n \in Names : dirs[d][n] = None

\* FileSystem::Rmdir.
RemoveDirectory(path) ==
  LET sector == Lookup(path) IN
  /\ machine = "on"
  /\ sector # None
  /\ IsDir(sector)
  /\ Empty(sector)
  /\ FreeFile(path, sector)

Rmdir(name) == RemoveDirectory(PathOf[name])

---------------------------------------------------------------------------
(* The table of open files *)

\* A user program gets a new OpenFile object.
NewHandle(h, name, sector) ==
  /\ files[h] = None
  /\ files' = [files EXCEPT ![h] =
                 [name |-> name, fSector |-> sector, hdr |-> FetchFrom(image[sector])]]

OpenAgainUncounted(h, name) ==                                   \* fault
  LET i == findl(name) IN
  /\ machine = "on"
  /\ i # ERROR
  /\ ~table[i].ToBeDeleted
  /\ NewHandle(h, name, table[i].sector)
  /\ UNCHANGED <<diskVars, tableVars, machine>>

\* OpenFileTable::Open of a file in the table.
OpenAgain(h, name) ==
  LET i == findl(name) IN
  /\ machine = "on"
  /\ i # ERROR
  /\ ~table[i].ToBeDeleted
  /\ table' = [table EXCEPT ![i].numthread = @ + 1]
  /\ NewHandle(h, name, table[i].sector)
  /\ UNCHANGED <<diskVars, nbentry, machine>>

OpenFileTableEntry(name, sector) ==
  [name |-> name, sector |-> sector, file |-> FetchFrom(image[sector]),
   numthread |-> 1, ToBeDeleted |-> FALSE]

\* OpenFileTable::Open of a file that is not in the table.
OpenFirst(h, name) ==
  LET sector == Lookup(PathOf[name])
      entry == OpenFileTableEntry(name, sector)
  IN /\ machine = "on"
     /\ findl(name) = ERROR
     /\ nbentry # ERROR
     /\ sector # None
     /\ ~IsDir(sector)
     /\ table' = [table EXCEPT ![nbentry] = entry]
     /\ nbentry' = next_entry(table')
     /\ NewHandle(h, name, sector)
     /\ UNCHANGED <<diskVars, machine>>

\* The destructor of an entry frees a removed file with the header read when
\* the entry was made.
EntryFrees(i) == table[i].ToBeDeleted
MapWithout(i) ==
  IF EntryFrees(i) THEN Deallocated(table[i].file, table[i].sector) ELSE freeMap

\* OpenFileTable::Close: the last one deletes the entry.
LastUser(i) == i # ERROR /\ table[i].numthread <= 1
CloseEntry(i) ==
  /\ freeMap' = IF LastUser(i) THEN MapWithout(i) ELSE freeMap
  /\ table' = [j \in Slots |-> IF j # i THEN table[j]
                               ELSE IF LastUser(i) THEN None
                               ELSE [table[j] EXCEPT !.numthread = @ - 1]]

\* SC_CLOSE: the entry of the file's name is closed, its object deleted.
Close(h) ==
  LET i == findl(files[h].name) IN
  /\ machine = "on"
  /\ files[h] # None
  /\ IF LastUser(i) /\ EntryFrees(i) /\ ~CanDeallocate(table[i].file)
     THEN StopAt(table[i].file)
     ELSE /\ CloseEntry(i)
          /\ files' = [files EXCEPT ![h] = None]
          /\ UNCHANGED <<image, dirs, nbentry, machine>>

---------------------------------------------------------------------------
(* Open files *)

\* The sectors that a transfer of n bytes at a position goes through, as
\* indexes of dataSectors (which starts at 0 in the code).
Span(position, n) == (position \div SectorSize)..((position + n - 1) \div SectorSize)

\* Every sector number of the span was assigned.  Without a byte at position
\* 0 the unsigned division gives the last index 2^32 / SectorSize - 1.
Assigned(hdr, position, n) ==
  /\ position + n > 0
  /\ \A i \in Span(position, n) :
       i < Len(hdr.dataSectors) /\ hdr.dataSectors[i + 1] # Uninit

\* OpenFile::ReadAt.
Read(h, position, n) ==
  LET hdr == files[h].hdr
      len == hdr.numBytes
      count == IF position + n > len THEN len - position ELSE n
  IN /\ machine = "on"
     /\ files[h] # None
     /\ n > 0
     /\ position < len
     /\ machine' = IF Assigned(hdr, position, count) THEN machine ELSE "undefined"
     /\ UNCHANGED <<diskVars, tableVars, files>>

\* OpenFile::WriteAt.  A write past the allocated sectors grows the file and
\* writes the header and the bitmap back; one past the end only changes the
\* length of the header in memory; one that cannot grow is cut at the old
\* end, and has changed the length nevertheless (filehdr.cc:114).
Write(h, position, n) ==
  LET f == files[h]
      hdr == f.hdr
      len == hdr.numBytes
      end == position + n
      grow == end > MaxFileLength(hdr)
      ok == grow => CanReAllocate(freeMap, hdr, end)
      newhdr == IF grow /\ ok THEN reAllocate(freeMap, hdr, end)
                ELSE [hdr EXCEPT !.numBytes = IF grow \/ end > len THEN end ELSE len]
      count == IF ok THEN n ELSE len - position
      written == {newhdr.dataSectors[i + 1] : i \in Span(position, count)} \cup
                 (IF grow /\ ok THEN FurtherHeaders(newhdr) ELSE {})
  IN /\ machine = "on"
     /\ files[h] # None
     /\ n > 0
     /\ position <= len
     /\ files' = [files EXCEPT ![h].hdr = newhdr]
     /\ freeMap' = IF grow /\ ok THEN freeMap \cup (SectorsOf(newhdr) \ SectorsOf(hdr))
                   ELSE freeMap
     /\ IF Assigned(newhdr, position, count)
        THEN /\ image' = [s \in Sectors |->
                            IF s \in written THEN None
                            ELSE IF grow /\ ok /\ s = f.fSector THEN WriteBack(newhdr)
                            ELSE image[s]]
             /\ UNCHANGED machine
        ELSE /\ machine' = "undefined"
             /\ UNCHANGED image
     /\ UNCHANGED <<dirs, tableVars>>

---------------------------------------------------------------------------

\* The simulator ends (normally or by an ASSERT) and is started again on the
\* same disk: FileSystem::FileSystem(false) and OpenFileTable::OpenFileTable.
Restart ==
  /\ machine \in {"on", "assert"}
  /\ table' = EmptyTable
  /\ nbentry' = 0
  /\ files' = NoFiles
  /\ machine' = "on"
  /\ UNCHANGED diskVars

\* The system calls that are more than one of the operations above.
Open(h, name) == OpenFirst(h, name) \/ OpenAgain(h, name)

Remove(name) == RemoveOpen(name) \/ RemoveClosed(name)

\* Copy of a host file: the new file has its size and is written completely.
Copy(name, size) == NewFile(PathOf[name], FALSE, size, TRUE)

\* The commands of the configuration, which main carries out before it starts a
\* program; nothing is open.
StartUp(name) ==
  /\ table = EmptyTable /\ nbentry = 0 /\ files = NoFiles
  /\ \/ RemoveClosed(name)
     \/ NewDirectory(PathOf[name])
     \/ RemoveDirectory(PathOf[name])
     \/ \E size \in 0..MaxFileSize : Copy(name, size)

\* Seek puts the position of an OpenFile object anywhere, Read and Write go
\* on from there.
Positions == 0..MaxFileSize
Lengths(position) == 1..(MaxFileSize - position)

SeekAndRead(h) == \E position \in Positions : \E n \in Lengths(position) : Read(h, position, n)

SeekAndWrite(h) == \E position \in Positions : \E n \in Lengths(position) : Write(h, position, n)

Next ==
  \/ Restart
  \/ \E name \in Spellings :
       \/ \E size \in 0..MaxFileSize : Create(name, size)
       \/ Mkdir(name)
       \/ Remove(name)
       \/ Rmdir(name)
       \/ StartUp(name)
       \/ \E h \in Handles : Open(h, name)
  \/ \E h \in Handles : Close(h) \/ SeekAndRead(h) \/ SeekAndWrite(h)

Spec == Init /\ [][Next]_vars

---------------------------------------------------------------------------

\* The copies of file headers that the kernel works with: those of the files and
\* directories that a path leads to, of the entries of the table of open files,
\* and of the OpenFile objects.  (Removing an open name that was given to a
\* directory since cuts that directory off with all that is in it.)
Copies ==
  LET reached == {Lookup(PathOf[name]) : name \in Spellings} \ {None}
  IN {[sector |-> s, hdr |-> FetchFrom(image[s])] : s \in {r \in reached : image[r] # None}} \cup
     {[sector |-> table[i].sector, hdr |-> table[i].file] :
        i \in {j \in Slots : table[j] # None}} \cup
     {[sector |-> files[h].fSector, hdr |-> files[h].hdr] :
        h \in {g \in Handles : files[g] # None}}

Owned(c) == {c.sector} \cup SectorsOf(c.hdr)

\* No sector has two owners and no sector in use is free: the sectors of every
\* header copy are marked in the bitmap, and copies of different files have no
\* sector in common, whatever was grown through one copy while others are
\* stale (FileHeader::reAllocate, FileHeader::Deallocate, OpenFile::WriteAt).
SectorsOwned ==
  \A c \in Copies :
    /\ Owned(c) \subseteq freeMap \ Reserved
    /\ \A e \in Copies : c.sector # e.sector => Owned(c) \cap Owned(e) = {}

\* A path leads to a header, and two paths never to the same one: a file is in
\* one directory only (Directory::Add, FileSystem::Remove, FileSystem::Rmdir).
DirectoriesSound ==
  \A a, b \in Spellings : Lookup(PathOf[a]) # None =>
    /\ image[Lookup(PathOf[a])] # None
    /\ Lookup(PathOf[a]) = Lookup(PathOf[b]) => PathOf[a] = PathOf[b]

\* The table knows every open file: its entry carries the file's header sector
\* and counts exactly the OpenFile objects with its name, so that the entry
\* and with it a removed file go with the last Close, not earlier and not
\* later (OpenFileTable::Open, OpenFileTable::Close).
TableCounts ==
  /\ \A i \in Slots : table[i] # None =>
       /\ table[i].numthread > 0
       /\ table[i].numthread =
            Cardinality({h \in Handles : files[h] # None /\ files[h].name = table[i].name})
  /\ \A h \in Handles : files[h] # None =>
       \E i \in Slots : /\ table[i] # None
                        /\ table[i].name = files[h].name
                        /\ table[i].sector = files[h].fSector
  /\ \A i, j \in Slots :
       table[i] # None /\ table[j] # None /\ table[i].name = table[j].name => i = j

\* OpenFileTable::Open never overwrites an entry: nbentry, computed when the
\* previous entry was made, is still free.
NextSlotFree == nbentry # ERROR => table[nbentry] = None

\* "after removing a file nobody can open the deleted file" (oftable.cc:250):
\* no path leads to a file marked ToBeDeleted.
RemovedUnreachable ==
  \A i \in Slots : table[i] # None /\ table[i].ToBeDeleted =>
    \A name \in Spellings : Lookup(PathOf[name]) # table[i].sector

\* No ASSERT of the file system fails: what Deallocate frees is marked.
NoAssertFails == machine # "assert"

\* Every sector of an open file stays allocated: "every thread wich has it open
\* can access the datas" of a removed file (oftable.cc:251).
OpenDataKept ==
  \A h \in Handles : files[h] # None =>
    {files[h].fSector} \cup SectorsOf(files[h].hdr) \subseteq freeMap

\* The header on disk holds every sector number of the file: reAllocate adds
\* header blocks "if necessary" (filehdr.cc:96).
HeadersComplete ==
  \A s \in Sectors : image[s] # None => Len(image[s].stored) = image[s].numSectors

\* The last Close of a removed file frees every sector that its header on disk
\* names: "The data on disk will be deleted only after every thread had closed
\* this file" (oftable.cc:252).
LastCloseFrees ==
  [][\A h \in Handles, i \in Slots :
       Close(h) /\ table[i] # None /\ table[i].ToBeDeleted /\ table'[i] = None =>
         freeMap' \cap SectorsOf(FetchFrom(image[table[i].sector])) = {}]_vars

=============================================================================
