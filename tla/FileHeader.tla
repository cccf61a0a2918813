----------------------------- MODULE FileHeader -----------------------------
(***************************************************************************)
(* The free-sector bitmap (utility/bitmap.cc) and the file headers         *)
(* (filesys/filehdr.cc) of the Nachos file system, as operators on values. *)
(* A bitmap is the set of its marked sectors.  A header in memory is a     *)
(* record with the sector numbers of the file's data and of the further    *)
(* header sectors; a header on disk is what WriteBack stores of it.        *)
(***************************************************************************)
EXTENDS Integers, Sequences, FiniteSets

CONSTANTS
  NumSectors,         \* NUM_SECTORS
  SectorSize,         \* g_cfg->SectorSize, in bytes
  DatasInFirstSector, \* data sector numbers in the first header sector
  DatasInSector       \* data sector numbers in each further one

ASSUME HeaderAssumption ==
  /\ {NumSectors, SectorSize, DatasInFirstSector, DatasInSector} \subseteq Nat \ {0}
  /\ DatasInFirstSector < DatasInSector

Sectors == 0..(NumSectors - 1)

\* The value of an entry of dataSectors that was never assigned.
Uninit == -1

\* divRoundUp as the C arithmetic computes it for n > -s.
divRoundUp(n, s) == IF n > 0 THEN (n + s - 1) \div s ELSE 0

---------------------------------------------------------------------------
(* BitMap *)

NumClear(map) == Cardinality(Sectors \ map)

\* The results of n successive calls of BitMap::Find: the n lowest clear bits.
Find(map, n) ==
  [i \in 1..n |->
     CHOOSE s \in Sectors \ map : Cardinality({r \in Sectors \ map : r < s}) = i - 1]

---------------------------------------------------------------------------
(* FileHeader *)

\* The sectors a header refers to.
SectorsOf(hdr) ==
  {hdr.dataSectors[i] : i \in 1..Len(hdr.dataSectors)} \cup
  {hdr.headerSectors[i] : i \in 1..Len(hdr.headerSectors)}

\* The sectors that FileHeader::WriteBack writes after the first.
FurtherHeaders(hdr) == {hdr.headerSectors[i] : i \in 1..Len(hdr.headerSectors)}

\* Data and header sectors that FileHeader::Allocate needs for a size.
DataSectorsFor(size) == divRoundUp(size, SectorSize)
HeaderSectorsFor(n) == divRoundUp(n - DatasInFirstSector, DatasInSector)

CanAllocate(map, size) ==
  LET n == DataSectorsFor(size) IN NumClear(map) >= n + HeaderSectorsFor(n)

\* FileHeader::Allocate: header sectors first, then data sectors.
Allocate(map, dir, size) ==
  LET n == DataSectorsFor(size)
      m == HeaderSectorsFor(n)
      found == Find(map, m + n)
  IN [isdir |-> dir, numBytes |-> size,
      headerSectors |-> SubSeq(found, 1, m),
      dataSectors |-> SubSeq(found, m + 1, m + n)]

\* FileHeader::reAllocate.  The number of header sectors is computed from the
\* old number of data sectors (filehdr.cc:118).
NewSectors(hdr, size) == DataSectorsFor(size) - Len(hdr.dataSectors)

NewHeaderSectors(hdr, size) ==
  HeaderSectorsFor(Len(hdr.dataSectors)) - Len(hdr.headerSectors)

CanReAllocate(map, hdr, size) ==
  NumClear(map) >= NewSectors(hdr, size) + NewHeaderSectors(hdr, size)

reAllocate(map, hdr, size) ==
  LET n == NewSectors(hdr, size)
      m == NewHeaderSectors(hdr, size)
      found == Find(map, m + n)
  IN [hdr EXCEPT !.numBytes = size,
                 !.headerSectors = @ \o SubSeq(found, 1, m),
                 !.dataSectors = @ \o SubSeq(found, m + 1, m + n)]

\* FileHeader::WriteBack: only the sector numbers that fit in the first and
\* in the further header sectors reach the disk.
WriteBack(hdr) ==
  LET n == Len(hdr.dataSectors)
      room == DatasInFirstSector + Len(hdr.headerSectors) * DatasInSector
  IN [isdir |-> hdr.isdir, numBytes |-> hdr.numBytes, numSectors |-> n,
      headerSectors |-> hdr.headerSectors,
      stored |-> SubSeq(hdr.dataSectors, 1, IF n < room THEN n ELSE room)]

\* FileHeader::FetchFrom: dataSectors is a fresh array of which only the
\* stored part is assigned.
FetchFrom(img) ==
  [isdir |-> img.isdir, numBytes |-> img.numBytes,
   headerSectors |-> img.headerSectors,
   dataSectors |-> [i \in 1..img.numSectors |->
                      IF i <= Len(img.stored) THEN img.stored[i] ELSE Uninit]]

MaxFileLength(hdr) == Len(hdr.dataSectors) * SectorSize

=============================================================================
