-------------------------------- MODULE Mmu ---------------------------------
(***************************************************************************)
(* The memory management unit (machine/mmu.cc): the translation of a       *)
(* virtual address through the linear page table of                        *)
(* machine/translationtable.cc, and the bytes an access then touches.      *)
(*                                                                         *)
(* Memory is a function from physical byte addresses to bytes.  A byte has *)
(* ByteBits bits and a virtual address AddrBits bits (8 and 32 in the      *)
(* code), so that small instances keep the shape of the real widths.       *)
(***************************************************************************)
EXTENDS Integers, FiniteSets

CONSTANTS
  PageSize,      \* bytes per page, g_cfg->PageSize
  NumPhysPages,  \* g_cfg->NumPhysPages
  MaxVirtPages,  \* entries of a translation table, g_cfg->MaxVirtPages
  ByteBits,      \* bits of a byte
  AddrBits       \* bits of the uint32_t virtual address of Translate

ASSUME MmuAssumption ==
  /\ PageSize \in Nat \ {0} /\ NumPhysPages \in Nat /\ MaxVirtPages \in Nat
  /\ ByteBits \in Nat \ {0} /\ AddrBits \in Nat \ {0}

PhysPages == 0 .. NumPhysPages - 1
VirtPages == 0 .. MaxVirtPages - 1
PhysAddrs == 0 .. NumPhysPages * PageSize - 1
Bytes == 0 .. 2^ByteBits - 1

\* What a table entry keeps.  The bits io and swap and the disk address are
\* written when a page is loaded and read by no code of the tree but the
\* destructor of AddrSpace, which finds swap clear.
Entries == [phys : Int, valid : BOOLEAN, read : BOOLEAN, write : BOOLEAN,
            used : BOOLEAN, dirty : BOOLEAN]
Tables == [VirtPages -> Entries]

getMaxNumPages == MaxVirtPages
getPhysicalPage(table, v) == table[v].phys
setPhysicalPage(table, v, pp) == [table EXCEPT ![v].phys = pp]
getBitValid(table, v) == table[v].valid
setBitValid(table, v) == [table EXCEPT ![v].valid = TRUE]
getBitReadAllowed(table, v) == table[v].read
setBitReadAllowed(table, v) == [table EXCEPT ![v].read = TRUE]
getBitWriteAllowed(table, v) == table[v].write
setBitWriteAllowed(table, v) == [table EXCEPT ![v].write = TRUE]
clearBitWriteAllowed(table, v) == [table EXCEPT ![v].write = FALSE]
setBitU(table, v) == [table EXCEPT ![v].used = TRUE]
setBitM(table, v) == [table EXCEPT ![v].dirty = TRUE]

\* A new entry; its physicalPage is left as the allocator found it (any number).
PageTableEntry(anything) ==
  [phys |-> anything, valid |-> FALSE, read |-> FALSE, write |-> FALSE,
   used |-> FALSE, dirty |-> FALSE]

----------------------------------------------------------------------------
(* Translation *)

VirtAddr(addr) == addr % 2^AddrBits
vpn(addr) == VirtAddr(addr) \div PageSize
offset(addr) == VirtAddr(addr) % PageSize

\* Only accesses of two and four bytes are checked.
Misaligned(addr, size) ==
  \/ size = 4 /\ VirtAddr(addr) % 4 # 0
  \/ size = 2 /\ VirtAddr(addr) % 2 # 0

\* The exception Translate returns, its tests in the order of the code.  An
\* invalid page goes to the page fault manager, whose body is missing from the
\* tree: it prints a message and exits.
Translate(table, addr, size, writing) ==
  LET v == vpn(addr) IN
  IF Misaligned(addr, size) THEN "BUSERROR_EXCEPTION"
  ELSE IF v >= getMaxNumPages THEN "ADDRESSERROR_EXCEPTION"
  ELSE IF ~getBitReadAllowed(table, v) /\ ~getBitWriteAllowed(table, v)
    THEN "ADDRESSERROR_EXCEPTION"
  ELSE IF writing /\ ~getBitWriteAllowed(table, v) THEN "READONLY_EXCEPTION"
  ELSE IF ~getBitValid(table, v) THEN "PAGEFAULT_EXCEPTION"
  ELSE IF getPhysicalPage(table, v) \notin PhysPages THEN "BUSERROR_EXCEPTION"
  ELSE "NO_EXCEPTION"

\* fault: a write does not set the modified bit.
AccessedUseOnly(table, addr, writing) == setBitU(table, vpn(addr))

\* The use and modified bits, set when the translation succeeds.
Accessed(table, addr, writing) ==
  setBitU(IF writing THEN setBitM(table, vpn(addr)) ELSE table, vpn(addr))

physAddr(table, addr) == getPhysicalPage(table, vpn(addr)) * PageSize + offset(addr)

\* The physical bytes of an access: size consecutive ones from physAddr, also
\* when the page ends before.
Touched(table, addr, size) ==
  physAddr(table, addr) .. physAddr(table, addr) + size - 1

\* Little-endian value of the size bytes at physical address p.
Value(mem, p, size) ==
  LET v[n \in 0 .. size] == IF n = 0 THEN 0
                            ELSE v[n - 1] + mem[p + n - 1] * 2^(ByteBits * (n - 1))
  IN v[size]

\* fault: the value is not cut to a byte.
ByteOfUncut(value, n) == value \div 2^(ByteBits * n)

\* Byte n of a value.
ByteOf(value, n) == (value \div 2^(ByteBits * n)) % 2^ByteBits

\* Only the page is checked: an access that runs past it reads and writes the
\* bytes of the next physical page.
ReadMem(table, mem, addr, size) == Value(mem, physAddr(table, addr), size)

WriteMem(table, mem, addr, size, value) ==
  [p \in DOMAIN mem |-> IF p \in Touched(table, addr, size)
                        THEN ByteOf(value, p - physAddr(table, addr))
                        ELSE mem[p]]

=============================================================================
