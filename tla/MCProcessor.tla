----------------------------- MODULE MCProcessor -----------------------------
(* Instance of Processor: bytes of 2 bits, words of 8, registers of 16. *)
EXTENDS Processor, TLC

Entry(phys, write) ==
  [phys |-> phys, valid |-> TRUE, read |-> TRUE, write |-> write, used |-> FALSE, dirty |-> FALSE]

\* A writable page, a read-only one, and one that is not mapped.
MCTable == (0 :> Entry(0, TRUE)) @@ (1 :> Entry(1, FALSE)) @@ (2 :> PageTableEntry(-1))
MCMem == [p \in PhysAddrs |-> (3 * p + p \div 4) % 4]

\* Corners of the two widths; a first instruction makes more of them.
MCRegs == {0, 5, 255, 32768}

RTypes == {op \in Mnemonics : Formats[op].type \in {"R", "R4"}}
ITypes == {op \in Mnemonics : Formats[op].type = "I"}

\* Immediates with one bit set, which show where each bit of a field goes.  (The
\* pc has 16 bits: the highest four below the sign of a jump do not show.)
Bits(lo, hi) == {2^k : k \in lo .. hi}

MCProgram ==
  {Asm(op, 1, 1, 2, 0) : op \in RTypes}
    \cup {Asm(op, 1, 1, 0, imm) : op \in ITypes, imm \in {-1, 0, 2}}
    \cup {Asm(op, 2, 1, 0, n) : op \in {"slli", "srli", "srai", "slliw", "srliw", "sraiw"}, n \in {0, 3, 7}}
    \cup {Asm(op, 0, 1, 2, imm) : op \in {"sb", "sh", "sw", "sd", "fsw"}, imm \in {-1, 0, 6}}
    \cup {Asm(op, 0, 1, 2, imm) : op \in Branches, imm \in {-8, 8}}
    \cup {Asm(op, 1, 0, 0, imm) : op \in {"lui", "auipc"}, imm \in {1, 6, 9}}
    \cup {Asm("jal", 1, 0, 0, imm) : imm \in {-4, 4, 40}}
    \cup {Asm("addi", 1, 0, 0, imm) : imm \in Bits(0, 10) \cup {-2048}}
    \cup {Asm("beq", 0, 0, 0, imm) : imm \in Bits(1, 11) \cup {-4096}}
    \cup {Asm("jal", 1, 0, 0, imm) : imm \in Bits(1, 15)}
    \cup {Asm("fcvtw", 1, 1, 1, 0), Asm("fcvts", 1, 1, 1, 0), Asm("add", 0, 1, 2, 0)}
    \cup {Asm("ld", 0, 1, 2, 0)}

=============================================================================
