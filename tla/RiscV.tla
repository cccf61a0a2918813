------------------------------- MODULE RiscV --------------------------------
(***************************************************************************)
(* The instruction set the interpreter is measured against: the assembly   *)
(* form of the RV64IM instructions (and of the floating point ones the     *)
(* interpreter knows), and their binary formats.  It is the architecture's *)
(* definition, not code of the repository.                                 *)
(***************************************************************************)
EXTENDS Integers

Fmt(type, opcode, f3, f7) == [type |-> type, opcode |-> opcode, f3 |-> f3, f7 |-> f7]

\* Mnemonics: format, major opcode, funct3 and funct7.
Formats ==
  [lui |-> Fmt("U", \H37, 0, 0), auipc |-> Fmt("U", \H17, 0, 0),
   jal |-> Fmt("J", \H6F, 0, 0), jalr |-> Fmt("I", \H67, 0, 0),
   beq |-> Fmt("B", \H63, 0, 0), bne |-> Fmt("B", \H63, 1, 0),
   blt |-> Fmt("B", \H63, 4, 0), bge |-> Fmt("B", \H63, 5, 0),
   bltu |-> Fmt("B", \H63, 6, 0), bgeu |-> Fmt("B", \H63, 7, 0),
   lb |-> Fmt("I", \H03, 0, 0), lh |-> Fmt("I", \H03, 1, 0),
   lw |-> Fmt("I", \H03, 2, 0), ld |-> Fmt("I", \H03, 3, 0),
   lbu |-> Fmt("I", \H03, 4, 0), lhu |-> Fmt("I", \H03, 5, 0),
   lwu |-> Fmt("I", \H03, 6, 0),
   sb |-> Fmt("S", \H23, 0, 0), sh |-> Fmt("S", \H23, 1, 0),
   sw |-> Fmt("S", \H23, 2, 0), sd |-> Fmt("S", \H23, 3, 0),
   addi |-> Fmt("I", \H13, 0, 0), slti |-> Fmt("I", \H13, 2, 0),
   sltiu |-> Fmt("I", \H13, 3, 0), xori |-> Fmt("I", \H13, 4, 0),
   ori |-> Fmt("I", \H13, 6, 0), andi |-> Fmt("I", \H13, 7, 0),
   slli |-> Fmt("Sh", \H13, 1, 0), srli |-> Fmt("Sh", \H13, 5, 0),
   srai |-> Fmt("Sh", \H13, 5, \H20),
   addiw |-> Fmt("I", \H1B, 0, 0), slliw |-> Fmt("Sh", \H1B, 1, 0),
   srliw |-> Fmt("Sh", \H1B, 5, 0), sraiw |-> Fmt("Sh", \H1B, 5, \H20),
   add |-> Fmt("R", \H33, 0, 0), sub |-> Fmt("R", \H33, 0, \H20),
   sll |-> Fmt("R", \H33, 1, 0), slt |-> Fmt("R", \H33, 2, 0),
   sltu |-> Fmt("R", \H33, 3, 0), xor |-> Fmt("R", \H33, 4, 0),
   srl |-> Fmt("R", \H33, 5, 0), sra |-> Fmt("R", \H33, 5, \H20),
   or |-> Fmt("R", \H33, 6, 0), and |-> Fmt("R", \H33, 7, 0),
   mul |-> Fmt("R", \H33, 0, 1), mulh |-> Fmt("R", \H33, 1, 1),
   mulhsu |-> Fmt("R", \H33, 2, 1), mulhu |-> Fmt("R", \H33, 3, 1),
   div |-> Fmt("R", \H33, 4, 1), divu |-> Fmt("R", \H33, 5, 1),
   rem |-> Fmt("R", \H33, 6, 1), remu |-> Fmt("R", \H33, 7, 1),
   addw |-> Fmt("R", \H3B, 0, 0), subw |-> Fmt("R", \H3B, 0, \H20),
   sllw |-> Fmt("R", \H3B, 1, 0), srlw |-> Fmt("R", \H3B, 5, 0),
   sraw |-> Fmt("R", \H3B, 5, \H20),
   mulw |-> Fmt("R", \H3B, 0, 1), divw |-> Fmt("R", \H3B, 4, 1),
   divuw |-> Fmt("R", \H3B, 5, 1), remw |-> Fmt("R", \H3B, 6, 1),
   remuw |-> Fmt("R", \H3B, 7, 1),
   ecall |-> Fmt("I", \H73, 0, 0), fence |-> Fmt("I", \H0F, 0, 0),
   flw |-> Fmt("I", \H07, 2, 0), fsw |-> Fmt("S", \H27, 2, 0),
   fmadd |-> Fmt("R4", \H43, 0, 0), fmsub |-> Fmt("R4", \H47, 0, 0),
   fnmsub |-> Fmt("R4", \H4B, 0, 0), fnmadd |-> Fmt("R4", \H4F, 0, 0),
   fadd |-> Fmt("R", \H53, 0, 0), fsub |-> Fmt("R", \H53, 0, \H04),
   fmul |-> Fmt("R", \H53, 0, \H08), fdiv |-> Fmt("R", \H53, 0, \H0C),
   fsqrt |-> Fmt("R", \H53, 0, \H2C),
   fsgnj |-> Fmt("R", \H53, 0, \H10), fsgnjn |-> Fmt("R", \H53, 1, \H10),
   fsgnjx |-> Fmt("R", \H53, 2, \H10),
   fmin |-> Fmt("R", \H53, 0, \H14), fmax |-> Fmt("R", \H53, 1, \H14),
   fcvtw |-> Fmt("R", \H53, 0, \H60), fmvx |-> Fmt("R", \H53, 0, \H70),
   fclass |-> Fmt("R", \H53, 1, \H70),
   feq |-> Fmt("R", \H53, 2, \H50), flt |-> Fmt("R", \H53, 1, \H50),
   fle |-> Fmt("R", \H53, 0, \H50),
   fcvts |-> Fmt("R", \H53, 0, \H68), fmvw |-> Fmt("R", \H53, 0, \H78),
   faddd |-> Fmt("R", \H53, 0, \H01)]

Mnemonics == DOMAIN Formats

\* An instruction in assembly form.
Asm(op, rd, rs1, rs2, imm) ==
  [op |-> op, rd |-> rd, rs1 |-> rs1, rs2 |-> rs2, rs3 |-> rs2, imm |-> imm]

----------------------------------------------------------------------------
(* The binary formats *)

Bit(x, n) == (x \div 2^n) % 2

\* The bit of the immediate that a format keeps in bit b of the word.
ImmBit(type, b) ==
  CASE type \in {"I", "Sh"} -> b - 20
    [] type = "S" -> IF b >= 25 THEN b - 20 ELSE b - 7
    [] type = "B" -> IF b = 31 THEN 12 ELSE IF b >= 25 THEN b - 20
                     ELSE IF b = 7 THEN 11 ELSE b - 7
    [] type = "U" -> b - 12
    [] type = "J" -> IF b = 31 THEN 20 ELSE IF b >= 21 THEN b - 20
                     ELSE IF b = 20 THEN 11 ELSE b

ImmPlaces(type) ==
  CASE type = "I" -> 20 .. 31
    [] type = "Sh" -> 20 .. 25
    [] type \in {"S", "B"} -> (25 .. 31) \cup (7 .. 11)
    [] type \in {"U", "J"} -> 12 .. 31
    [] OTHER -> {}

Assemble(i) ==
  LET f == Formats[i.op] IN
  [b \in 0 .. 31 |->
     CASE b < 7 -> Bit(f.opcode, b)
       [] b \in ImmPlaces(f.type) -> Bit(i.imm, ImmBit(f.type, b))
       [] b \in 7 .. 11 /\ b \notin ImmPlaces(f.type) -> Bit(i.rd, b - 7)
       [] b \in 12 .. 14 /\ b \notin ImmPlaces(f.type) -> Bit(f.f3, b - 12)
       [] b \in 15 .. 19 /\ b \notin ImmPlaces(f.type) -> Bit(i.rs1, b - 15)
       [] b \in 20 .. 24 /\ b \notin ImmPlaces(f.type) -> Bit(i.rs2, b - 20)
       [] b \in 25 .. 26 /\ f.type = "R4" -> 0
       [] b \in 27 .. 31 /\ f.type = "R4" -> Bit(i.rs3, b - 27)
       [] b \in 25 .. 31 /\ f.type \in {"R", "Sh"} /\ b \notin ImmPlaces(f.type)
            -> Bit(f.f7, b - 25)]

=============================================================================
