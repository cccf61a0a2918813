---------------------------- MODULE Instruction -----------------------------
(***************************************************************************)
(* Decoding of RISC-V instructions (machine/instruction.cc) and the        *)
(* operation codes of machine/instruction.h.  A word is a function from    *)
(* bit numbers to bits, because 2^31 is more than TLC's integers hold.     *)
(***************************************************************************)
EXTENDS Integers

Words == [0 .. 31 -> {0, 1}]

\* Bits lo .. lo + n - 1 of a word as a number.
Field(word, lo, n) ==
  LET v[k \in 0 .. n] == IF k = 0 THEN 0 ELSE v[k - 1] + word[lo + k - 1] * 2^(k - 1)
  IN v[n]

SignExtend(x, bits) == IF x >= 2^(bits - 1) THEN x - 2^bits ELSE x

----------------------------------------------------------------------------
(* Fields of the formats, Instruction::Decode *)

imm12_I(word) == Field(word, 20, 12)
imm12_S(word) == Field(word, 25, 7) * 2^5 + Field(word, 7, 5)

\* fault: bit 7 of a branch is read as the lowest bit of the offset.
imm13Straight(word) ==
  word[31] * 2^12 + Field(word, 25, 6) * 2^5 + Field(word, 8, 4) * 2 + word[7]

imm13(word) ==
  word[31] * 2^12 + Field(word, 25, 6) * 2^5 + Field(word, 8, 4) * 2 + word[7] * 2^11

imm21_1(word) ==
  Field(word, 12, 8) * 2^12 + word[20] * 2^11 + Field(word, 21, 10) * 2 + word[31] * 2^20

Decode(word) ==
  [opcode |-> Field(word, 0, 7),
   rd |-> Field(word, 7, 5),
   rs1 |-> Field(word, 15, 5),
   rs2 |-> Field(word, 20, 5),
   rs3 |-> Field(word, 27, 5),
   funct3 |-> Field(word, 12, 3),
   funct7 |-> Field(word, 25, 7),
   funct7_smaller |-> Field(word, 26, 5) * 2,
   shamt |-> Field(word, 20, 6),
   imm12_I |-> imm12_I(word),
   imm12_I_signed |-> SignExtend(imm12_I(word), 12),
   imm12_S_signed |-> SignExtend(imm12_S(word), 12),
   imm13_signed |-> SignExtend(imm13(word), 13),
   imm31_12 |-> Field(word, 12, 20),
   imm21_1_signed |-> SignExtend(imm21_1(word), 21)]

----------------------------------------------------------------------------
(* Operation codes *)

RISCV_LUI == \H37
RISCV_AUIPC == \H17
RISCV_JAL == \H6F
RISCV_JALR == \H67
RISCV_BR == \H63
RISCV_LD == \H3
RISCV_ST == \H23
RISCV_OPI == \H13
RISCV_OP == \H33
RISCV_OPIW == \H1B
RISCV_OPW == \H3B
RISCV_SYSTEM == \H73
RISCV_FLW == \H07
RISCV_FSW == \H27
RISCV_FMADD == \H43
RISCV_FMSUB == \H47
RISCV_FNMSUB == \H4B
RISCV_FNMADD == \H4F
RISCV_FP == \H53
RISCV_FENCE == \H0F

\* The values of funct3 for each operation code, and of funct7 for floating point.
BR == [BEQ |-> 0, BNE |-> 1, BLT |-> 4, BGE |-> 5, BLTU |-> 6, BGEU |-> 7]
LD == [LB |-> 0, LH |-> 1, LW |-> 2, LD |-> 3, LBU |-> 4, LHU |-> 5, LWU |-> 6]
OPI == [ADDI |-> 0, SLTI |-> 2, SLTIU |-> 3, XORI |-> 4, ORI |-> 6, ANDI |-> 7, SLLI |-> 1, SRI |-> 5]
OP == [ADD |-> 0, SLL |-> 1, SLT |-> 2, SLTU |-> 3, XOR |-> 4, SR |-> 5, OR |-> 6, AND |-> 7]
OPIW == [ADDIW |-> 0, SLLIW |-> 1, SRW |-> 5]
OPW == [ADDSUBW |-> 0, SLLW |-> 1, SRW |-> 5]
OP_M == [MUL |-> 0, MULH |-> 1, MULHSU |-> 2, MULHU |-> 3, DIV |-> 4, DIVU |-> 5, REM |-> 6, REMU |-> 7]
OPW_M == [MULW |-> 0, DIVW |-> 4, DIVUW |-> 5, REMW |-> 6, REMUW |-> 7]
FP == [ADD |-> \H0, SUB |-> \H4, MUL |-> \H8, DIV |-> \HC, SQRT |-> \H2C, FSGN |-> \H10, MINMAX |-> \H14,
       FCVTW |-> \H60, FMVXFCLASS |-> \H70, FCMP |-> \H50, FCVTS |-> \H68, FMVW |-> \H78]
FSGN == [J |-> 0, JN |-> 1, JX |-> 2]
MINMAX == [MIN |-> 0, MAX |-> 1]
FMVXFCLASS == [FMVX |-> 0, FCLASS |-> 1]
FCMP == [FEQ |-> 2, FLT |-> 1, FLE |-> 0]

=============================================================================
