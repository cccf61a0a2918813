----------------------------- MODULE Processor ------------------------------
(***************************************************************************)
(* The RISC-V interpreter: Machine::OneInstruction of machine/machine.cc   *)
(* over the memory management unit of module Mmu and the decoder of module *)
(* Instruction, running an arbitrary program of one thread: the word that  *)
(* the fetch finds in memory is an input.                                  *)
(*                                                                         *)
(* Registers have XLEN bits and keep their unsigned value.  The code has   *)
(* XLEN = 64, ByteBits = 8 and the low words of 32 bits; instances keep    *)
(* the proportions.  float_registers are 64-bit integers in the code, so   *)
(* the floating point instructions compute with integers.                  *)
(***************************************************************************)
EXTENDS Mmu, Instruction, RiscV, Bitwise

CONSTANTS
  Regs,             \* the registers the program uses, 0 among them
  RetReg,           \* REG_RET_SYSCALL
  ImmBits,          \* bits of imm12_I, fewer than those of a low word
  UpperShift,       \* zero bits below the immediate of LUI and AUIPC
  FloatBits,        \* bits of the significand of a float
  Program,          \* the instructions, in assembly form
  InitialTable,     \* the translation table of the process
  InitialMem,       \* the contents of the physical memory
  InitialRegs,      \* possible values of the registers
  InitialPcs,       \* and of the pc
  MaxInstructions   \* bound: instructions executed

XLEN == 8 * ByteBits
WLEN == 4 * ByteBits

ASSUME ProcessorAssumption ==
  /\ 0 \in Regs /\ RetReg \in Regs \ {0}
  /\ AddrBits = WLEN /\ ImmBits < WLEN /\ UpperShift < WLEN
  /\ InitialTable \in Tables
  /\ MaxInstructions \in Nat

VARIABLES
  int_registers, float_registers, pc,
  table,    \* mmu->translationTable
  mem,      \* mainMemory
  instr,    \* the instruction being executed, in assembly form
  debug,    \* DebugIsEnabled('m')
  status,   \* "run", "halted" by an exception, "exited" or "killed" by a signal
  n_inst

vars == <<int_registers, float_registers, pc, table, mem, instr, debug, status, n_inst>>

XValues == 0 .. 2^XLEN - 1
NoInstruction == Asm("fence", 0, 0, 0, 0)

TypeOK ==
  /\ int_registers \in [Regs -> XValues] /\ float_registers \in [Regs -> XValues]
  /\ pc \in XValues
  /\ table \in Tables /\ mem \in [PhysAddrs -> Bytes]
  /\ instr \in Program \cup {NoInstruction} /\ debug \in BOOLEAN
  /\ status \in {"run", "halted", "exited", "killed"}
  /\ n_inst \in 0 .. MaxInstructions

Init ==
  /\ int_registers \in {[r \in Regs |-> IF r = 0 THEN 0 ELSE f[r]] : f \in [Regs -> InitialRegs]}
  /\ float_registers = int_registers
  /\ pc \in InitialPcs
  /\ table = InitialTable /\ mem = InitialMem
  /\ instr = NoInstruction /\ debug \in BOOLEAN
  /\ status = "run" /\ n_inst = 0

----------------------------------------------------------------------------
(* C conversions *)

Wrap(x) == x % 2^XLEN                          \* to uint64_t
Signed(x) == SignExtend(Wrap(x), XLEN)         \* to int64_t
UWord(x) == x % 2^WLEN                         \* to uint32_t
Int32(x) == SignExtend(UWord(x), WLEN)         \* to int32_t
Bool(b) == IF b THEN 1 ELSE 0

\* C division rounds towards zero.
Quotient(x, y) ==
  LET q == (IF x < 0 THEN -x ELSE x) \div (IF y < 0 THEN -y ELSE y)
  IN IF (x < 0) = (y < 0) THEN q ELSE -q
Remainder(x, y) == x - y * Quotient(x, y)

ShiftRight(x, n) == x \div 2^n                 \* arithmetic, of a signed number
shiftMask(bits, n) == 2^(bits - n) - 1

\* Bitwise operations on signed operands.
BitAnd(x, y) == Wrap(x) & Wrap(y)
BitOr(x, y) == Wrap(x) | Wrap(y)
BitXor(x, y) == Wrap(x) ^^ Wrap(y)

\* A result is a sequence: empty when the host ends the simulator with a
\* signal, as it does for a division by zero or of the least number by -1.
Divided(x, y, bits, result) ==
  IF y = 0 \/ (x = -(2^(bits - 1)) /\ y = -1) THEN <<>> ELSE <<result>>

\* An element of shiftMask before its start or past its end: the host finds
\* some number there, or ends the simulator.
shiftMaskW(n) ==
  IF n \in 0 .. WLEN - 1 THEN {<<shiftMask(WLEN, n)>>} ELSE {<<0>>, <<2^XLEN - 1>>, <<>>}

----------------------------------------------------------------------------
(* Results of the arithmetic instructions *)

Opi(d, x) ==
  LET imm == d.imm12_I_signed IN
  CASE d.funct3 = OPI.ADDI -> x + imm
    [] d.funct3 = OPI.SLLI -> x * 2^d.shamt
    [] d.funct3 = OPI.SLTI -> Bool(x < imm)
    [] d.funct3 = OPI.SLTIU -> Bool(UWord(x) < d.imm12_I % 2^ImmBits)
    [] d.funct3 = OPI.XORI -> BitXor(x, imm)
    [] d.funct3 = OPI.SRI -> IF d.funct7_smaller = 0
                       THEN BitAnd(ShiftRight(x, d.shamt), shiftMask(XLEN, d.shamt))
                       ELSE ShiftRight(x, d.shamt)
    [] d.funct3 = OPI.ORI -> BitOr(x, imm)
    [] d.funct3 = OPI.ANDI -> BitAnd(x, imm)

Opiw(d, x) ==
  LET a == Int32(x)  b == Int32(d.imm12_I_signed) IN
  CASE d.funct3 = OPIW.ADDIW -> Int32(a + b)
    [] d.funct3 = OPIW.SLLIW -> Int32(a * 2^d.rs2)
    [] d.funct3 = OPIW.SRW -> IF d.funct7 = 0
                       THEN Int32(BitAnd(ShiftRight(a, d.rs2), shiftMask(WLEN, d.rs2)))
                       ELSE ShiftRight(a, d.rs2)

OpM(d, x, y) ==
  CASE d.funct3 = OP_M.MUL -> <<x * y>>
    [] d.funct3 = OP_M.MULH -> <<IF Signed(x * y) < 0 THEN -1 ELSE 0>>
    [] d.funct3 \in {OP_M.MULHSU, OP_M.MULHU} -> <<0>>
    [] d.funct3 = OP_M.DIV -> Divided(x, y, XLEN, Quotient(x, y))
    [] d.funct3 = OP_M.DIVU -> Divided(Wrap(x), Wrap(y), XLEN, Wrap(x) \div Wrap(y))
    [] d.funct3 = OP_M.REM -> Divided(x, y, XLEN, Remainder(x, y))
    [] d.funct3 = OP_M.REMU -> Divided(Wrap(x), Wrap(y), XLEN, Wrap(x) % Wrap(y))

OpBase(d, x, y) ==
  LET amount == Wrap(y) % XLEN IN
  CASE d.funct3 = OP.ADD -> IF d.funct7 = 0 THEN x + y ELSE x - y
    [] d.funct3 = OP.SLL -> x * 2^amount
    [] d.funct3 = OP.SLT -> Bool(x < y)
    [] d.funct3 = OP.SLTU -> Bool(Wrap(x) < Wrap(y))
    [] d.funct3 = OP.XOR -> BitXor(x, y)
    [] d.funct3 = OP.SR -> IF d.funct7 = 0
                       THEN BitAnd(ShiftRight(x, amount), shiftMask(XLEN, amount))
                       ELSE ShiftRight(x, amount)
    [] d.funct3 = OP.OR -> BitOr(x, y)
    [] d.funct3 = OP.AND -> BitAnd(x, y)

OpwM(d, x, y) ==
  LET a == Int32(x)  b == Int32(y) IN
  CASE d.funct3 = OPW_M.MULW -> <<UWord(a * b)>>
    [] d.funct3 = OPW_M.DIVW -> Divided(a, b, WLEN, Quotient(a, b))
    [] d.funct3 = OPW_M.DIVUW -> Divided(UWord(x), UWord(y), WLEN, UWord(x) \div UWord(y))
    [] d.funct3 = OPW_M.REMW -> Divided(a, b, WLEN, Remainder(a, b))
    [] d.funct3 = OPW_M.REMUW -> Divided(UWord(x), UWord(y), WLEN, UWord(x) % UWord(y))

\* The right shifts do not mask their amount; the host's shift instruction
\* takes it modulo the width.
OpwBase(d, x, y) ==
  LET a == Int32(x)  b == Int32(y)  sr == ShiftRight(a, UWord(y) % WLEN) IN
  CASE d.funct3 = OPW.ADDSUBW -> {<<Int32(IF d.funct7 = 0 THEN a + b ELSE a - b)>>}
    [] d.funct3 = OPW.SLLW -> {<<Int32(a * 2^(UWord(y) % WLEN))>>}
    [] d.funct3 = OPW.SRW -> IF d.funct7 = 0
                       THEN {IF m = <<>> THEN m ELSE <<Int32(BitAnd(sr, m[1]))>>
                               : m \in shiftMaskW(b)}
                       ELSE {<<sr>>}

----------------------------------------------------------------------------
(* Floating point instructions, on 64-bit integers *)

\* A float or double out of range becomes the least number.
ToInt64(v) == IF v \in -(2^(XLEN - 1)) .. 2^(XLEN - 1) - 1 THEN v ELSE -(2^(XLEN - 1))

\* sqrt: of a negative number it is no number.
Sqrt(x) ==
  IF x < 0 THEN -(2^(XLEN - 1))
  ELSE CHOOSE r \in 0 .. 2^WLEN : r * r <= x /\ x < (r + 1) * (r + 1)

\* fabs, kept in a float: rounded to FloatBits significant bits, ties to even.
localFloat(x) ==
  LET v == IF x < 0 THEN -x ELSE x
      e == CHOOSE n \in 0 .. XLEN : /\ v < 2^(FloatBits + n)
                                    /\ n = 0 \/ v >= 2^(FloatBits + n - 1)
      q == v \div 2^e  r == v % 2^e
  IN IF 2 * r > 2^e \/ (2 * r = 2^e /\ q % 2 = 1) THEN (q + 1) * 2^e ELSE q * 2^e

Fma(d, a, b, c) ==
  CASE d.opcode = RISCV_FMADD -> a * b + c
    [] d.opcode = RISCV_FMSUB -> a * b - c
    [] d.opcode = RISCV_FNMSUB -> -a * b + c
    [] d.opcode = RISCV_FNMADD -> -a * b - c

\* Results for float_registers; x is the integer register rs1.
FpFloat(d, a, b, x) ==
  LET negative == CASE d.funct3 = FSGN.J -> b < 0
                    [] d.funct3 = FSGN.JN -> b >= 0
                    [] OTHER -> (b < 0) # (a < 0)
  IN
  CASE d.funct7 = FP.ADD -> <<a + b>>
    [] d.funct7 = FP.SUB -> <<a - b>>
    [] d.funct7 = FP.MUL -> <<a * b>>
    [] d.funct7 = FP.DIV -> Divided(a, b, XLEN, Quotient(a, b))
    [] d.funct7 = FP.SQRT -> <<Sqrt(a)>>
    [] d.funct7 = FP.FSGN -> <<ToInt64(IF negative THEN -localFloat(a) ELSE localFloat(a))>>
    [] d.funct7 = FP.MINMAX -> <<IF (d.funct3 = MINMAX.MIN) = (a < b) THEN a ELSE b>>
    [] d.funct7 = FP.FCVTS -> <<IF d.rs2 = 0 THEN x ELSE UWord(x)>>
    [] d.funct7 = FP.FMVW -> <<x>>

\* Results for int_registers.
FpInt(d, a, b) ==
  CASE d.funct7 = FP.FCVTW -> IF d.rs2 = 0 THEN a ELSE UWord(a)
    [] d.funct7 = FP.FMVXFCLASS -> a
    [] d.funct7 = FP.FCMP -> Bool(CASE d.funct3 = FCMP.FEQ -> a = b
                                 [] d.funct3 = FCMP.FLT -> a < b
                                 [] OTHER -> a <= b)

----------------------------------------------------------------------------
(* Machine::OneInstruction *)

X(r) == Signed(int_registers[r])
F(r) == Signed(float_registers[r])

\* What printDecodedInstrRISCV changes in the instruction it prints, before the
\* interpreter executes it.
printDecodedInstrRISCV(d) ==
  [d EXCEPT !.shamt = IF d.opcode = RISCV_OPIW THEN d.rs2 ELSE @,
            !.funct7 = IF d.opcode = RISCV_OPI /\ d.funct3 \in {OPI.SLLI, OPI.SRI} THEN @ % 64 ELSE @]

Decoded == [i \in Program |-> Decode(Assemble(i))]
Printed == [i \in Program |-> printDecodedInstrRISCV(Decoded[i])]

\* The fetch, with its decoding; it sets the use bit of the page.
Fetch(i) ==
  /\ Translate(table, pc, 4, FALSE) = "NO_EXCEPTION"
  /\ instr' = i
  /\ UNCHANGED debug
Fetched == Accessed(table, pc, FALSE)
pc4 == Wrap(pc + 4)

\* Every exception but a system call halts the machine.
FetchFault ==
  /\ Translate(table, pc, 4, FALSE) # "NO_EXCEPTION"
  /\ status' = "halted"
  /\ UNCHANGED <<int_registers, float_registers, pc, table, mem, instr, debug, n_inst>>

\* The end of an instruction: register 0 is cleared, the count incremented.
Finish(regs, fregs, nextpc) ==
  /\ int_registers' = [regs EXCEPT ![0] = 0]
  /\ float_registers' = fregs
  /\ pc' = Wrap(nextpc)
  /\ n_inst' = n_inst + 1
  /\ UNCHANGED status

\* The simulator stops in the middle of an instruction.
Stop(how) ==
  /\ status' = how
  /\ pc' = pc4
  /\ UNCHANGED <<int_registers, float_registers, mem, n_inst>>

SetInt(rd, v) == [int_registers EXCEPT ![rd] = Wrap(v)]
SetFloat(rd, v) == [float_registers EXCEPT ![rd] = Wrap(v)]
FinishInt(rd, v) == Finish(SetInt(rd, v), float_registers, pc4)
FinishOrDie(rd, r) == IF r = <<>> THEN Stop("killed") ELSE FinishInt(rd, r[1])

imm31_12(d) == (d.imm31_12 % 2^(WLEN - UpperShift)) * 2^UpperShift

Upper(d) ==
  /\ d.opcode \in {RISCV_LUI, RISCV_AUIPC}
  /\ FinishInt(d.rd, IF d.opcode = RISCV_LUI THEN imm31_12(d) ELSE pc + imm31_12(d))
  /\ table' = Fetched /\ UNCHANGED mem

Jump(d) ==
  /\ d.opcode \in {RISCV_JAL, RISCV_JALR}
  /\ IF d.opcode = RISCV_JAL
     THEN Finish(SetInt(d.rd, pc4), float_registers, pc + d.imm21_1_signed)
     ELSE Finish(SetInt(d.rd, Int32(pc4)), float_registers,
                 BitAnd(X(d.rs1) + d.imm12_I_signed, 2^WLEN - 2))
  /\ table' = Fetched /\ UNCHANGED mem

\* A funct3 that stands for no instruction ends the simulator (exit(ERROR)) in
\* each group; Program has none.
taken(d) ==
  LET x == X(d.rs1)  y == X(d.rs2) IN
  CASE d.funct3 = BR.BEQ -> x = y
    [] d.funct3 = BR.BNE -> x # y
    [] d.funct3 = BR.BLT -> x < y
    [] d.funct3 = BR.BGE -> x >= y
    [] d.funct3 = BR.BLTU -> Wrap(x) < Wrap(y)
    [] d.funct3 = BR.BGEU -> Wrap(x) >= Wrap(y)

Branch(d) ==
  /\ d.opcode = RISCV_BR
  /\ Finish(int_registers, float_registers, IF taken(d) THEN pc + d.imm13_signed ELSE pc4)
  /\ table' = Fetched /\ UNCHANGED mem

loadAddr(d) == X(d.rs1) + d.imm12_I_signed
storeAddr(d) == X(d.rs1) + d.imm12_S_signed

\* Bytes of a load or store.
Size(d) == 2^(d.funct3 % 4)

\* What a load keeps of the bytes read: LHU reads two into an unsigned char.
\* (ReadMem stores eight bytes through the pointer it is given, also when that
\* points at a local of one, two or four: what lies behind it is not modelled.)
Loaded(d, v) ==
  CASE d.funct3 = LD.LHU -> v % 2^ByteBits
    [] d.funct3 \in {LD.LD, LD.LBU, LD.LWU} -> v
    [] OTHER -> SignExtend(v, ByteBits * Size(d))

Load(d) ==
  LET a == loadAddr(d) IN
  /\ d.opcode = RISCV_LD
  /\ Translate(Fetched, a, Size(d), FALSE) = "NO_EXCEPTION"
  /\ FinishInt(d.rd, Loaded(d, ReadMem(table, mem, a, Size(d))))
  /\ table' = Accessed(Fetched, a, FALSE) /\ UNCHANGED mem

Store(d) ==
  LET a == storeAddr(d) IN
  /\ d.opcode = RISCV_ST
  /\ Translate(Fetched, a, Size(d), TRUE) = "NO_EXCEPTION"
  /\ mem' = WriteMem(table, mem, a, Size(d), int_registers[d.rs2])
  /\ Finish(int_registers, float_registers, pc4)
  /\ table' = Accessed(Fetched, a, TRUE)

LoadFloat(d) ==
  LET a == loadAddr(d) IN
  /\ d.opcode = RISCV_FLW
  /\ Translate(Fetched, a, 4, FALSE) = "NO_EXCEPTION"
  /\ Finish(int_registers, SetFloat(d.rd, ReadMem(table, mem, a, 4)), pc4)
  /\ table' = Accessed(Fetched, a, FALSE) /\ UNCHANGED mem

StoreFloat(d) ==
  LET a == storeAddr(d) IN
  /\ d.opcode = RISCV_FSW
  /\ Translate(Fetched, a, 4, TRUE) = "NO_EXCEPTION"
  /\ mem' = WriteMem(table, mem, a, 4, float_registers[d.rs2])
  /\ Finish(int_registers, float_registers, pc4)
  /\ table' = Accessed(Fetched, a, TRUE)

\* A load or store whose address does not translate.
AccessFault(d) ==
  LET writing == d.opcode \in {RISCV_ST, RISCV_FSW}
      a == IF writing THEN storeAddr(d) ELSE loadAddr(d)
      size == IF d.opcode \in {RISCV_LD, RISCV_ST} THEN Size(d) ELSE 4
  IN
  /\ d.opcode \in {RISCV_LD, RISCV_ST, RISCV_FLW, RISCV_FSW}
  /\ Translate(Fetched, a, size, writing) # "NO_EXCEPTION"
  /\ Stop("halted")
  /\ table' = Fetched

Arithmetic(d, x, y) ==
  /\ \/ d.opcode = RISCV_OPI /\ FinishInt(d.rd, Opi(d, x))
     \/ d.opcode = RISCV_OPIW /\ FinishInt(d.rd, Opiw(d, x))
     \/ d.opcode = RISCV_OP /\ d.funct7 = 1 /\ FinishOrDie(d.rd, OpM(d, x, y))
     \/ d.opcode = RISCV_OP /\ d.funct7 # 1 /\ FinishInt(d.rd, OpBase(d, x, y))
     \/ d.opcode = RISCV_OPW /\ d.funct7 = 1 /\ FinishOrDie(d.rd, OpwM(d, x, y))
     \/ d.opcode = RISCV_OPW /\ d.funct7 # 1 /\ \E r \in OpwBase(d, x, y) : FinishOrDie(d.rd, r)
  /\ table' = Fetched /\ UNCHANGED mem

FusedMultiply(d) ==
  /\ d.opcode \in {RISCV_FMADD, RISCV_FMSUB, RISCV_FNMSUB, RISCV_FNMADD}
  /\ Finish(int_registers, SetFloat(d.rd, Fma(d, F(d.rs1), F(d.rs2), F(d.rs3))), pc4)
  /\ table' = Fetched /\ UNCHANGED mem

FloatingPoint(d, a, b) ==
  /\ d.opcode = RISCV_FP
  /\ \/ /\ d.funct7 \in {FP.ADD, FP.SUB, FP.MUL, FP.DIV, FP.SQRT, FP.FSGN, FP.MINMAX, FP.FCVTS, FP.FMVW}
        /\ LET r == FpFloat(d, a, b, X(d.rs1)) IN
           IF r = <<>> THEN Stop("killed") ELSE Finish(int_registers, SetFloat(d.rd, r[1]), pc4)
     \/ /\ d.funct7 \in {FP.FCVTW, FP.FCMP} \/ (d.funct7 = FP.FMVXFCLASS /\ d.funct3 = FMVXFCLASS.FMVX)
        /\ FinishInt(d.rd, FpInt(d, a, b))
     \/ d.funct7 = FP.FMVXFCLASS /\ d.funct3 # FMVXFCLASS.FMVX /\ Stop("exited")
     \/ d.funct7 = 1 /\ Stop("exited")                        \* double precision
  /\ table' = Fetched /\ UNCHANGED mem

\* A system call: the kernel stores its result, or halts the machine.
System(d) ==
  /\ d.opcode = RISCV_SYSTEM
  /\ \/ \E v \in {0, -1} : FinishInt(RetReg, v)
     \/ Stop("halted")
  /\ table' = Fetched /\ UNCHANGED mem

Unknown(d) ==
  /\ d.opcode = RISCV_FENCE
  /\ Stop("exited")
  /\ table' = Fetched /\ UNCHANGED mem

Execute(d) ==
  \/ Upper(d) \/ Jump(d) \/ Branch(d) \/ Load(d) \/ Store(d) \/ LoadFloat(d) \/ StoreFloat(d)
  \/ AccessFault(d) \/ Arithmetic(d, X(d.rs1), X(d.rs2)) \/ FusedMultiply(d)
  \/ FloatingPoint(d, F(d.rs1), F(d.rs2)) \/ System(d) \/ Unknown(d)

OneInstruction(i) ==
  /\ Fetch(i)
  /\ \E d \in {IF debug THEN Printed[i] ELSE Decoded[i]} : Execute(d)

Next ==
  /\ status = "run" /\ n_inst < MaxInstructions
  /\ FetchFault \/ \E i \in Program : OneInstruction(i)

Spec == Init /\ [][Next]_vars

----------------------------------------------------------------------------
(* The architecture: what the RV64IM definition says of each instruction *)

U(r) == int_registers[r]
HighHalf(a, b) ==      \* of the product of two unsigned numbers, without their 2*XLEN bits
  LET h == 2^WLEN
      mid == (a \div h) * (b % h) + (((a % h) * (b % h)) \div h)
      mid2 == (a % h) * (b \div h) + (mid % h)
  IN (a \div h) * (b \div h) + (mid \div h) + (mid2 \div h)
HighSigned(x, y) == (x * y) \div 2^XLEN
SignWord(v) == Int32(v)

HwUpper(i) == SignWord((i.imm % 2^(WLEN - UpperShift)) * 2^UpperShift)
HwAddr(i) == Wrap(U(i.rs1) + i.imm) % 2^AddrBits

Loads == [lb |-> 1, lh |-> 2, lw |-> 4, ld |-> 8, lbu |-> 1, lhu |-> 2, lwu |-> 4, flw |-> 4]
Stores == [sb |-> 1, sh |-> 2, sw |-> 4, sd |-> 8, fsw |-> 4]
Branches == {"beq", "bne", "blt", "bge", "bltu", "bgeu"}
HwSize(i) == IF i.op \in DOMAIN Loads THEN Loads[i.op] ELSE Stores[i.op]

\* Each byte of an access goes through the page table by itself.
HwByte(i, k) == physAddr(table, HwAddr(i) + k)
HwAllowed(i, k) == Translate(table, HwAddr(i) + k, 1, i.op \in DOMAIN Stores) = "NO_EXCEPTION"
HwFaults(i) ==
  /\ i.op \in DOMAIN Loads \cup DOMAIN Stores
  /\ Misaligned(HwAddr(i), HwSize(i)) \/ \E k \in 0 .. HwSize(i) - 1 : ~HwAllowed(i, k)
HwRead(i) ==
  LET v[n \in 0 .. HwSize(i)] ==
        IF n = 0 THEN 0 ELSE v[n - 1] + mem[HwByte(i, n - 1)] * 2^(ByteBits * (n - 1))
  IN v[HwSize(i)]

HwTaken(i) ==
  LET x == X(i.rs1)  y == X(i.rs2) IN
  CASE i.op = "beq" -> x = y [] i.op = "bne" -> x # y
    [] i.op = "blt" -> x < y [] i.op = "bge" -> ~(x < y)
    [] i.op = "bltu" -> U(i.rs1) < U(i.rs2) [] i.op = "bgeu" -> ~(U(i.rs1) < U(i.rs2))

HwPc(i) ==
  CASE i.op = "jal" -> pc + i.imm
    [] i.op = "jalr" -> 2 * (Wrap(U(i.rs1) + i.imm) \div 2)
    [] i.op \in Branches -> IF HwTaken(i) THEN pc + i.imm ELSE pc + 4
    [] OTHER -> pc + 4

\* The value of rd.
HwValue(i) ==
  LET x == X(i.rs1)  y == X(i.rs2)  u == U(i.rs1)  v == U(i.rs2)  n == i.imm
      w == SignWord(x)  z == SignWord(y)
  IN
  CASE i.op = "lui" -> HwUpper(i) [] i.op = "auipc" -> pc + HwUpper(i)
    [] i.op \in {"jal", "jalr"} -> pc + 4
    [] i.op \in {"lb", "lh", "lw"} -> SignExtend(HwRead(i), ByteBits * HwSize(i))
    [] i.op \in {"lbu", "lhu", "lwu", "ld"} -> HwRead(i)
    [] i.op = "addi" -> x + n [] i.op = "slti" -> Bool(x < n) [] i.op = "sltiu" -> Bool(u < Wrap(n))
    [] i.op = "xori" -> BitXor(u, n) [] i.op = "ori" -> BitOr(u, n) [] i.op = "andi" -> BitAnd(u, n)
    [] i.op = "slli" -> x * 2^n [] i.op = "srli" -> u \div 2^n [] i.op = "srai" -> x \div 2^n
    [] i.op = "addiw" -> SignWord(x + n) [] i.op = "slliw" -> SignWord(w * 2^n)
    [] i.op = "srliw" -> SignWord(UWord(u) \div 2^n) [] i.op = "sraiw" -> w \div 2^n
    [] i.op = "add" -> x + y [] i.op = "sub" -> x - y
    [] i.op = "sll" -> x * 2^(v % XLEN) [] i.op = "slt" -> Bool(x < y) [] i.op = "sltu" -> Bool(u < v)
    [] i.op = "xor" -> BitXor(u, v) [] i.op = "or" -> BitOr(u, v) [] i.op = "and" -> BitAnd(u, v)
    [] i.op = "srl" -> u \div 2^(v % XLEN) [] i.op = "sra" -> x \div 2^(v % XLEN)
    [] i.op = "mul" -> x * y [] i.op = "mulh" -> HighSigned(x, y)
    [] i.op = "mulhsu" -> IF x < 0 THEN HighHalf(u, v) - v ELSE HighHalf(u, v)
    [] i.op = "mulhu" -> HighHalf(u, v)
    [] i.op = "div" -> IF v = 0 THEN -1 ELSE Quotient(x, y)
    [] i.op = "divu" -> IF v = 0 THEN -1 ELSE u \div v
    [] i.op = "rem" -> IF v = 0 THEN x ELSE Remainder(x, y)
    [] i.op = "remu" -> IF v = 0 THEN x ELSE u % v
    [] i.op = "addw" -> SignWord(x + y) [] i.op = "subw" -> SignWord(x - y)
    [] i.op = "sllw" -> SignWord(w * 2^(v % WLEN))
    [] i.op = "srlw" -> SignWord(UWord(u) \div 2^(v % WLEN)) [] i.op = "sraw" -> w \div 2^(v % WLEN)
    [] i.op = "mulw" -> SignWord(w * z)
    [] i.op = "divw" -> IF z = 0 THEN -1 ELSE SignWord(Quotient(w, z))
    [] i.op = "divuw" -> IF z = 0 THEN -1 ELSE SignWord(UWord(u) \div UWord(v))
    [] i.op = "remw" -> IF z = 0 THEN w ELSE Remainder(w, z)
    [] i.op = "remuw" -> IF z = 0 THEN w ELSE SignWord(UWord(u) % UWord(v))

NoResult == Branches \cup DOMAIN Stores \cup {"flw"}
HwRegs(i) ==
  IF i.op \in NoResult \/ i.rd = 0 THEN int_registers
  ELSE [int_registers EXCEPT ![i.rd] = Wrap(HwValue(i))]

HwMem(i) ==
  IF i.op \notin DOMAIN Stores THEN mem
  ELSE LET v == IF i.op = "fsw" THEN float_registers[i.rs2] ELSE U(i.rs2)
           at(p) == {k \in 0 .. HwSize(i) - 1 : HwByte(i, k) = p}
       IN [p \in DOMAIN mem |-> IF at(p) = {} THEN mem[p]
                                ELSE ByteOf(v, CHOOSE k \in at(p) : TRUE)]

HwFloats(i) ==
  IF i.op = "flw" THEN [float_registers EXCEPT ![i.rd] = HwRead(i)] ELSE float_registers

\* The integer instructions, and the moves between memory and the floating
\* point registers; the rest of floating point is a declared exception.
Compared == {i \in Program : Formats[i.op].opcode \notin
               {RISCV_SYSTEM, RISCV_FENCE, RISCV_FP, RISCV_FMADD, RISCV_FMSUB, RISCV_FNMSUB, RISCV_FNMADD}}

\* The cases in which the interpreter is known to leave the architecture:
\* LUI and AUIPC do not extend the sign; JALR drops the upper half of its target
\* and link; LHU keeps one byte; SLTIU compares the low word with the immediate
\* taken as unsigned; MULH, MULHSU and MULHU work on the truncated product; MULW,
\* DIVUW and REMUW do not extend the sign; SRLW does not mask its amount; an access
\* of eight bytes is checked for its first page only; a division by zero or an
\* overflowing one stops the simulator.
Divergent(i) ==
  LET x == X(i.rs1)  y == X(i.rs2)  u == U(i.rs1)  v == U(i.rs2) IN
  \/ i.op \in {"lui", "auipc"} /\ HwUpper(i) < 0
  \/ i.op = "jalr" /\ (Wrap(u + i.imm) >= 2^WLEN \/ pc + 4 >= 2^(WLEN - 1))
  \/ i.op = "lhu" /\ ~HwFaults(i) /\ HwRead(i) >= 2^ByteBits
  \/ i.op = "sltiu" /\ (i.imm < 0 \/ u >= 2^WLEN)
  \/ i.op = "mulh" /\ HighSigned(x, y) # (IF Signed(x * y) < 0 THEN -1 ELSE 0)
  \/ i.op = "mulhsu" /\ (x < 0 \/ HighHalf(u, v) # 0)
  \/ i.op = "mulhu" /\ HighHalf(u, v) # 0
  \/ i.op \in {"mulw", "divuw", "remuw"} /\ HwValue(i) < 0
  \/ i.op = "srlw" /\ UWord(v) >= WLEN
  \/ i.op \in {"ld", "sd"} /\ offset(HwAddr(i)) + 8 > PageSize
  \/ i.op \in {"div", "divu", "rem", "remu"} /\ (v = 0 \/ (y = -1 /\ x = -(2^(XLEN - 1))))
  \/ i.op \in {"divw", "divuw", "remw", "remuw"}
       /\ (UWord(v) = 0 \/ (Int32(y) = -1 /\ Int32(x) = -(2^(WLEN - 1))))

\* An executed instruction changes the registers, the pc and the memory as the
\* architecture says, whether or not it was printed first for the debugger; and
\* the machine stops for one only where the architecture raises an exception.
\* This is the promise of class Machine, outside the divergences listed above.
MatchesHardware ==
  [][instr' \in Compared /\ ~Divergent(instr') /\ (n_inst' # n_inst \/ pc' # pc) =>
       /\ status' = "run" => /\ int_registers' = HwRegs(instr')
                             /\ float_registers' = HwFloats(instr')
                             /\ pc' = Wrap(HwPc(instr'))
                             /\ mem' = HwMem(instr')
       /\ (status' = "run") <=> ~HwFaults(instr')]_vars

\* A byte of memory changes only in a page whose table entry then says it is
\* modified, and whose entry allows writing: what the replacement of pages and
\* the protection of code rely on.  An access of eight bytes that leaves its page
\* is the exception.
ModifiedPagesKnown ==
  [][\A p \in PhysAddrs :
       mem'[p] # mem[p] /\ ~Divergent(instr') =>
         \E v \in VirtPages : /\ table'[v].phys = p \div PageSize
                              /\ table'[v].dirty /\ table'[v].write]_vars

=============================================================================
