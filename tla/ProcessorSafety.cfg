SPECIFICATION Spec
CONSTANTS
  PageSize = 8
  NumPhysPages = 3
  MaxVirtPages = 3
  ByteBits = 2
  AddrBits = 8
  Regs = {0, 1, 2}
  RetReg = 1
  ImmBits = 4
  UpperShift = 4
  FloatBits = 6
  Program <- MCProgram
  InitialTable <- MCTable
  InitialMem <- MCMem
  InitialRegs <- MCRegs
  InitialPcs = {0, 12}
  MaxInstructions = 2
CHECK_DEADLOCK FALSE
INVARIANTS
  TypeOK
PROPERTIES
  MatchesHardware
  ModifiedPagesKnown
