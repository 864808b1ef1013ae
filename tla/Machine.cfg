SPECIFICATION MachineSpec
CONSTANTS
  Block = 8192
  Programs <- MCPrograms
INVARIANTS ProgramResult EiHolds
PROPERTY Terminates
