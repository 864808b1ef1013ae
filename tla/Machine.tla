------------------------------ MODULE Machine ------------------------------
(***************************************************************************)
(* The machine running a program (Board): the loop of execute_frame(),     *)
(* with the fusion of the processor's interrupt logic and the board's      *)
(* interrupt request in check_interrupt() and single_step().               *)
(*                                                                         *)
(* The raster asks for an interrupt once a frame, at a place that no       *)
(* program can foresee: in any instruction, and early or late in it.  The  *)
(* programs here are far shorter than a frame, so that a second request    *)
(* comes only to a processor that waits in HLT.  Each program knows the    *)
(* results it must have left in memory when it stops, whatever interrupts  *)
(* came.                                                                   *)
(***************************************************************************)
EXTENDS I8080

CONSTANT Programs    \* what is loaded, and the results promised: see ProgramsAssumption

ASSUME ProgramsAssumption ==
  \A program \in Programs :
    /\ DOMAIN program = {"rom", "expect"}
    /\ DOMAIN program.rom \subseteq 0..(TotalMemory - 1)
    /\ \A cell \in DOMAIN program.rom : program.rom[cell] \in Byte
    /\ DOMAIN program.expect \subseteq DOMAIN program.rom

VARIABLES
  machine,       \* the processor, the memory and the interrupt flip-flops
  last_opcode,
  irq_carry,     \* a request came too late in the last instruction
  due,           \* the raster may ask: not in this frame already
  expect         \* the bytes the program may leave, cell by cell

machineVars == <<machine, last_opcode, irq_carry, due, expect>>

(* Port 0x10 reaches the memory when the OUT has been drawn.               *)
commit(s) ==
  IF s.out # Nothing /\ s.out[1] = 16
  THEN [s EXCEPT !.mem = control_write(@, s.out[2]), !.out = Nothing]
  ELSE [s EXCEPT !.out = Nothing]

(* load_rom() and reset(LOADROM): memory cleared and loaded, sp set, and   *)
(* i8080_init().  The interrupt enables are those the last program left:   *)
(* disabled, enabled, enabled by an EI just executed, or in a handler.     *)
Loaded(rom, iff, ei_pending, inte) ==
  [r |-> [n \in Registers |-> \h5a], F |-> 2,
   S |-> 0, Z |-> 0, H |-> 0, P |-> 0, C |-> 0,
   sp |-> \hc300, pc |-> 0, iff |-> iff, ei_pending |-> ei_pending,
   cycles |-> <<4, 4>>, inte |-> inte, irq |-> FALSE, out |-> Nothing, bus |-> 255,
   mem |-> [bytes |-> [cell \in {tobank(addr) : addr \in DOMAIN rom} |->
                         rom[CHOOSE addr \in DOMAIN rom : tobank(addr) = cell]],
            boot |-> <<>>, mode_stack |-> FALSE, mode_map |-> FALSE,
            page_map |-> 0, page_stack |-> 0]]

MachineInit ==
  /\ \E program \in Programs,
        left \in {<<FALSE, 0, FALSE>>, <<TRUE, 0, TRUE>>, <<FALSE, 1, TRUE>>, <<TRUE, 0, FALSE>>} :
       /\ machine = Loaded(program.rom, left[1], left[2], left[3])
       /\ expect = program.expect
  /\ last_opcode = 0 /\ irq_carry = FALSE /\ due = TRUE

(* check_interrupt() *)
Accepts == machine.irq /\ machine.iff

(* A mutant of Acknowledged: an HLT is not left.                            *)
StaysHalted(s) == i8080_execute(hal_iff(s, FALSE), RST7)
Acknowledged(s) ==
  LET low == hal_iff(s, FALSE) IN
  i8080_execute(IF last_opcode = HLT THEN Skip(low, 1) ELSE low, RST7)

(* The cycles of the last machine cycle of long instructions: see the      *)
(* comment in single_step().                                               *)
thresh(cycles) ==
  CASE cycles \in {11, 13} -> 15
    [] cycles = 17 -> 23
    [] cycles = 18 -> 21
    [] cycles \notin {11, 13, 17, 18} -> cycles

(* single_step() after check_interrupt(): raster is where in the           *)
(* instruction the request came, if it did.                                *)
Step(raster) ==
  LET ready == IF Accepts THEN Acknowledged(machine) ELSE machine
      opcode == RD_BYTE(ready, ready.pc)
      after == i8080_instruction(ready)
      instr_time == after.cycles[2] + IF Accepts THEN 16 ELSE 0
      requested == raster = "early" \/ (raster = "none" /\ irq_carry)
  IN /\ raster # "none" => due
     /\ raster = "late" => instr_time > thresh(after.cycles[1])
     /\ machine' = commit([after EXCEPT !.irq = @ \/ (requested /\ after.inte)])
     /\ last_opcode' = opcode
     /\ irq_carry' = IF raster = "early" THEN irq_carry ELSE raster = "late"
     /\ due' = (raster = "none" /\ (due \/ (opcode = HLT /\ last_opcode = HLT /\ ~Accepts)))
     /\ UNCHANGED expect

MachineNext == \E raster \in {"none", "early", "late"} : Step(raster)

(* A frame is executed 50 times a second, and the raster asks in each.     *)
(* Some step that changes the state is always possible, so that this is    *)
(* WF_machineVars(MachineNext), with nothing left to find out about what is ENABLED.     *)
MachineSpec == MachineInit /\ [][MachineNext]_machineVars /\ []<><<MachineNext>>_machineVars

-----------------------------------------------------------------------------
(* The type invariant: registers and flags keep the width of the code's,   *)
(* and a request needs the board's INTE.                                   *)
MachineTypeOK ==
  /\ machine.r \in [Registers -> Byte] /\ machine.F \in Byte
  /\ {machine.S, machine.Z, machine.H, machine.P, machine.C} \subseteq {0, 1}
  /\ machine.sp \in Word /\ machine.pc \in Word
  /\ machine.ei_pending \in 0..1 /\ machine.out = Nothing
  /\ \A cell \in DOMAIN machine.mem.bytes : machine.mem.bytes[cell] \in Byte
  /\ machine.irq => machine.inte
  /\ last_opcode \in Byte /\ {irq_carry, due} \subseteq BOOLEAN

(* The programs end in DI and HLT.                                         *)
Halted == last_opcode = HLT /\ ~machine.inte

(* A program that has stopped has left the result it computes, wherever    *)
(* interrupts came: the interrupt handler's PUSH PSW and POP PSW, the      *)
(* instruction that was interrupted, what DI and EI protect and the pages  *)
(* of the RAM disk are as the program needs them (i8080_execute(),         *)
(* check_interrupt(), single_step()).                                      *)
ProgramResult ==
  Halted => /\ \A addr \in DOMAIN expect : machine.mem.bytes[tobank(addr)] \in expect[addr]
            /\ machine.sp = \hc300

(* "EI instruction sets INTE high, but holds acknowledge until an          *)
(* instruction after" (single_step()): no interrupt is taken right after   *)
(* an EI, so that a handler's EI and RET leave the stack as it was.        *)
EiHolds == Accepts => last_opcode # EI

(* Every program stops: no request that it waits for is lost, and each     *)
(* HLT it waits in is left.                                                *)
Terminates == <>[]Halted
=============================================================================
