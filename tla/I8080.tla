------------------------------- MODULE I8080 -------------------------------
(***************************************************************************)
(* The processor of the machine (i8080.cpp) with the hardware abstraction  *)
(* layer under it (hal.cpp): operators from a state of the processor to    *)
(* the state after an instruction, for the board to step.                  *)
(*                                                                         *)
(* A state s is a record: r, the registers by their number in an opcode;   *)
(* F, the byte of the flags that PUSH PSW stored last, and the flags       *)
(* themselves, S, Z, H, P and C, each 0 or 1; sp and pc; iff, whether an   *)
(* interrupt can be acknowledged, and ei_pending, the instructions until   *)
(* an EI takes effect; cycles, the cycles of the processor and of the      *)
(* machine that the last instruction took; mem, the memory; inte and irq,  *)
(* the flip-flops of the board that hal_iff() reaches; out, what an OUT    *)
(* has latched, or Nothing; bus, what a port answers an IN.                *)
(*                                                                         *)
(* An opcode is read as three fields of the octal number xyz that it is,   *)
(* where the code has a case for each.                                     *)
(***************************************************************************)
EXTENDS KvazMemory, FiniteSets

Byte == 0..255
Word == {n \in Nat : n < 65536}

B == 0
C == 1
D == 2
E == 3
H == 4
L == 5
M == 6            \* in an opcode: the byte that HL points at
A == 7
Registers == {B, C, D, E, H, L, A}
SP == 3           \* in an opcode: the fourth pair is SP, or AF
AF == 3

HLT == \o166
EI == \o373
OUT == \o323
RST7 == \o377

Nothing == <<>>
Flag(condition) == IF condition THEN 1 ELSE 0
Next16(addr, n) == (addr + n) % 65536

-----------------------------------------------------------------------------
(* Memory, as the HAL passes it on; stack marks the bus cycles of a stack.  *)

RD_BYTE(s, addr) == read(s.mem, addr, FALSE)
WR_BYTE(s, addr, w8) == [s EXCEPT !.mem = write(s.mem, addr, w8, FALSE)]
ReadWord(s, addr, stack) ==
  read(s.mem, addr, stack) + (256 * read(s.mem, Next16(addr, 1), stack))
WriteWord(s, addr, word, stack) ==
  [s EXCEPT !.mem = write(write(s.mem, addr, word % 256, stack),
                          Next16(addr, 1), word \div 256, stack)]
RD_WORD(s, addr) == ReadWord(s, addr, FALSE)
RD_STACK(s, addr) == ReadWord(s, addr, TRUE)

Pair(s, rp) == IF rp = SP THEN s.sp ELSE (256 * s.r[2 * rp]) + s.r[(2 * rp) + 1]
SetPair(s, rp, word) ==
  IF rp = SP THEN [s EXCEPT !.sp = word]
  ELSE [s EXCEPT !.r[2 * rp] = word \div 256, !.r[(2 * rp) + 1] = word % 256]
HL(s) == Pair(s, 2)

Operand(s, y) == IF y = M THEN RD_BYTE(s, HL(s)) ELSE s.r[y]
SetOperand(s, y, w8) == IF y = M THEN WR_BYTE(s, HL(s), w8) ELSE [s EXCEPT !.r[y] = w8]

Skip(s, n) == [s EXCEPT !.pc = Next16(@, n)]
Jump(s, addr) == [s EXCEPT !.pc = addr]

PUSH(s, word) ==
  LET top == Next16(s.sp, -2) IN WriteWord([s EXCEPT !.sp = top], top, word, TRUE)
Popped(s) == [s EXCEPT !.sp = Next16(@, 2)]
RET(s) == Jump(Popped(s), RD_STACK(s, s.sp))
(* The destination is fetched with a stack request too.                    *)
CALL(s) == LET t == PUSH(s, Next16(s.pc, 2)) IN Jump(t, RD_STACK(t, t.pc))
RST(s, addr) == Jump(PUSH(s, s.pc), addr)

-----------------------------------------------------------------------------
(* The flags.                                                              *)

(* The bits of a byte by their values, and the byte of a set of bits.      *)
BitsOf(w8) == {bit \in {1, 2, 4, 8, 16, 32, 64, 128} : (w8 \div bit) % 2 = 1}
ByteOf(bits) ==
  LET value(bit) == IF bit \in bits THEN bit ELSE 0 IN
  value(1) + value(2) + value(4) + value(8)
    + value(16) + value(32) + value(64) + value(128)

parity_table == [w8 \in Byte |-> Flag(Cardinality(BitsOf(w8)) % 2 = 0)]
half_carry_table == <<0, 0, 1, 0, 1, 0, 1, 1>>
sub_half_carry_table == <<0, 1, 1, 1, 0, 0, 0, 1>>

SignZeroParity(s, w8) ==
  [s EXCEPT !.S = w8 \div 128, !.Z = Flag(w8 = 0), !.P = parity_table[w8]]

StoredFlags(s) == (128 * s.S) + (64 * s.Z) + (16 * s.H) + (4 * s.P) + 2 + s.C
i8080_store_flags(s) == [s EXCEPT !.F = StoredFlags(s)]
i8080_retrieve_flags(s) ==
  LET bit(n) == (s.F \div n) % 2 IN
  [s EXCEPT !.S = bit(128), !.Z = bit(64), !.H = bit(16), !.P = bit(4), !.C = bit(1)]

(* The flags a condition of a jump, call or return tests, by its number.   *)
Taken(s, y) == (<<s.Z, s.C, s.P, s.S>>[(y \div 2) + 1] = 1) <=> (y % 2 = 1)

-----------------------------------------------------------------------------
(* Arithmetic.                                                             *)

INR(s, y) ==
  LET w8 == (Operand(s, y) + 1) % 256 IN
  [SignZeroParity(SetOperand(s, y, w8), w8) EXCEPT !.H = Flag(w8 % 16 = 0)]
DCR(s, y) ==
  LET w8 == (Operand(s, y) - 1) % 256 IN
  [SignZeroParity(SetOperand(s, y, w8), w8) EXCEPT !.H = Flag(w8 % 16 # 15)]

Bit3(n) == (n \div 8) % 2
Index(a, val, work16) == (4 * Bit3(a)) + (2 * Bit3(val)) + Bit3(work16) + 1

(* What is left in A and in the flags; the borrow of a difference is bit 8 *)
(* of its 16 too.                                                          *)
Result(s, work16, halfcarry) ==
  [SignZeroParity(s, work16 % 256) EXCEPT
     !.r[A] = work16 % 256, !.C = (work16 \div 256) % 2, !.H = halfcarry]
ADC(s, val, carry) ==
  LET work16 == s.r[A] + val + carry IN
  Result(s, work16, half_carry_table[Index(s.r[A], val, work16)])
SBB(s, val, carry) ==
  LET work16 == (s.r[A] - val - carry) % 65536 IN
  Result(s, work16, 1 - sub_half_carry_table[Index(s.r[A], val, work16)])
CMP(s, val) == [SBB(s, val, 0) EXCEPT !.r[A] = s.r[A]]

Logic(s, w8, halfcarry) ==
  [SignZeroParity(s, w8) EXCEPT !.r[A] = w8, !.H = halfcarry, !.C = 0]
ANA(s, val) ==
  Logic(s, ByteOf(BitsOf(s.r[A]) \cap BitsOf(val)), Flag(8 \in BitsOf(s.r[A]) \cup BitsOf(val)))
XRA(s, val) ==
  LET a == BitsOf(s.r[A])
      b == BitsOf(val)
  IN Logic(s, ByteOf((a \ b) \cup (b \ a)), 0)
ORA(s, val) == Logic(s, ByteOf(BitsOf(s.r[A]) \cup BitsOf(val)), 0)

(* The eight operations of a row of opcodes, by number.                     *)
Alu(s, y, val) ==
  CASE y = 0 -> ADC(s, val, 0)   [] y = 1 -> ADC(s, val, s.C)
    [] y = 2 -> SBB(s, val, 0)   [] y = 3 -> SBB(s, val, s.C)
    [] y = 4 -> ANA(s, val)      [] y = 5 -> XRA(s, val)
    [] y = 6 -> ORA(s, val)      [] y = 7 -> CMP(s, val)

DAD(s, word) ==
  LET work32 == HL(s) + word IN
  [SetPair(s, 2, work32 % 65536) EXCEPT !.C = work32 \div 65536]

(* A mutant of DAA: the carry of the decimal result is not kept.            *)
LosesCarry(s) ==
  LET a == s.r[A]
      low == IF s.H = 1 \/ a % 16 > 9 THEN 6 ELSE 0
      high == s.C = 1 \/ a \div 16 > 9 \/ (a \div 16 >= 9 /\ a % 16 > 9)
  IN ADC(s, low + IF high THEN 96 ELSE 0, 0)
DAA(s) ==
  LET a == s.r[A]
      low == IF s.H = 1 \/ a % 16 > 9 THEN 6 ELSE 0
      high == s.C = 1 \/ a \div 16 > 9 \/ (a \div 16 >= 9 /\ a % 16 > 9)
  IN [ADC(s, low + IF high THEN 96 ELSE 0, 0) EXCEPT !.C = Flag(high)]

(* RLC, RRC, RAL, RAR, DAA, CMA, STC and CMC.                              *)
Accumulator(s, y) ==
  LET a == s.r[A]
      left(in) == [s EXCEPT !.r[A] = ((2 * a) % 256) + in, !.C = a \div 128]
      right(in) == [s EXCEPT !.r[A] = (a \div 2) + (128 * in), !.C = a % 2]
  IN CASE y = 0 -> left(a \div 128)  [] y = 1 -> right(a % 2)
       [] y = 2 -> left(s.C)         [] y = 3 -> right(s.C)
       [] y = 4 -> DAA(s)            [] y = 5 -> [s EXCEPT !.r[A] = 255 - a]
       [] y = 6 -> [s EXCEPT !.C = 1] [] y = 7 -> [s EXCEPT !.C = 1 - @]

-----------------------------------------------------------------------------
(* i8080_hal_iff(): Board::interrupt().  INTE low clears the request.       *)
hal_iff(s, on) == [s EXCEPT !.inte = on, !.irq = @ /\ on]

(* A mutant of EnableInterrupts: they are enabled with EI itself.           *)
EnablesAtOnce(s) == [hal_iff(s, TRUE) EXCEPT !.iff = FALSE, !.ei_pending = 1]
EnableInterrupts(s) == [hal_iff(s, TRUE) EXCEPT !.iff = FALSE, !.ei_pending = 2]
DisableInterrupts(s) == [hal_iff(s, FALSE) EXCEPT !.iff = FALSE, !.ei_pending = 0]

(* Loads and stores of A through BC and DE, and of HL and A at an address. *)
Transfer(s, y) ==
  LET word == RD_WORD(s, s.pc)
      t == Skip(s, 2)
  IN CASE y \in {0, 2} -> WR_BYTE(s, Pair(s, y \div 2), s.r[A])
       [] y \in {1, 3} -> [s EXCEPT !.r[A] = RD_BYTE(s, Pair(s, y \div 2))]
       [] y = 4 -> WriteWord(t, word, HL(s), FALSE)
       [] y = 5 -> SetPair(t, 2, RD_WORD(s, word))
       [] y = 6 -> WR_BYTE(t, word, s.r[A])
       [] y = 7 -> [t EXCEPT !.r[A] = RD_BYTE(s, word)]

(* The opcodes 0yz.                                                        *)
Row0(s, y, z) ==
  LET rp == y \div 2 IN
  CASE z = 0 -> s
    [] z = 1 -> IF y % 2 = 0 THEN SetPair(Skip(s, 2), rp, RD_WORD(s, s.pc))
                ELSE DAD(s, Pair(s, rp))
    [] z = 2 -> Transfer(s, y)
    [] z = 3 -> SetPair(s, rp, Next16(Pair(s, rp), IF y % 2 = 0 THEN 1 ELSE -1))
    [] z = 4 -> INR(s, y)
    [] z = 5 -> DCR(s, y)
    [] z = 6 -> SetOperand(Skip(s, 1), y, RD_BYTE(s, s.pc))
    [] z = 7 -> Accumulator(s, y)

PopPair(s, rp) ==
  LET word == RD_STACK(s, s.sp) IN
  IF rp = AF
  THEN i8080_retrieve_flags([Popped(s) EXCEPT !.r[A] = word \div 256, !.F = word % 256])
  ELSE SetPair(Popped(s), rp, word)
PushPair(s, rp) ==
  IF rp = AF THEN PUSH(i8080_store_flags(s), (256 * s.r[A]) + StoredFlags(s))
  ELSE PUSH(s, Pair(s, rp))

(* JMP, OUT, IN, XTHL, XCHG, DI and EI.                                    *)
Special(s, y) ==
  CASE y \in {0, 1} -> Jump(s, RD_WORD(s, s.pc))
    [] y = 2 -> [Skip(s, 1) EXCEPT !.out = <<RD_BYTE(s, s.pc), s.r[A]>>]
    [] y = 3 -> [Skip(s, 1) EXCEPT !.r[A] = s.bus]
    [] y = 4 -> SetPair(WriteWord(s, s.sp, HL(s), TRUE), 2, RD_STACK(s, s.sp))
    [] y = 5 -> SetPair(SetPair(s, 1, HL(s)), 2, Pair(s, 1))
    [] y = 6 -> DisableInterrupts(s)
    [] y = 7 -> EnableInterrupts(s)

(* The opcodes 3yz.                                                        *)
Row3(s, y, z) ==
  LET rp == y \div 2 IN
  CASE z = 0 -> IF Taken(s, y) THEN RET(s) ELSE s
    [] z = 1 /\ y % 2 = 0 -> PopPair(s, rp)
    [] z = 1 /\ y \in {1, 3} -> RET(s)
    [] z = 1 /\ y = 5 -> Jump(s, HL(s))
    [] z = 1 /\ y = 7 -> [s EXCEPT !.sp = HL(s)]
    [] z = 2 -> IF Taken(s, y) THEN Jump(s, RD_WORD(s, s.pc)) ELSE Skip(s, 2)
    [] z = 3 -> Special(s, y)
    [] z = 4 -> IF Taken(s, y) THEN CALL(s) ELSE Skip(s, 2)
    [] z = 5 -> IF y % 2 = 0 THEN PushPair(s, rp) ELSE CALL(s)
    [] z = 6 -> Alu(Skip(s, 1), y, RD_BYTE(s, s.pc))
    [] z = 7 -> RST(s, 8 * y)

MOV(s, y, z) == SetOperand(s, y, Operand(s, z))

Effect(s, opcode) ==
  LET x == opcode \div 64
      y == (opcode \div 8) % 8
      z == opcode % 8
  IN CASE x = 0 -> Row0(s, y, z)
       [] opcode = HLT -> Skip(s, -1)
       [] x = 1 /\ opcode # HLT -> MOV(s, y, z)
       [] x = 2 -> Alu(s, y, Operand(s, z))
       [] x = 3 -> Row3(s, y, z)

(* The processor's cycles and those of the machine, whose bus lets each    *)
(* cycle of an instruction begin at every fourth clock only.               *)
Cycles(s, opcode) ==
  LET x == opcode \div 64
      y == (opcode \div 8) % 8
      z == opcode % 8
      memory == M \in {y, z}
  IN CASE opcode = HLT \/ opcode \in {\o353, \o363, \o373} -> <<4, 4>>
       [] x = 0 /\ z \in {0, 7} -> <<4, 4>>
       [] x = 0 /\ z = 1 -> <<10, 12>>
       [] x = 0 /\ z = 2 -> IF y < 4 THEN <<7, 8>> ELSE IF y < 6 THEN <<16, 20>> ELSE <<13, 16>>
       [] x = 0 /\ z = 3 -> <<5, 8>>
       [] x = 0 /\ z \in {4, 5} -> IF y = M THEN <<10, 12>> ELSE <<5, 8>>
       [] x = 0 /\ z = 6 -> IF y = M THEN <<10, 12>> ELSE <<7, 8>>
       [] x = 1 /\ opcode # HLT -> IF memory THEN <<7, 8>> ELSE <<5, 8>>
       [] x = 2 -> IF z = M THEN <<7, 8>> ELSE <<4, 4>>
       [] x = 3 /\ z = 0 -> IF Taken(s, y) THEN <<11, 16>> ELSE <<5, 8>>
       [] x = 3 /\ z = 1 -> IF y \in {0, 2, 4} THEN <<11, 12>>
                           ELSE IF y \in {5, 7} THEN <<5, 8>> ELSE <<10, 12>>
       [] x = 3 /\ z = 2 -> <<10, 12>>
       [] x = 3 /\ z = 3 /\ y < 4 -> <<10, 12>>
       [] opcode = \o343 -> <<18, 24>>
       [] x = 3 /\ z = 4 -> IF Taken(s, y) THEN <<17, 24>> ELSE <<11, 16>>
       [] x = 3 /\ z = 5 -> IF y % 2 = 0 THEN <<11, 16>> ELSE <<17, 24>>
       [] x = 3 /\ z = 6 -> <<7, 8>>
       [] x = 3 /\ z = 7 -> <<11, 16>>

i8080_execute(s, opcode) ==
  LET t == Effect(s, opcode)
      pending == IF t.ei_pending = 0 THEN 0 ELSE t.ei_pending - 1
      enabled == IF t.ei_pending = 1 THEN [hal_iff(t, TRUE) EXCEPT !.iff = TRUE] ELSE t
  IN [enabled EXCEPT !.ei_pending = pending, !.cycles = Cycles(s, opcode)]

i8080_instruction(s) == i8080_execute(Skip(s, 1), RD_BYTE(s, s.pc))
=============================================================================
