----------------------------- MODULE Timer8253 -----------------------------
(***************************************************************************)
(* One counter of the i8253 (CounterUnit): a control word sets its mode or *)
(* latches its value, its count is written and its value read a byte at a  *)
(* time, and Board counts it after every instruction.  The three counters  *)
(* of the chip share nothing.                                              *)
(*                                                                         *)
(* A byte holds one digit, of Hex values in binary and of Ten decimal      *)
(* ones, where the chip's holds two of 16 and of 10.                       *)
(***************************************************************************)
EXTENDS Integers, Sequences

CONSTANTS
  Hex, Ten,   \* a byte is 0..Hex-1, a decimal digit 0..Ten-1
  Written,    \* the bytes the program writes
  Apart,      \* bound: counts from one access to the next
  Drift       \* bound: how far a square wave of period 1 runs below zero

ASSUME TimerAssumption ==
  /\ Hex \in Nat /\ Ten \in 2..Hex /\ Hex % 2 = 0 /\ Ten % 2 = 0
  /\ Written \subseteq 0..(Hex - 1)
  /\ Apart \in Nat /\ Apart >= 4 /\ Drift \in Nat

VARIABLES
  c,         \* the fields of the CounterUnit
  gap,       \* counts since the last access, up to Apart
  effective, \* what the running counter was last loaded with, -1 before that
  ticks,     \* counts since then; a rate generator's since its last reload
  wave,      \* counts since the square wave last changed, and whether it
             \* started on a full count: <<counts, steady>>
  paired     \* a latched value and the two bytes read of it, as they come

vars == <<c, gap, effective, ticks, wave, paired>>

Word == Hex * Hex
None == -1
Start == Ten * Ten   \* the decimal counter's 10000

tobcd(x) == ((x % Word) % Ten) + (Hex * ((((x % Word) \div Ten)) % Ten))

(* A digit that is not decimal counts as the largest one.                  *)
Digit(d) == IF d >= Ten THEN Ten - 1 ELSE d
frombcd(x) == (Ten * Digit(x \div Hex)) + Digit(x % Hex)

(* The count a load of zero stands for.                                    *)
Largest(u) == IF u.bcd THEN Start ELSE Word
Reload(u) == IF u.loadvalue = 0 THEN Largest(u) ELSE u.loadvalue

(* Interrupt on terminal count: a load restarts it at any time.            *)
(* A mutant of CountMode0: it stays armed, so that a later wrap raises the  *)
(* output of a counter loaded with zero.                                    *)
StaysArmed(u) ==
  LET previous == IF u.load THEN u.loadvalue ELSE u.value
      v == previous - 1
      out == IF u.load THEN 0 ELSE u.out
  IN [u EXCEPT !.enabled = TRUE,
        !.out = IF v <= 0 /\ previous # 0 THEN 1 ELSE out,
        !.value = IF v <= 0 THEN v + Largest(u) ELSE v]
CountMode0(u) ==
  LET previous == IF u.load THEN u.loadvalue ELSE u.value
      v == previous - 1
      armed == u.load \/ u.armed
      out == IF u.load THEN 0 ELSE u.out
  IN [u EXCEPT !.enabled = TRUE,
        !.armed = armed /\ v > 0,
        !.out = IF v <= 0 /\ armed /\ previous # 0 THEN 1 ELSE out,
        !.value = IF v <= 0 THEN v + Largest(u) ELSE v]

(* One-shot: it runs on from the value the counter has.                    *)
CountMode1(u) ==
  LET v == u.value - 1
      reload == IF u.loadvalue = 0 THEN Largest(u) ELSE u.loadvalue + 1
  IN [u EXCEPT !.enabled = TRUE, !.value = IF v <= 0 THEN v + reload ELSE v]

Started(u) == IF u.enabled THEN u.value ELSE u.loadvalue

(* Rate generator: its output is left high, the pulse is not heard.        *)
CountMode2(u) ==
  LET v == Started(u) - 1
  IN [u EXCEPT !.enabled = TRUE, !.value = IF v <= 0 THEN v + Reload(u) ELSE v]

(* Square wave: counts by two, and makes up for an odd count at the start  *)
(* of each half.                                                           *)
(* A mutant of CountMode3: the low half starts by one as the high half does. *)
OddByOne(u) ==
  LET start == Started(u)
      v == start - (IF start = u.loadvalue /\ start % 2 = 1 THEN 1 ELSE 2)
  IN [u EXCEPT !.enabled = TRUE,
        !.out = IF v <= 0 THEN 1 - u.out ELSE u.out,
        !.value = IF v <= 0 THEN v + Reload(u) ELSE v]
CountMode3(u) ==
  LET start == Started(u)
      odd == start = u.loadvalue /\ start % 2 = 1
      step == IF ~odd THEN 2 ELSE IF u.out = 0 THEN 3 ELSE 1
      v == start - step
  IN [u EXCEPT !.enabled = TRUE,
        !.out = IF v <= 0 THEN 1 - u.out ELSE u.out,
        !.value = IF v <= 0 THEN v + Reload(u) ELSE v]

Counts(u) == u.delay = 0 /\ (u.enabled \/ u.load)

Count(u) ==
  IF u.delay > 0 THEN [u EXCEPT !.delay = u.delay - 1]
  ELSE IF ~Counts(u) THEN u
  ELSE LET counted == CASE u.mode_int = 0 -> CountMode0(u)
                        [] u.mode_int = 1 -> CountMode1(u)
                        [] u.mode_int = 2 -> CountMode2(u)
                        [] u.mode_int = 3 -> CountMode3(u)
       IN [counted EXCEPT !.load = FALSE]

(* A control word counts once and skips the next count.                    *)
Touched(u) == [Count(u) EXCEPT !.delay = 1]

SetMode(u, mode, latch, bcd) ==
  [Touched(u) EXCEPT !.mode_int = mode, !.bcd = bcd, !.latch_mode = latch,
     !.out = IF mode = 0 THEN 0 ELSE 1,
     !.armed = mode \in {0, 1} \/ u.armed,
     !.enabled = FALSE, !.load = FALSE, !.write_state = 0]

(* A mutant of Latch: the count is lost.                                    *)
LatchLosesCount(u) == [u EXCEPT !.delay = 1, !.latch_value = u.value]
Latch(u) == LET counted == Touched(u) IN [counted EXCEPT !.latch_value = counted.value]

(* A whole count has been written: it is decimal if the counter is, and it *)
(* is taken over after a delay, at once by a mode 0 and by a counter that  *)
(* does not run yet.                                                       *)
Loaded(u, word) ==
  [u EXCEPT !.load = TRUE,
            !.loadvalue = IF u.bcd THEN frombcd(word) ELSE word,
            !.delay = IF u.mode_int = 0 \/ ~u.enabled THEN 3 ELSE u.delay]

write_value(u, w8) ==
  CASE u.latch_mode = 3 /\ u.write_state = 0 -> [u EXCEPT !.write_lsb = w8, !.write_state = 1]
    [] u.latch_mode = 3 /\ u.write_state = 1 ->
         Loaded([u EXCEPT !.write_lsb = 0, !.write_state = 0], (Hex * w8) + u.write_lsb)
    [] u.latch_mode = 1 -> Loaded(u, w8)
    [] u.latch_mode = 2 -> Loaded([u EXCEPT !.value = Hex * w8], Hex * w8)
    [] OTHER -> u

(* What a read shows: the latched value if there is one.                   *)
Shown(u) ==
  LET v == IF u.latch_value # None THEN u.latch_value ELSE u.value
  IN IF u.bcd THEN tobcd(v) ELSE v % Word

Lsb(word) == word % Hex
Msb(word) == word \div Hex

read_value(u) ==
  CASE u.latch_mode = 1 -> Lsb(Shown(u))
    [] u.latch_mode = 2 -> Msb(Shown(u))
    [] u.latch_mode = 3 -> IF u.write_state = 0 THEN Lsb(Shown(u)) ELSE Msb(Shown(u))
    [] OTHER -> 0

(* A mutant of AfterRead: the first byte gives the latch up.                *)
DropsLatch(u) ==
  IF u.latch_mode = 3 THEN [u EXCEPT !.write_state = 1 - u.write_state, !.latch_value = None]
  ELSE [u EXCEPT !.latch_value = None]
AfterRead(u) ==
  CASE u.latch_mode = 3 /\ u.write_state = 0 -> [u EXCEPT !.write_state = 1]
    [] u.latch_mode = 3 /\ u.write_state = 1 -> [u EXCEPT !.write_state = 0, !.latch_value = None]
    [] u.latch_mode \in {1, 2} -> [u EXCEPT !.latch_value = None]
    [] OTHER -> u

-----------------------------------------------------------------------------
PowerOn ==
  [latch_value |-> None, write_state |-> 0, latch_mode |-> 0, out |-> 0, value |-> 0,
   mode_int |-> 0, write_lsb |-> 0, loadvalue |-> 0, armed |-> FALSE, load |-> FALSE,
   enabled |-> FALSE, bcd |-> FALSE, delay |-> 0]

NoWave == [counts |-> 0, steady |-> FALSE, half |-> 0]

Init ==
  /\ c = PowerOn /\ gap = 0
  /\ effective = None /\ ticks = 0 /\ wave = NoWave /\ paired = <<>>

(* What the ghosts remember of one call of Count() on u, which is the      *)
(* count of the clock if n is one and its being made ahead if n is zero.   *)
Taken(u) == Counts(u) /\ u.load /\ (u.mode_int = 0 \/ ~u.enabled)
Reloaded(u) == Counts(u) /\ u.mode_int = 2 /\ u.enabled /\ Count(u).value >= u.value

Track(u, n) ==
  /\ effective' = IF Taken(u) /\ u.mode_int \in {0, 2}
                  THEN (IF u.mode_int = 2 THEN Reload(u) ELSE u.loadvalue)
                  ELSE IF Reloaded(u) THEN Reload(u) ELSE effective
  /\ ticks' = IF Taken(u) \/ Reloaded(u)
              THEN (IF u.mode_int = 2 /\ Started(u) = 1 THEN n - 1 ELSE n)
              ELSE IF effective = None \/ ticks > Word THEN ticks ELSE ticks + n
  /\ LET toggled == u.mode_int = 3 /\ Count(u).out # u.out IN
     wave' = IF u.mode_int # 3 \/ ~Counts(u) THEN wave
             ELSE [counts |-> IF toggled THEN 0 ELSE (wave.counts % (Word + 1)) + 1,
                   steady |-> IF toggled THEN Count(u).value = Reload(u) ELSE wave.steady,
                   half |-> IF toggled THEN (IF wave.steady THEN wave.counts + 1 ELSE 0) ELSE wave.half]

(* The bound on a square wave of period one.                               *)
Room == c.mode_int = 3 /\ c.enabled => c.value > -Drift

(* I8253::Count(): the clock of the chip, after every instruction.         *)
Clock ==
  /\ gap < Apart \/ Room
  /\ c' = Count(c) /\ Track(c, 1)
  /\ gap' = IF gap < Apart THEN gap + 1 ELSE gap
  /\ paired' = paired

(* An OUT or an IN is counted for after its access, six counts or more.    *)
Access == gap = Apart /\ gap' = 0

(* I8253::write_cw(): three bits of mode become two, so that the strobes   *)
(* of modes 4 and 5 are modes 0 and 1.                                     *)
ControlWord(mode, latch, bcd) ==
  /\ Access
  /\ c' = SetMode(c, mode, latch, bcd)
  /\ effective' = None /\ ticks' = 0 /\ wave' = NoWave /\ paired' = <<>>

LatchCommand ==
  /\ Access /\ Room
  /\ c' = Latch(c) /\ Track(c, 0)
  /\ paired' = IF c.latch_mode = 3 /\ c.write_state = 0 /\ c'.value >= 0
               THEN <<Shown(c')>> ELSE <<>>

Write(w8) ==
  /\ Access /\ Room
  /\ c' = write_value(c, w8)
  /\ effective' = IF c.latch_mode = 2 THEN None ELSE effective
  /\ wave' = IF c'.load THEN [wave EXCEPT !.steady = FALSE, !.half = 0] ELSE wave
  /\ paired' = <<>> /\ ticks' = ticks

Read ==
  /\ Access /\ Room
  /\ c' = AfterRead(c)
  /\ paired' = IF Len(paired) \in {1, 2} THEN Append(paired, read_value(c)) ELSE <<>>
  /\ UNCHANGED <<effective, ticks, wave>>

Next ==
  \/ Clock \/ LatchCommand \/ Read
  \/ \E mode \in 0..3, latch \in 1..3, bcd \in BOOLEAN : ControlWord(mode, latch, bcd)
  \/ \E w8 \in Written : Write(w8)

Spec == Init /\ [][Next]_vars

-----------------------------------------------------------------------------
(* The value stays in the range of the counter, but for the square wave    *)
(* of period one, and a count that waits to be taken over never meets the  *)
(* next access: loadvalue is converted from decimal once.                  *)
Lowest == -(Drift + Apart + 3)
TypeOK ==
  /\ c.latch_value \in Lowest..Word /\ c.write_state \in {0, 1} /\ c.latch_mode \in 0..3
  /\ c.out \in {0, 1} /\ c.mode_int \in 0..3 /\ c.write_lsb \in Written \union {0}
  /\ c.value \in Lowest..Word /\ c.delay \in 0..3
  /\ c.loadvalue \in 0..(Word - 1)
  /\ gap \in 0..Apart
  /\ c.load => gap < Apart
  /\ c.delay > 0 => gap < Apart

(* Mode 0 raises its output exactly as many counts after a count was taken *)
(* over as it says, whatever was latched and read on the way, and leaves   *)
(* it high; a count of zero never raises it.                               *)
TerminalCount ==
  c.mode_int = 0 /\ effective # None /\ ~c.load =>
    (c.out = 1 <=> effective > 0 /\ ticks + c.delay >= effective)

(* The rate generator that programs take for their frame counter shows how *)
(* many counts are left of the period: a latch, a read or a new count for  *)
(* the next period do not make it lose or gain one.                        *)
RateGenerator ==
  c.mode_int = 2 /\ effective # None => c.value = effective - (ticks + c.delay)

(* A steady square wave has halves as long as its count asks for, the high *)
(* one a count longer when the count is odd.                               *)
HalfPeriod(out) == IF out = 1 THEN (Reload(c) + 1) \div 2 ELSE Reload(c) \div 2
SquareWave == wave.half > 0 /\ Reload(c) > 1 => wave.half = HalfPeriod(1 - c.out)

(* The two bytes read of a latched value belong together, however much the *)
(* counter counted between them.  (A wave run off to -1 cannot be latched: *)
(* that is the mark of no latched value.)                                  *)
LatchedRead == Len(paired) = 3 => paired[1] = (Hex * paired[3]) + paired[2]
=============================================================================
